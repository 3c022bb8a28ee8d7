----------------------------- MODULE CameraImage ------------------------------
(***************************************************************************)
(* The way of a camera image once it is encoded (CameraFrames): two        *)
(* threads of the robot send it with SendCameraImage, each over a TCP      *)
(* connection of its own, ImageListenerThread of the base station takes    *)
(* one connection after the other, and its dispatcher shows the image.     *)
(*                                                                         *)
(* What goes over a connection is the sequence of its positions:           *)
(* 1 .. HeaderLen for the header, then ImageLen of them for the image.     *)
(* The robot stays reachable: a connection ends when SendCameraImage       *)
(* returns.                                                                *)
(***************************************************************************)
EXTENDS Naturals, Sequences, Functions

CONSTANTS
    HeaderLen,      \* the 7 bytes of the header
    ImageLen,       \* the bytes of an encoded image
    FirstRead,      \* the 16 bytes ImageListenerThread asks for first
    DefaultSize,    \* the 32768 bytes it makes room for without a header
    Window,         \* bytes TCP takes before the receiver reads
    Asked,          \* cameras the base station asks for
    MaxConns,       \* bound: connections under way
    MaxQueue        \* bound: images waiting for the dispatcher

ASSUME AskedAssumption == Asked \subseteq {0, 1}
ASSUME LengthAssumption ==
    /\ {MaxConns, MaxQueue} \subseteq Nat \ {0}
    /\ {HeaderLen, ImageLen, DefaultSize} \subseteq Nat \ {0, 1}
    /\ FirstRead \in Nat /\ HeaderLen <= FirstRead
    /\ Window \in Nat /\ HeaderLen <= Window

VARIABLES
    sender,         \* SendCameraImage in each of the threads that call it
    conns,          \* the connections
    backlog,        \* those the base station has not accepted
    listener,       \* ImageListenerThread and its local variables
    queue,          \* streams of the images that wait for the dispatcher
    current,        \* currentImgStream
    closed,         \* closed streams the dispatcher may yet meet
    handed,         \* the image the last step handed to the dispatcher
    listening,      \* imgListener is started
    closing         \* windowClosing

images == <<queue, current, closed>>
window == <<listening, closing>>
vars == <<sender, conns, backlog, listener, images, handed, window>>

-----------------------------------------------------------------------------
Cameras == {0, 1}
Threads == {"cameraSend", "udpRead"}
Conns == 1 .. MaxConns
Total == HeaderLen + ImageLen
Bytes == [id : Cameras, at : 1 .. Total]

\* Memory streams: those waiting, the current one and the one being made.
Tokens == 1 .. MaxQueue + 2
NoStream == 0
Images == [id : Cameras, got : Seq(Bytes)]

Sendings == [pc : {"idle", "connect", "header", "data"}, id : Cameras,
             conn : Conns \cup {0}]
Connections == [id : Cameras, sent : 0 .. Total, read : 0 .. Total,
                state : {"free", "open", "ended", "reset"}]
Listenings == [pc : {"test", "accept", "header", "read", "full", "parse", "invoke",
                     "replace", "assign", "ended", "crashed"},
               conn : Conns \cup {0}, id : Cameras, room : Nat, got : Seq(Bytes),
               token : Tokens \cup {NoStream}]

Resting == [pc |-> "idle", id |-> 0, conn |-> 0]
NoConnection == [id |-> 0, sent |-> 0, read |-> 0, state |-> "free"]
Testing == [pc |-> "test", conn |-> 0, id |-> 0, room |-> 0, got |-> <<>>,
            token |-> NoStream]

Init ==
    /\ sender = [t \in Threads |-> Resting]
    /\ conns = [k \in Conns |-> NoConnection]
    /\ backlog = <<>>
    /\ listener = Testing
    /\ queue = <<>> /\ current = NoStream /\ closed = {}
    /\ handed = {}
    /\ listening = TRUE /\ closing = FALSE

HandNothing == handed' = {}

-----------------------------------------------------------------------------
(* SendCameraImage *)

At(t, pc) == sender[t].pc = pc
Moves(t, pc) == sender' = [sender EXCEPT ![t].pc = pc]
Returns(t) == sender' = [sender EXCEPT ![t] = Resting]

Conn(t) == conns[sender[t].conn]
Reset(t) == Conn(t).state = "reset"

\* A connection both sides are done with.
Forgotten(k) == conns' = [conns EXCEPT ![k] = NoConnection]

\* CameraSendThread always sends camera 1, the UDP reader the one it was asked for.
Start(t, c) ==
    /\ At(t, "idle")
    /\ c \in (IF t = "cameraSend" THEN {1} ELSE Asked)
    /\ sender' = [sender EXCEPT ![t] = [Resting EXCEPT !.pc = "connect", !.id = c]]
    /\ HandNothing
    /\ UNCHANGED <<conns, backlog, listener, images, window>>

FreeConns == {k \in Conns : conns[k].state = "free"}

Connect(t) ==
    /\ At(t, "connect")
    /\ listening
    /\ FreeConns # {}
    /\ LET k == CHOOSE c \in FreeConns : TRUE IN
           /\ conns' = [conns EXCEPT ![k] = [NoConnection EXCEPT
                                                 !.id = sender[t].id, !.state = "open"]]
           /\ backlog' = Append(backlog, k)
           /\ sender' = [sender EXCEPT ![t].pc = "header", ![t].conn = k]
    /\ HandNothing
    /\ UNCHANGED <<listener, images, window>>

\* No socket, no answer, or the address is that of no base station.
ConnectFails(t) ==
    /\ At(t, "connect")
    /\ Returns(t)
    /\ HandNothing
    /\ UNCHANGED <<conns, backlog, listener, images, window>>

WriteHeader(t) ==
    /\ At(t, "header")
    /\ Moves(t, "data")
    /\ conns' = IF Reset(t) THEN conns
                ELSE [conns EXCEPT ![sender[t].conn].sent = HeaderLen]
    /\ HandNothing
    /\ UNCHANGED <<backlog, listener, images, window>>

Unsent(t) == Conn(t).sent < Total

\* send blocks while the receiver lags behind.
WriteData(t) ==
    /\ At(t, "data")
    /\ ~Reset(t)
    /\ Conn(t).sent - Conn(t).read < Window
    /\ Unsent(t)
    /\ conns' = [conns EXCEPT ![sender[t].conn].sent = @ + 1]
    /\ HandNothing
    /\ UNCHANGED <<sender, backlog, listener, images, window>>

\* It comes back when TCP has taken everything, or with an error that nobody looks
\* at; ~TcpClient closes.
Finish(t) ==
    /\ At(t, "data")
    /\ Returns(t)
    /\ \/ Reset(t) /\ Forgotten(sender[t].conn)
       \/ /\ ~Reset(t) /\ ~Unsent(t)
          /\ conns' = [conns EXCEPT ![sender[t].conn].state = "ended"]
    /\ HandNothing
    /\ UNCHANGED <<backlog, listener, images, window>>

SendCameraImage(t) ==
    \/ Connect(t) \/ ConnectFails(t) \/ WriteHeader(t)
    \/ WriteData(t) \/ Finish(t)

-----------------------------------------------------------------------------
(* ImageListenerThread *)

In(pc) == listener.pc = pc
Pending == conns[listener.conn].sent - conns[listener.conn].read
Ended == conns[listener.conn].state = "ended" /\ Pending = 0

TestClosing ==
    /\ In("test")
    /\ listener' = [listener EXCEPT !.pc = IF closing THEN "ended" ELSE "accept"]
    /\ HandNothing
    /\ UNCHANGED <<sender, conns, backlog, images, window>>

Accept ==
    /\ In("accept")
    /\ listening /\ backlog # <<>>
    /\ listener' = [Testing EXCEPT !.pc = "header", !.conn = Head(backlog)]
    /\ backlog' = Tail(backlog)
    /\ HandNothing
    /\ UNCHANGED <<sender, conns, images, window>>

\* Stop woke it with a SocketException, or had come before the call, which then
\* throws an exception that is not caught and ends the process.
AcceptFails ==
    /\ In("accept")
    /\ ~listening
    /\ \E pc \in {"test", "crashed"} : listener' = [listener EXCEPT !.pc = pc]
    /\ HandNothing
    /\ UNCHANGED <<sender, conns, backlog, images, window>>

\* The next n positions of the connection, and whose they are.
Coming(n) == [i \in 1 .. n |->
                 [id |-> conns[listener.conn].id, at |-> conns[listener.conn].read + i]]
Takes(n) == conns' = [conns EXCEPT ![listener.conn].read = @ + n]

\* One Read for the header: it may get less, or swallow the image's beginning.
\* hdr_pkt is new and zero; the camera is the header's last byte but one, and without
\* the last it is no header.
HeaderOfSize(n) ==                          \* mutant: camera from a byte of the size
    [id |-> 0, room |-> IF n >= HeaderLen THEN ImageLen ELSE DefaultSize]
HeaderOf(n) ==
    [id |-> IF n >= HeaderLen - 1 THEN conns[listener.conn].id ELSE 0,
     room |-> IF n >= HeaderLen THEN ImageLen ELSE DefaultSize]

ReadHeader(n) ==
    /\ In("header")
    /\ n <= FirstRead /\ n <= Pending
    /\ n = 0 => Ended
    /\ Takes(n)
    /\ listener' = [listener EXCEPT !.pc = "read", !.id = HeaderOf(n).id,
                                    !.room = HeaderOf(n).room]
    /\ HandNothing
    /\ UNCHANGED <<sender, backlog, images, window>>

\* stream.Read(buffer, read, buffer.Length - read)
ReadBehind(n) == listener.got \o Coming(n)

ReadChunk(n) ==
    /\ In("read")
    /\ 0 < n /\ n <= Pending /\ n <= listener.room - Len(listener.got)
    /\ Takes(n)
    /\ listener' = [listener EXCEPT
           !.got = ReadBehind(n),
           !.pc = IF Len(listener.got) + n = listener.room THEN "full" ELSE "read"]
    /\ HandNothing
    /\ UNCHANGED <<sender, backlog, images, window>>

\* The buffer is full: one more byte, for which the buffer doubles, or the end.
ReadByte ==
    /\ In("full")
    /\ Pending > 0
    /\ Takes(1)
    /\ listener' = [listener EXCEPT !.pc = "read", !.got = @ \o Coming(1),
                                    !.room = 2 * @]
    /\ HandNothing
    /\ UNCHANGED <<sender, backlog, images, window>>

\* Read returns 0, or ReadByte -1.
EndOfStream ==
    /\ In("read") \/ In("full")
    /\ Ended
    /\ listener' = [listener EXCEPT !.pc = "parse"]
    /\ HandNothing
    /\ UNCHANGED <<sender, conns, backlog, images, window>>

\* new Bitmap: what does not begin like an image is none; one without its end
\* may pass.
Begins(got) == got # <<>> /\ got[1].at = HeaderLen + 1
Image(id, n) == [i \in 1 .. n |-> [id |-> id, at |-> HeaderLen + i]]
Complete(got) == \E id \in Cameras : got = Image(id, ImageLen)

\* The connection is not closed, and lasts until the robot has ended it.
ParseFails ==
    /\ In("parse")
    /\ ~Complete(listener.got)
    /\ listener' = Testing
    /\ IF Ended THEN Forgotten(listener.conn) ELSE UNCHANGED conns
    /\ HandNothing
    /\ UNCHANGED <<sender, backlog, images, window>>

FreshStream == CHOOSE s \in Tokens :
                   s # current /\ s \notin Range(queue)

Parse ==
    /\ In("parse")
    /\ Begins(listener.got)
    /\ listener' = [listener EXCEPT !.pc = "invoke", !.room = 0,
                                    !.token = FreshStream]
    /\ HandNothing
    /\ UNCHANGED <<sender, conns, backlog, images, window>>

\* Dispatcher.BeginInvoke, then the stream before it is closed, then this one is
\* current.
Invoke ==
    /\ In("invoke")
    /\ Len(queue) < MaxQueue
    /\ queue' = Append(queue, listener.token)
    /\ handed' = {[id |-> listener.id, got |-> listener.got]}
    /\ listener' = [listener EXCEPT !.pc = "replace", !.id = 0, !.got = <<>>]
    /\ UNCHANGED <<sender, conns, backlog, current, closed, window>>

StillQueued(tokens, q) == tokens \cap Range(q)

CloseNew ==                                         \* mutant: assigned, then closed
    /\ In("replace")
    /\ closed' = StillQueued(closed \cup {listener.token}, queue)
    /\ listener' = [listener EXCEPT !.pc = "assign"]
    /\ HandNothing
    /\ UNCHANGED <<sender, conns, backlog, queue, current, window>>
CloseOld ==
    /\ In("replace")
    /\ closed' = StillQueued(closed \cup {current}, queue)
    /\ listener' = [listener EXCEPT !.pc = "assign"]
    /\ HandNothing
    /\ UNCHANGED <<sender, conns, backlog, queue, current, window>>

\* currentImgStream = localMs; client.Close()
Assign ==
    /\ In("assign")
    /\ current' = listener.token
    /\ listener' = Testing
    /\ IF Ended THEN Forgotten(listener.conn)
       ELSE conns' = [conns EXCEPT ![listener.conn].state = "reset"]
    /\ HandNothing
    /\ UNCHANGED <<sender, backlog, queue, closed, window>>

Listener ==
    \/ TestClosing \/ Accept \/ AcceptFails
    \/ \E n \in 0 .. FirstRead : ReadHeader(n)
    \/ \E n \in 1 .. Total : ReadChunk(n)
    \/ ReadByte \/ EndOfStream \/ ParseFails \/ Parse
    \/ Invoke \/ CloseOld \/ Assign

-----------------------------------------------------------------------------
(* The dispatcher *)

\* If the stream is closed the conversion may fail; the exception is caught.
Show ==
    /\ queue # <<>>
    /\ queue' = Tail(queue)
    /\ closed' = StillQueued(closed, Tail(queue))
    /\ HandNothing
    /\ UNCHANGED <<sender, conns, backlog, listener, current, window>>

WindowCloses ==
    /\ ~closing
    /\ closing' = TRUE
    /\ HandNothing
    /\ UNCHANGED <<sender, conns, backlog, listener, images, listening>>

\* imgListener.Stop() resets what it has not accepted.
NeverStops == FALSE /\ UNCHANGED vars               \* mutant: no Stop
Stop ==
    /\ closing /\ listening
    /\ listening' = FALSE
    /\ backlog' = <<>>
    /\ conns' = [k \in Conns |->
                    IF ~\E i \in DOMAIN backlog : backlog[i] = k THEN conns[k]
                    ELSE IF conns[k].state = "ended" THEN NoConnection
                    ELSE [conns[k] EXCEPT !.state = "reset"]]
    /\ HandNothing
    /\ UNCHANGED <<sender, listener, images, closing>>

-----------------------------------------------------------------------------
Next ==
    \/ \E t \in Threads : SendCameraImage(t) \/ \E c \in Cameras : Start(t, c)
    \/ Listener
    \/ Show
    \/ WindowCloses
    \/ Stop

Spec == Init /\ [][Next]_vars

\* Every thread keeps running; nobody makes frames come, or the window close.
Fairness ==
    /\ \A t \in Threads : WF_vars(SendCameraImage(t))
    /\ WF_vars(Listener)
    /\ WF_vars(Show)
    /\ WF_vars(Stop)

FairSpec == Spec /\ Fairness

-----------------------------------------------------------------------------
\* Every variable stays within the values the code can give it.
TypeOK ==
    /\ sender \in [Threads -> Sendings]
    /\ conns \in [Conns -> Connections]
    /\ backlog \in Seq(Conns)
    /\ listener \in Listenings
    /\ queue \in Seq(Tokens) /\ handed \subseteq Images
    /\ current \in Tokens \cup {NoStream}
    /\ closed \subseteq Tokens
    /\ listening \in BOOLEAN /\ closing \in BOOLEAN

\* Whatever TCP makes of header and image - one piece or many, cut anywhere - what
\* is shown as a camera's image is one of that camera from its first byte on
\* (ImageListenerThread, MainWindow.xaml.cs:187-241).
ShownIsItsImage ==
    \A i \in handed : \E n \in 1 .. ImageLen : i.got = Image(i.id, n)

\* Only an image that a newer one followed can be lost to a closed stream
\* while it waits for the dispatcher (MainWindow.xaml.cs:244-262).
NewestStaysOpen == queue # <<>> => queue[Len(queue)] \notin closed

\* A thread that sends an image comes back, although send blocks until the listener
\* reads: the listener takes every connection to its end, and those it does not come
\* to are reset (BLER.cpp:189, MainWindow.xaml.cs:596).
SendReturns == \A t \in Threads : sender[t].pc # "idle" ~> sender[t].pc = "idle"

\* The listener, a foreground thread, does not outlive the window
\* (WindowClosing, MainWindow.xaml.cs:596).
ListenerEnds == closing ~> listener.pc \in {"ended", "crashed"}
=============================================================================
