--------------------------- MODULE CameraImageProofs ---------------------------
(***************************************************************************)
(* What is shown for a camera, for every length of header, image, buffer,  *)
(* window and queue, and any number of connections: type correctness, that *)
(* an image shown is a beginning of the image it claims to be, and that    *)
(* the newest image of the queue has its stream open.                      *)
(***************************************************************************)
EXTENDS CameraImage, FiniteSetTheorems, TLAPS

USE AskedAssumption, LengthAssumption

-----------------------------------------------------------------------------
(* The inductive invariant *)

Live(k) == conns[k].state \in {"open", "ended"}

Busy == listener.pc \in {"header", "read", "full", "parse", "invoke", "replace",
                         "assign"}

\* A connection is not forgotten, and so not used anew, while the listener reads
\* from it or has yet to accept it.
HeldInv ==
    /\ Busy => listener.conn \in Conns /\ Live(listener.conn)
    /\ listener.pc = "header" => conns[listener.conn].read = 0
    /\ \A i \in DOMAIN backlog :
           /\ Live(backlog[i]) /\ conns[backlog[i]].read = 0
           /\ Busy => backlog[i] # listener.conn
    /\ \A i, j \in DOMAIN backlog : i # j => backlog[i] # backlog[j]

\* The buffer has the last positions read from one connection, and if the header
\* was read whole the image has its camera.
Start0 == conns[listener.conn].read - Len(listener.got)

BufferInv ==
    listener.pc \in {"read", "full", "parse"} =>
        /\ Start0 >= 0
        /\ Start0 >= HeaderLen => listener.id = conns[listener.conn].id
        /\ \A i \in 1 .. Len(listener.got) :
               listener.got[i] = [id |-> conns[listener.conn].id, at |-> Start0 + i]

IsBeginning(id, got) == \E n \in 1 .. ImageLen : got = Image(id, n)

ParsedInv ==
    /\ listener.pc = "header" => listener.got = <<>>
    /\ listener.pc = "invoke" => IsBeginning(listener.id, listener.got)
    /\ ShownIsItsImage

\* The stream being made is not the current one, nor waiting until it is queued,
\* and then it is the last that waits.
StreamInv ==
    /\ Len(queue) <= MaxQueue
    /\ closed \subseteq Range(queue)
    /\ listener.pc = "invoke" => listener.token \in Tokens \ Range(queue)
    /\ listener.pc \in {"invoke", "replace"} => listener.token # current
    /\ listener.pc = "replace" /\ queue # <<>> => queue[Len(queue)] = listener.token
    /\ NewestStaysOpen

ImageInv == TypeOK /\ HeldInv /\ BufferInv /\ ParsedInv /\ StreamInv

-----------------------------------------------------------------------------
(* Streams *)

\* There are more streams than the queue and currentImgStream can refer to.
LEMMA FreshExists ==
    ASSUME queue \in Seq(Tokens), Len(queue) <= MaxQueue
    PROVE  FreshStream \in Tokens /\ FreshStream # current
             /\ FreshStream \notin Range(queue)
<1>1. \E s \in Tokens : s # current /\ s \notin Range(queue)
  <2> SUFFICES ASSUME \A s \in Tokens : s # current => s \in Range(queue)
               PROVE  FALSE
    OBVIOUS
  <2> DEFINE place == [s \in Tokens |-> IF s = current THEN 0
                          ELSE CHOOSE i \in 1 .. Len(queue) : queue[i] = s]
  <2>1. \A s \in Tokens : s # current =>
            place[s] \in 1 .. Len(queue) /\ queue[place[s]] = s
    BY DEF Range
  <2>2. place \in [Tokens -> 0 .. Len(queue)]
    BY <2>1
  <2>3. /\ IsFiniteSet(Tokens) /\ Cardinality(Tokens) = MaxQueue + 2
        /\ IsFiniteSet(0 .. Len(queue))
        /\ Cardinality(0 .. Len(queue)) = Len(queue) + 1
    BY FS_Interval DEF Tokens
  <2>6. Cardinality(Tokens) > Cardinality(0 .. Len(queue))
    BY <2>3
  <2>4. PICK x, y \in Tokens : x # y /\ place[x] = place[y]
    <3> HIDE DEF place
    <3> QED
      BY <2>2, <2>3, <2>6, FS_PigeonHole
  <2>5. \A s \in Tokens : s = current => place[s] = 0
    OBVIOUS
  <2> QED
    BY <2>1, <2>4, <2>5
<1> QED
  BY <1>1 DEF FreshStream

-----------------------------------------------------------------------------
(* Types *)

\* Lengths.
LEMMA Lengths == Total \in Nat /\ HeaderLen \in 1 .. Total /\ Total = HeaderLen + ImageLen
BY DEF Total

\* What the fields of a connection hold, and when a changed one is one.
LEMMA ConnectionType ==
    ASSUME NEW c \in Connections
    PROVE  /\ c.id \in Cameras /\ c.sent \in 0 .. Total /\ c.read \in 0 .. Total
           /\ \A n \in 0 .. Total : [c EXCEPT !.sent = n] \in Connections
           /\ \A n \in 0 .. Total : [c EXCEPT !.read = n] \in Connections
           /\ \A s \in {"ended", "reset"} : [c EXCEPT !.state = s] \in Connections
BY DEF Connections

\* A new connection is one.
LEMMA NewConnection ==
    /\ NoConnection \in Connections
    /\ \A c \in Cameras : [NoConnection EXCEPT !.id = c, !.state = "open"] \in Connections
<1>1. 0 \in 0 .. Total
  BY Lengths
<1>2. NoConnection \in Connections
  BY <1>1 DEF NoConnection, Connections, Cameras
<1>3. ASSUME NEW c \in Cameras
      PROVE  [NoConnection EXCEPT !.id = c, !.state = "open"] \in Connections
  <2>1. [NoConnection EXCEPT !.id = c] \in Connections
    BY <1>2 DEF Connections
  <2>2. [[NoConnection EXCEPT !.id = c] EXCEPT !.state = "open"] \in Connections
    BY <2>1 DEF Connections
  <2> QED
    BY <2>2
<1> QED
  BY <1>2, <1>3

\* The same of a thread that sends.
LEMMA SendingType ==
    /\ Resting \in Sendings
    /\ \A c \in Cameras : [Resting EXCEPT !.pc = "connect", !.id = c] \in Sendings
    /\ \A s \in Sendings :
           /\ s.id \in Cameras /\ s.conn \in Conns \cup {0}
           /\ \A pc \in {"connect", "header", "data"} :
                  [s EXCEPT !.pc = pc] \in Sendings
           /\ \A k \in Conns : [s EXCEPT !.pc = "header", !.conn = k] \in Sendings
BY DEF Resting, Sendings, Cameras

\* One connection replaced by another.
LEMMA Replaced ==
    ASSUME NEW k, NEW c, conns \in [Conns -> Connections],
           k \in Conns => c \in Connections
    PROVE  [conns EXCEPT ![k] = c] \in [Conns -> Connections]
OBVIOUS

\* Nothing is under way when the programs start.
LEMMA ImageInit == Init => ImageInv
<1> SUFFICES ASSUME Init PROVE ImageInv
  OBVIOUS
<1>1. listening \in BOOLEAN /\ closing \in BOOLEAN
  BY Zenon DEF Init
<1>2. /\ sender \in [Threads -> Sendings] /\ conns \in [Conns -> Connections]
      /\ listener \in Listenings
  <2>1. Testing \in Listenings
    BY DEF Testing, Listenings, Cameras
  <2> QED
    BY <2>1, NewConnection, SendingType DEF Init
<1>3. listener.pc = "test" /\ backlog = <<>> /\ queue = <<>> /\ handed = {}
      /\ closed = {}
  BY DEF Init, Testing
<1>4. TypeOK
  BY <1>1, <1>2 DEF Init, TypeOK
<1> QED
  BY <1>3, <1>4 DEF ImageInv, HeldInv, Busy, BufferInv, ParsedInv, ShownIsItsImage,
                    StreamInv, NewestStaysOpen

\* The positions that come next are the connection's.
LEMMA ComingType ==
    ASSUME TypeOK, listener.conn \in Conns, NEW n \in Nat, n <= Pending
    PROVE  /\ Coming(n) \in Seq(Bytes) /\ Len(Coming(n)) = n
           /\ \A i \in 1 .. n : Coming(n)[i] =
                  [id |-> conns[listener.conn].id, at |-> conns[listener.conn].read + i]
           /\ conns[listener.conn].read + n \in 0 .. Total
<1>1. /\ conns[listener.conn].id \in Cameras
      /\ conns[listener.conn].read \in 0 .. Total
      /\ conns[listener.conn].sent \in 0 .. Total
  BY ConnectionType DEF TypeOK
<1>2. Total \in Nat
  BY Lengths
<1>3. conns[listener.conn].read + n \in 0 .. Total
  BY <1>1, <1>2 DEF Pending
<1>4. \A i \in 1 .. n : [id |-> conns[listener.conn].id,
                          at |-> conns[listener.conn].read + i] \in Bytes
  BY <1>1, <1>2, <1>3 DEF Bytes
<1> QED
  BY <1>3, <1>4 DEF Coming

\* A step of SendCameraImage leaves the types.
LEMMA SenderType ==
    ASSUME TypeOK, NEW t \in Threads,
           SendCameraImage(t) \/ \E c \in Cameras : Start(t, c)
    PROVE  TypeOK'
<1>1. /\ sender \in [Threads -> Sendings] /\ conns \in [Conns -> Connections]
      /\ backlog \in Seq(Conns)
  BY DEF TypeOK
<1>2. SUFFICES /\ sender' \in [Threads -> Sendings] /\ conns' \in [Conns -> Connections]
               /\ backlog' \in Seq(Conns)
               /\ handed' = {}
               /\ UNCHANGED <<listener, queue, current, closed, listening, closing>>
  BY Zenon DEF TypeOK
<1> USE DEF HandNothing, images, window
<1>3. CASE \E c \in Cameras : Start(t, c)
  BY <1>1, <1>3, SendingType DEF Start
<1>4. CASE Connect(t)
  <2> DEFINE k == CHOOSE c \in FreeConns : TRUE
             new == [NoConnection EXCEPT !.id = sender[t].id, !.state = "open"]
  <2>1. k \in Conns
    BY <1>4 DEF Connect, FreeConns
  <2>2. new \in Connections
    BY <1>1, NewConnection, SendingType
  <2>3. /\ conns' = [conns EXCEPT ![k] = new]
        /\ backlog' = Append(backlog, k)
        /\ sender' = [sender EXCEPT ![t].pc = "header", ![t].conn = k]
        /\ UNCHANGED <<listener, images, window>> /\ handed' = {}
    BY <1>4 DEF Connect
  <2> HIDE DEF k, new
  <2>4. sender' = [sender EXCEPT ![t] = [sender[t] EXCEPT !.pc = "header", !.conn = k]]
    BY <1>1, <2>3
  <2>5. sender' \in [Threads -> Sendings]
    BY <1>1, <2>1, <2>4, SendingType
  <2>6. conns' \in [Conns -> Connections]
    BY <1>1, <2>2, <2>3, Replaced
  <2> QED
    BY <1>1, <2>1, <2>3, <2>5, <2>6
<1>5. CASE ConnectFails(t)
  BY <1>1, <1>5, SendingType DEF ConnectFails, Returns
<1>6. CASE WriteHeader(t)
  <2>1. sender' = [sender EXCEPT ![t] = [sender[t] EXCEPT !.pc = "data"]]
    BY <1>1, <1>6 DEF WriteHeader, Moves
  <2>2. sender' \in [Threads -> Sendings]
    BY <1>1, <2>1, SendingType
  <2>3. CASE ~Reset(t)
    <3>1. conns' = [conns EXCEPT ![sender[t].conn] =
                        [conns[sender[t].conn] EXCEPT !.sent = HeaderLen]]
      BY <1>1, <1>6, <2>3 DEF WriteHeader
    <3>2. sender[t].conn \in Conns =>
              [conns[sender[t].conn] EXCEPT !.sent = HeaderLen] \in Connections
      <4>1. HeaderLen \in 0 .. Total
        BY Lengths
      <4> QED
        BY <1>1, <4>1, ConnectionType
    <3> QED
      BY <1>1, <1>6, <2>2, <3>1, <3>2, Replaced DEF WriteHeader
  <2>4. CASE Reset(t)
    BY <1>1, <1>6, <2>2, <2>4 DEF WriteHeader
  <2> QED
    BY <2>3, <2>4
<1>7. CASE WriteData(t)
  <2> DEFINE more == [conns[sender[t].conn] EXCEPT !.sent = conns[sender[t].conn].sent + 1]
  <2>1. conns' = [conns EXCEPT ![sender[t].conn] = more]
    BY <1>1, <1>7 DEF WriteData
  <2>2. sender[t].conn \in Conns => more \in Connections
    <3> SUFFICES ASSUME sender[t].conn \in Conns PROVE more \in Connections
      OBVIOUS
    <3>1. conns[sender[t].conn] \in Connections
      BY <1>1
    <3>2. conns[sender[t].conn].sent \in 0 .. Total /\ conns[sender[t].conn].sent < Total
      BY <3>1, <1>7, ConnectionType DEF WriteData, Unsent, Conn
    <3>3. conns[sender[t].conn].sent + 1 \in 0 .. Total
      BY <3>2, Lengths
    <3> QED
      BY <3>1, <3>3, ConnectionType
  <2>3. conns' \in [Conns -> Connections]
    <3> HIDE DEF more
    <3> QED
      BY <1>1, <2>1, <2>2, Replaced
  <2> QED
    BY <1>1, <1>7, <2>3 DEF WriteData
<1>8. CASE Finish(t)
  <2>1. sender' \in [Threads -> Sendings]
    BY <1>1, <1>8, SendingType DEF Finish, Returns
  <2>2. CASE conns' = [conns EXCEPT ![sender[t].conn] = NoConnection]
    BY <1>1, <1>8, <2>1, <2>2, NewConnection, Replaced DEF Finish
  <2>3. CASE conns' = [conns EXCEPT ![sender[t].conn].state = "ended"]
    <3>1. conns' = [conns EXCEPT ![sender[t].conn] =
                        [conns[sender[t].conn] EXCEPT !.state = "ended"]]
      BY <1>1, <2>3
    <3>2. sender[t].conn \in Conns =>
              [conns[sender[t].conn] EXCEPT !.state = "ended"] \in Connections
      BY <1>1, ConnectionType
    <3> QED
      BY <1>1, <1>8, <2>1, <3>1, <3>2, Replaced DEF Finish
  <2> QED
    BY <1>8, <2>2, <2>3 DEF Finish, Forgotten
<1> QED
  BY <1>3, <1>4, <1>5, <1>6, <1>7, <1>8 DEF SendCameraImage

\* What the listener's variables hold.
LEMMA ListeningType ==
    ASSUME NEW l \in Listenings
    PROVE  /\ l.conn \in Conns \cup {0} /\ l.id \in Cameras /\ l.room \in Nat
           /\ l.got \in Seq(Bytes) /\ l.token \in Tokens \cup {NoStream}
BY DEF Listenings

\* Read takes what is under way.
LEMMA TakesType ==
    ASSUME TypeOK, listener.conn \in Conns, NEW n \in Nat, n <= Pending, Takes(n)
    PROVE  conns' \in [Conns -> Connections]
<1> DEFINE later == [conns[listener.conn] EXCEPT !.read = conns[listener.conn].read + n]
<1>1. conns \in [Conns -> Connections]
  BY DEF TypeOK
<1>2. conns' = [conns EXCEPT ![listener.conn] = later]
  BY <1>1 DEF Takes
<1>3. conns[listener.conn].read + n \in 0 .. Total
  BY ComingType
<1>4. later \in Connections
  BY <1>1, <1>3, ConnectionType
<1> HIDE DEF later
<1> QED
  BY <1>1, <1>2, <1>4, Replaced

\* A step of ImageListenerThread leaves the types.
LEMMA ListenerType ==
    ASSUME TypeOK, HeldInv, StreamInv, Listener
    PROVE  TypeOK'
<1>1. /\ conns \in [Conns -> Connections] /\ backlog \in Seq(Conns)
      /\ listener \in Listenings /\ queue \in Seq(Tokens)
      /\ current \in Tokens \cup {NoStream} /\ closed \subseteq Tokens
  BY DEF TypeOK
<1>2. /\ listener.conn \in Conns \cup {0} /\ listener.id \in Cameras
      /\ listener.room \in Nat /\ listener.got \in Seq(Bytes)
      /\ listener.token \in Tokens \cup {NoStream}
  BY <1>1, ListeningType
<1>3. SUFFICES /\ conns' \in [Conns -> Connections] /\ backlog' \in Seq(Conns)
               /\ listener' \in Listenings
               /\ queue' \in Seq(Tokens) /\ handed' \subseteq Images
               /\ current' \in Tokens \cup {NoStream} /\ closed' \subseteq Tokens
               /\ UNCHANGED <<sender, listening, closing>>
  BY Zenon DEF TypeOK
<1>4. Testing \in Listenings
  BY DEF Testing, Listenings, Cameras
<1>5. Busy => listener.conn \in Conns
  BY DEF HeldInv
<1>6. listener.conn \in Conns => conns[listener.conn].id \in Cameras
  BY <1>1, ConnectionType
<1> USE DEF HandNothing, images, window
<1>7. CASE TestClosing
  BY <1>1, <1>7 DEF TestClosing, Listenings
<1>8. CASE Accept
  <2>1. Head(backlog) \in Conns /\ Tail(backlog) \in Seq(Conns)
    BY <1>1, <1>8 DEF Accept
  <2>2. [Testing EXCEPT !.pc = "header", !.conn = Head(backlog)] \in Listenings
    BY <1>4, <2>1 DEF Listenings
  <2> QED
    BY <1>1, <1>8, <2>1, <2>2 DEF Accept
<1>9. CASE AcceptFails
  BY <1>1, <1>9 DEF AcceptFails, Listenings
<1>10. CASE \E n \in 0 .. FirstRead : ReadHeader(n)
  <2>1. PICK n \in 0 .. FirstRead : ReadHeader(n)
    BY <1>10
  <2>2. listener.conn \in Conns
    BY <1>5, <2>1 DEF ReadHeader, In, Busy
  <2>3. conns' \in [Conns -> Connections]
    BY <2>1, <2>2, TakesType DEF ReadHeader
  <2>4. HeaderOf(n).id \in Cameras /\ HeaderOf(n).room \in Nat
    BY <1>6, <2>2 DEF HeaderOf, Cameras
  <2>5. listener' \in Listenings
    <3> DEFINE id == HeaderOf(n).id  room == HeaderOf(n).room
    <3>1. listener' = [listener EXCEPT !.pc = "read", !.id = id, !.room = room]
      BY <2>1 DEF ReadHeader
    <3>2. id \in Cameras /\ room \in Nat
      BY <2>4
    <3> HIDE DEF id, room
    <3> QED
      BY <1>1, <3>1, <3>2 DEF Listenings
  <2> QED
    BY <1>1, <2>1, <2>3, <2>5 DEF ReadHeader
<1>11. CASE \E n \in 1 .. Total : ReadChunk(n)
  <2>1. PICK n \in 1 .. Total : ReadChunk(n)
    BY <1>11
  <2>2. listener.conn \in Conns
    BY <1>5, <2>1 DEF ReadChunk, In, Busy
  <2>3. n \in Nat /\ n <= Pending
    BY <2>1, Lengths DEF ReadChunk
  <2>4. conns' \in [Conns -> Connections]
    BY <2>1, <2>2, <2>3, TakesType DEF ReadChunk
  <2>5. ReadBehind(n) \in Seq(Bytes)
    BY <1>2, <2>2, <2>3, ComingType DEF ReadBehind
  <2>6. listener' \in Listenings
    <3> DEFINE got == ReadBehind(n)
               pc == IF Len(listener.got) + n = listener.room THEN "full" ELSE "read"
    <3>1. listener' = [listener EXCEPT !.got = got, !.pc = pc]
      BY <2>1 DEF ReadChunk
    <3>2. pc \in {"full", "read"} /\ got \in Seq(Bytes)
      BY <2>5
    <3> HIDE DEF got, pc
    <3> QED
      BY <1>1, <3>1, <3>2 DEF Listenings
  <2> QED
    BY <1>1, <2>1, <2>4, <2>6 DEF ReadChunk
<1>12. CASE ReadByte
  <2>1. listener.conn \in Conns
    BY <1>5, <1>12 DEF ReadByte, In, Busy
  <2>2. 1 \in Nat /\ 1 <= Pending
    <3>1. /\ conns[listener.conn].sent \in 0 .. Total
          /\ conns[listener.conn].read \in 0 .. Total
      BY <1>1, <2>1, ConnectionType
    <3> QED
      BY <1>12, <3>1, Lengths DEF ReadByte, Pending
  <2>3. conns' \in [Conns -> Connections]
    BY <1>12, <2>1, <2>2, TakesType DEF ReadByte
  <2>4. listener.got \o Coming(1) \in Seq(Bytes)
    BY <1>2, <2>1, <2>2, ComingType
  <2>5. listener' \in Listenings
    <3> DEFINE got == listener.got \o Coming(1)  room == 2 * listener.room
    <3>1. listener' = [listener EXCEPT !.pc = "read", !.got = got, !.room = room]
      BY <1>1, <1>12 DEF ReadByte
    <3>2. got \in Seq(Bytes) /\ room \in Nat
      BY <1>2, <2>4
    <3> HIDE DEF got, room
    <3> QED
      BY <1>1, <3>1, <3>2 DEF Listenings
  <2> QED
    BY <1>1, <1>12, <2>3, <2>5 DEF ReadByte
<1>13. CASE EndOfStream
  BY <1>1, <1>13 DEF EndOfStream, Listenings
<1>14. CASE ParseFails
  BY <1>1, <1>4, <1>14, NewConnection, Replaced DEF ParseFails, Forgotten
<1>15. CASE Parse
  <2>1. FreshStream \in Tokens
    BY <1>1, FreshExists DEF StreamInv
  <2>2. listener' \in Listenings
    <3> DEFINE token == FreshStream
    <3>1. listener' = [listener EXCEPT !.pc = "invoke", !.room = 0, !.token = token]
      BY <1>15 DEF Parse
    <3>2. token \in Tokens
      BY <2>1
    <3> HIDE DEF token
    <3> QED
      BY <1>1, <3>1, <3>2 DEF Listenings
  <2> QED
    BY <1>1, <1>15, <2>2 DEF Parse
<1>16. CASE Invoke
  <2>1. [id |-> listener.id, got |-> listener.got] \in Images
    BY <1>2 DEF Images
  <2>2. listener' \in Listenings
    <3>1. 0 \in Cameras /\ <<>> \in Seq(Bytes)
      BY DEF Cameras
    <3> QED
      BY <1>1, <1>16, <3>1 DEF Invoke, Listenings
  <2>3. listener.token \in Tokens
    BY <1>16 DEF Invoke, In, StreamInv
  <2> QED
    BY <1>1, <1>16, <2>1, <2>2, <2>3 DEF Invoke
<1>17. CASE CloseOld
  <2>1. StillQueued(closed \cup {current}, queue) \subseteq Tokens
    BY <1>1 DEF StillQueued, Range
  <2> QED
    BY <1>1, <1>17, <2>1 DEF CloseOld, Listenings
<1>18. CASE Assign
  <2>1. conns' \in [Conns -> Connections]
    <3>1. CASE conns' = [conns EXCEPT ![listener.conn] = NoConnection]
      BY <1>1, <3>1, NewConnection, Replaced
    <3>2. CASE conns' = [conns EXCEPT ![listener.conn].state = "reset"]
      <4>1. conns' = [conns EXCEPT ![listener.conn] =
                          [conns[listener.conn] EXCEPT !.state = "reset"]]
        BY <1>1, <3>2
      <4>2. listener.conn \in Conns =>
                [conns[listener.conn] EXCEPT !.state = "reset"] \in Connections
        BY <1>1, ConnectionType
      <4> QED
        BY <1>1, <4>1, <4>2, Replaced
    <3> QED
      BY <1>18, <3>1, <3>2 DEF Assign, Forgotten
  <2> QED
    BY <1>1, <1>2, <1>4, <1>18, <2>1 DEF Assign
<1> QED
  BY <1>7, <1>8, <1>9, <1>10, <1>11, <1>12, <1>13, <1>14, <1>15, <1>16, <1>17, <1>18
     DEF Listener

-----------------------------------------------------------------------------
(* Connections *)

\* The steps that are not the listener's.
Others ==
    \/ \E t \in Threads : SendCameraImage(t) \/ \E c \in Cameras : Start(t, c)
    \/ Show
    \/ WindowCloses
    \/ Stop

\* What a sending thread does to a connection that is open or ended.
LEMMA SenderKeeps ==
    ASSUME TypeOK, NEW t \in Threads,
           SendCameraImage(t) \/ \E c \in Cameras : Start(t, c),
           NEW k \in Conns, Live(k)
    PROVE  /\ conns'[k].state \in {"open", "ended"}
           /\ conns'[k].id = conns[k].id /\ conns'[k].read = conns[k].read
<1>1. conns \in [Conns -> Connections] /\ conns[k] \in Connections
  BY DEF TypeOK
<1>2. CASE \E c \in Cameras : Start(t, c)
  BY <1>2 DEF Start, Live
<1>3. CASE Connect(t)
  <2> DEFINE new == CHOOSE c \in FreeConns : TRUE
             value == [NoConnection EXCEPT !.id = sender[t].id, !.state = "open"]
  <2>1. new \in FreeConns /\ conns' = [conns EXCEPT ![new] = value]
    BY <1>3 DEF Connect
  <2> HIDE DEF new, value
  <2>2. new # k
    BY <2>1 DEF FreeConns, Live
  <2> QED
    BY <1>1, <2>1, <2>2 DEF Live
<1>4. CASE ConnectFails(t)
  BY <1>4 DEF ConnectFails, Live
<1>5. CASE WriteHeader(t)
  BY <1>1, <1>5 DEF WriteHeader, Live, Connections
<1>6. CASE WriteData(t)
  BY <1>1, <1>6 DEF WriteData, Live, Connections
<1>7. CASE Finish(t)
  BY <1>1, <1>7 DEF Finish, Live, Reset, Conn, Forgotten, Connections
<1> QED
  BY <1>2, <1>3, <1>4, <1>5, <1>6, <1>7 DEF SendCameraImage

\* Nobody else disturbs the listener, its connection or those it has yet to accept.
LEMMA OthersKeep ==
    ASSUME TypeOK, HeldInv, Others
    PROVE  /\ listener' = listener
           /\ Busy => /\ conns'[listener.conn].id = conns[listener.conn].id
                      /\ conns'[listener.conn].read = conns[listener.conn].read
           /\ HeldInv'
<1>1. conns \in [Conns -> Connections] /\ backlog \in Seq(Conns)
  BY DEF TypeOK
<1>2. \A i \in DOMAIN backlog : backlog[i] \in Conns
  BY <1>1
<1>3. CASE \E t \in Threads : SendCameraImage(t) \/ \E c \in Cameras : Start(t, c)
  <2>1. PICK t \in Threads : SendCameraImage(t) \/ \E c \in Cameras : Start(t, c)
    BY <1>3
  <2>2. \A k \in Conns : Live(k) =>
            /\ conns'[k].state \in {"open", "ended"}
            /\ conns'[k].id = conns[k].id /\ conns'[k].read = conns[k].read
    BY <2>1, SenderKeeps
  <2>3. listener' = listener
    BY <2>1 DEF SendCameraImage, Start, Connect, ConnectFails, WriteHeader, WriteData,
                Finish
  <2>4. CASE backlog' = backlog
    BY <1>2, <2>2, <2>3, <2>4 DEF HeldInv, Busy, Live
  <2>5. CASE backlog' # backlog
    <3>1. Connect(t)
      BY <2>1, <2>5 DEF SendCameraImage, Start, ConnectFails, WriteHeader, WriteData,
                        Finish
    <3> DEFINE new == CHOOSE c \in FreeConns : TRUE
               value == [NoConnection EXCEPT !.id = sender[t].id, !.state = "open"]
    <3>2. /\ new \in FreeConns /\ conns' = [conns EXCEPT ![new] = value]
          /\ backlog' = Append(backlog, new)
      BY <3>1 DEF Connect
    <3>3. value.state = "open" /\ value.read = 0
      BY DEF NoConnection
    <3> HIDE DEF new, value
    <3>4. new \in Conns /\ ~Live(new)
      BY <3>2 DEF FreeConns, Live
    <3>5. conns'[new].state = "open" /\ conns'[new].read = 0
      BY <1>1, <3>2, <3>3, <3>4
    <3>6. /\ Busy => listener.conn # new
          /\ \A i \in DOMAIN backlog : backlog[i] # new
      BY <3>4 DEF HeldInv
    <3>7. /\ Len(backlog') = Len(backlog) + 1
          /\ \A i \in DOMAIN backlog : backlog'[i] = backlog[i]
          /\ backlog'[Len(backlog) + 1] = new
          /\ DOMAIN backlog' = DOMAIN backlog \cup {Len(backlog) + 1}
          /\ Len(backlog) + 1 \notin DOMAIN backlog
      BY <1>1, <3>2, <3>4
    <3>8. \A i \in DOMAIN backlog' :
              /\ conns'[backlog'[i]].state \in {"open", "ended"}
              /\ conns'[backlog'[i]].read = 0
              /\ Busy => backlog'[i] # listener.conn
      BY <1>2, <2>2, <3>5, <3>6, <3>7 DEF HeldInv
    <3>9. \A i, j \in DOMAIN backlog' : i # j => backlog'[i] # backlog'[j]
      BY <3>6, <3>7 DEF HeldInv
    <3> QED
      BY <2>2, <2>3, <3>8, <3>9 DEF HeldInv, Busy, Live
  <2> QED
    BY <2>4, <2>5
<1>4. CASE Show
  BY <1>4 DEF Show, HeldInv, Busy, Live
<1>5. CASE WindowCloses
  BY <1>5 DEF WindowCloses, HeldInv, Busy, Live
<1>6. CASE Stop
  <2>1. backlog' = <<>> /\ listener' = listener
    BY <1>6 DEF Stop
  <2>2. Busy => /\ listener.conn \in Conns
                /\ ~\E i \in DOMAIN backlog : backlog[i] = listener.conn
    BY DEF HeldInv
  <2>3. Busy => conns'[listener.conn] = conns[listener.conn]
    BY <1>6, <2>2 DEF Stop
  <2>4. DOMAIN backlog' = {}
    BY <2>1
  <2> QED
    BY <2>1, <2>2, <2>3, <2>4 DEF HeldInv, Busy, Live
<1> QED
  BY <1>3, <1>4, <1>5, <1>6 DEF Others

\* The listener takes one connection after the other.
LEMMA ListenerHolds ==
    ASSUME TypeOK, HeldInv, Listener
    PROVE  HeldInv'
<1>1. conns \in [Conns -> Connections] /\ backlog \in Seq(Conns)
      /\ listener \in Listenings
  BY DEF TypeOK
<1>2. \A i \in DOMAIN backlog : backlog[i] \in Conns
  BY <1>1
<1>3. CASE UNCHANGED <<conns, backlog>> /\ listener'.conn = listener.conn
              /\ listener'.pc # "header" /\ (Busy' => Busy)
  BY <1>3 DEF HeldInv, Busy, Live
<1>4. CASE TestClosing
  BY <1>1, <1>4 DEF TestClosing, HeldInv, Busy, Live, In, Listenings
<1>5. CASE Accept
  <2>1. /\ backlog # <<>> /\ backlog' = Tail(backlog) /\ conns' = conns
        /\ listener'.conn = Head(backlog)
    BY <1>5 DEF Accept, Testing
  <2>2. /\ Head(backlog) = backlog[1] /\ 1 \in DOMAIN backlog
        /\ \A i \in DOMAIN backlog' : i + 1 \in DOMAIN backlog
                                      /\ backlog'[i] = backlog[i + 1] /\ i + 1 # 1
        /\ \A i, j \in DOMAIN backlog' : i # j => i + 1 # j + 1
    BY <1>1, <2>1
  <2>3. listener'.conn \in Conns /\ Live(listener'.conn) /\ conns[listener'.conn].read = 0
    BY <1>2, <2>1, <2>2 DEF HeldInv
  <2>4. \A i \in DOMAIN backlog' :
            /\ Live(backlog'[i]) /\ conns[backlog'[i]].read = 0
            /\ backlog'[i] # listener'.conn
    BY <2>1, <2>2 DEF HeldInv
  <2>5. \A i, j \in DOMAIN backlog' : i # j => backlog'[i] # backlog'[j]
    BY <2>2 DEF HeldInv
  <2> QED
    BY <2>1, <2>3, <2>4, <2>5 DEF HeldInv, Busy, Live
<1>6. ASSUME Busy, NEW n \in Nat, Takes(n), backlog' = backlog,
             listener'.conn = listener.conn, listener'.pc # "header"
      PROVE  HeldInv'
  <2>1. listener.conn \in Conns /\ Live(listener.conn)
    BY <1>6 DEF HeldInv
  <2>2. /\ conns'[listener.conn].state = conns[listener.conn].state
        /\ \A k \in Conns : k # listener.conn => conns'[k] = conns[k]
    BY <1>1, <1>6, <2>1 DEF Takes, Connections
  <2>3. \A i \in DOMAIN backlog : conns'[backlog[i]] = conns[backlog[i]]
    BY <1>2, <1>6, <2>2 DEF HeldInv
  <2> QED
    BY <1>6, <2>1, <2>2, <2>3 DEF HeldInv, Busy, Live
<1>7. ASSUME Busy, NEW c, conns' = [conns EXCEPT ![listener.conn] = c] \/ conns' = conns,
             backlog' = backlog, listener' = Testing
      PROVE  HeldInv'
  <2>1. \A i \in DOMAIN backlog : conns'[backlog[i]] = conns[backlog[i]]
    BY <1>1, <1>2, <1>7 DEF HeldInv
  <2>2. ~Busy'
    BY <1>7 DEF Busy, Testing
  <2>3. listener'.pc # "header"
    BY <1>7 DEF Testing
  <2> QED
    BY <1>7, <2>1, <2>2, <2>3 DEF HeldInv, Live
<1>8. CASE AcceptFails
  BY <1>1, <1>3, <1>8 DEF AcceptFails, Busy, Listenings
<1>9. CASE \E n \in 0 .. FirstRead : ReadHeader(n)
  BY <1>1, <1>6, <1>9 DEF ReadHeader, In, Busy, Listenings
<1>10. CASE \E n \in 1 .. Total : ReadChunk(n)
  <2>1. PICK n \in 1 .. Total : ReadChunk(n)
    BY <1>10
  <2>2. listener'.conn = listener.conn /\ listener'.pc # "header"
    BY <1>1, <2>1 DEF ReadChunk, Listenings
  <2>3. Busy /\ Takes(n) /\ backlog' = backlog /\ n \in Nat
    BY <2>1, Lengths DEF ReadChunk, In, Busy
  <2> QED
    BY <1>6, <2>2, <2>3
<1>11. CASE ReadByte
  <2>1. listener'.conn = listener.conn /\ listener'.pc # "header"
    BY <1>1, <1>11 DEF ReadByte, Listenings
  <2>2. Busy /\ Takes(1) /\ backlog' = backlog /\ 1 \in Nat
    BY <1>11 DEF ReadByte, In, Busy
  <2> QED
    BY <1>6, <2>1, <2>2
<1>12. CASE EndOfStream
  BY <1>1, <1>3, <1>12 DEF EndOfStream, In, Busy, Listenings
<1>13. CASE ParseFails
  BY <1>7, <1>13 DEF ParseFails, In, Busy, Forgotten
<1>14. CASE Parse
  <2>1. listener'.conn = listener.conn /\ listener'.pc = "invoke"
    BY <1>1, <1>14 DEF Parse, Listenings
  <2> QED
    BY <1>3, <1>14, <2>1 DEF Parse, In, Busy
<1>15. CASE Invoke
  <2>1. listener'.conn = listener.conn /\ listener'.pc = "replace"
    BY <1>1, <1>15 DEF Invoke, Listenings
  <2> QED
    BY <1>3, <1>15, <2>1 DEF Invoke, In, Busy
<1>16. CASE CloseOld
  BY <1>1, <1>3, <1>16 DEF CloseOld, In, Busy, Listenings
<1>17. CASE Assign
  <2>1. conns' = [conns EXCEPT ![listener.conn] = NoConnection] \/
        conns' = [conns EXCEPT ![listener.conn] =
                      [conns[listener.conn] EXCEPT !.state = "reset"]]
    BY <1>1, <1>17 DEF Assign, Forgotten
  <2> QED
    BY <1>7, <1>17, <2>1 DEF Assign, In, Busy
<1> QED
  BY <1>4, <1>5, <1>8, <1>9, <1>10, <1>11, <1>12, <1>13, <1>14, <1>15, <1>16, <1>17
     DEF Listener

-----------------------------------------------------------------------------
(* The buffer *)

\* What was read is followed by what comes next.
LEMMA BufferGrows ==
    ASSUME TypeOK, BufferInv, listener.pc \in {"read", "full"}, listener.conn \in Conns,
           NEW n \in Nat, n <= Pending, Takes(n),
           listener'.got = listener.got \o Coming(n),
           listener'.conn = listener.conn, listener'.id = listener.id
    PROVE  BufferInv'
<1>1. /\ conns \in [Conns -> Connections] /\ listener.got \in Seq(Bytes)
      /\ conns[listener.conn] \in Connections
  BY ListeningType DEF TypeOK
<1>2. /\ conns'[listener.conn].read = conns[listener.conn].read + n
      /\ conns'[listener.conn].id = conns[listener.conn].id
  BY <1>1 DEF Takes, Connections
<1>3. /\ Coming(n) \in Seq(Bytes) /\ Len(Coming(n)) = n
      /\ \A i \in 1 .. n : Coming(n)[i] =
             [id |-> conns[listener.conn].id, at |-> conns[listener.conn].read + i]
  BY ComingType
<1>4. conns[listener.conn].read \in Nat /\ Len(listener.got) \in Nat
  <2>1. conns[listener.conn].read \in 0 .. Total
    BY <1>1, ConnectionType
  <2>2. Len(listener.got) \in Nat
    BY <1>1
  <2> QED
    BY <2>1, <2>2, Lengths
<1>5. Len(listener'.got) = Len(listener.got) + n
  <2>1. Len(listener.got \o Coming(n)) = Len(listener.got) + Len(Coming(n))
    <3>1. listener.got \in Seq(Bytes) /\ Coming(n) \in Seq(Bytes)
      BY <1>1, <1>3
    <3>2. ASSUME NEW t \in Seq(Bytes)
          PROVE  Len(listener.got \o t) = Len(listener.got) + Len(t)
      BY <3>1
    <3> QED
      BY <3>1, <3>2
  <2> QED
    BY <1>3, <2>1
<1>6. Start0' = Start0
  BY <1>2, <1>4, <1>5 DEF Start0
<1>7. \A i \in 1 .. Len(listener'.got) :
          listener'.got[i] = [id |-> conns[listener.conn].id, at |-> Start0 + i]
  <2> SUFFICES ASSUME NEW i \in 1 .. Len(listener'.got)
               PROVE  listener'.got[i] = [id |-> conns[listener.conn].id,
                                          at |-> Start0 + i]
    OBVIOUS
  <2>1. CASE i <= Len(listener.got)
    <3>1. listener'.got[i] = listener.got[i]
      BY <1>1, <1>3, <1>4, <1>5, <2>1
    <3> QED
      BY <1>4, <2>1, <3>1 DEF BufferInv
  <2>2. CASE ~(i <= Len(listener.got))
    <3>1. i - Len(listener.got) \in 1 .. n
      BY <1>4, <1>5, <2>2
    <3>2. listener'.got[i] = Coming(n)[i - Len(listener.got)]
      BY <1>1, <1>3, <1>4, <1>5, <2>2
    <3>3. conns[listener.conn].read + (i - Len(listener.got)) = Start0 + i
      BY <1>4 DEF Start0
    <3> QED
      BY <1>3, <3>1, <3>2, <3>3
  <2> QED
    BY <2>1, <2>2
<1> QED
  BY <1>2, <1>6, <1>7 DEF BufferInv

\* The buffer begins where the header ended, or where the first Read went past it.
LEMMA BufferStep ==
    ASSUME TypeOK, HeldInv, BufferInv, ParsedInv, Listener \/ Others
    PROVE  BufferInv'
<1>1. conns \in [Conns -> Connections] /\ listener \in Listenings
  BY DEF TypeOK
<1>2. Busy => /\ listener.conn \in Conns /\ conns[listener.conn] \in Connections
  BY <1>1 DEF HeldInv
<1>3. CASE Others
  <2>1. /\ listener' = listener
        /\ Busy => /\ conns'[listener.conn].id = conns[listener.conn].id
                   /\ conns'[listener.conn].read = conns[listener.conn].read
    BY <1>3, OthersKeep
  <2> QED
    BY <2>1 DEF BufferInv, Start0, Busy
<1>4. CASE listener'.pc \notin {"read", "full", "parse"}
  BY <1>4 DEF BufferInv
<1>5. CASE \E n \in 0 .. FirstRead : ReadHeader(n)
  <2>1. PICK n \in 0 .. FirstRead : ReadHeader(n)
    BY <1>5
  <2>2. /\ Takes(n) /\ listener.pc = "header" /\ listener.got = <<>>
        /\ conns[listener.conn].read = 0 /\ n \in Nat
    BY <2>1 DEF ReadHeader, In, HeldInv, ParsedInv
  <2>3. /\ listener'.conn = listener.conn /\ listener'.got = <<>>
        /\ listener'.id = HeaderOf(n).id
    BY <1>1, <2>1, <2>2 DEF ReadHeader, Listenings
  <2>4. conns'[listener.conn].read = n /\ conns'[listener.conn].id = conns[listener.conn].id
    BY <1>1, <1>2, <2>2 DEF Takes, Busy, Connections
  <2>5. n >= HeaderLen => HeaderOf(n).id = conns[listener.conn].id
    BY DEF HeaderOf
  <2>6. Start0' = n
    BY <2>2, <2>3, <2>4 DEF Start0
  <2>7. 1 .. Len(listener'.got) = {}
    BY <2>3
  <2> QED
    BY <2>2, <2>3, <2>4, <2>5, <2>6, <2>7 DEF BufferInv
<1>6. CASE \E n \in 1 .. Total : ReadChunk(n)
  <2>1. PICK n \in 1 .. Total : ReadChunk(n)
    BY <1>6
  <2>2. n \in Nat /\ n <= Pending /\ Takes(n) /\ listener.pc = "read"
    BY <2>1, Lengths DEF ReadChunk, In
  <2>3. listener'.got = listener.got \o Coming(n) /\ listener'.conn = listener.conn
        /\ listener'.id = listener.id
    BY <1>1, <2>1 DEF ReadChunk, ReadBehind, Listenings
  <2> QED
    BY <1>2, <2>2, <2>3, BufferGrows DEF Busy
<1>7. CASE ReadByte
  <2>1. listener.pc = "full" /\ Takes(1) /\ Pending > 0
    BY <1>7 DEF ReadByte, In
  <2>2. 1 \in Nat /\ 1 <= Pending
    <3>1. /\ conns[listener.conn].sent \in 0 .. Total
          /\ conns[listener.conn].read \in 0 .. Total
      BY <1>2, <2>1, ConnectionType DEF Busy
    <3> QED
      BY <2>1, <3>1, Lengths DEF Pending
  <2>3. listener'.got = listener.got \o Coming(1) /\ listener'.conn = listener.conn
        /\ listener'.id = listener.id
    BY <1>1, <1>7 DEF ReadByte, Listenings
  <2> QED
    BY <1>2, <2>1, <2>2, <2>3, BufferGrows DEF Busy
<1>8. CASE EndOfStream
  <2>1. /\ conns' = conns /\ listener'.conn = listener.conn /\ listener'.got = listener.got
        /\ listener'.id = listener.id /\ listener.pc \in {"read", "full"}
    BY <1>1, <1>8 DEF EndOfStream, In, Listenings
  <2> QED
    BY <2>1 DEF BufferInv, Start0
<1>9. CASE TestClosing
  BY <1>1, <1>4, <1>9 DEF TestClosing, Listenings
<1>10. CASE Accept
  BY <1>4, <1>10 DEF Accept, Testing
<1>11. CASE AcceptFails
  BY <1>1, <1>4, <1>11 DEF AcceptFails, Listenings
<1>12. CASE ParseFails \/ Assign
  BY <1>4, <1>12 DEF ParseFails, Assign, Testing
<1>13. CASE Parse
  <2>1. listener'.pc = "invoke"
    BY <1>1, <1>13 DEF Parse, Listenings
  <2> QED
    BY <1>4, <2>1
<1>14. CASE Invoke \/ CloseOld
  <2>1. listener'.pc \in {"replace", "assign"}
    BY <1>1, <1>14 DEF Invoke, CloseOld, Listenings
  <2> QED
    BY <1>4, <2>1
<1> QED
  BY <1>3, <1>5, <1>6, <1>7, <1>8, <1>9, <1>10, <1>11, <1>12, <1>13, <1>14 DEF Listener

\* The bitmap that is handed on is the image from its first byte.
LEMMA ParsedStep ==
    ASSUME TypeOK, HeldInv, BufferInv, ParsedInv, Listener \/ Others
    PROVE  ParsedInv'
<1>1. listener \in Listenings /\ conns \in [Conns -> Connections]
  BY DEF TypeOK
<1>2. CASE Others
  <2>1. listener' = listener
    BY <1>2, OthersKeep
  <2>2. handed' = {}
    BY <1>2 DEF Others, SendCameraImage, Start, Connect, ConnectFails, WriteHeader,
                WriteData, Finish, Show, WindowCloses, Stop, HandNothing
  <2> QED
    BY <2>1, <2>2 DEF ParsedInv, ShownIsItsImage
<1>3. CASE handed' = {} /\ listener'.pc \notin {"header", "invoke"}
  BY <1>3 DEF ParsedInv, ShownIsItsImage
<1> USE DEF HandNothing
<1>4. CASE TestClosing
  BY <1>1, <1>3, <1>4 DEF TestClosing, Listenings
<1>5. CASE Accept
  BY <1>5 DEF Accept, Testing, ParsedInv, ShownIsItsImage
<1>6. CASE AcceptFails
  BY <1>1, <1>3, <1>6 DEF AcceptFails, Listenings
<1>7. CASE \E n \in 0 .. FirstRead : ReadHeader(n)
  BY <1>1, <1>3, <1>7 DEF ReadHeader, Listenings
<1>8. CASE \E n \in 1 .. Total : ReadChunk(n)
  <2>1. PICK n \in 1 .. Total : ReadChunk(n)
    BY <1>8
  <2>2. listener'.pc \in {"read", "full"} /\ handed' = {}
    BY <1>1, <2>1 DEF ReadChunk, Listenings
  <2> QED
    BY <1>3, <2>2
<1>9. CASE ReadByte
  BY <1>1, <1>3, <1>9 DEF ReadByte, Listenings
<1>10. CASE EndOfStream
  BY <1>1, <1>3, <1>10 DEF EndOfStream, Listenings
<1>11. CASE ParseFails \/ Assign
  BY <1>3, <1>11 DEF ParseFails, Assign, Testing
<1>12. CASE Parse
  <2>1. /\ listener.pc = "parse" /\ listener.got # <<>>
        /\ listener.got[1].at = HeaderLen + 1 /\ handed' = {}
    BY <1>12 DEF Parse, In, Begins
  <2>2. /\ listener'.pc = "invoke" /\ listener'.id = listener.id
        /\ listener'.got = listener.got
    BY <1>1, <1>12 DEF Parse, Listenings
  <2>3. /\ conns[listener.conn].read \in 0 .. Total
        /\ listener.got \in Seq(Bytes)
    BY <1>1, <2>1, ConnectionType, ListeningType DEF HeldInv, Busy
  <2>4. Len(listener.got) \in Nat \ {0}
    BY <2>1, <2>3
  <2>5. listener.got[1] = [id |-> conns[listener.conn].id, at |-> Start0 + 1]
    BY <2>1, <2>4 DEF BufferInv
  <2>6. Start0 = HeaderLen
    <3>1. Start0 \in Int /\ HeaderLen \in Int
      BY <2>3, <2>4, Lengths DEF Start0
    <3>2. Start0 + 1 = HeaderLen + 1
      BY <2>1, <2>5
    <3> QED
      BY <3>1, <3>2
  <2>7. Len(listener.got) \in 1 .. ImageLen
    BY <2>3, <2>4, <2>6, Lengths DEF Start0
  <2>8. listener.id = conns[listener.conn].id
    BY <2>1, <2>6, Lengths DEF BufferInv
  <2>9. \A i \in 1 .. Len(listener.got) :
            listener.got[i] = [id |-> listener.id, at |-> HeaderLen + i]
    BY <2>1, <2>6, <2>8 DEF BufferInv
  <2>10. listener.got = Image(listener.id, Len(listener.got))
    <3>1. listener.got = [i \in 1 .. Len(listener.got) |-> listener.got[i]]
      BY <2>3
    <3> QED
      BY <2>9, <3>1, Zenon DEF Image
  <2> QED
    BY <2>1, <2>2, <2>7, <2>10 DEF ParsedInv, ShownIsItsImage, IsBeginning
<1>13. CASE Invoke
  <2>1. listener'.pc = "replace"
    BY <1>1, <1>13 DEF Invoke, Listenings
  <2>2. \E n \in 1 .. ImageLen : listener.got = Image(listener.id, n)
    BY <1>13 DEF Invoke, In, ParsedInv, IsBeginning
  <2>3. handed' = {[id |-> listener.id, got |-> listener.got]}
    BY <1>13 DEF Invoke
  <2>4. ShownIsItsImage'
    <3>1. \A i \in handed' : i.id = listener.id /\ i.got = listener.got
      BY <2>3
    <3> QED
      BY <2>2, <3>1 DEF ShownIsItsImage
  <2> QED
    BY <2>1, <2>4 DEF ParsedInv
<1>14. CASE CloseOld
  BY <1>1, <1>3, <1>14 DEF CloseOld, Listenings
<1> QED
  BY <1>2, <1>4, <1>5, <1>6, <1>7, <1>8, <1>9, <1>10, <1>11, <1>12, <1>13, <1>14
     DEF Listener

-----------------------------------------------------------------------------
(* The queue *)

\* The last stream that waits is the newest, and the newest is not yet closed.
LEMMA StreamStep ==
    ASSUME TypeOK, StreamInv, Listener \/ Others
    PROVE  StreamInv'
<1>1. /\ listener \in Listenings /\ queue \in Seq(Tokens)
      /\ closed \subseteq Tokens
  BY DEF TypeOK
<1>2. CASE /\ UNCHANGED <<queue, closed>> /\ listener'.pc \notin {"invoke", "replace"}
  BY <1>2 DEF StreamInv, NewestStaysOpen
<1>3. CASE UNCHANGED <<queue, closed, current, listener>>
  BY <1>3 DEF StreamInv, NewestStaysOpen
<1> USE DEF images
<1>4. CASE Show
  <2>1. queue # <<>> /\ queue' = Tail(queue) /\ UNCHANGED <<listener, current>>
        /\ closed' = closed \cap Range(queue')
    BY <1>4 DEF Show, StillQueued
  <2>2. /\ Len(queue') = Len(queue) - 1
        /\ \A i \in DOMAIN queue' : i + 1 \in DOMAIN queue /\ queue'[i] = queue[i + 1]
        /\ queue' # <<>> => Len(queue') \in DOMAIN queue'
    BY <1>1, <2>1
  <2>3. Len(queue) \in Nat
    BY <1>1
  <2>4. queue' # <<>> => queue'[Len(queue')] = queue[Len(queue)]
    BY <2>2, <2>3
  <2>5. Range(queue') \subseteq Range(queue)
    BY <2>2 DEF Range
  <2> QED
    BY <2>1, <2>2, <2>3, <2>4, <2>5 DEF StreamInv, NewestStaysOpen
<1>5. CASE Others /\ ~Show
  BY <1>3, <1>5 DEF Others, SendCameraImage, Start, Connect, ConnectFails, WriteHeader,
                    WriteData, Finish, WindowCloses, Stop
<1>6. CASE TestClosing
  BY <1>1, <1>2, <1>6 DEF TestClosing, Listenings
<1>7. CASE Accept
  BY <1>2, <1>7 DEF Accept, Testing
<1>8. CASE AcceptFails
  BY <1>1, <1>2, <1>8 DEF AcceptFails, Listenings
<1>9. CASE \E n \in 0 .. FirstRead : ReadHeader(n)
  BY <1>1, <1>2, <1>9 DEF ReadHeader, Listenings
<1>10. CASE \E n \in 1 .. Total : ReadChunk(n)
  <2>1. PICK n \in 1 .. Total : ReadChunk(n)
    BY <1>10
  <2>2. listener'.pc \in {"read", "full"} /\ UNCHANGED images
    BY <1>1, <2>1 DEF ReadChunk, Listenings
  <2> QED
    BY <1>2, <2>2
<1>11. CASE ReadByte
  BY <1>1, <1>2, <1>11 DEF ReadByte, Listenings
<1>12. CASE EndOfStream
  BY <1>1, <1>2, <1>12 DEF EndOfStream, Listenings
<1>13. CASE ParseFails \/ Assign
  <2>1. listener'.pc = "test" /\ UNCHANGED <<queue, closed>>
    BY <1>13 DEF ParseFails, Assign, Testing
  <2> QED
    BY <1>2, <2>1
<1>14. CASE Parse
  <2>1. /\ listener'.pc = "invoke" /\ listener'.token = FreshStream
        /\ UNCHANGED <<queue, closed, current>>
    BY <1>1, <1>14 DEF Parse, Listenings
  <2>2. FreshStream \in Tokens \ Range(queue) /\ FreshStream # current
    BY <1>1, FreshExists DEF StreamInv
  <2> QED
    BY <2>1, <2>2 DEF StreamInv, NewestStaysOpen
<1>15. CASE Invoke
  <2>1. /\ queue' = Append(queue, listener.token) /\ Len(queue) < MaxQueue
        /\ UNCHANGED <<current, closed>> /\ listener.pc = "invoke"
    BY <1>15 DEF Invoke, In
  <2>2. listener'.pc = "replace" /\ listener'.token = listener.token
    BY <1>1, <1>15 DEF Invoke, Listenings
  <2>3. listener.token \in Tokens \ Range(queue) /\ listener.token # current
    BY <2>1 DEF StreamInv
  <2>4. /\ Len(queue') = Len(queue) + 1 /\ queue'[Len(queue')] = listener.token
        /\ Len(queue) \in Nat
        /\ \A i \in DOMAIN queue : i \in DOMAIN queue' /\ queue'[i] = queue[i]
    BY <1>1, <2>1, <2>3
  <2>5. Range(queue) \subseteq Range(queue')
    BY <2>4 DEF Range
  <2> QED
    BY <2>1, <2>2, <2>3, <2>4, <2>5 DEF StreamInv, NewestStaysOpen
<1>16. CASE CloseOld
  <2>1. /\ closed' = (closed \cup {current}) \cap Range(queue)
        /\ UNCHANGED <<queue, current>> /\ listener.pc = "replace"
    BY <1>16 DEF CloseOld, In, StillQueued
  <2>2. listener'.pc = "assign"
    BY <1>1, <1>16 DEF CloseOld, Listenings
  <2> QED
    BY <2>1, <2>2 DEF StreamInv, NewestStaysOpen
<1> QED
  BY <1>4, <1>5, <1>6, <1>7, <1>8, <1>9, <1>10, <1>11, <1>12, <1>13, <1>14, <1>15, <1>16
     DEF Listener, Others

-----------------------------------------------------------------------------
(* The theorems *)

\* The invariant is inductive.
LEMMA ImageStep == ImageInv /\ [Next]_vars => ImageInv'
<1> SUFFICES ASSUME ImageInv, [Next]_vars PROVE ImageInv'
  OBVIOUS
<1>1. TypeOK /\ HeldInv /\ BufferInv /\ ParsedInv /\ StreamInv
  BY DEF ImageInv
<1>2. CASE Others
  <2>1. TypeOK'
    <3>1. CASE \E t \in Threads : SendCameraImage(t) \/ \E c \in Cameras : Start(t, c)
      BY <1>1, <3>1, SenderType
    <3>2. CASE Show
      <4>1. queue' \in Seq(Tokens)
        BY <1>1, <3>2 DEF Show, TypeOK
      <4>2. closed' \subseteq Tokens
        BY <1>1, <3>2 DEF Show, TypeOK, StillQueued
      <4> QED
        BY <1>1, <3>2, <4>1, <4>2 DEF Show, TypeOK, HandNothing, window
    <3>3. CASE WindowCloses
      <4>1. closing' \in BOOLEAN /\ handed' \subseteq Images
        BY <3>3, Zenon DEF WindowCloses, HandNothing
      <4> QED
        BY <1>1, <3>3, <4>1, Zenon DEF WindowCloses, TypeOK, images
    <3>4. CASE Stop
      <4>1. conns' \in [Conns -> Connections]
        <5>1. \A k \in Conns : conns[k] \in Connections
                  /\ [conns[k] EXCEPT !.state = "reset"] \in Connections
          BY <1>1, ConnectionType DEF TypeOK
        <5> QED
          BY <3>4, <5>1, NewConnection DEF Stop
      <4>2. handed' \subseteq Images /\ backlog' \in Seq(Conns)
        BY <3>4 DEF Stop, HandNothing
      <4>3. listening' \in BOOLEAN
        BY <3>4, Zenon DEF Stop
      <4> QED
        BY <1>1, <3>4, <4>1, <4>2, <4>3, Zenon DEF Stop, TypeOK, images
    <3> QED
      BY <1>2, <3>1, <3>2, <3>3, <3>4 DEF Others
  <2> QED
    BY <1>1, <1>2, <2>1, OthersKeep, BufferStep, ParsedStep, StreamStep DEF ImageInv
<1>3. CASE Listener
  BY <1>1, <1>3, ListenerType, ListenerHolds, BufferStep, ParsedStep, StreamStep
     DEF ImageInv
<1>4. CASE UNCHANGED vars
  BY <1>1, <1>4 DEF vars, images, window, ImageInv, TypeOK, HeldInv, Busy, Live,
                    BufferInv, Start0, ParsedInv, IsBeginning, ShownIsItsImage,
                    StreamInv, NewestStaysOpen
<1> QED
  BY <1>2, <1>3, <1>4 DEF Next, Others

\* The inductive invariant holds throughout.
LEMMA ImageInvariance == Spec => []ImageInv
BY ImageInit, ImageStep, PTL DEF Spec

\* Every variable stays within its type.
THEOREM TypeCorrect == Spec => []TypeOK
<1>1. ImageInv => TypeOK
  BY DEF ImageInv
<1> QED
  BY <1>1, ImageInvariance, PTL

\* However TCP cuts header and image, what is shown for a camera is that camera's
\* image from its first byte on.
THEOREM ShownIsWhatWasSent == Spec => []ShownIsItsImage
<1>1. ImageInv => ShownIsItsImage
  BY DEF ImageInv, ParsedInv
<1> QED
  BY <1>1, ImageInvariance, PTL

\* The newest image that waits for the dispatcher has its stream open.
THEOREM NewestOpen == Spec => []NewestStaysOpen
<1>1. ImageInv => NewestStaysOpen
  BY DEF ImageInv, StreamInv
<1> QED
  BY <1>1, ImageInvariance, PTL
=============================================================================
