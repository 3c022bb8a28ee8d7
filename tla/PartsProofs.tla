------------------------------ MODULE PartsProofs ------------------------------
(***************************************************************************)
(* Theorems about the components of Parts, for every value of the          *)
(* constants.  A step of Parts is a step of one component or changes none  *)
(* of its variables; each invariant is then that component's own.          *)
(*                                                                         *)
(* The last sections are about decoding.  The codes of a family and their  *)
(* turns are more than twice maxhamming apart, so the flipped words of     *)
(* different codes differ and the entries are as many as quick_decode_init *)
(* reckons with: the table is never more than a third full.  Probing keeps *)
(* the invariant of open addressing: no search for an entry meets a free   *)
(* bucket first.                                                           *)
(***************************************************************************)
EXTENDS Parts, FiniteSetTheorems, TLAPS

-----------------------------------------------------------------------------
(* Steps *)

\* The components share no variable.
LEMMA StepOfOne ==
    ASSUME [Next]_vars
    PROVE  /\ Start!Next \/ UNCHANGED startVars
           /\ Frames!Next \/ UNCHANGED framesVars
           /\ Codec!Next \/ UNCHANGED codecVars
           /\ Fields!Next \/ UNCHANGED fieldsVars
           /\ Stick!Next \/ UNCHANGED stickVars
           /\ Pool!Next \/ UNCHANGED poolVars
           /\ Grey!Next \/ UNCHANGED greyVars
           /\ Tags!Next \/ UNCHANGED tagsVars
  BY DEF Next, IsStart, IsFrames, IsCodec, IsFields, IsJoystick, IsPool, IsImage, packetVars,
         imageVars, vars

-----------------------------------------------------------------------------
(* RobotStart *)

\* What each place of main and Run has behind it.
StartInv ==
    /\ serialOpen /\ place # "terminated" => serialHandle = "serial" /\ "serial" \in opened
    /\ place \in {"serial", "joystick", "cameras", "threads", "running"} =>
           socketOpen /\ socketHandle = "socket" /\ "socket" \in opened
    /\ place \in {"joystick", "cameras", "threads", "running"} => serialOpen
    /\ place \in {"threads", "running"} => isRunning
    /\ started # <<>> => place \in {"threads", "running"}

\* Before main starts.
LEMMA StartInit == Init => StartInv
  BY DEF Init, Start!Init, StartInv

LEMMA StartStep == StartInv /\ [Next]_vars => StartInv'
<1> SUFFICES ASSUME StartInv, [Next]_vars PROVE StartInv'
  OBVIOUS
<1>1. Start!Next \/ UNCHANGED startVars
  BY StepOfOne
<1> USE DEF StartInv, Start!At, Start!To, Start!endpoints
<1>2. CASE Start!NoSerialPort
  BY <1>2 DEF Start!NoSerialPort
<1>3. CASE Start!Construct
  BY <1>3 DEF Start!Construct, Start!OpenSerialPort
<1>4. CASE Start!OpenSocket
  BY <1>4 DEF Start!OpenSocket
<1>5. CASE Start!SocketFails
  BY <1>5 DEF Start!SocketFails
<1>6. CASE Start!OpenSerial
  BY <1>6 DEF Start!OpenSerial, Start!OpenSerialPort
<1>7. CASE Start!InitializeJoysticks
  BY <1>7 DEF Start!InitializeJoysticks
<1>8. CASE Start!OpenCameras
  BY <1>8 DEF Start!OpenCameras
<1>9. CASE Start!StartThread
  BY <1>9 DEF Start!StartThread
<1>10. CASE Start!StartThreadThrows
  BY <1>10 DEF Start!StartThreadThrows
<1>11. CASE Start!Destroy
  BY <1>11 DEF Start!Destroy
<1>12. CASE Start!End
  BY <1>12 DEF Start!End, Start!vars
<1>13. CASE UNCHANGED startVars
  BY <1>13 DEF startVars
<1> QED
  BY <1>1, <1>2, <1>3, <1>4, <1>5, <1>6, <1>7, <1>8, <1>9, <1>10, <1>11, <1>12, <1>13
     DEF Start!Next

\* No thread of the robot runs before both endpoints are open, whichever of the two
\* tries opens the port, and none is left when they are closed (BLER.cpp:22-63, 412-457).
THEOREM StartWhole == Spec => []StartedIsWhole
<1>1. StartInv => StartedIsWhole
  BY DEF StartInv, StartedIsWhole, Start!StartedIsWhole
<1> QED
  BY <1>1, StartInit, StartStep, PTL DEF Spec

-----------------------------------------------------------------------------
(* CameraFrames *)

\* FramesUntorn, and that img and img1 start each turn without a buffer.
FramesInv ==
    /\ Frames!TypeOK
    /\ turn = "camera" => img[0] = NoFrame
    /\ turn \in {"camera", "write", "camera1"} => img[1] = NoFrame
    /\ turn = "write" =>
           /\ img[0] # NoFrame
           /\ \A c \in Frames!Cameras : img[0] # latest[c]
           /\ \A t \in Frames!Threads : img[0] # encoding[t]
    /\ turn = "write1" =>
           /\ img[1] # NoFrame /\ img[1] # img[0]
           /\ \A c \in Frames!Cameras : img[1] # latest[c]
           /\ \A t \in Frames!Threads : img[1] # encoding[t]

LEMMA FramesInit == Init => FramesInv
  BY DEF Init, Frames!Init, FramesInv, Frames!TypeOK, Frames!Cameras, Frames!Threads,
         Frames!Frames

LEMMA FramesStep == FramesInv /\ [Next]_vars => FramesInv'
<1> SUFFICES ASSUME FramesInv, [Next]_vars PROVE FramesInv'
  OBVIOUS
<1>1. Frames!Next \/ UNCHANGED framesVars
  BY StepOfOne
<1> USE DEF FramesInv, Frames!TypeOK, Frames!Cameras, Frames!Threads, Frames!Frames
<1>2. CASE Frames!BeginRead
  <2>1. PICK b \in Frames!New : img' = [img EXCEPT ![Frames!Camera] = b]
    BY <1>2 DEF Frames!BeginRead
  <2>2. /\ b \in Buffers
        /\ \A c \in Frames!Cameras : b # latest[c] /\ b # img[c]
        /\ \A t \in Frames!Threads : b # encoding[t]
    BY <2>1 DEF Frames!New, Frames!Held
  <2>3. CASE turn = "camera"
    BY <1>2, <2>1, <2>2, <2>3 DEF Frames!BeginRead, Frames!Camera, Frames!Reads
  <2>4. CASE turn = "camera1"
    BY <1>2, <2>1, <2>2, <2>4 DEF Frames!BeginRead, Frames!Camera, Frames!Reads
  <2> QED
    BY <1>2, <2>3, <2>4 DEF Frames!BeginRead
<1>3. CASE Frames!EndRead
  BY <1>3 DEF Frames!EndRead, Frames!Then
<1>4. CASE Frames!NoRead
  BY <1>4 DEF Frames!NoRead, Frames!Then
<1>5. CASE Frames!Store
  BY <1>5 DEF Frames!Store
<1>6. ASSUME NEW t \in Frames!Threads, NEW c \in Frames!Cameras, Frames!Copy(t, c)
      PROVE  FramesInv'
  BY <1>6 DEF Frames!Copy
<1>7. ASSUME NEW t \in Frames!Threads, Frames!Release(t)
      PROVE  FramesInv'
  BY <1>7 DEF Frames!Release
<1>8. CASE UNCHANGED framesVars
  BY <1>8 DEF framesVars
<1> QED
  BY <1>1, <1>2, <1>3, <1>4, <1>5, <1>6, <1>7, <1>8 DEF Frames!Next

\* A camera never writes into a frame that is published, or that a thread has copied
\* out and encodes without the mutex, however many buffers there are (BLER.cpp:228-245,
\* 376-400).
THEOREM FramesWhole == Spec => []FramesUntorn
<1>1. FramesInv => FramesUntorn
  BY DEF FramesInv, FramesUntorn, Frames!FramesUntorn, Frames!Camera, Frames!Cameras,
         Frames!Threads, Frames!TypeOK
<1> QED
  BY <1>1, FramesInit, FramesStep, PTL DEF Spec

-----------------------------------------------------------------------------
(* Joystick *)

\* What a tool may be told: a preset, or the position of its slider.
Asked(p) == 0 .. Stick!Max[p] \cup (Sliders \ {-1})

Record == [stick : -100 .. 100, left : 0 .. 100, right : 0 .. 100, pressed : BOOLEAN]

Between(v, stick) == (0 <= v /\ v <= stick) \/ (stick <= v /\ v <= 0)

Places == {"sleep", "enumerate", "check", "read", "toggle", "min", "add", "store", "cap",
           "zero", "scale", "post", "send"}

TypesInv ==
    /\ part \in Stick!Parts
    /\ jsPc \in Places
    /\ enumerating \in BOOLEAN /\ plugged \in BOOLEAN
    /\ input \in Record
    /\ divisor \in 1 .. 5
    /\ since \in 0 .. 9 /\ ignored \in Nat /\ blind \in Nat
    /\ pending \in 0 .. MaxPending /\ slider \in Sliders
    /\ speed \in -100 .. 110 /\ sum \in 0 .. 110
    /\ sent \subseteq -100 .. 110

\* Between store and zero the speed of a tool may be past its last preset; that of a
\* wheel or the actuator is the joystick's own from scale, or read, to the sending.
SpeedInv ==
    /\ part \in Stick!Tools =>
           /\ jsPc \notin {"cap", "zero"} => speed \in Asked(part)
           /\ jsPc \in {"cap", "zero"} => speed \in 0 .. 110
           /\ sent \subseteq Asked(part)
    /\ part \notin Stick!Tools =>
           /\ pending = 0 /\ speed \in -100 .. 100
           /\ jsPc \notin {"toggle", "min", "add", "store", "cap", "zero"}
    /\ jsPc = "min" => part = "scooper"
    /\ part # "wheel" => jsPc # "scale"
    /\ part = "wheel" =>
           /\ jsPc \in {"post", "send"} => Between(speed, input.stick)
           /\ \A v \in sent : Between(v, input.stick)
    /\ part = "actuator" =>
           /\ jsPc \in {"post", "send"} => speed \in {-input.left, input.right, 0}
           /\ sent \subseteq {-input.left, input.right, 0}

LEMMA ReleasedOK == Stick!Released \in Record /\ ~Stick!Released.pressed
  BY DEF Stick!Released, Record

LEMMA ControlInit ==
    ASSUME Stick!ControlAssumption
    PROVE  Init => TypesInv /\ SpeedInv
<1> SUFFICES ASSUME Init PROVE TypesInv /\ SpeedInv
  OBVIOUS
<1> USE DEF Init, Stick!Init
<1>1. input \in Record
  BY ReleasedOK
<1>2. 0 \in 0 .. MaxPending /\ -1 \in Sliders
  BY DEF Stick!ControlAssumption
<1>5. divisor \in 1 .. 5 /\ since \in 0 .. 9 /\ ignored \in Nat /\ blind \in Nat
  OBVIOUS
<1>6. speed \in -100 .. 110 /\ sum \in 0 .. 110 /\ sent \subseteq -100 .. 110
  OBVIOUS
<1>7. part \in Stick!Parts /\ jsPc \in Places
  BY DEF Places
<1>8. pending \in 0 .. MaxPending /\ slider \in Sliders
  BY <1>2
<1>9. enumerating \in BOOLEAN /\ plugged \in BOOLEAN
  OBVIOUS
<1>10. TypesInv
  BY <1>1, <1>5, <1>6, <1>7, <1>8, <1>9 DEF TypesInv
<1>3. part \in Stick!Tools => 0 \in Asked(part)
  BY DEF Asked, Stick!Tools, Stick!Max
<1>4. SpeedInv
  BY <1>3 DEF SpeedInv
<1> QED
  BY <1>10, <1>4

\* C#'s division brings a value nearer to zero.
LEMMA QuotientBetween ==
    ASSUME NEW v \in -100 .. 100, NEW d \in 1 .. 5
    PROVE  /\ Stick!Quotient(v, d) \in -100 .. 100
           /\ Between(Stick!Quotient(v, d), v)
  BY DEF Stick!Quotient, Between

\* What the joystick shows is a record of percentages.
LEMMA ReadingsOK ==
    ASSUME Stick!ControlAssumption, TypesInv, SpeedInv,
           NEW r \in IF plugged THEN Stick!Readings ELSE {Stick!Gone}
    PROVE  r \in Record /\ (r.pressed => part \in Stick!Tools)
<1> USE DEF Record
<1>1. CASE plugged
  <2>1. r \in Stick!Readings
    BY <1>1
  <2>2. CASE part = "wheel"
    <3>1. PICK v \in Positions : r = [Stick!Released EXCEPT !.stick = v]
      BY <2>1, <2>2 DEF Stick!Readings
    <3> QED
      BY <3>1, ReleasedOK DEF Stick!ControlAssumption
  <2>3. CASE part = "actuator"
    <3>1. PICK p \in Squeezes \X Squeezes :
              r = [Stick!Released EXCEPT !.left = p[1], !.right = p[2]]
      BY <2>1, <2>3 DEF Stick!Readings
    <3>2. p[1] \in 0 .. 100 /\ p[2] \in 0 .. 100
      BY DEF Stick!ControlAssumption
    <3> QED
      BY <3>1, <3>2, ReleasedOK
  <2>4. CASE part \in Stick!Tools
    <3>1. part # "wheel" /\ part # "actuator"
      BY <2>4 DEF Stick!Tools
    <3>2. PICK b \in BOOLEAN : r = [Stick!Released EXCEPT !.pressed = b]
      BY <2>1, <3>1, SMT DEF Stick!Readings
    <3> QED
      BY <2>4, <3>2, ReleasedOK
  <2> QED
    BY <2>2, <2>3, <2>4 DEF TypesInv, Stick!Parts
<1>2. CASE ~plugged
  <2> DEFINE s == IF part = "wheel" THEN speed ELSE 0
  <2>1. r = [input EXCEPT !.stick = s, !.pressed = FALSE]
    BY <1>2 DEF Stick!Gone
  <2>2. s \in -100 .. 100
    BY DEF SpeedInv, Stick!Tools
  <2>3. input \in Record
    BY DEF TypesInv
  <2> HIDE DEF s
  <2> QED
    BY <2>1, <2>2, <2>3
<1> QED
  BY <1>1, <1>2 DEF TypesInv

LEMMA ControlStep ==
    ASSUME Stick!ControlAssumption, TypesInv, SpeedInv, [Next]_vars
    PROVE  TypesInv' /\ SpeedInv'
<1>1. Stick!Next \/ UNCHANGED stickVars
  BY StepOfOne
<1>a. part \in Stick!Tools => Asked(part) \subseteq 0 .. 100
  <2>1. Stick!Max["scooper"] = 15 /\ Stick!Max["vibrator"] = 30
    BY DEF Stick!Max
  <2>2. \A v \in Sliders \ {-1} : v \in 0 .. 100
    BY DEF Stick!ControlAssumption
  <2>3. \A v \in Asked(part) : v \in 0 .. Stick!Max[part] \/ v \in 0 .. 100
    BY <2>2 DEF Asked
  <2> QED
    BY <2>1, <2>3 DEF Stick!Tools
<1> USE DEF TypesInv, SpeedInv, Places, Stick!device, Stick!clock, Stick!SendNothing
<1>2. ASSUME NEW lag \in 1 .. MaxLag, Stick!Sleep(lag)
      PROVE  TypesInv' /\ SpeedInv'
  <2>1. (since + lag) % 10 \in 0 .. 9
    BY DEF Stick!ControlAssumption
  <2> QED
    BY <1>2, <1>a, <2>1 DEF Stick!Sleep
<1>3. CASE Stick!Enumerate
  BY <1>3, <1>a DEF Stick!Enumerate
<1>4. CASE Stick!Check
  BY <1>4, <1>a DEF Stick!Check
<1>5. CASE Stick!Read
  <2>1. PICK r \in IF plugged THEN Stick!Readings ELSE {Stick!Gone} :
            /\ input' = r
            /\ ignored' = IF r.pressed /\ ~Stick!Ready THEN ignored + 1 ELSE 0
            /\ jsPc' = IF r.pressed /\ Stick!Ready THEN "toggle"
                       ELSE IF part = "wheel" THEN "scale" ELSE "post"
            /\ speed' = IF part # "actuator" THEN speed
                        ELSE IF r.left # 0 /\ r.right # 0 THEN 0
                        ELSE r.right - r.left
    BY <1>5 DEF Stick!Read
  <2>2. r \in Record /\ (r.pressed => part \in Stick!Tools)
    BY ReadingsOK
  <2>3. r.left \in 0 .. 100 /\ r.right \in 0 .. 100
    BY <2>2 DEF Record
  <2>4. /\ jsPc = "read" /\ sent' = {}
        /\ UNCHANGED <<part, enumerating, plugged, blind, divisor, sum, since, pending,
                       slider>>
    BY <1>5 DEF Stick!Read
  <2> HIDE DEF Record
  <2>5. ignored' \in Nat
    BY <2>1
  <2>6. TypesInv'
    BY <2>1, <2>2, <2>3, <2>4, <2>5
  <2>7. SpeedInv'
    BY <2>1, <2>2, <2>3, <2>4, <1>a DEF Stick!Tools, Stick!Parts
  <2> QED
    BY <2>6, <2>7
<1>6. CASE Stick!Toggle
  BY <1>6, <1>a DEF Stick!Toggle, Stick!Tools
<1>19. CASE Stick!StoreMin
  BY <1>19, <1>a DEF Stick!StoreMin, Asked, Stick!Min, Stick!Max, Stick!Tools
<1>7. CASE Stick!Add
  BY <1>7, <1>a DEF Stick!Add, Stick!Inc
<1>8. CASE Stick!Store
  BY <1>8, <1>a DEF Stick!Store
<1>9. CASE Stick!Cap
  BY <1>9, <1>a DEF Stick!Cap, Asked, Stick!Max, Stick!Tools
<1>10. CASE Stick!Zero
  BY <1>10, <1>a DEF Stick!Zero, Asked, Stick!Max, Stick!Tools
<1>11. ASSUME NEW change \in {-1, 0, 1}, Stick!Scale(change)
       PROVE  TypesInv' /\ SpeedInv'
  <2>1. divisor' \in 1 .. 5
    BY <1>11 DEF Stick!Scale, Stick!Divisor, Stick!Clamp, Stick!MaxDivisor
  <2>2. input.stick \in -100 .. 100
    BY DEF Record
  <2>3. Stick!Quieted \in -100 .. 100 /\ (Stick!Quieted = 0 \/ Stick!Quieted = input.stick)
    BY <2>2 DEF Stick!Quieted
  <2>4. speed' \in -100 .. 100 /\ Between(speed', Stick!Quieted)
    BY <1>11, <2>1, <2>3, QuotientBetween DEF Stick!Scale
  <2>5. Between(speed', input.stick)
    BY <2>2, <2>3, <2>4 DEF Between
  <2> QED
    BY <1>11, <2>1, <2>4, <2>5 DEF Stick!Scale, Stick!Tools
<1>12. CASE Stick!Post
  BY <1>12, <1>a DEF Stick!Post, Stick!ControlAssumption
<1>13. CASE Stick!Send
  BY <1>13, <1>a DEF Stick!Send
<1>14. CASE Stick!SendNot
  BY <1>14, <1>a DEF Stick!SendNot
<1>15. CASE Stick!Override
  <2>1. slider >= 0 => slider \in Asked(part)
    BY DEF Asked, Stick!ControlAssumption
  <2>2. slider \in -1 .. 100
    BY DEF Stick!ControlAssumption
  <2>3. /\ part \in Stick!Tools /\ pending' = pending - 1 /\ sent' = {}
        /\ speed' = IF slider >= 0 THEN slider ELSE speed
        /\ UNCHANGED <<part, jsPc, enumerating, plugged, blind, input, divisor, sum,
                       since, ignored, slider>>
    BY <1>15 DEF Stick!Override
  <2>4. pending' \in 0 .. MaxPending
    BY <1>15, <2>3 DEF Stick!Override, Stick!ControlAssumption
  <2>5. speed' \in -100 .. 110
    BY <2>2, <2>3
  <2>6. TypesInv'
    BY <2>3, <2>4, <2>5
  <2>7. SpeedInv'
    BY <1>a, <2>1, <2>2, <2>3 DEF Stick!Tools
  <2> QED
    BY <2>6, <2>7
<1>16. CASE Stick!Plug
  BY <1>16, <1>a DEF Stick!Plug
<1>17. ASSUME NEW position \in Sliders, Stick!Slide(position)
       PROVE  TypesInv' /\ SpeedInv'
  BY <1>17, <1>a DEF Stick!Slide
<1>18. CASE UNCHANGED stickVars
  BY <1>18, <1>a DEF stickVars
<1> QED
  BY <1>1, <1>2, <1>3, <1>4, <1>5, <1>6, <1>7, <1>8, <1>9, <1>10, <1>11, <1>12, <1>13,
     <1>14, <1>15, <1>16, <1>17, <1>18, <1>19 DEF Stick!Next, Stick!ReadJoystickValues

\* A packet tells a tool what a preset or its slider asked for, although the dispatcher
\* overwrites the speed between any two accesses of the thread, and a wheel or the
\* actuator no more than the joystick (MainWindow.xaml.cs:406-455, 476-486, 502-512).
THEOREM SpeedAsked == Spec => []PresetOrSlider
<1>1. Stick!ControlAssumption
  BY PartsAssumption
<1>2. (TypesInv /\ SpeedInv) /\ [Next]_vars => (TypesInv /\ SpeedInv)'
  BY <1>1, ControlStep
<1>3. Init => TypesInv /\ SpeedInv
  BY <1>1, ControlInit
<1>4. TypesInv /\ SpeedInv => PresetOrSlider
  BY DEF TypesInv, SpeedInv, PresetOrSlider, Stick!PresetOrSlider, Asked, Between,
         Stick!Parts, Stick!Tools
<1> QED
  BY <1>2, <1>3, <1>4, PTL DEF Spec

\* A press is ignored only while the clock stands at two or less, and a turn takes it
\* one up at least: the clock stays ahead of the count.
PressInv ==
    /\ part \notin Stick!Tools => ignored = 0
    /\ enumerating \/ jsPc \in {"enumerate", "toggle"} => ignored = 0
    /\ jsPc \in {"check", "read"} =>
           ~enumerating /\ ignored <= 3 /\ (since <= 2 => ignored <= since)
    /\ jsPc \notin {"check", "read"} =>
           ignored = 0 \/ (since <= 2 /\ ignored <= since + 1)

LEMMA PressInit == Init => PressInv
  BY DEF Init, Stick!Init, PressInv, Stick!Tools

LEMMA PressStep ==
    ASSUME Stick!ControlAssumption, MaxLag <= 7, TypesInv, SpeedInv, PressInv, [Next]_vars
    PROVE  PressInv'
<1>1. Stick!Next \/ UNCHANGED stickVars
  BY StepOfOne
<1>a. since \in 0 .. 9 /\ ignored \in Nat
  BY DEF TypesInv
<1> USE DEF PressInv, Stick!device, Stick!clock
<1>2. ASSUME NEW lag \in 1 .. MaxLag, Stick!Sleep(lag)
      PROVE  PressInv'
  <2>1. CASE part \in Stick!Tools
    <3>1. lag \in Nat /\ 1 <= lag /\ lag <= 7
      BY DEF Stick!ControlAssumption
    <3>2. since' = (since + lag) % 10
      BY <1>2, <2>1 DEF Stick!Sleep
    <3>3. since' \in 0 .. 9 /\ (since <= 2 => since' = since + lag)
      BY <1>a, <3>1, <3>2
    <3> QED
      BY <1>a, <1>2, <2>1, <3>1, <3>3 DEF Stick!Sleep
  <2>2. CASE part \notin Stick!Tools
    BY <1>a, <1>2, <2>2 DEF Stick!Sleep
  <2> QED
    BY <2>1, <2>2
<1>3. CASE Stick!Enumerate
  BY <1>3 DEF Stick!Enumerate
<1>4. CASE Stick!Check
  BY <1>4 DEF Stick!Check
<1>5. CASE Stick!Read
  <2>1. PICK r \in IF plugged THEN Stick!Readings ELSE {Stick!Gone} :
            /\ ignored' = IF r.pressed /\ ~Stick!Ready THEN ignored + 1 ELSE 0
            /\ jsPc' = IF r.pressed /\ Stick!Ready THEN "toggle"
                       ELSE IF part = "wheel" THEN "scale" ELSE "post"
    BY <1>5 DEF Stick!Read
  <2>2. r.pressed => part \in Stick!Tools
    BY ReadingsOK
  <2>3. /\ jsPc = "read" /\ ~enumerating
        /\ UNCHANGED <<part, since, enumerating>>
    BY <1>5 DEF Stick!Read
  <2> QED
    BY <1>a, <2>1, <2>2, <2>3 DEF Stick!Ready
<1>6. CASE Stick!Toggle
  BY <1>6 DEF Stick!Toggle
<1>7. CASE Stick!StoreMin \/ Stick!Add \/ Stick!Store \/ Stick!Cap \/ Stick!Zero
  BY <1>7 DEF Stick!StoreMin, Stick!Add, Stick!Store, Stick!Cap, Stick!Zero
<1>8. ASSUME NEW change \in {-1, 0, 1}, Stick!Scale(change)
      PROVE  PressInv'
  BY <1>8 DEF Stick!Scale
<1>9. CASE Stick!Post \/ Stick!Send \/ Stick!SendNot
  BY <1>9 DEF Stick!Post, Stick!Send, Stick!SendNot
<1>10. CASE Stick!Override \/ Stick!Plug
  BY <1>10 DEF Stick!Override, Stick!Plug
<1>11. ASSUME NEW position \in Sliders, Stick!Slide(position)
       PROVE  PressInv'
  BY <1>11 DEF Stick!Slide
<1>12. CASE UNCHANGED stickVars
  BY <1>12 DEF stickVars
<1> QED
  BY <1>1, <1>2, <1>3, <1>4, <1>5, <1>6, <1>7, <1>8, <1>9, <1>10, <1>11, <1>12
     DEF Stick!Next, Stick!ReadJoystickValues

\* A button that is held is heard within four turns if no turn takes longer than
\* 0.7 s (MainWindow.xaml.cs:362, 420, 436).
THEOREM PressHeard == MaxLag <= 7 => (Spec => []PressIsHeard)
<1> SUFFICES ASSUME MaxLag <= 7 PROVE Spec => []PressIsHeard
  OBVIOUS
<1>1. Stick!ControlAssumption
  BY PartsAssumption
<1> DEFINE Inv == TypesInv /\ SpeedInv /\ PressInv
<1>2. Inv /\ [Next]_vars => Inv'
  BY <1>1, ControlStep, PressStep
<1>3. Init => Inv
  BY <1>1, ControlInit, PressInit
<1>4. Inv => PressIsHeard
  BY DEF TypesInv, PressInv, PressIsHeard, Stick!PressIsHeard
<1> HIDE DEF Inv
<1> QED
  BY <1>2, <1>3, <1>4, PTL DEF Spec

\* The thread passes Check only while the joystick is plugged in.
BlindInv ==
    /\ blind \in {0, 1}
    /\ blind = 1 => ~plugged /\ jsPc \in {"sleep", "enumerate", "check"}

LEMMA BlindInit == Init => BlindInv
  BY DEF Init, Stick!Init, BlindInv

LEMMA BlindStep == BlindInv /\ [Next]_vars => BlindInv'
<1> SUFFICES ASSUME BlindInv, [Next]_vars PROVE BlindInv'
  OBVIOUS
<1>1. Stick!Next \/ UNCHANGED stickVars
  BY StepOfOne
<1> USE DEF BlindInv, Stick!device
<1>2. ASSUME NEW lag \in 1 .. MaxLag, Stick!Sleep(lag)
      PROVE  BlindInv'
  BY <1>2 DEF Stick!Sleep
<1>3. CASE Stick!Enumerate \/ Stick!Check
  BY <1>3 DEF Stick!Enumerate, Stick!Check
<1>4. CASE Stick!Read
  BY <1>4 DEF Stick!Read
<1>5. CASE \/ Stick!Toggle \/ Stick!StoreMin \/ Stick!Add \/ Stick!Store \/ Stick!Cap
          \/ Stick!Zero
  BY <1>5 DEF Stick!Toggle, Stick!StoreMin, Stick!Add, Stick!Store, Stick!Cap, Stick!Zero
<1>6. ASSUME NEW change \in {-1, 0, 1}, Stick!Scale(change)
      PROVE  BlindInv'
  BY <1>6 DEF Stick!Scale
<1>7. CASE Stick!Post \/ Stick!Send \/ Stick!SendNot
  BY <1>7 DEF Stick!Post, Stick!Send, Stick!SendNot
<1>8. CASE Stick!Override \/ Stick!Plug
  BY <1>8 DEF Stick!Override, Stick!Plug
<1>9. ASSUME NEW position \in Sliders, Stick!Slide(position)
      PROVE  BlindInv'
  BY <1>9 DEF Stick!Slide
<1>10. CASE UNCHANGED stickVars
  BY <1>10 DEF stickVars
<1> QED
  BY <1>1, <1>2, <1>3, <1>4, <1>5, <1>6, <1>7, <1>8, <1>9, <1>10
     DEF Stick!Next, Stick!ReadJoystickValues

\* A joystick that is gone is repeated once at most, wherever in a turn it goes and
\* however long the turns are (MainWindow.xaml.cs:382-395).
THEOREM LostStops == Spec => []LostJoystickStops
<1>1. BlindInv => LostJoystickStops
  BY DEF BlindInv, LostJoystickStops, Stick!LostJoystickStops
<1> QED
  BY <1>1, BlindInit, BlindStep, PTL DEF Spec

-----------------------------------------------------------------------------
(* PacketFields *)

\* A Parse function looks for every field where the Create function has put it.
LEMMA PlaceOfField ==
    ASSUME NEW k \in Fields!Kinds, NEW j \in 1 .. Len(Fields!Order[k])
    PROVE  Fields!Place[k][Fields!Order[k][j]] = IF k \in Fields!Wide THEN 2 * j - 1 ELSE j
<1>1. CASE k = "drive"
  <2>1. /\ Fields!Order[k] = <<"left", "right", "actuator", "scooper", "vibrator">>
        /\ Fields!Place[k] = [left |-> 1, right |-> 2, actuator |-> 3, scooper |-> 4,
                              vibrator |-> 5]
    BY <1>1 DEF Fields!Order, Fields!Place
  <2>2. j \in 1 .. 5
    BY <2>1
  <2> QED
    BY <1>1, <2>1, <2>2 DEF Fields!Wide
<1>2. CASE k = "quality"
  <2>1. Fields!Order[k] = <<"quality">> /\ Fields!Place[k] = [quality |-> 1]
    BY <1>2 DEF Fields!Order, Fields!Place
  <2>2. j = 1
    BY <2>1
  <2> QED
    BY <1>2, <2>1, <2>2 DEF Fields!Wide
<1>3. CASE k = "place"
  <2>1. Fields!Order[k] = <<"id", "angle">> /\ Fields!Place[k] = [id |-> 1, angle |-> 2]
    BY <1>3 DEF Fields!Order, Fields!Place
  <2>2. j \in 1 .. 2
    BY <2>1
  <2> QED
    BY <1>3, <2>1, <2>2 DEF Fields!Wide
<1>4. CASE k = "location"
  <2>1. /\ Fields!Order[k] = <<"x", "y", "heading">>
        /\ Fields!Place[k] = [x |-> 1, y |-> 3, heading |-> 5]
    BY <1>4 DEF Fields!Order, Fields!Place
  <2>2. j \in 1 .. 3
    BY <2>1
  <2> QED
    BY <1>4, <2>1, <2>2 DEF Fields!Wide
<1>5. CASE k = "encoder"
  <2>1. /\ Fields!Order[k] = <<"front_left", "front_right", "back_left", "back_right",
                               "left_actuator", "right_actuator">>
        /\ Fields!Place[k] = [front_left |-> 1, front_right |-> 3, back_left |-> 5,
                              back_right |-> 7, left_actuator |-> 9,
                              right_actuator |-> 11]
    BY <1>5 DEF Fields!Order, Fields!Place
  <2>2. j \in 1 .. 6
    BY <2>1
  <2> QED
    BY <1>5, <2>1, <2>2 DEF Fields!Wide
<1> QED
  BY <1>1, <1>2, <1>3, <1>4, <1>5 DEF Fields!Kinds

Percent == 0 .. 100
Turns == -180 .. 180

LEMMA Ranges ==
    /\ \A v \in Turns : v \in Fields!Int16
    /\ \A v \in Fields!Int16 : v \in Int
    /\ Fields!FieldAssumption =>
           /\ \A v \in Int8s : v \in Fields!Int8
           /\ \A v \in Int16s : v \in Fields!Int16
           /\ \A v \in Settings : v \in Int
<1>1. \A v \in Turns : v \in Fields!Int16
  BY DEF Fields!Int16, Turns
<1>2. \A v \in Fields!Int16 : v \in Int
  BY DEF Fields!Int16
<1> QED
  BY <1>1, <1>2 DEF Fields!FieldAssumption

\* A byte gives a number of eight bits back, and two bytes one of sixteen.
LEMMA BytesBack ==
    /\ \A v \in Fields!Int8 : Fields!Signed8(Fields!Low(v)) = v
    /\ \A v \in Fields!Int16 : Fields!Signed16(Fields!High(v), Fields!Low(v)) = v
    /\ \A v \in Percent : Fields!Low(v) = v /\ ~(v > 100)
    /\ \A v \in {0, 1} : Fields!Low(v) = v
  BY DEF Fields!Int8, Fields!Int16, Percent, Fields!Signed8, Fields!Signed16, Fields!High, Fields!Low

\* The clamps mean what InRange says.
LEMMA ClampInRange ==
    ASSUME NEW v \in Int, NEW max \in Int, NEW min \in Int, min <= max
    PROVE  /\ Fields!Clamp(v, max, min) = Fields!InRange(v, max, min)
           /\ Fields!Clamp(v, max, min) \in min .. max
<1> DEFINE P(w) == /\ min <= w /\ w <= max
                   /\ v < min => w = min
                   /\ v > max => w = max
                   /\ min <= v /\ v <= max => w = v
           c == Fields!Clamp(v, max, min)
<1>1. c \in {v, max, min} /\ P(c) /\ c \in min .. max
  BY DEF Fields!Clamp
<1>2. \A w \in {v, max, min} : P(w) => w = c
  BY DEF Fields!Clamp
<1>3. Fields!InRange(v, max, min) = CHOOSE w \in {v, max, min} : P(w)
  BY DEF Fields!InRange
<1> HIDE DEF P, c
<1>4. (CHOOSE w \in {v, max, min} : P(w)) = c
  BY <1>1, <1>2
<1> QED
  BY <1>1, <1>3, <1>4 DEF c

LEMMA Clamped ==
    /\ \A v \in Int : /\ Fields!Clamp(v, 100, 0) = Fields!InRange(v, 100, 0)
                      /\ Fields!Clamp(v, 100, 0) \in Percent
    /\ \A v \in Int : /\ Fields!Clamp(v, 180, -180) = Fields!InRange(v, 180, -180)
                      /\ Fields!Clamp(v, 180, -180) \in Turns
<1>1. ASSUME NEW v \in Int
      PROVE  /\ Fields!Clamp(v, 100, 0) = Fields!InRange(v, 100, 0)
             /\ Fields!Clamp(v, 100, 0) \in Percent
  <2>1. 0 \in Int /\ 100 \in Int /\ 0 <= 100
    OBVIOUS
  <2> QED
    BY <2>1, ClampInRange DEF Percent
<1>2. ASSUME NEW v \in Int
      PROVE  /\ Fields!Clamp(v, 180, -180) = Fields!InRange(v, 180, -180)
             /\ Fields!Clamp(v, 180, -180) \in Turns
  <2>1. -180 \in Int /\ 180 \in Int /\ -180 <= 180
    OBVIOUS
  <2> QED
    BY <2>1, ClampInRange DEF Turns
<1> QED
  BY <1>1, <1>2

\* Every kind lists some fields, and each name is known to one list.
LEMMA OrderOK ==
    ASSUME NEW k \in Fields!Kinds
    PROVE  /\ Len(Fields!Order[k]) \in Nat
           /\ k = "quality" => Fields!Names(k) = {"quality"} /\ Fields!Place[k]["quality"] = 1
           /\ k = "place" => Fields!Names(k) = {"id", "angle"} /\ Fields!Place[k]["id"] = 1
           /\ k # "quality" => "quality" \notin Fields!Names(k)
           /\ k # "location" => "heading" \notin Fields!Names(k)
           /\ k # "place" => "id" \notin Fields!Names(k)
<1>1. CASE k = "drive"
  <2>1. Fields!Order[k] = <<"left", "right", "actuator", "scooper", "vibrator">>
    BY <1>1 DEF Fields!Order
  <2>2. Fields!Names(k) = {"left", "right", "actuator", "scooper", "vibrator"}
    BY <2>1 DEF Fields!Names
  <2> QED
    BY <1>1, <2>1, <2>2
<1>2. CASE k = "quality"
  <2>1. Fields!Order[k] = <<"quality">> /\ Fields!Place[k] = [quality |-> 1]
    BY <1>2 DEF Fields!Order, Fields!Place
  <2>2. Fields!Names(k) = {"quality"}
    BY <2>1 DEF Fields!Names
  <2> QED
    BY <1>2, <2>1, <2>2
<1>3. CASE k = "place"
  <2>1. Fields!Order[k] = <<"id", "angle">> /\ Fields!Place[k] = [id |-> 1, angle |-> 2]
    BY <1>3 DEF Fields!Order, Fields!Place
  <2>2. Fields!Names(k) = {"id", "angle"}
    BY <2>1 DEF Fields!Names
  <2> QED
    BY <1>3, <2>1, <2>2
<1>4. CASE k = "location"
  <2>1. Fields!Order[k] = <<"x", "y", "heading">>
    BY <1>4 DEF Fields!Order
  <2>2. Fields!Names(k) = {"x", "y", "heading"}
    BY <2>1 DEF Fields!Names
  <2> QED
    BY <1>4, <2>1, <2>2
<1>5. CASE k = "encoder"
  <2>1. Fields!Order[k] = <<"front_left", "front_right", "back_left", "back_right",
                            "left_actuator", "right_actuator">>
    BY <1>5 DEF Fields!Order
  <2>2. Fields!Names(k) = {"front_left", "front_right", "back_left", "back_right",
                           "left_actuator", "right_actuator"}
    BY <2>1 DEF Fields!Names
  <2> QED
    BY <1>5, <2>1, <2>2
<1> QED
  BY <1>1, <1>2, <1>3, <1>4, <1>5 DEF Fields!Kinds

LEMMA StructOK ==
    ASSUME Fields!FieldAssumption, NEW k \in Fields!Kinds, NEW p \in Fields!Structs[k],
           NEW f \in Fields!Names(k)
    PROVE  /\ DOMAIN p = Fields!Names(k)
           /\ k \in Fields!Wide => p[f] \in Fields!Int16
           /\ k = "quality" => p[f] \in Int
           /\ k \in {"drive", "place"} => p[f] \in Fields!Int8
           /\ k = "place" => p["id"] \in {0, 1}
<1>1. CASE k = "drive"
  BY <1>1, Ranges DEF Fields!Structs, Fields!Wide
<1>2. CASE k = "quality"
  BY <1>2, Ranges DEF Fields!Structs, Fields!Wide
<1>3. CASE k = "place"
  BY <1>3, Ranges DEF Fields!Structs, Fields!Wide
<1>4. CASE k \in Fields!Wide
  BY <1>4, Ranges DEF Fields!Structs, Fields!Wide
<1> QED
  BY <1>1, <1>2, <1>3, <1>4 DEF Fields!Kinds, Fields!Wide

\* What is written for a field is what is meant, in the field's range.
LEMMA PreparedIsMeant ==
    ASSUME Fields!FieldAssumption, NEW k \in Fields!Kinds, NEW p \in Fields!Structs[k],
           NEW f \in Fields!Names(k)
    PROVE  /\ Fields!Prepared(k, p)[f] = Fields!Meant(k, p)[f]
           /\ k \in Fields!Wide => Fields!Prepared(k, p)[f] \in Fields!Int16
           /\ k = "quality" => Fields!Prepared(k, p)[f] \in Percent
           /\ k \in {"drive", "place"} => Fields!Prepared(k, p)[f] \in Fields!Int8
           /\ f = "id" => Fields!Prepared(k, p)[f] \in {0, 1}
<1>1. Fields!Meant(k, p)[f] =
          IF f = "quality" THEN Fields!InRange(p[f], 100, 0)
          ELSE IF f = "heading" THEN Fields!InRange(p[f], 180, -180)
          ELSE p[f]
  BY DEF Fields!Meant
<1>2. CASE k = "quality"
  <2>1. f = "quality" /\ p[f] \in Int /\ DOMAIN p = {"quality"}
    BY <1>2, OrderOK, StructOK
  <2>2. Fields!Prepared(k, p)[f] = Fields!Clamp(p[f], 100, 0)
    BY <1>2, <2>1 DEF Fields!Prepared
  <2> QED
    BY <1>1, <1>2, <2>1, <2>2, Clamped DEF Fields!Wide
<1>3. CASE k = "location"
  <2>1. /\ f # "quality" /\ f # "id" /\ p[f] \in Fields!Int16
        /\ f \in DOMAIN p
    BY <1>3, OrderOK, StructOK DEF Fields!Wide
  <2>2. Fields!Prepared(k, p)[f] = IF f = "heading" THEN Fields!Clamp(p[f], 180, -180)
                                   ELSE p[f]
    BY <1>3, <2>1 DEF Fields!Prepared
  <2>3. p[f] \in Int
    BY <2>1, Ranges
  <2>4. /\ Fields!Clamp(p[f], 180, -180) = Fields!InRange(p[f], 180, -180)
        /\ Fields!Clamp(p[f], 180, -180) \in Turns
    BY <2>3, Clamped
  <2> QED
    BY <1>1, <1>3, <2>1, <2>2, <2>4, Ranges
<1>4. CASE k \notin {"quality", "location"}
  <2>1. f # "quality" /\ f # "heading"
    BY <1>4, OrderOK
  <2>2. Fields!Prepared(k, p) = p
    BY <1>4 DEF Fields!Prepared
  <2>3. f = "id" => k = "place"
    BY OrderOK
  <2> QED
    BY <1>1, <1>4, <2>1, <2>2, <2>3, StructOK
<1> QED
  BY <1>2, <1>3, <1>4

\* Every field is taken out as it was meant.
LEMMA FieldBack ==
    ASSUME Fields!FieldAssumption, NEW k \in Fields!Kinds, NEW p \in Fields!Structs[k],
           NEW f \in Fields!Names(k)
    PROVE  Fields!Taken(k, f, Fields!Written(k, Fields!Prepared(k, p)))
               = Fields!Meant(k, p)[f]
<1> DEFINE q == Fields!Prepared(k, p)
           n == Len(Fields!Order[k])
           b == Fields!Written(k, q)
<1>1. PICK j \in 1 .. n : f = Fields!Order[k][j]
  BY DEF Fields!Names
<1>2. n \in Nat
  BY OrderOK
<1>3. Fields!Place[k][f] = IF k \in Fields!Wide THEN 2 * j - 1 ELSE j
  BY <1>1, PlaceOfField
<1>4. /\ q[f] = Fields!Meant(k, p)[f]
      /\ k \in Fields!Wide => q[f] \in Fields!Int16
      /\ k = "quality" => q[f] \in Percent
      /\ k \in {"drive", "place"} => q[f] \in Fields!Int8
      /\ f = "id" => q[f] \in {0, 1}
  BY PreparedIsMeant
<1> HIDE DEF q, n
<1>5. CASE k \in Fields!Wide
  <2>1. b = [i \in 1 .. 2 * n |->
                IF i % 2 = 1 THEN Fields!High(q[Fields!Order[k][(i + 1) \div 2]])
                ELSE Fields!Low(q[Fields!Order[k][i \div 2]])]
    BY <1>5 DEF Fields!Written, n
  <2>2. /\ 2 * j - 1 \in 1 .. 2 * n /\ 2 * j \in 1 .. 2 * n
        /\ (2 * j - 1) % 2 = 1 /\ (2 * j) % 2 = 0
        /\ ((2 * j - 1) + 1) \div 2 = j /\ (2 * j) \div 2 = j
    BY <1>2
  <2> HIDE DEF b
  <2>3. b[2 * j - 1] = Fields!High(q[f])
    BY <1>1, <2>1, <2>2
  <2>4. b[2 * j] = Fields!Low(q[f])
    BY <1>1, <2>1, <2>2
  <2>5. Fields!Taken(k, f, b) = Fields!Signed16(b[2 * j - 1], b[(2 * j - 1) + 1])
    BY <1>3, <1>5 DEF Fields!Taken
  <2>6. (2 * j - 1) + 1 = 2 * j
    BY <1>2
  <2>7. Fields!Taken(k, f, b) = q[f]
    BY <1>4, <1>5, <2>3, <2>4, <2>5, <2>6, BytesBack
  <2> QED
    BY <1>4, <2>7 DEF b, q
<1>6. CASE k \notin Fields!Wide
  <2>1. b = [i \in 1 .. n |-> Fields!Low(q[Fields!Order[k][i]])]
    BY <1>6 DEF Fields!Written, n
  <2> HIDE DEF b
  <2>2. b[j] = Fields!Low(q[f])
    BY <1>1, <2>1
  <2>3. k \in {"drive", "quality", "place"}
    BY <1>6 DEF Fields!Kinds, Fields!Wide
  <2>4. CASE k = "quality"
    <3>1. f = "quality" /\ j = 1
      BY <1>3, <1>6, <2>4, OrderOK
    <3>2. b[1] = q[f] /\ ~(b[1] > 100)
      BY <1>4, <2>2, <2>4, <3>1, BytesBack
    <3>3. Fields!Taken(k, f, b) = b[1]
      BY <1>6, <3>1, <3>2 DEF Fields!Taken
    <3> QED
      BY <1>4, <3>2, <3>3 DEF b, q
  <2>5. CASE f = "id"
    <3>1. k = "place"
      BY <2>5, OrderOK
    <3>2. j = 1
      BY <1>3, <1>6, <2>5, <3>1, OrderOK
    <3>3. b[1] = q[f]
      BY <1>4, <2>2, <2>5, <3>2, BytesBack
    <3> QED
      BY <1>4, <1>6, <2>5, <3>3 DEF Fields!Taken, b, q
  <2>6. CASE k # "quality" /\ f # "id"
    <3>1. f # "quality"
      BY <2>6, OrderOK
    <3>2. Fields!Taken(k, f, b) = Fields!Signed8(b[j])
      BY <1>3, <1>6, <2>6, <3>1 DEF Fields!Taken
    <3>3. Fields!Taken(k, f, b) = q[f]
      BY <1>4, <2>2, <2>3, <2>6, <3>2, BytesBack
    <3> QED
      BY <1>4, <3>3 DEF b, q
  <2> QED
    BY <2>4, <2>5, <2>6
<1> QED
  BY <1>5, <1>6

\* What the bytes of the packet on its way stand for.
FieldsInv ==
    /\ step \in {"created", "parsed"} => kind \in Fields!Kinds /\ fields \in Fields!Structs[kind]
    /\ step = "created" => payload = Fields!Written(kind, Fields!Prepared(kind, fields))
    /\ step = "parsed" => parsed = Fields!Meant(kind, fields)

LEMMA FieldsInit == Init => FieldsInv
  BY DEF Init, Fields!Init, FieldsInv

LEMMA FieldsStep ==
    ASSUME Fields!FieldAssumption, FieldsInv, [Next]_vars
    PROVE  FieldsInv'
<1>1. Fields!Next \/ UNCHANGED fieldsVars
  BY StepOfOne
<1>2. ASSUME NEW k \in Fields!Kinds, NEW p \in Fields!Structs[k], Fields!Create(k, p)
      PROVE  FieldsInv'
  BY <1>2 DEF Fields!Create, FieldsInv
<1>3. ASSUME step = "created"
      PROVE  Fields!Parsed(kind, payload) = Fields!Meant(kind, fields)
  <2>1. /\ kind \in Fields!Kinds /\ fields \in Fields!Structs[kind]
        /\ payload = Fields!Written(kind, Fields!Prepared(kind, fields))
    BY <1>3 DEF FieldsInv
  <2>2. \A f \in Fields!Names(kind) :
            Fields!Taken(kind, f, payload) = Fields!Meant(kind, fields)[f]
    BY <2>1, FieldBack
  <2> QED
    BY <2>2 DEF Fields!Parsed, Fields!Meant
<1>4. CASE Fields!Parse
  BY <1>3, <1>4 DEF Fields!Parse, FieldsInv
<1>5. CASE Fields!ParseReport
  <2>1. step = "created" /\ UNCHANGED <<kind, fields, payload>>
    BY <1>5 DEF Fields!ParseReport
  <2>2. \/ step' = "parsed" /\ parsed' = Fields!Parsed(kind, payload)
        \/ step' = "refused"
    BY <1>5 DEF Fields!ParseReport
  <2> QED
    BY <1>3, <2>1, <2>2 DEF FieldsInv
<1>6. CASE Fields!Again
  BY <1>6 DEF Fields!Again, FieldsInv
<1>7. CASE UNCHANGED fieldsVars
  BY <1>7 DEF fieldsVars, FieldsInv
<1> QED
  BY <1>1, <1>2, <1>4, <1>5, <1>6, <1>7 DEF Fields!Next

\* Every field of every packet arrives as it was meant, for all values of 8 and of 16
\* bits (Packet.h:244-398, PacketHandler.cpp:103).
THEOREM FieldsArrive == Spec => []FieldsSurvive
<1>1. Fields!FieldAssumption
  BY PartsAssumption
<1>2. FieldsInv /\ [Next]_vars => FieldsInv'
  BY <1>1, FieldsStep
<1>3. FieldsInv => FieldsSurvive
  BY DEF FieldsInv, FieldsSurvive, Fields!FieldsSurvive
<1> QED
  BY <1>2, <1>3, FieldsInit, PTL DEF Spec

-----------------------------------------------------------------------------
(* PacketCodec: see PacketCodecProofs *)

CodecProof == INSTANCE PacketCodecProofs WITH
    pc <- codecPc, packet <- codecPacket, buf <- codecBuf, len <- codecLen, i <- codecI,
    sec <- codecSec

\* The instance of the proofs is the instance of Parts.
LEMMA SameCodecNext == Codec!Next <=> CodecProof!Next
  BY DEF Codec!Next, CodecProof!Next, Codec!Create, CodecProof!Create,
         Codec!ReceiveFrame, CodecProof!ReceiveFrame, Codec!ReceiveNoise,
         CodecProof!ReceiveNoise, Codec!Receive, CodecProof!Receive, Codec!TooShort,
         CodecProof!TooShort, Codec!Loop, CodecProof!Loop, Codec!EncodeByte,
         CodecProof!EncodeByte, Codec!EncodeEnd, CodecProof!EncodeEnd,
         Codec!DecodeInSection, CodecProof!DecodeInSection, Codec!DecodeSectionEnd,
         CodecProof!DecodeSectionEnd, Codec!DecodeEnd, CodecProof!DecodeEnd,
         Codec!CheckHeader, CodecProof!CheckHeader, Codec!Done, CodecProof!Done,
         Codec!Advance, CodecProof!Advance, Codec!Wrap, CodecProof!Wrap,
         Codec!CloseSection, CodecProof!CloseSection, Codec!NextSection,
         CodecProof!NextSection, Codec!Layout, CodecProof!Layout, Codec!SizeOf,
         CodecProof!SizeOf, Codec!LeastBuffer, CodecProof!LeastBuffer, Codec!MinSize,
         CodecProof!MinSize, Codec!None, CodecProof!None, Codec!Index, CodecProof!Index,
         Codec!Byte, CodecProof!Byte, Codec!vars, CodecProof!vars

LEMMA SameCodecInv == Codec!CodecInv <=> CodecProof!CodecInv
  BY DEF Codec!CodecInv, CodecProof!CodecInv, Codec!TypeOK, CodecProof!TypeOK,
         Codec!EncodeInv, CodecProof!EncodeInv, Codec!FrameInv, CodecProof!FrameInv,
         Codec!DecodeInv, CodecProof!DecodeInv, Codec!ResultInv, CodecProof!ResultInv,
         Codec!BoundsInv, CodecProof!BoundsInv, Codec!Sent, CodecProof!Sent, Codec!Size,
         CodecProof!Size, Codec!Stuffed, CodecProof!Stuffed, Codec!SizeOf,
         CodecProof!SizeOf, Codec!Layout, CodecProof!Layout, Codec!WellFormed,
         CodecProof!WellFormed, Codec!None, CodecProof!None, Codec!Byte,
         CodecProof!Byte, Codec!Index, CodecProof!Index, Codec!MinSize,
         CodecProof!MinSize

LEMMA SameCodecAssumption == Codec!CodecAssumption <=> CodecProof!CodecAssumption
  BY DEF Codec!CodecAssumption, CodecProof!CodecAssumption, Codec!ByteAssumption,
         CodecProof!ByteAssumption, Codec!PacketAssumption, CodecProof!PacketAssumption,
         Codec!NoiseAssumption, CodecProof!NoiseAssumption, Codec!WellFormed,
         CodecProof!WellFormed, Codec!Byte, CodecProof!Byte

\* The loops of encodeCOBS and decodeCOBS keep CodecInv, for every packet that fits the
\* buffer and the counters, every datagram and all left-over bytes (Packet.h:93, 117).
THEOREM CodecInvariance == Spec => []CodecInv
<1>1. CodecProof!CodecAssumption
  BY PartsAssumption, SameCodecAssumption
<1>2. Init => CodecProof!CodecInv
  <2>1. Init => CodecProof!Init
    BY DEF Init, Codec!Init, CodecProof!Init, Codec!None, CodecProof!None, Codec!Index,
           CodecProof!Index
  <2> QED
    BY <1>1, <2>1, CodecProof!InitInv DEF CodecProof!CodecAssumption
<1>3. CodecProof!CodecInv /\ [Next]_vars => CodecProof!CodecInv'
  <2>1. [Next]_vars => [CodecProof!Next]_(CodecProof!vars)
    BY StepOfOne, SameCodecNext DEF codecVars, CodecProof!vars
  <2> QED
    BY <1>1, <2>1, CodecProof!CodecStep
<1>4. CodecProof!CodecInv => CodecInv
  BY SameCodecInv DEF CodecInv
<1> QED
  BY <1>2, <1>3, <1>4, PTL DEF Spec

\* For every packet, the only zero of its frame is the last byte (Packet.h:93).
THEOREM OneDelimiter == Spec => []FrameHasOneDelimiter
<1>1. CodecInv => FrameHasOneDelimiter
  BY PartsAssumption, SameCodecAssumption, SameCodecInv, CodecProof!StuffedHasOneZero
     DEF CodecInv, FrameHasOneDelimiter, Codec!FrameHasOneDelimiter,
         CodecProof!FrameHasOneDelimiter, Codec!SizeOf, CodecProof!SizeOf,
         Codec!MinSize, CodecProof!MinSize
<1> QED
  BY <1>1, CodecInvariance, PTL

\* Every packet is accepted with the opcode, payload and length it was made with,
\* whatever the read buffer held (Packet.h:117, 155).
THEOREM FramingLosesNothing == Spec => []RoundTrip
<1>1. CodecInv => RoundTrip
  BY PartsAssumption, SameCodecAssumption, SameCodecInv, CodecProof!DecodedIsSent
     DEF CodecInv, RoundTrip, Codec!RoundTrip, CodecProof!RoundTrip, Codec!SizeOf,
         CodecProof!SizeOf, Codec!MinSize, CodecProof!MinSize, Codec!None, CodecProof!None,
         Codec!Opcode, CodecProof!Opcode, Codec!Payload, CodecProof!Payload
<1> QED
  BY <1>1, CodecInvariance, PTL

\* Noise included, nothing outside the datagram is read or written (Packet.h:117, 165).
THEOREM ReadsStayInside == Spec => []ReadsInside
<1>1. CodecInv => ReadsInside
  BY PartsAssumption, SameCodecAssumption, SameCodecInv, CodecProof!DecodedInside
     DEF CodecInv, ReadsInside, Codec!ReadsInside, CodecProof!ReadsInside
<1> QED
  BY <1>1, CodecInvariance, PTL

-----------------------------------------------------------------------------
(* WorkerPool: see WorkerPoolProofs *)

PoolProof == INSTANCE WorkerPoolProofs WITH pc <- workerPc

LEMMA PoolStarts ==
    ASSUME Pool!PoolAssumption
    PROVE  Init => PoolProof!PoolInv
<1>1. PoolProof!PoolAssumption
  BY DEF Pool!PoolAssumption, PoolProof!PoolAssumption
<1>2. Init => PoolProof!Init
  BY DEF Init, Pool!Init, PoolProof!Init, Pool!Threads, PoolProof!Threads, Pool!Slots,
         PoolProof!Slots, Pool!Tasks, PoolProof!Tasks, Pool!Null, PoolProof!Null
<1> QED
  BY <1>1, <1>2, PoolProof!PoolInit

\* The instance of the proofs is the instance of Parts.
LEMMA SamePool == Pool!Next <=> PoolProof!Next
  BY DEF Pool!Next, PoolProof!Next, Pool!Caller, PoolProof!Caller, Pool!Inside,
         PoolProof!Inside, Pool!Worker, PoolProof!Worker, Pool!Park, PoolProof!Park,
         Pool!Take, PoolProof!Take, Pool!ReadTask, PoolProof!ReadTask, Pool!Finish,
         PoolProof!Finish, Pool!Task, PoolProof!Task, Pool!Create, PoolProof!Create,
         Pool!Push, PoolProof!Push, Pool!AddTask, PoolProof!AddTask, Pool!Begin,
         PoolProof!Begin, Pool!WaitOrGo, PoolProof!WaitOrGo, Pool!Start,
         PoolProof!Start, Pool!Wake, PoolProof!Wake, Pool!Rewind, PoolProof!Rewind,
         Pool!Clear, PoolProof!Clear, Pool!RunSingle, PoolProof!RunSingle,
         Pool!Destroy, PoolProof!Destroy, Pool!AddExit, PoolProof!AddExit,
         Pool!StartExit, PoolProof!StartExit, Pool!Join, PoolProof!Join, Pool!CallerAt,
         PoolProof!CallerAt, Pool!CallerTo, PoolProof!CallerTo, Pool!WorkerTo,
         PoolProof!WorkerTo, Pool!BeginLost, PoolProof!BeginLost, Pool!FirstAlloc,
         PoolProof!FirstAlloc, Pool!Broadcast, PoolProof!Broadcast, Pool!Workers, PoolProof!Workers, Pool!Threads,
         PoolProof!Threads, Pool!Tasks, PoolProof!Tasks, Pool!Slots, PoolProof!Slots,
         Pool!Null, PoolProof!Null, Pool!pool, PoolProof!pool

LEMMA PoolMoves ==
    ASSUME Pool!PoolAssumption, PoolProof!PoolInv, [Next]_vars
    PROVE  PoolProof!PoolInv' /\ (crossed => crossed')
<1>1. PoolProof!PoolAssumption
  BY DEF Pool!PoolAssumption, PoolProof!PoolAssumption
<1>2. [PoolProof!Next]_PoolProof!vars
  BY StepOfOne, SamePool DEF poolVars, PoolProof!vars, PoolProof!pool
<1> QED
  BY <1>1, <1>2, PoolProof!PoolStep, PoolProof!CrossedStays

\* The list, the caller and what was done stay as they are while a worker parks, takes a
\* task or reads it: that a worker does either is nothing to the caller.
LEMMA BatchWorker ==
    ASSUME Pool!PoolAssumption, PoolProof!Uncrossed, NEW w \in Pool!Threads, Pool!Worker(w)
    PROVE  Batch!Next \/ UNCHANGED Batch!bvars
<1> USE DEF Pool!WorkerTo, Pool!pool
<1>1. CASE Pool!Park(w)
  BY <1>1 DEF Pool!Park, Batch!bvars
<1>2. CASE Pool!Take(w)
  BY <1>2 DEF Pool!Take, Batch!bvars
<1>3. CASE Pool!ReadTask(w)
  BY <1>3 DEF Pool!ReadTask, Batch!bvars
<1>4. CASE Pool!Finish(w)
  <2>1. /\ workerPc[w] = "busy"
        /\ done' = [done EXCEPT ![slots[slot[w]]] = @ + 1]
        /\ UNCHANGED <<caller, size, taskspos, slots>>
    BY <1>4 DEF Pool!Finish, Pool!Task
  <2>2. /\ w \in PoolProof!Workers
        /\ caller \in {"idle", "start", "asleep", "woken"} /\ PoolProof!Taking
        /\ MaxTasks \in Nat /\ taskspos \in Nat /\ size \in Nat
    BY <2>1 DEF PoolProof!Uncrossed, PoolProof!TypeInv, PoolProof!AllWaiting,
                PoolProof!Stopping, PoolProof!Running, PoolProof!Workers,
                PoolProof!Threads, Pool!Threads, Pool!PoolAssumption
  <2>3. PICK t \in 1 .. MaxTasks : t <= size /\ slots[slot[w]] = t /\ slot[w] = t
    BY <2>1, <2>2 DEF PoolProof!Taking, PoolProof!Listed, PoolProof!Holds
  <2>4. done[t] = 0
    BY <2>1, <2>2, <2>3 DEF PoolProof!Taking, PoolProof!Holds, PoolProof!Tasks
  <2>5. Batch!CarryOut(t) /\ t \in Batch!Listed
    BY <2>1, <2>2, <2>3, <2>4 DEF Batch!CarryOut, Batch!Listed
  <2> QED
    BY <2>5 DEF Batch!Next
<1> QED
  BY <1>1, <1>2, <1>3, <1>4 DEF Pool!Worker

\* A step of the caller is a step of Batches or of no account to it.
LEMMA BatchCaller ==
    ASSUME Pool!PoolAssumption, PoolProof!Uncrossed, PoolProof!Uncrossed', ~crossed',
           Pool!Caller
    PROVE  Batch!Next \/ UNCHANGED Batch!bvars
<1> USE DEF Pool!CallerAt, Pool!CallerTo, Pool!pool
<1>a. /\ MaxTasks \in Nat /\ size \in Nat /\ Pool!Tasks = 1 .. MaxTasks
      /\ PoolProof!Tasks = 1 .. MaxTasks /\ done \in [1 .. MaxTasks -> Nat]
  BY DEF PoolProof!Uncrossed, PoolProof!TypeInv, PoolProof!Tasks, Pool!Tasks,
         Pool!PoolAssumption
<1>b. /\ caller \in {"rewind", "clear"} => done = Batch!Complete
  BY <1>a DEF PoolProof!Uncrossed, PoolProof!AllDone, Batch!Complete, Batch!Listed
<1>1. ASSUME NEW n \in Pool!Threads, Pool!Create(n)
      PROVE  UNCHANGED Batch!bvars
  BY <1>1 DEF Pool!Create, Batch!bvars
<1>2. CASE Pool!AddTask
  BY <1>2, <1>a DEF Pool!AddTask, Pool!Push, Batch!Next, Batch!Collect
<1>3. CASE Pool!Begin
  BY <1>3 DEF Pool!Begin, Batch!Next, Batch!Begin
<1>4. CASE Pool!Start
  <2>1. caller = "start" /\ caller' = "asleep" /\ UNCHANGED <<size, done>>
    BY <1>4 DEF Pool!Start, Pool!WaitOrGo, PoolProof!Uncrossed, PoolProof!TypeInv,
                PoolProof!Threads, PoolProof!Taking
  <2> QED
    BY <2>1 DEF Batch!bvars
<1>5. CASE Pool!Wake
  <2>1. caller = "woken" /\ caller' \in {"asleep", "rewind"} /\ UNCHANGED <<size, done>>
    BY <1>5 DEF Pool!Wake, Pool!WaitOrGo
  <2>2. CASE caller' = "asleep"
    BY <2>1, <2>2 DEF Batch!bvars
  <2>3. CASE caller' = "rewind"
    <3>1. \A t \in 1 .. MaxTasks : done[t] = IF t <= size THEN 1 ELSE 0
      BY <1>a, <2>1, <2>3 DEF PoolProof!Uncrossed, PoolProof!AllDone, PoolProof!Tasks
    <3>2. done = Batch!Complete
      BY <1>a, <2>1, <3>1 DEF Batch!Complete, Batch!Listed
    <3> QED
      BY <2>1, <2>3, <3>2 DEF Batch!Next, Batch!LetGo
  <2> QED
    BY <2>1, <2>2, <2>3
<1>6. CASE Pool!Rewind
  BY <1>6 DEF Pool!Rewind, Batch!bvars
<1>7. CASE Pool!Clear
  BY <1>7, <1>a DEF Pool!Clear, Batch!Next, Batch!Forget, Batch!Undone
<1>8. CASE Pool!RunSingle
  <2>3. /\ caller = "idle" /\ nthreads = 1 /\ caller' = "clear" /\ size' = size
        /\ done' = [t \in 1 .. MaxTasks |-> IF t <= size THEN done[t] + 1 ELSE done[t]]
    BY <1>8, <1>a DEF Pool!RunSingle
  <2>4. \A t \in 1 .. MaxTasks : done[t] = 0
    <3>1. ~PoolProof!Taking
      BY <2>3 DEF PoolProof!Taking
    <3>2. PoolProof!NoneDone
      BY <2>3, <3>1 DEF PoolProof!Uncrossed
    <3> QED
      BY <1>a, <3>2 DEF PoolProof!NoneDone
  <2>1. /\ caller = "idle" /\ caller' = "clear" /\ size' = size
        /\ done' = [t \in 1 .. MaxTasks |-> IF t <= size THEN 1 ELSE 0]
    <3>1. ASSUME NEW t \in 1 .. MaxTasks
          PROVE  (IF t <= size THEN done[t] + 1 ELSE done[t]) = (IF t <= size THEN 1 ELSE 0)
      BY <2>4
    <3>2. [t \in 1 .. MaxTasks |-> IF t <= size THEN done[t] + 1 ELSE done[t]]
          = [t \in 1 .. MaxTasks |-> IF t <= size THEN 1 ELSE 0]
      BY <3>1, Zenon
    <3> QED
      BY <2>3, <3>2
  <2>2. done' = Batch!Complete
    BY <2>1 DEF Batch!Complete, Batch!Listed
  <2> QED
    BY <2>1, <2>2 DEF Batch!Next, Batch!AtOnce
<1>9. CASE Pool!Destroy
  BY <1>9 DEF Pool!Destroy, Batch!bvars
<1>10. CASE Pool!AddExit
  BY <1>10 DEF Pool!AddExit, Pool!Push, Batch!bvars
<1>11. CASE Pool!StartExit
  BY <1>11 DEF Pool!StartExit, Batch!bvars
<1>12. CASE Pool!Join
  BY <1>12 DEF Pool!Join, Batch!bvars
<1>13. ASSUME NEW w \in Pool!Threads, Pool!BeginLost(w)
       PROVE  FALSE
  BY <1>13 DEF Pool!BeginLost
<1> QED
  BY <1>1, <1>2, <1>3, <1>4, <1>5, <1>6, <1>7, <1>8, <1>9, <1>10, <1>11, <1>12, <1>13
     DEF Pool!Caller, Pool!Inside

\* For any number of threads and tasks the pool implements Batches, which has no threads,
\* in every step in which no thread has crossed the caller: each task of a list is carried
\* out once, and the caller is let go only when all are done (workerpool.c:67-101,
\* 182-205).  The threads may reach the pool as late as they like and take tasks that the
\* caller has only just added.
THEOREM ImplementsBatches == Spec => RunsAreBatches
<1>1. Pool!PoolAssumption
  BY PartsAssumption
<1>2. Init => PoolProof!PoolInv /\ Batch!Init
  <2>1. Init => Batch!Init
    BY DEF Init, Pool!Init, Pool!Tasks, Batch!Init, Batch!Undone
  <2> QED
    BY <1>1, <2>1, PoolStarts
<1>3. PoolProof!PoolInv /\ [Next]_vars => PoolProof!PoolInv'
  BY <1>1, PoolMoves
<1>4. PoolProof!PoolInv /\ PoolProof!PoolInv' /\ [Next]_vars
      => [~crossed' => Batch!Next]_(Batch!bvars)
  <2>1. SUFFICES ASSUME PoolProof!PoolInv, PoolProof!PoolInv', [Next]_vars, ~crossed'
                 PROVE  Batch!Next \/ UNCHANGED Batch!bvars
    OBVIOUS
  <2>2. PoolProof!Uncrossed /\ PoolProof!Uncrossed'
    BY <1>1, <2>1, PoolMoves DEF PoolProof!PoolInv
  <2>3. CASE UNCHANGED poolVars
    BY <2>3 DEF poolVars, Batch!bvars
  <2>4. CASE Pool!Next
    BY <1>1, <2>1, <2>2, <2>4, BatchWorker, BatchCaller DEF Pool!Next
  <2> QED
    BY <2>1, <2>3, <2>4, StepOfOne
<1> QED
  BY <1>2, <1>3, <1>4, PTL DEF Spec, RunsAreBatches

-----------------------------------------------------------------------------
(* Chunks, and what the tasks of Detector touch *)

LEMMA DivMod ==
    ASSUME NEW y \in Nat, NEW c \in Nat \ {0}
    PROVE  /\ y \div c \in Nat /\ y % c \in 0 .. c - 1
           /\ y = c * (y \div c) + (y % c)
  OBVIOUS

\* Of two multiples of c the greater is c at least above the other.
LEMMA Apart ==
    ASSUME NEW c \in Nat \ {0}, NEW k \in Nat, NEW l \in Nat, k < l
    PROVE  k * c + c <= l * c /\ k * c \in Nat /\ l * c \in Nat
<1>1. PICK d \in Nat : l = k + 1 + d
  <2>1. l - k - 1 \in Nat /\ l = k + 1 + (l - k - 1)
    OBVIOUS
  <2> QED
    BY <2>1
<1>2. l * c = k * c + c + d * c
  BY <1>1
<1>3. d * c \in Nat /\ k * c \in Nat /\ l * c \in Nat
  OBVIOUS
<1> QED
  BY <1>2, <1>3

\* A number belongs to one chunk.
LEMMA OneChunk ==
    ASSUME NEW c \in Nat \ {0}, NEW y \in Nat, NEW k \in Nat
    PROVE  k * c <= y /\ y < k * c + c <=> k = y \div c
<1>1. /\ y \div c \in Nat /\ y % c \in 0 .. c - 1
      /\ y = c * (y \div c) + (y % c)
  BY DivMod
<1> DEFINE q == y \div c
<1>2. c * q = q * c /\ q * c \in Nat /\ k * c \in Nat
  BY <1>1
<1>3. ASSUME k < q PROVE ~(y < k * c + c)
  <2>1. k * c + c <= q * c
    BY <1>1, <1>3, Apart
  <2> QED
    BY <1>1, <1>2, <2>1
<1>4. ASSUME q < k PROVE ~(k * c <= y)
  <2>1. q * c + c <= k * c
    BY <1>1, <1>4, Apart
  <2> QED
    BY <1>1, <1>2, <2>1
<1>5. ASSUME k = q PROVE k * c <= y /\ y < k * c + c
  BY <1>1, <1>2, <1>5
<1> QED
  BY <1>1, <1>3, <1>4, <1>5

\* How many chunks there are.
LEMMA LastChunk ==
    ASSUME NEW c \in Nat \ {0}, NEW sz \in Nat \ {0}
    PROVE  LET n == (sz + c - 1) \div c IN
           /\ n \in Nat \ {0}
           /\ (n - 1) * c < sz /\ sz <= n * c
           /\ sz % c = 0 <=> sz = n * c
<1> DEFINE n == (sz + c - 1) \div c
           m == (sz + c - 1) % c
<1>1. sz + c - 1 \in Nat
  OBVIOUS
<1>2. n \in Nat /\ m \in 0 .. c - 1 /\ sz + c - 1 = c * n + m
  BY <1>1, DivMod
<1> HIDE DEF n, m
<1>3. c * n = n * c /\ (n - 1) * c = n * c - c /\ n * c \in Int
  BY <1>2
<1>4. n # 0
  <2>1. n = 0 => n * c = 0
    OBVIOUS
  <2> QED
    BY <1>2, <1>3, <2>1
<1>5. (n - 1) * c < sz /\ sz <= n * c
  BY <1>2, <1>3
<1>6. /\ sz \div c \in Nat /\ sz % c \in 0 .. c - 1
      /\ sz = c * (sz \div c) + (sz % c)
  BY DivMod
<1>7. ASSUME sz % c = 0 PROVE sz = n * c
  <2>1. sz = (sz \div c) * c
    BY <1>6, <1>7
  <2>2. ~(sz \div c < n)
    <3>1. ASSUME sz \div c < n PROVE FALSE
      <4>1. sz \div c <= n - 1 /\ n - 1 \in Nat
        BY <1>2, <1>6, <3>1
      <4>2. (sz \div c) * c <= (n - 1) * c
        <5>1. CASE sz \div c = n - 1
          BY <5>1
        <5>2. CASE sz \div c < n - 1
          BY <1>6, <4>1, <5>2, Apart
        <5> QED
          BY <1>6, <4>1, <5>1, <5>2
      <4> QED
        BY <1>5, <1>3, <2>1, <4>2
    <3> QED
      BY <3>1
  <2>3. ~(n < sz \div c)
    <3>1. ASSUME n < sz \div c PROVE FALSE
      <4>1. n * c + c <= (sz \div c) * c
        BY <1>2, <1>6, <3>1, Apart
      <4> QED
        BY <1>3, <1>5, <2>1, <4>1
    <3> QED
      BY <3>1
  <2> QED
    BY <1>2, <1>6, <2>1, <2>2, <2>3
<1>8. ASSUME sz = n * c PROVE sz % c = 0
  <2>1. sz \div c = n
    <3>1. n * c <= sz /\ sz < n * c + c
      BY <1>3, <1>8
    <3> QED
      BY <1>2, <3>1, OneChunk
  <2>2. sz = c * n + (sz % c)
    BY <1>6, <2>1
  <2>3. sz = c * n
    BY <1>3, <1>8
  <2> DEFINE s == sz % c
  <2>4. s \in Nat /\ sz = c * n + s
    BY <1>6, <2>2
  <2> HIDE DEF s
  <2>5. s = 0
    BY <2>3, <2>4
  <2> QED
    BY <2>5 DEF s
<1> QED
  BY <1>2, <1>4, <1>5, <1>7, <1>8 DEF n

\* For as many tasks as there are chunks of sz for m threads.
ChunksOK(sz, m) ==
    sz \in Nat \ {0} /\ m \in Nat \ {0} /\ Pool!ChunkSize(sz, m) \in Nat \ {0}

LEMMA ChunkSizeOK ==
    ASSUME Target \in Nat \ {0}, NEW sz \in Nat \ {0}, NEW m \in Nat \ {0}
    PROVE  ChunksOK(sz, m)
<1>1. sz \in Nat \ {0} /\ Target * m \in Nat \ {0}
  <2>1. Target * m \in Nat /\ Target * m >= 1
    <3>1. PICK t \in Nat : Target = 1 + t
      <4>1. Target - 1 \in Nat /\ Target = 1 + (Target - 1)
        OBVIOUS
      <4> QED
        BY <4>1
    <3>2. Target * m = m + t * m /\ t * m \in Nat
      BY <3>1
    <3> QED
      BY <3>2
  <2> QED
    BY <2>1
<1>2. sz \div (Target * m) \in Nat
  BY <1>1, DivMod
<1> QED
  BY <1>1, <1>2 DEF ChunksOK, Pool!ChunkSize

\* The rows that two tasks write lie in chunks of their own.
LEMMA RowsApart ==
    ASSUME NEW sz, ChunksOK(sz, nthreads), NEW k \in Nat \ {0}, NEW l \in Nat \ {0}, k # l
    PROVE  Pool!Rows(sz, k) \cap Pool!Rows(sz, l) = {}
<1> DEFINE c == Pool!ChunkSize(sz, nthreads)
<1>1. c \in Nat \ {0} /\ sz \in Nat \ {0}
  BY DEF ChunksOK
<1>2. ASSUME NEW m \in Nat \ {0}, NEW y \in Pool!Rows(sz, m)
      PROVE  y \in Nat /\ y \div c = m - 1
  <2> DEFINE a == (m - 1) * c
  <2>1. a \in Nat
    BY <1>1
  <2> HIDE DEF a
  <2>2. Pool!Lines(sz, nthreads, m) = a .. Pool!AfterLine(sz, nthreads, m) - 1
    BY DEF Pool!Lines, Pool!First, a
  <2>3. Pool!AfterLine(sz, nthreads, m) \in Int /\ Pool!AfterLine(sz, nthreads, m) <= a + c - 1
    BY <1>1, <2>1 DEF Pool!AfterLine, Pool!First, Pool!Least, a
  <2>4. y \in Nat /\ a <= y /\ y < a + c
    <3>1. y \in Pool!Lines(sz, nthreads, m) \/ \E z \in Pool!Lines(sz, nthreads, m) : y = z + 1
      BY <1>2 DEF Pool!Rows
    <3> HIDE DEF c
    <3> QED
      BY <1>1, <2>1, <2>2, <2>3, <3>1
  <2>5. m - 1 \in Nat
    OBVIOUS
  <2> HIDE DEF c
  <2> QED
    BY <1>1, <2>4, <2>5, OneChunk DEF a
<1>3. ASSUME NEW y \in Pool!Rows(sz, k), y \in Pool!Rows(sz, l) PROVE FALSE
  <2>1. y \div c = k - 1 /\ y \div c = l - 1
    BY <1>2, <1>3
  <2> QED
    BY <2>1
<1> QED
  BY <1>3

\* Which task has item y, which one connects line y, and when nobody does.
LEMMA WhoHas ==
    ASSUME NEW sz, NEW m, ChunksOK(sz, m), NEW y \in 0 .. sz - 1
    PROVE  LET n == Pool!NTasks(sz, m)
               left == Pool!Stitched(sz, m) \cup Pool!Forgotten(sz, m) IN
           \E q \in 1 .. n :
               /\ \A k \in 1 .. n : y \in Pool!Items(sz, m, k) <=> k = q
               /\ \A k \in 1 .. n :
                      y \in Pool!Lines(sz, m, k) <=> k = q /\ y \notin left
<1> DEFINE c == Pool!ChunkSize(sz, m)
           n == Pool!NTasks(sz, m)
           q == 1 + (y \div c)
           a(k) == (k - 1) * c
           left == Pool!Stitched(sz, m) \cup Pool!Forgotten(sz, m)
<1>1. c \in Nat \ {0} /\ sz \in Nat \ {0} /\ y \in Nat /\ y < sz
  BY DEF ChunksOK
<1>2. n = (sz + c - 1) \div c
  BY DEF Pool!NTasks
<1>3. \A k \in 1 .. n : Pool!First(sz, m, k) = a(k)
  BY DEF Pool!First
<1>i. \A k \in 1 .. n : Pool!Items(sz, m, k) = a(k) .. Pool!Least(sz, a(k) + c) - 1
  BY DEF Pool!Items, Pool!First
<1>l. \A k \in 1 .. n : /\ Pool!Lines(sz, m, k) = a(k) .. Pool!AfterLine(sz, m, k) - 1
                         /\ Pool!AfterLine(sz, m, k) = Pool!Least(sz, a(k) + c - 1)
  BY DEF Pool!Lines, Pool!AfterLine, Pool!First
<1>s. Pool!Stitched(sz, m) = {Pool!AfterLine(sz, m, k) : k \in 1 .. n - 1}
  BY DEF Pool!Stitched
<1>f. Pool!Forgotten(sz, m) = IF sz % c = 0 THEN {sz - 1} ELSE {}
  BY DEF Pool!Forgotten
<1> HIDE DEF c, n
<1>4. n \in Nat \ {0} /\ (n - 1) * c < sz /\ sz <= n * c /\ (sz % c = 0 <=> sz = n * c)
  BY <1>1, <1>2, LastChunk
<1>5. \A k \in Nat \ {0} : a(k) \in Nat /\ a(k + 1) = a(k) + c
  BY <1>1
<1>6. \A k \in Nat \ {0} : a(k) <= y /\ y < a(k) + c <=> k = q
  <2>1. ASSUME NEW k \in Nat \ {0}
        PROVE  a(k) <= y /\ y < a(k) + c <=> k = q
    <3>1. k - 1 \in Nat /\ y \div c \in Nat
      BY <1>1, DivMod
    <3>2. (k - 1) * c <= y /\ y < (k - 1) * c + c <=> k - 1 = y \div c
      BY <1>1, <3>1, OneChunk
    <3> QED
      BY <3>1, <3>2
  <2> QED
    BY <2>1
<1>7. q \in Nat \ {0}
  BY <1>1, DivMod
<1>8. a(n) < sz /\ sz <= a(n) + c /\ (sz % c = 0 <=> sz = a(n) + c)
  <2>1. n * c = (n - 1) * c + c
    BY <1>1, <1>4
  <2> QED
    BY <1>4, <2>1
<1>9. \A k, l \in Nat \ {0} : k < l => a(k) + c <= a(l)
  <2>1. ASSUME NEW k \in Nat \ {0}, NEW l \in Nat \ {0}, k < l PROVE a(k) + c <= a(l)
    <3>1. k - 1 \in Nat /\ l - 1 \in Nat /\ k - 1 < l - 1
      BY <2>1
    <3> QED
      BY <1>1, <3>1, Apart
  <2> QED
    BY <2>1
<1> HIDE DEF a, q
<1>10. a(q) <= y /\ y < a(q) + c
  BY <1>6, <1>7
<1>11. q \in 1 .. n
  <2>1. ~(n < q)
    <3>1. ASSUME n < q PROVE FALSE
      <4>1. a(n) + c <= a(q)
        BY <1>4, <1>7, <1>9, <3>1
      <4> QED
        BY <1>1, <1>4, <1>5, <1>7, <1>8, <1>10, <4>1
    <3> QED
      BY <3>1
  <2> QED
    BY <1>4, <1>7, <2>1
<1>12. ASSUME NEW k \in 1 .. n
       PROVE  y \in Pool!Items(sz, m, k) <=> k = q
  <2>1. k \in Nat \ {0} /\ a(k) \in Nat
    BY <1>4, <1>5
  <2>2. y \in Pool!Items(sz, m, k) <=> a(k) <= y /\ y < a(k) + c
    BY <1>1, <1>i, <2>1 DEF Pool!Least
  <2> QED
    BY <1>6, <2>1, <2>2
\* The end of its chunk is the line that task q leaves.
<1>13. y \in left <=> y = a(q) + c - 1
  <2>1. \A k \in 1 .. n - 1 : Pool!AfterLine(sz, m, k) = a(k) + c - 1
    <3>1. ASSUME NEW k \in 1 .. n - 1
          PROVE  Pool!AfterLine(sz, m, k) = a(k) + c - 1
      <4>1. k \in Nat \ {0} /\ n \in Nat \ {0} /\ k < n /\ k \in 1 .. n
        BY <1>4
      <4>2. a(k) + c <= a(n) /\ a(k) \in Nat /\ a(n) \in Nat
        BY <1>5, <1>9, <4>1
      <4> QED
        BY <1>1, <1>8, <1>l, <4>1, <4>2 DEF Pool!Least
    <3> QED
      BY <3>1
  <2>2. ASSUME NEW k \in Nat \ {0}, y = a(k) + c - 1 PROVE k = q
    BY <1>1, <1>5, <1>6, <2>2
  <2>3. ASSUME y \in Pool!Stitched(sz, m) PROVE y = a(q) + c - 1
    <3>1. PICK k \in 1 .. n - 1 : y = Pool!AfterLine(sz, m, k)
      BY <1>s, <2>3
    <3>2. k \in Nat \ {0} /\ y = a(k) + c - 1
      BY <1>4, <2>1, <3>1
    <3> QED
      BY <2>2, <3>2
  <2>4. ASSUME y \in Pool!Forgotten(sz, m) PROVE y = a(q) + c - 1
    <3>1. sz % c = 0 /\ y = sz - 1
      BY <1>f, <2>4
    <3>2. sz = a(n) + c
      BY <1>8, <3>1
    <3>3. y = a(n) + c - 1
      BY <1>1, <1>4, <1>5, <3>1, <3>2
    <3> QED
      BY <1>4, <2>2, <3>3
  <2>5. ASSUME y = a(q) + c - 1 PROVE y \in left
    <3>1. CASE q = n
      <4>1. y = sz - 1 /\ sz % c = 0
        BY <1>1, <1>4, <1>5, <1>8, <2>5, <3>1
      <4> QED
        BY <1>f, <4>1
    <3>2. CASE q # n
      <4>1. q \in 1 .. n - 1
        BY <1>4, <1>11, <3>2
      <4> QED
        BY <1>s, <2>1, <2>5, <4>1
    <3> QED
      BY <3>1, <3>2
  <2> QED
    BY <2>3, <2>4, <2>5
<1>14. ASSUME NEW k \in 1 .. n
       PROVE  y \in Pool!Lines(sz, m, k) <=> k = q /\ y \notin left
  <2>1. k \in Nat \ {0} /\ a(k) \in Nat
    BY <1>4, <1>5
  <2>2. y \in Pool!Lines(sz, m, k) <=> a(k) <= y /\ y < a(k) + c - 1
    BY <1>1, <1>l, <2>1 DEF Pool!Least
  <2>3. ASSUME a(k) <= y, y < a(k) + c - 1 PROVE k = q /\ y # a(q) + c - 1
    BY <1>1, <1>6, <2>1, <2>3
  <2>4. ASSUME k = q, y # a(q) + c - 1 PROVE a(k) <= y /\ y < a(k) + c - 1
    BY <1>1, <1>10, <2>1, <2>4
  <2> QED
    BY <1>13, <2>2, <2>3, <2>4
<1> HIDE DEF left
<1> QED
  BY <1>11, <1>12, <1>14 DEF n, left

\* Tasks that run at once write no row of the image both, and every line, cluster and
\* quad is in one task that has run once, or is one of the lines in between: for any
\* number of threads and tasks, and any sizes (apriltag_quad_thresh.c:1533-1563).
THEOREM TasksApart == Spec => []TasksDoNotMeet
<1>1. Pool!PoolAssumption /\ Pool!ChunkAssumption
  BY PartsAssumption
<1>2. Init => PoolProof!PoolInv
  BY <1>1, PoolStarts
<1>3. PoolProof!PoolInv /\ [Next]_vars => PoolProof!PoolInv'
  BY <1>1, PoolMoves
<1>4. PoolProof!PoolInv => TasksDoNotMeet
  <2> SUFFICES ASSUME PoolProof!PoolInv PROVE Pool!TasksDoNotMeet
    BY DEF TasksDoNotMeet
  <2> SUFFICES ASSUME NEW sz \in Sizes, ~crossed, nthreads > 1,
                      size = Pool!NTasks(sz, nthreads), caller # "stop"
               PROVE  /\ \A v, w \in Pool!Workers :
                             v # w /\ workerPc[v] = "busy" /\ workerPc[w] = "busy" =>
                                 Pool!Rows(sz, Pool!Task(v)) \cap Pool!Rows(sz, Pool!Task(w)) = {}
                      /\ caller = "rewind" => \A y \in 0 .. sz - 1 :
                             /\ IF y \in Pool!Stitched(sz, nthreads)
                                          \cup Pool!Forgotten(sz, nthreads)
                                THEN Pool!Doers(sz, y) = {}
                                ELSE \E k \in 1 .. size : Pool!Doers(sz, y) = {k}
                             /\ \E k \in 1 .. size : Pool!Holders(sz, y) = {k}
    BY Zenon DEF Pool!TasksDoNotMeet
  <2>6. PoolProof!Uncrossed
    BY DEF PoolProof!PoolInv
  <2>1. PoolProof!TypeInv /\ PoolProof!Workers = Pool!Workers
    BY <2>6 DEF PoolProof!Uncrossed, PoolProof!Workers, Pool!Workers
  <2>2. nthreads \in Nat \ {0}
    BY <1>1, <2>1 DEF PoolProof!TypeInv, PoolProof!Threads, Pool!PoolAssumption
  <2>3. ChunksOK(sz, nthreads)
    BY <1>1, <2>2, ChunkSizeOK DEF Pool!ChunkAssumption
  <2>4. ASSUME NEW v \in Pool!Workers, NEW w \in Pool!Workers, v # w,
               workerPc[v] = "busy", workerPc[w] = "busy"
        PROVE  Pool!Rows(sz, Pool!Task(v)) \cap Pool!Rows(sz, Pool!Task(w)) = {}
    <3>1. PoolProof!Taking
      <4>1. caller \in {"none", "idle", "start", "asleep", "woken", "rewind", "clear", "stop",
                        "join"}
        BY <2>1 DEF PoolProof!TypeInv
      <4>2. v \in PoolProof!Threads
        BY <2>1, <2>4, <1>1, <2>2 DEF PoolProof!TypeInv, PoolProof!Threads, Pool!Workers,
           Pool!PoolAssumption
      <4> QED
        BY <2>1, <2>2, <2>4, <2>6, <4>1, <4>2 DEF PoolProof!Uncrossed, PoolProof!AllWaiting,
           PoolProof!Stopping, PoolProof!Running
    <3>2. /\ slot[v] \in 1 .. taskspos /\ slot[w] \in 1 .. taskspos /\ slot[v] # slot[w]
          /\ taskspos <= size /\ \A s \in 1 .. size : slots[s] = s
      BY <2>1, <2>4, <3>1 DEF PoolProof!Taking, PoolProof!Holds, PoolProof!Listed
    <3>3. taskspos \in Nat /\ size \in Nat
      BY <2>1 DEF PoolProof!TypeInv
    <3>4. /\ Pool!Task(v) = slot[v] /\ Pool!Task(w) = slot[w]
          /\ slot[v] \in Nat \ {0} /\ slot[w] \in Nat \ {0}
      BY <3>2, <3>3 DEF Pool!Task
    <3> QED
      BY <2>3, <3>2, <3>4, RowsApart
  <2>5. ASSUME caller = "rewind", NEW y \in 0 .. sz - 1
        PROVE  /\ IF y \in Pool!Stitched(sz, nthreads) \cup Pool!Forgotten(sz, nthreads)
                  THEN Pool!Doers(sz, y) = {}
                  ELSE \E k \in 1 .. size : Pool!Doers(sz, y) = {k}
               /\ \E k \in 1 .. size : Pool!Holders(sz, y) = {k}
    <3> DEFINE left == Pool!Stitched(sz, nthreads) \cup Pool!Forgotten(sz, nthreads)
    <3>1. PICK q \in 1 .. size :
              /\ \A k \in 1 .. size : y \in Pool!Items(sz, nthreads, k) <=> k = q
              /\ \A k \in 1 .. size :
                     y \in Pool!Lines(sz, nthreads, k) <=> k = q /\ y \notin left
      BY <2>3, WhoHas
    <3>2. \A k \in 1 .. size : done[k] = 1
      <4>1. PoolProof!AllDone /\ PoolProof!Listed
        BY <2>5, <2>6 DEF PoolProof!Uncrossed
      <4>2. size \in Nat /\ MaxTasks \in Nat
        BY <1>1, <2>1 DEF PoolProof!TypeInv, Pool!PoolAssumption
      <4> QED
        BY <4>1, <4>2 DEF PoolProof!AllDone, PoolProof!Listed, PoolProof!Tasks
    <3> HIDE DEF left
    <3>3. Pool!Holders(sz, y) = {q}
      BY <3>1, <3>2 DEF Pool!Holders
    <3>4. Pool!Doers(sz, y) = IF y \in left THEN {} ELSE {q}
      BY <3>1, <3>2 DEF Pool!Doers
    <3> QED
      BY <3>3, <3>4 DEF left
  <2> QED
    BY <2>4, <2>5
<1> QED
  BY <1>2, <1>3, <1>4, PTL DEF Spec

-----------------------------------------------------------------------------
(* Reconcile *)

Detected == DOMAIN scene.tag
Kept(d) == \E i \in 1 .. Len(detections) : detections[i] = d
Clear(c, d) == scene.tag[c] = scene.tag[d] => {c, d} \notin scene.overlaps

SceneInv ==
    /\ scene.rank \in [Detected -> Int]
    /\ \A d \in Detected : scene.tag[d][1] \in Int
    /\ detections \in Seq(Detected)
    /\ \A i, j \in 1 .. Len(detections) : detections[i] = detections[j] => i = j

\* A detection that is gone gave way to one that overlaps it and is no worse, and for
\* every detection one that is no worse is left.
GoneInv ==
    phase \in {"reconcile", "sort", "done"} =>
        /\ \A d \in Detected : ~Kept(d) =>
               \E c \in Detected \ {d} : Tags!Better(c, d) /\ {c, d} \in scene.overlaps
        /\ \A d \in Detected : \E c \in Detected : Kept(c) /\ Tags!Better(c, d)

\* The pairs that the two loops have seen are clear, whatever was moved since.
LoopInv ==
    /\ phase \in {"none", "detect", "reconcile", "sort", "done"}
    /\ phase = "none" => detections = <<>>
    /\ phase \in {"none", "detect"} => i0 = 1 /\ i1 = 2
    /\ i0 \in Nat \ {0} /\ i1 \in Nat /\ i0 < i1
    /\ phase = "reconcile" =>
           /\ i0 <= Len(detections) \/ (i0 = 1 /\ Len(detections) = 0)
           /\ \A i, j \in 1 .. Len(detections) :
                  i < j /\ (i < i0 \/ (i = i0 /\ j < i1)) => Clear(detections[i], detections[j])
    /\ phase \in {"sort", "done"} =>
           \A i, j \in 1 .. Len(detections) : i # j => Clear(detections[i], detections[j])
    /\ phase = "done" =>
           \A i, j \in 1 .. Len(detections) :
               Tags!ById(detections[i], detections[j]) => i < j

LEMMA RemovedOK ==
    ASSUME SceneInv, NEW r \in 1 .. Len(detections)
    PROVE  LET t == Tags!Removed(r)
               last == Len(detections) IN
           /\ t \in Seq(Detected) /\ Len(t) = last - 1
           /\ \A m \in 1 .. Len(t) : t[m] = detections[IF m = r THEN last ELSE m]
           /\ \A m \in 1 .. Len(t) : t[m] # detections[r]
           /\ \A k \in 1 .. last : k # r => \E m \in 1 .. Len(t) : t[m] = detections[k]
           /\ \A m, k \in 1 .. Len(t) : t[m] = t[k] => m = k
<1> DEFINE t == Tags!Removed(r)
           last == Len(detections)
<1>1. last \in Nat /\ last >= 1
  BY DEF SceneInv
<1>2. t = [j \in 1 .. last - 1 |-> IF j = r THEN detections[last] ELSE detections[j]]
  BY DEF Tags!Removed
<1>3. t \in Seq(Detected) /\ Len(t) = last - 1
  <2>1. \A j \in 1 .. last : detections[j] \in Detected
    BY DEF SceneInv
  <2>2. last - 1 \in Nat
    BY <1>1
  <2> QED
    BY <1>1, <1>2, <2>1, <2>2
<1>4. \A m \in 1 .. Len(t) : t[m] = detections[IF m = r THEN last ELSE m]
  BY <1>2, <1>3
<1>5. \A i, j \in 1 .. last : detections[i] = detections[j] => i = j
  BY DEF SceneInv
<1> HIDE DEF t, last
<1>6. \A m \in 1 .. Len(t) : t[m] # detections[r]
  BY <1>1, <1>3, <1>4, <1>5 DEF last
<1>7. ASSUME NEW k \in 1 .. last, k # r
      PROVE  \E m \in 1 .. Len(t) : t[m] = detections[k]
  <2>1. CASE k = last
    <3>1. r \in 1 .. Len(t)
      BY <1>1, <1>3, <1>7, <2>1 DEF last
    <3> QED
      BY <1>4, <2>1, <3>1
  <2>2. CASE k # last
    <3>1. k \in 1 .. Len(t)
      BY <1>1, <1>3, <2>2
    <3> QED
      BY <1>4, <1>7, <3>1
  <2> QED
    BY <2>1, <2>2
<1>8. \A m, k \in 1 .. Len(t) : t[m] = t[k] => m = k
  BY <1>1, <1>3, <1>4, <1>5 DEF last
<1> QED
  BY <1>3, <1>4, <1>6, <1>7, <1>8 DEF t, last

\* Of two that conflict one gives way to a better one.
LEMMA Drop ==
    ASSUME SceneInv, GoneInv, phase = "reconcile",
           NEW r \in 1 .. Len(detections), NEW k \in 1 .. Len(detections), k # r,
           {detections[k], detections[r]} \in scene.overlaps,
           Tags!Better(detections[k], detections[r]),
           detections' = Tags!Removed(r), UNCHANGED <<scene, phase>>
    PROVE  SceneInv' /\ GoneInv'
<1> DEFINE t == Tags!Removed(r)
           last == Len(detections)
<1>a. /\ t \in Seq(Detected) /\ Len(t) = last - 1
      /\ \A m \in 1 .. Len(t) : t[m] = detections[IF m = r THEN last ELSE m]
      /\ \A m \in 1 .. Len(t) : t[m] # detections[r]
      /\ \A j \in 1 .. last : j # r => \E m \in 1 .. Len(t) : t[m] = detections[j]
      /\ \A m, j \in 1 .. Len(t) : t[m] = t[j] => m = j
  BY RemovedOK
<1> HIDE DEF t, last
<1>b. detections' = t
  BY DEF t
<1>1. /\ detections' \in Seq(Detected) /\ Len(detections') = Len(detections) - 1
      /\ \A m \in 1 .. Len(detections') :
             detections'[m] = detections[IF m = r THEN Len(detections) ELSE m]
      /\ \A m \in 1 .. Len(detections') : detections'[m] # detections[r]
      /\ \A j \in 1 .. Len(detections) :
             j # r => \E m \in 1 .. Len(detections') : detections'[m] = detections[j]
      /\ \A m, j \in 1 .. Len(detections') : detections'[m] = detections'[j] => m = j
  BY <1>a, <1>b DEF last
<1>c. Len(detections) \in Nat /\ Len(detections) >= 1
  BY DEF SceneInv
<1>2. Detected' = Detected
  BY DEF Detected
<1>3. SceneInv'
  BY <1>1, <1>2 DEF SceneInv
<1>4. \A d : Kept(d)' <=> Kept(d) /\ d # detections[r]
  <2>1. ASSUME NEW d, Kept(d)' PROVE Kept(d) /\ d # detections[r]
    <3>1. PICK m \in 1 .. Len(detections') : detections'[m] = d
      BY <2>1 DEF Kept
    <3>2. (IF m = r THEN Len(detections) ELSE m) \in 1 .. Len(detections)
      BY <1>1, <1>c
    <3> QED
      BY <1>1, <3>1, <3>2 DEF Kept
  <2>2. ASSUME NEW d, Kept(d), d # detections[r] PROVE Kept(d)'
    <3>1. PICK j \in 1 .. Len(detections) : detections[j] = d
      BY <2>2 DEF Kept
    <3>2. \E m \in 1 .. Len(detections') : detections'[m] = d
      BY <1>1, <2>2, <3>1
    <3> QED
      BY <3>2 DEF Kept
  <2> QED
    BY <2>1, <2>2
<1>5. \A i \in 1 .. Len(detections) : detections[i] \in Detected
  BY DEF SceneInv
<1>6. detections[k] # detections[r] /\ Kept(detections[k])
  BY DEF SceneInv, Kept
<1>7. \A c, d : Tags!Better(c, d)' <=> Tags!Better(c, d)
  BY DEF Tags!Better
<1>8. ASSUME NEW d \in Detected, ~Kept(d)'
      PROVE  \E c \in Detected \ {d} : Tags!Better(c, d) /\ {c, d} \in scene.overlaps
  <2>1. CASE d = detections[r]
    BY <1>5, <1>6, <2>1
  <2>2. CASE d # detections[r]
    BY <1>4, <1>8, <2>2 DEF GoneInv
  <2> QED
    BY <2>1, <2>2
<1>9. ASSUME NEW d \in Detected
      PROVE  \E c \in Detected : Kept(c)' /\ Tags!Better(c, d)
  <2>1. PICK c \in Detected : Kept(c) /\ Tags!Better(c, d)
    BY DEF GoneInv
  <2>2. CASE c # detections[r]
    BY <1>4, <2>1, <2>2
  <2>3. CASE c = detections[r]
    <3>1. Tags!Better(detections[k], d)
      <4>1. /\ scene.rank[detections[k]] \in Int /\ scene.rank[c] \in Int
            /\ scene.rank[d] \in Int
        BY <1>5 DEF SceneInv
      <4> QED
        BY <2>1, <2>3, <4>1 DEF Tags!Better
    <3> QED
      BY <1>4, <1>5, <1>6, <3>1
  <2> QED
    BY <2>2, <2>3
<1>10. GoneInv'
  BY <1>2, <1>7, <1>8, <1>9 DEF GoneInv
<1> QED
  BY <1>3, <1>10

TagsInv == SceneInv /\ GoneInv /\ LoopInv

LEMMA TagsInit == Init => TagsInv
  BY DEF Init, Tags!Init, Tags!NoScene, TagsInv, SceneInv, GoneInv, LoopInv, Detected

LEMMA TagsStep ==
    ASSUME Tags!SceneAssumption, TagsInv, [Next]_vars
    PROVE  TagsInv'
<1>1. Tags!Next \/ UNCHANGED tagsVars
  BY StepOfOne
<1> USE DEF TagsInv
<1>2. ASSUME NEW s \in Scenes, Tags!Look(s)
      PROVE  TagsInv'
  <2>1. /\ s.rank \in [DOMAIN s.tag -> Int]
        /\ \A d \in DOMAIN s.tag : s.tag[d][1] \in Int
    BY DEF Tags!SceneAssumption
  <2>2. detections = <<>> /\ detections' = <<>>
    BY <1>2 DEF Tags!Look, LoopInv
  <2> QED
    BY <1>2, <2>1, <2>2 DEF Tags!Look, SceneInv, GoneInv, LoopInv, Detected
<1>3. ASSUME NEW d \in Detected, Tags!Detect(d)
      PROVE  TagsInv'
  <2>1. /\ phase = "detect" /\ detections' = Append(detections, d)
        /\ UNCHANGED <<scene, phase, i0, i1>>
    BY <1>3 DEF Tags!Detect
  <2>2. \A i \in 1 .. Len(detections) : detections[i] # d
    BY <1>3 DEF Tags!Detect, Tags!Range, SceneInv
  <2>3. SceneInv'
    BY <2>1, <2>2 DEF SceneInv, Detected
  <2> QED
    BY <2>1, <2>3 DEF GoneInv, LoopInv
<1>4. CASE Tags!Return
  <2>1. /\ phase = "detect" /\ phase' = "reconcile"
        /\ UNCHANGED <<scene, detections, i0, i1>>
    BY <1>4 DEF Tags!Return
  <2>2. \A d \in Detected : Kept(d)
    <3>1. \A d \in Tags!Range(detections) :
              \E i \in DOMAIN detections : detections[i] = d
      BY DEF Tags!Range
    <3>2. DOMAIN detections = 1 .. Len(detections)
      BY DEF SceneInv
    <3>3. Tags!Range(detections) = Detected
      BY <1>4 DEF Tags!Return, Detected
    <3> QED
      BY <3>1, <3>2, <3>3 DEF Kept
  <2>3. \A d : Kept(d)' <=> Kept(d)
    BY <2>1 DEF Kept
  <2>4. \A d \in Detected : Tags!Better(d, d)
    BY DEF Tags!Better, SceneInv
  <2>5. Detected' = Detected /\ \A c, d : Tags!Better(c, d)' <=> Tags!Better(c, d)
    BY <2>1 DEF Detected, Tags!Better
  <2>6. GoneInv'
    BY <2>2, <2>3, <2>4, <2>5 DEF GoneInv
  <2>7. Len(detections) \in Nat
    BY DEF SceneInv
  <2> QED
    BY <2>1, <2>5, <2>6, <2>7 DEF SceneInv, LoopInv
<1>5. CASE Tags!KeepBoth
  <2>1. /\ phase = "reconcile" /\ i1' = i1 + 1 /\ i1 <= Len(detections)
        /\ Clear(detections[i0], detections[i1])
        /\ UNCHANGED <<scene, phase, detections, i0>>
    BY <1>5 DEF Tags!KeepBoth, Tags!Inside, Tags!Conflict, Tags!Det0, Tags!Det1, Clear
  <2>2. Detected' = Detected /\ (\A d : Kept(d)' <=> Kept(d))
        /\ \A c, d : Tags!Better(c, d)' <=> Tags!Better(c, d)
    BY <2>1 DEF Detected, Kept, Tags!Better
  <2>3. SceneInv' /\ GoneInv'
    BY <2>1, <2>2 DEF SceneInv, GoneInv
  <2>4. \A c, d : Clear(c, d)' <=> Clear(c, d)
    BY <2>1 DEF Clear
  <2>5. LoopInv'
    BY <2>1, <2>4 DEF LoopInv
  <2> QED
    BY <2>3, <2>5
<1>6. ASSUME Tags!DropSecond \/ Tags!DropFirst
      PROVE  TagsInv'
  <2> DEFINE r == IF Tags!Pref < 0 THEN i1 ELSE i0
             k == IF Tags!Pref < 0 THEN i0 ELSE i1
             last == Len(detections)
  <2>1. /\ phase = "reconcile" /\ i1 <= last
        /\ scene.tag[detections[i0]] = scene.tag[detections[i1]]
        /\ {detections[i0], detections[i1]} \in scene.overlaps
        /\ detections' = Tags!Removed(r)
        /\ i1' = IF Tags!Pref < 0 THEN i1 ELSE i0 + 1
        /\ UNCHANGED <<scene, phase, i0>>
    <3>1. scene.rank[detections[i0]] \in Int /\ scene.rank[detections[i1]] \in Int
      <4>1. i0 \in 1 .. Len(detections) /\ i1 \in 1 .. Len(detections)
        BY <1>6 DEF Tags!DropSecond, Tags!DropFirst, Tags!Inside, LoopInv, SceneInv
      <4> QED
        BY <4>1 DEF SceneInv
    <3>2. Tags!Pref \in Int
      BY <3>1 DEF Tags!Pref, Tags!Det0, Tags!Det1
    <3> QED
      BY <1>6, <3>2 DEF Tags!DropSecond, Tags!DropFirst, Tags!Inside, Tags!Conflict,
         Tags!Det0, Tags!Det1
  <2>2. last \in Nat /\ i0 \in 1 .. last /\ i1 \in 1 .. last /\ i0 < i1
    BY <2>1 DEF SceneInv, LoopInv
  <2>3. Tags!Better(detections[k], detections[r])
    <3>1. scene.rank[detections[i0]] \in Int /\ scene.rank[detections[i1]] \in Int
      BY <2>2 DEF SceneInv
    <3> QED
      BY <2>1, <3>1 DEF Tags!Better, Tags!Pref, Tags!Det0, Tags!Det1
  <2>4. {detections[k], detections[r]} = {detections[i0], detections[i1]}
    OBVIOUS
  <2>5. r \in 1 .. last /\ k \in 1 .. last /\ k # r
    BY <2>2
  <2>6. r \in {i0, i1} /\ (r = i0 => i1' = i0 + 1) /\ (r = i1 => i1' = i1)
    BY <2>1, <2>2
  <2> HIDE DEF r, k
  <2>7. SceneInv' /\ GoneInv'
    BY <2>1, <2>3, <2>4, <2>5, Drop
  <2>8. /\ Len(detections') = last - 1
        /\ \A m \in 1 .. Len(detections') :
               detections'[m] = detections[IF m = r THEN last ELSE m]
    BY <2>1, <2>5, RemovedOK
  <2>9. \A c, d : Clear(c, d)' <=> Clear(c, d)
    BY <2>1 DEF Clear
  <2>10. ASSUME NEW i \in 1 .. last - 1, NEW j \in 1 .. last - 1, i < j,
                i < i0 \/ (i = i0 /\ j < i1')
         PROVE  Clear(detections'[i], detections'[j])
    <3>1. i # r
      BY <2>2, <2>6, <2>10
    <3>2. detections'[i] = detections[i]
      BY <2>8, <3>1
    <3> DEFINE h == IF j = r THEN last ELSE j
    <3>3. detections'[j] = detections[h]
      BY <2>8
    <3>4. h \in 1 .. last /\ i \in 1 .. last /\ i < h
      BY <2>2, <2>10
    <3>5. i < i0 \/ (i = i0 /\ h < i1)
      BY <2>2, <2>6, <2>10
    <3> QED
      BY <2>1, <3>2, <3>3, <3>4, <3>5 DEF LoopInv
  <2>11. LoopInv'
    BY <2>1, <2>2, <2>6, <2>8, <2>9, <2>10 DEF LoopInv
  <2> QED
    BY <2>7, <2>11
<1>7. CASE Tags!NextFirst
  <2>1. /\ phase = "reconcile" /\ i1 > Len(detections)
        /\ UNCHANGED <<scene, detections>>
        /\ \/ i0 < Len(detections) /\ i0' = i0 + 1 /\ i1' = i0 + 2 /\ UNCHANGED phase
           \/ ~(i0 < Len(detections)) /\ phase' = "sort" /\ UNCHANGED <<i0, i1>>
    BY <1>7 DEF Tags!NextFirst
  <2>2. Detected' = Detected /\ (\A d : Kept(d)' <=> Kept(d))
        /\ \A c, d : Tags!Better(c, d)' <=> Tags!Better(c, d)
    BY <2>1 DEF Detected, Kept, Tags!Better
  <2>3. SceneInv' /\ GoneInv'
    BY <2>1, <2>2 DEF SceneInv, GoneInv
  <2>4. /\ \A c, d : Clear(c, d)' <=> Clear(c, d)
        /\ \A c, d : Clear(c, d) <=> Clear(d, c)
    <3>1. \A c, d : {c, d} = {d, c}
      OBVIOUS
    <3> QED
      BY <2>1, <3>1 DEF Clear
  <2>5. Len(detections) \in Nat
    BY DEF SceneInv
  <2>6. CASE i0 < Len(detections)
    <3>1. phase' = "reconcile" /\ i0' = i0 + 1 /\ i1' = i0 + 2 /\ i0 \in Nat \ {0}
          /\ i1 \in Nat
      BY <2>1, <2>6 DEF LoopInv
    <3>2. ASSUME NEW i \in 1 .. Len(detections), NEW j \in 1 .. Len(detections), i < j,
                 i < i0 + 1 \/ (i = i0 + 1 /\ j < i0 + 2)
          PROVE  Clear(detections[i], detections[j])
      <4>1. i < i0 \/ (i = i0 /\ j < i1)
        BY <2>1, <2>5, <3>1, <3>2
      <4> QED
        BY <2>1, <3>2, <4>1 DEF LoopInv
    <3>3. LoopInv'
      BY <2>1, <2>4, <2>5, <2>6, <3>1, <3>2 DEF LoopInv
    <3> QED
      BY <2>3, <3>3
  <2>7. CASE ~(i0 < Len(detections))
    <3>1. \A i, j \in 1 .. Len(detections) :
              i < j => Clear(detections[i], detections[j])
      BY <2>1, <2>5, <2>7 DEF LoopInv
    <3>2. \A i, j \in 1 .. Len(detections) : i # j => i < j \/ j < i
      BY <2>5
    <3> QED
      BY <2>1, <2>3, <2>4, <2>7, <3>1, <3>2 DEF LoopInv
  <2> QED
    BY <2>3, <2>6, <2>7
<1>8. CASE Tags!Sort
  <2>1. PICK p \in Tags!Bijection(DOMAIN detections, DOMAIN detections) :
            /\ \A i, j \in DOMAIN p :
                   Tags!ById(detections[p[i]], detections[p[j]]) => i < j
            /\ detections' = [i \in DOMAIN p |-> detections[p[i]]]
    BY <1>8 DEF Tags!Sort
  <2>2. phase = "sort" /\ phase' = "done" /\ UNCHANGED <<scene, i0, i1>>
    BY <1>8 DEF Tags!Sort
  <2> DEFINE n == Len(detections)
  <2>3. n \in Nat /\ DOMAIN detections = 1 .. n
    BY DEF SceneInv
  <2>4. /\ p \in [1 .. n -> 1 .. n]
        /\ \A i, j \in 1 .. n : p[i] = p[j] => i = j
        /\ \A j \in 1 .. n : \E i \in 1 .. n : p[i] = j
    BY <2>3 DEF Tags!Bijection, Tags!Injection, Tags!Surjection, Tags!IsInjective
  <2>5. detections' = [i \in 1 .. n |-> detections[p[i]]]
    BY <2>1, <2>4
  <2>6. /\ \A i \in 1 .. n : detections[i] \in Detected
        /\ \A i, j \in 1 .. n : detections[i] = detections[j] => i = j
    BY DEF SceneInv
  <2>7. Detected' = Detected
    BY <2>2 DEF Detected
  <2>8. detections' \in Seq(Detected) /\ Len(detections') = n
    BY <2>3, <2>4, <2>5, <2>6
  <2>9. \A i \in 1 .. n : detections'[i] = detections[p[i]] /\ p[i] \in 1 .. n
    BY <2>4, <2>5
  <2> HIDE DEF n
  <2>10. SceneInv'
    <3>1. ASSUME NEW i \in 1 .. n, NEW j \in 1 .. n, detections'[i] = detections'[j]
          PROVE  i = j
      <4>1. p[i] \in 1 .. n /\ p[j] \in 1 .. n /\ detections[p[i]] = detections[p[j]]
        BY <2>9, <3>1
      <4>2. p[i] = p[j]
        BY <2>6, <4>1
      <4> QED
        BY <2>4, <4>2
    <3>2. \A i, j \in 1 .. Len(detections') : detections'[i] = detections'[j] => i = j
      BY <2>8, <3>1
    <3> QED
      BY <2>2, <2>7, <2>8, <3>2 DEF SceneInv
  <2>11. \A d : Kept(d)' <=> Kept(d)
    <3>1. ASSUME NEW d, Kept(d)' PROVE Kept(d)
      <4>1. PICK i \in 1 .. n : detections'[i] = d
        BY <2>8, <3>1 DEF Kept
      <4> QED
        BY <2>9, <4>1 DEF Kept, n
    <3>2. ASSUME NEW d, Kept(d) PROVE Kept(d)'
      <4>1. PICK j \in 1 .. n : detections[j] = d
        BY <3>2 DEF Kept, n
      <4>2. PICK i \in 1 .. n : p[i] = j
        BY <2>4
      <4>3. i \in 1 .. Len(detections') /\ detections'[i] = d
        BY <2>8, <2>9, <4>1, <4>2
      <4> QED
        BY <4>3 DEF Kept
    <3> QED
      BY <3>1, <3>2
  <2>12. GoneInv'
    <3>1. \A c, d : Tags!Better(c, d)' <=> Tags!Better(c, d)
      BY <2>2 DEF Tags!Better
    <3> QED
      BY <2>2, <2>7, <2>11, <3>1 DEF GoneInv
  <2>13. LoopInv'
    <3>2. \A i, j \in 1 .. n : i # j => Clear(detections[i], detections[j])
      BY <2>2 DEF LoopInv, n
    <3>3. ASSUME NEW i \in 1 .. n, NEW j \in 1 .. n
          PROVE  /\ i # j => Clear(detections[i], detections[j])'
                 /\ Tags!ById(detections[i], detections[j])' => i < j
      <4>1. /\ p[i] \in 1 .. n /\ p[j] \in 1 .. n /\ (i # j => p[i] # p[j])
            /\ detections'[i] = detections[p[i]] /\ detections'[j] = detections[p[j]]
        BY <2>4, <2>9
      <4>2. i # j => Clear(detections[p[i]], detections[p[j]])
        BY <3>2, <4>1
      <4>3. Tags!ById(detections[p[i]], detections[p[j]]) => i < j
        BY <2>1, <2>4
      <4>4. Clear(detections[i], detections[j])' <=> Clear(detections[p[i]], detections[p[j]])
        BY <2>2, <4>1 DEF Clear
      <4>5. Tags!ById(detections[i], detections[j])'
                <=> Tags!ById(detections[p[i]], detections[p[j]])
        BY <2>2, <4>1 DEF Tags!ById
      <4> QED
        BY <4>2, <4>3, <4>4, <4>5
    <3>4. /\ phase' = "done" /\ UNCHANGED <<i0, i1>> /\ Len(detections)' = n
          /\ i0 \in Nat \ {0} /\ i1 \in Nat /\ i0 < i1
      BY <2>2, <2>8 DEF LoopInv
    <3> QED
      BY <3>3, <3>4 DEF LoopInv
  <2> QED
    BY <2>10, <2>12, <2>13
<1>9. CASE Tags!Destroy
  BY <1>9 DEF Tags!Destroy, Tags!NoScene, SceneInv, GoneInv, LoopInv, Detected
<1>10. CASE UNCHANGED tagsVars
  <2>1. UNCHANGED <<scene, phase, detections, i0, i1>>
    BY <1>10 DEF tagsVars
  <2> QED
    <3>1. Detected' = Detected /\ (\A d : Kept(d)' <=> Kept(d))
      BY <2>1 DEF Detected, Kept
    <3>2. \A c, d : /\ Tags!Better(c, d)' <=> Tags!Better(c, d)
                    /\ Clear(c, d)' <=> Clear(c, d)
                    /\ Tags!ById(c, d)' <=> Tags!ById(c, d)
      BY <2>1 DEF Clear, Tags!Better, Tags!ById
    <3>3. SceneInv' /\ GoneInv'
      BY <2>1, <3>1, <3>2 DEF SceneInv, GoneInv
    <3>4. LoopInv'
      BY <2>1, <3>2 DEF LoopInv
    <3> QED
      BY <3>3, <3>4
<1> QED
  BY <1>1, <1>2, <1>3, <1>4, <1>5, <1>6, <1>7, <1>8, <1>9, <1>10 DEF Tags!Next, Detected

\* However many detections there are and in whatever order they were added, no two that
\* are reported overlap and are of one tag, each that is not gave way to one no worse,
\* and the best of every tag is among them, in the order of the ids (apriltag.c:1280-1349,
\* 1485).
THEOREM ReportedOnce == Spec => []TagsReportedOnce
<1>1. Tags!SceneAssumption
  BY PartsAssumption
<1>2. TagsInv /\ [Next]_vars => TagsInv'
  BY <1>1, TagsStep
<1>3. TagsInv => TagsReportedOnce
  <2> SUFFICES ASSUME TagsInv, phase = "done" PROVE TagsReportedOnce
    BY DEF TagsReportedOnce, Tags!TagsReportedOnce
  <2>1. \A d : d \in Tags!Range(detections) <=> Kept(d)
    BY DEF Tags!Range, Kept, TagsInv, SceneInv
  <2>2. DOMAIN detections = 1 .. Len(detections)
    BY DEF TagsInv, SceneInv
  <2>3. \A c, d \in Tags!Range(detections) : c # d => Clear(c, d)
    BY <2>1 DEF Kept, TagsInv, LoopInv
  <2>4. \A d \in Detected \ Tags!Range(detections) :
            \E c \in Detected \ {d} : Tags!Better(c, d) /\ {c, d} \in scene.overlaps
    BY <2>1 DEF TagsInv, GoneInv
  <2>5. \A d \in Detected : \E c \in Tags!Range(detections) : Tags!Better(c, d)
    BY <2>1 DEF TagsInv, GoneInv
  <2>6. /\ \A i, j \in DOMAIN detections : detections[i] = detections[j] => i = j
        /\ \A i, j \in DOMAIN detections : Tags!ById(detections[i], detections[j]) => i < j
    BY <2>2 DEF TagsInv, SceneInv, LoopInv
  <2> QED
    BY <2>3, <2>4, <2>5, <2>6 DEF TagsReportedOnce, Tags!TagsReportedOnce, Clear, Detected
<1> QED
  BY <1>2, <1>3, TagsInit, PTL DEF Spec

-----------------------------------------------------------------------------
(* Finite sets *)

\* A set of numbers that is finite and not empty has a greatest element: a smallest
\* subset without one would, less any of its elements, have one.
LEMMA GreatestOf ==
    ASSUME NEW S, S \subseteq Int, IsFiniteSet(S), S # {}
    PROVE  \E x \in S : \A y \in S : y <= x
<1> DEFINE bare == {A \in SUBSET S : A # {} /\ \A x \in A : \E y \in A : ~(y <= x)}
<1>1. IsWellFoundedOn(StrictSubsetOrdering(S), SUBSET S)
  BY FS_StrictSubsetOrderingWellFounded, FS_FiniteSubsetsOfFinite
<1>2. CASE bare # {}
  <2>1. PICK A \in bare : \A B \in bare : ~(<<B, A>> \in StrictSubsetOrdering(S))
    <3>1. bare \subseteq SUBSET S
      OBVIOUS
    <3> HIDE DEF bare
    <3> QED
      BY <1>1, <1>2, <3>1, WFMin
  <2>2. PICK a \in A : TRUE
    OBVIOUS
  <2>3. A \ {a} # {}
    OBVIOUS
  <2>4. A \ {a} \notin bare
    BY <2>1, <2>2 DEF StrictSubsetOrdering
  <2>5. PICK b \in A \ {a} : \A y \in A \ {a} : y <= b
    BY <2>3, <2>4
  <2>6. a \in Int /\ b \in Int /\ A \subseteq Int
    OBVIOUS
  <2>7. PICK y \in A : ~(y <= IF a <= b THEN b ELSE a)
    BY <2>2, <2>5
  <2> QED
    BY <2>5, <2>6, <2>7
<1>3. CASE bare = {}
  BY <1>3
<1> QED
  BY <1>2, <1>3

LEMMA MaxOf ==
    ASSUME NEW S, S \subseteq Int, IsFiniteSet(S), S # {}
    PROVE  /\ Grey!Max(S) \in S /\ \A y \in S : y <= Grey!Max(S)
<1>1. \E x \in S : \A y \in S : x >= y
  BY GreatestOf
<1> QED
  BY <1>1 DEF Grey!Max

LEMMA MinOf ==
    ASSUME NEW S, S \subseteq Int, IsFiniteSet(S), S # {}
    PROVE  Grey!Min(S) \in S /\ \A y \in S : Grey!Min(S) <= y
<1> DEFINE below == {0 - x : x \in S}
<1>1. IsFiniteSet(below) /\ below \subseteq Int /\ below # {}
  <2>1. [x \in S |-> 0 - x] \in Surjection(S, below)
    BY DEF Surjection
  <2> HIDE DEF below
  <2>2. IsFiniteSet(below)
    BY <2>1, FS_Surjection
  <2>3. below \subseteq Int /\ \A x \in S : 0 - x \in below
    BY DEF below
  <2> QED
    BY <2>2, <2>3
<1>2. PICK m \in below : \A y \in below : y <= m
  <2> HIDE DEF below
  <2> QED
    BY <1>1, GreatestOf
<1>3. PICK x \in S : m = 0 - x
  BY <1>2
<1>4. \A y \in S : x <= y
  <2>1. TAKE y \in S
  <2>2. 0 - y <= 0 - x /\ x \in Int /\ y \in Int
    BY <1>2, <1>3
  <2> QED
    BY <2>2
<1> QED
  BY <1>4 DEF Grey!Min

-----------------------------------------------------------------------------
(* Threshold *)

\* Every tile lies in the image, every pixel of a whole tile in its own, and two pixels
\* within a tile's size of each other in tiles next to each other.
LEMMA TilesOK ==
    ASSUME grey \in Greys
    PROVE  /\ \A t \in Grey!Tiles :
                  /\ Grey!Pixels(t) \subseteq Grey!Whole /\ Grey!Pixels(t) # {}
                  /\ t \in Grey!Around(t) /\ Grey!Around(t) \subseteq Grey!Tiles
           /\ \A p \in Grey!Whole :
                  /\ grey.buf[p] \in 0 .. 255
                  /\ Grey!TileOf(p) \in Grey!Tiles /\ p \in Grey!Pixels(Grey!TileOf(p))
           /\ \A p, q \in Grey!Whole :
                  Grey!Near(p, q) => Grey!TileOf(q) \in Grey!Around(Grey!TileOf(p))
<1> DEFINE h == grey.h
           w == grey.w
           th == Grey!th
           tw == Grey!tw
<1>1. /\ h \in Nat /\ w \in Nat /\ h >= 4 /\ w >= 4
      /\ grey.buf \in [Grey!Buffer -> 0 .. 255]
  BY PartsAssumption DEF Grey!GreyAssumption, Grey!tilesz, Grey!Buffer
<1>2. /\ th \in Nat /\ th > 0 /\ 4 * th <= h
      /\ tw \in Nat /\ tw > 0 /\ 4 * tw <= w
  BY <1>1 DEF Grey!th, Grey!tw, Grey!tilesz
<1>3. Grey!Tiles = (0 .. th - 1) \X (0 .. tw - 1)
  BY DEF Grey!Tiles
<1>4. Grey!Whole = {p \in (0 .. h - 1) \X (0 .. w - 1) : p[1] < th * 4 /\ p[2] < tw * 4}
  BY DEF Grey!Whole, Grey!Buffer, Grey!tilesz
<1>5. \A p \in Grey!Whole : grey.buf[p] \in 0 .. 255
  BY <1>1 DEF Grey!Whole
<1>6. ASSUME NEW t \in Grey!Tiles
      PROVE  /\ Grey!Pixels(t) \subseteq Grey!Whole /\ Grey!Pixels(t) # {}
             /\ t \in Grey!Around(t) /\ Grey!Around(t) \subseteq Grey!Tiles
  <2>1. Grey!Pixels(t) = {<<t[1] * 4 + dy, t[2] * 4 + dx>> : dy, dx \in 0 .. 3}
    BY DEF Grey!Pixels, Grey!tilesz
  <2>2. t[1] \in 0 .. th - 1 /\ t[2] \in 0 .. tw - 1
    BY <1>3
  <2> HIDE DEF h, w, th, tw
  <2>3. <<t[1] * 4 + 0, t[2] * 4 + 0>> \in Grey!Pixels(t)
    BY <2>1
  <2>4. ASSUME NEW dy \in 0 .. 3, NEW dx \in 0 .. 3
        PROVE  <<t[1] * 4 + dy, t[2] * 4 + dx>> \in Grey!Whole
    <3>1. t[1] * 4 + dy \in 0 .. h - 1 /\ t[1] * 4 + dy < th * 4
      BY <1>1, <1>2, <2>2
    <3>2. t[2] * 4 + dx \in 0 .. w - 1 /\ t[2] * 4 + dx < tw * 4
      BY <1>1, <1>2, <2>2
    <3> QED
      BY <1>4, <3>1, <3>2
  <2>5. t \in Grey!Around(t)
    BY <2>2, <1>2 DEF Grey!Around
  <2> QED
    BY <2>1, <2>3, <2>4, <2>5 DEF Grey!Around
<1>7. ASSUME NEW p \in Grey!Whole
      PROVE  /\ p[1] \in Nat /\ p[2] \in Nat
             /\ Grey!TileOf(p) = <<p[1] \div 4, p[2] \div 4>>
             /\ Grey!TileOf(p) \in Grey!Tiles
             /\ p \in Grey!Pixels(Grey!TileOf(p))
  <2>1. /\ p = <<p[1], p[2]>>
        /\ p[1] \in Nat /\ p[2] \in Nat /\ p[1] < th * 4 /\ p[2] < tw * 4
    BY <1>1, <1>4
  <2>2. Grey!TileOf(p) = <<IF p[1] \div 4 >= th THEN th - 1 ELSE p[1] \div 4,
                           IF p[2] \div 4 >= tw THEN tw - 1 ELSE p[2] \div 4>>
    BY DEF Grey!TileOf, Grey!Clamp, Grey!tilesz
  <2> HIDE DEF h, w, th, tw
  <2>3. p[1] \div 4 \in 0 .. th - 1 /\ p[2] \div 4 \in 0 .. tw - 1
    BY <1>2, <2>1
  <2>4. Grey!TileOf(p) = <<p[1] \div 4, p[2] \div 4>>
    BY <1>2, <2>2, <2>3
  <2>5. /\ p[1] % 4 \in 0 .. 3 /\ p[1] = (p[1] \div 4) * 4 + (p[1] % 4)
        /\ p[2] % 4 \in 0 .. 3 /\ p[2] = (p[2] \div 4) * 4 + (p[2] % 4)
    <3>1. ASSUME NEW y \in Nat
          PROVE  y % 4 \in 0 .. 3 /\ y = (y \div 4) * 4 + (y % 4)
      <4>1. 4 \in Nat \ {0}
        OBVIOUS
      <4>2. y % 4 \in 0 .. 4 - 1 /\ y = 4 * (y \div 4) + (y % 4)
        BY <4>1, DivMod
      <4> QED
        BY <4>2
    <3> QED
      BY <2>1, <3>1, Zenon
  <2>6. Grey!Pixels(<<p[1] \div 4, p[2] \div 4>>) =
            {<<(p[1] \div 4) * 4 + dy, (p[2] \div 4) * 4 + dx>> : dy, dx \in 0 .. 3}
    BY DEF Grey!Pixels, Grey!tilesz
  <2>7. p \in Grey!Pixels(<<p[1] \div 4, p[2] \div 4>>)
    <3>1. p = <<(p[1] \div 4) * 4 + (p[1] % 4), (p[2] \div 4) * 4 + (p[2] % 4)>>
      BY <2>1, <2>5, Zenon
    <3>2. \A dy, dx \in 0 .. 3 :
              <<(p[1] \div 4) * 4 + dy, (p[2] \div 4) * 4 + dx>>
                  \in Grey!Pixels(<<p[1] \div 4, p[2] \div 4>>)
      BY <2>6
    <3>3. <<(p[1] \div 4) * 4 + (p[1] % 4), (p[2] \div 4) * 4 + (p[2] % 4)>>
              \in Grey!Pixels(<<p[1] \div 4, p[2] \div 4>>)
      BY <2>5, <3>2, Zenon
    <3> QED
      BY <3>1, <3>3, Zenon
  <2> QED
    BY <1>3, <2>1, <2>3, <2>4, <2>7
<1>8. ASSUME NEW p \in Grey!Whole, NEW q \in Grey!Whole, Grey!Near(p, q)
      PROVE  Grey!TileOf(q) \in Grey!Around(Grey!TileOf(p))
  <2>1. p[1] - q[1] \in -4 .. 4 /\ p[2] - q[2] \in -4 .. 4
    BY <1>8 DEF Grey!Near, Grey!tilesz
  <2>2. (q[1] \div 4) - (p[1] \div 4) \in -1 .. 1
    BY <1>7, <2>1
  <2>3. (q[2] \div 4) - (p[2] \div 4) \in -1 .. 1
    BY <1>7, <2>1
  <2> QED
    BY <1>7, <2>2, <2>3 DEF Grey!Around
<1> QED
  BY <1>5, <1>6, <1>7, <1>8

\* A tile's brightest and darkest value bound the pixels, and are those of two pixels.
Bounded(t, pixels) ==
    /\ \A q \in pixels : im_min[t] <= grey.buf[q] /\ grey.buf[q] <= im_max[t]
    /\ \E p, q \in Grey!Whole : im_max[t] = grey.buf[p] /\ im_min[t] = grey.buf[q]

\* What the passes have made so far.
GreyInv ==
    /\ pass # "none" => grey \in Greys
    /\ pass = "blur" => \A t \in Grey!Tiles : Bounded(t, Grey!Pixels(t))
    /\ pass \in {"whole", "partial", "done"} =>
           \A t \in Grey!Tiles : \A u \in Grey!Around(t) : Bounded(t, Grey!Pixels(u))
    /\ pass \in {"partial", "done"} =>
           \A p \in Grey!Whole :
               threshim[p] = IF Grey!LowContrast(Grey!TileOf(p)) THEN 127 ELSE Grey!Binary(p)

LEMMA GreyInit == Init => GreyInv
  BY DEF Init, Grey!Init, GreyInv

\* The extremes of some of the image's values.
LEMMA Extremes ==
    ASSUME NEW S, S \subseteq 0 .. 255, S # {}
    PROVE  /\ Grey!Max(S) \in S /\ \A y \in S : y <= Grey!Max(S)
           /\ Grey!Min(S) \in S /\ \A y \in S : Grey!Min(S) <= y
<1>1. IsFiniteSet(S) /\ S \subseteq Int
  <2>1. 0 \in Int /\ 255 \in Int
    OBVIOUS
  <2>2. IsFiniteSet(0 .. 255)
    BY <2>1, FS_Interval
  <2>3. IsFiniteSet(S)
    BY <2>2, FS_Subset
  <2> QED
    BY <2>3
<1> QED
  BY <1>1, MaxOf, MinOf

LEMMA GreyStep == GreyInv /\ [Next]_vars => GreyInv'
<1> SUFFICES ASSUME GreyInv, [Next]_vars PROVE GreyInv'
  OBVIOUS
<1>1. Grey!Next \/ UNCHANGED greyVars
  BY StepOfOne
<1>2. CASE Grey!Begin
  BY <1>2 DEF GreyInv, Grey!Begin
<1>3. CASE Grey!Stats
  <2>1. grey \in Greys /\ grey' = grey /\ pass' = "blur"
    BY <1>3 DEF GreyInv, Grey!Stats
  <2>2. Grey!Tiles' = Grey!Tiles /\ Grey!Whole' = Grey!Whole
    BY <2>1 DEF Grey!Tiles, Grey!Whole, Grey!Buffer, Grey!th, Grey!tw
  <2>3. ASSUME NEW t \in Grey!Tiles
        PROVE  Bounded(t, Grey!Pixels(t))'
    <3> DEFINE S == {grey.buf[p] : p \in Grey!Pixels(t)}
    <3>1. im_max'[t] = Grey!Max(S) /\ im_min'[t] = Grey!Min(S)
      BY <1>3 DEF Grey!Stats
    <3>2. Grey!Pixels(t)' = Grey!Pixels(t)
      BY DEF Grey!Pixels, Grey!tilesz
    <3>3. S \subseteq 0 .. 255 /\ S # {} /\ Grey!Pixels(t) \subseteq Grey!Whole
      BY <2>1, TilesOK
    <3>4. /\ Grey!Max(S) \in S /\ \A y \in S : y <= Grey!Max(S)
          /\ Grey!Min(S) \in S /\ \A y \in S : Grey!Min(S) <= y
      <4> HIDE DEF S
      <4> QED
        BY <3>3, Extremes
    <3> QED
      BY <2>1, <2>2, <3>1, <3>2, <3>3, <3>4 DEF Bounded
  <2> QED
    BY <2>1, <2>2, <2>3 DEF GreyInv
<1>4. CASE Grey!Blur
  <2>1. grey \in Greys /\ grey' = grey /\ pass' = "whole"
    BY <1>4 DEF GreyInv, Grey!Blur
  <2>2. Grey!Tiles' = Grey!Tiles /\ Grey!Whole' = Grey!Whole
    BY <2>1 DEF Grey!Tiles, Grey!Whole, Grey!Buffer, Grey!th, Grey!tw
  <2>3. \A u \in Grey!Tiles : Bounded(u, Grey!Pixels(u))
    BY <1>4 DEF GreyInv, Grey!Blur
  <2>4. ASSUME NEW t \in Grey!Tiles, NEW u \in Grey!Around(t)
        PROVE  Bounded(t, Grey!Pixels(u))'
    <3> DEFINE M == {im_max[v] : v \in Grey!Around(t)}
               m == {im_min[v] : v \in Grey!Around(t)}
    <3>1. im_max'[t] = Grey!Max(M) /\ im_min'[t] = Grey!Min(m)
      BY <1>4 DEF Grey!Blur
    <3>2. Grey!Pixels(u)' = Grey!Pixels(u)
      BY DEF Grey!Pixels, Grey!tilesz
    <3>3. t \in Grey!Around(t) /\ Grey!Around(t) \subseteq Grey!Tiles
      BY <2>1, TilesOK
    <3>4. \A v \in Grey!Around(t) :
              /\ \E p \in Grey!Whole : im_max[v] = grey.buf[p]
              /\ \E q \in Grey!Whole : im_min[v] = grey.buf[q]
      BY <2>3, <3>3 DEF Bounded
    <3>5. M \subseteq 0 .. 255 /\ M # {} /\ m \subseteq 0 .. 255 /\ m # {}
      BY <2>1, <3>3, <3>4, TilesOK
    <3>6. Grey!Max(M) \in M /\ \A y \in M : y <= Grey!Max(M)
      <4> HIDE DEF M
      <4> QED
        BY <3>5, Extremes
    <3>7. Grey!Min(m) \in m /\ \A y \in m : Grey!Min(m) <= y
      <4> HIDE DEF m
      <4> QED
        BY <3>5, Extremes
    <3>8. \E p, q \in Grey!Whole : Grey!Max(M) = grey.buf[p] /\ Grey!Min(m) = grey.buf[q]
      <4>1. PICK v \in Grey!Around(t) : Grey!Max(M) = im_max[v]
        BY <3>6
      <4>2. PICK x \in Grey!Around(t) : Grey!Min(m) = im_min[x]
        BY <3>7
      <4> HIDE DEF M, m
      <4> QED
        BY <3>4, <4>1, <4>2
    <3>9. ASSUME NEW q \in Grey!Pixels(u)
          PROVE  Grey!Min(m) <= grey.buf[q] /\ grey.buf[q] <= Grey!Max(M)
      <4>1. im_min[u] <= grey.buf[q] /\ grey.buf[q] <= im_max[u]
        BY <2>3, <3>3 DEF Bounded
      <4>2. im_max[u] \in M /\ im_min[u] \in m
        OBVIOUS
      <4>3. grey.buf[q] \in 0 .. 255
        BY <2>1, <3>3, TilesOK
      <4> HIDE DEF M, m
      <4>4. Grey!Min(m) <= im_min[u] /\ im_max[u] <= Grey!Max(M)
        BY <3>6, <3>7, <4>2
      <4>5. /\ im_min[u] \in Int /\ im_max[u] \in Int
            /\ Grey!Min(m) \in Int /\ Grey!Max(M) \in Int
        <5>1. (\A y \in M : y \in Int) /\ (\A y \in m : y \in Int)
          BY <3>5
        <5> QED
          BY <3>6, <3>7, <4>2, <5>1
      <4> QED
        BY <4>1, <4>3, <4>4, <4>5
    <3> HIDE DEF M, m
    <3> QED
      BY <2>1, <2>2, <3>1, <3>2, <3>8, <3>9 DEF Bounded
  <2>5. \A t \in Grey!Tiles : Grey!Around(t)' = Grey!Around(t)
    BY <2>2 DEF Grey!Around
  <2> QED
    BY <2>1, <2>2, <2>4, <2>5 DEF GreyInv
<1>5. CASE Grey!Binarize
  BY <1>5 DEF GreyInv, Grey!Binarize, Bounded, Grey!Tiles, Grey!Around, Grey!Pixels,
         Grey!Whole, Grey!Buffer, Grey!th, Grey!tw, Grey!LowContrast, Grey!TileOf,
         Grey!Clamp, Grey!Binary, Grey!Thresh
<1>6. CASE Grey!BinarizeRest
  BY <1>6 DEF GreyInv, Grey!BinarizeRest, Bounded, Grey!Tiles, Grey!Around, Grey!Pixels,
         Grey!Whole, Grey!Buffer, Grey!th, Grey!tw, Grey!LowContrast, Grey!TileOf,
         Grey!Clamp, Grey!Binary, Grey!Thresh
<1>7. CASE Grey!Destroy
  BY <1>7 DEF GreyInv, Grey!Destroy
<1>8. CASE UNCHANGED greyVars
  BY <1>8 DEF greyVars, GreyInv, Bounded, Grey!Tiles, Grey!Around, Grey!Pixels,
         Grey!Whole, Grey!Buffer, Grey!th, Grey!tw, Grey!LowContrast, Grey!TileOf,
         Grey!Clamp, Grey!Binary, Grey!Thresh
<1> QED
  BY <1>1, <1>2, <1>3, <1>4, <1>5, <1>6, <1>7, <1>8 DEF Grey!Next

\* In two values that differ, the greater is above what lies half-way, the less not.
LEMMA HalfWay ==
    ASSUME NEW a \in Nat, NEW b \in Nat, a < b
    PROVE  b > a + (b - a) \div 2 /\ ~(a > a + (b - a) \div 2)
  OBVIOUS

\* Wherever the tiles end, no edge is taken for low contrast: a tile's extremes are
\* those of all the tiles around it; and in an image of two levels both are its
\* extremes, so that the middle tells them apart (apriltag_quad_thresh.c:1185-1322).
THEOREM EdgesAreSeen == Spec => []EdgesSurvive
<1>1. GreyInv => EdgesSurvive
  <2> SUFFICES ASSUME GreyInv, pass = "done" PROVE Grey!EdgesSurvive
    BY DEF EdgesSurvive, Grey!EdgesSurvive
  <2> DEFINE levels == {grey.buf[p] : p \in Grey!Whole}
  <2>1. grey \in Greys
    BY DEF GreyInv
  <2>2. MinDiff \in Nat \ {0}
    BY PartsAssumption DEF Grey!GreyAssumption
  <2>3. ASSUME NEW p \in Grey!Whole
        PROVE  /\ (\E q \in Grey!Whole : /\ Grey!Near(p, q)
                                        /\ \/ grey.buf[p] - grey.buf[q] >= MinDiff
                                           \/ grey.buf[q] - grey.buf[p] >= MinDiff)
                      => threshim[p] # 127
               /\ \A dark, bright \in levels :
                      levels = {dark, bright} /\ dark < bright /\ threshim[p] # 127 =>
                          (threshim[p] = 255 <=> grey.buf[p] = bright)
    <3> DEFINE t == Grey!TileOf(p)
    <3>1. t \in Grey!Tiles /\ p \in Grey!Pixels(t) /\ t \in Grey!Around(t)
      BY <2>1, TilesOK
    <3>2. \A u \in Grey!Around(t) : Bounded(t, Grey!Pixels(u))
      BY <3>1 DEF GreyInv
    <3>3. PICK a, b \in Grey!Whole : im_max[t] = grey.buf[b] /\ im_min[t] = grey.buf[a]
      BY <3>1, <3>2 DEF Bounded
    <3>4. \A q \in Grey!Whole : grey.buf[q] \in 0 .. 255
      BY <2>1, TilesOK
    <3>5. im_max[t] \in 0 .. 255 /\ im_min[t] \in 0 .. 255
      BY <3>3, <3>4
    <3>6. threshim[p] = IF im_max[t] - im_min[t] < MinDiff THEN 127
                        ELSE IF grey.buf[p] > im_min[t] + (im_max[t] - im_min[t]) \div 2
                             THEN 255 ELSE 0
      BY DEF GreyInv, Grey!LowContrast, Grey!Binary, Grey!Thresh
    <3>7. ASSUME NEW q \in Grey!Whole, Grey!Near(p, q),
                 \/ grey.buf[p] - grey.buf[q] >= MinDiff
                 \/ grey.buf[q] - grey.buf[p] >= MinDiff
          PROVE  threshim[p] # 127
      <4>1. Grey!TileOf(q) \in Grey!Around(t) /\ q \in Grey!Pixels(Grey!TileOf(q))
        BY <2>1, <3>7, TilesOK
      <4>2. /\ im_min[t] <= grey.buf[q] /\ grey.buf[q] <= im_max[t]
            /\ im_min[t] <= grey.buf[p] /\ grey.buf[p] <= im_max[t]
        BY <3>1, <3>2, <4>1 DEF Bounded
      <4> HIDE DEF t
      <4>3. ~(im_max[t] - im_min[t] < MinDiff)
        <5>1. grey.buf[p] \in Int /\ grey.buf[q] \in Int
          BY <3>4
        <5>2. im_max[t] \in Int /\ im_min[t] \in Int
          BY <3>5
        <5> QED
          BY <2>2, <3>7, <4>2, <5>1, <5>2
      <4> QED
        BY <3>6, <4>3
    <3>8. ASSUME NEW dark \in levels, NEW bright \in levels,
                 levels = {dark, bright}, dark < bright, threshim[p] # 127
          PROVE  threshim[p] = 255 <=> grey.buf[p] = bright
      <4> HIDE DEF t
      <4>1. \A q \in Grey!Whole : grey.buf[q] \in levels
        OBVIOUS
      <4>2. dark \in 0 .. 255 /\ bright \in 0 .. 255
        BY <3>4
      <4> HIDE DEF levels
      <4>3. /\ ~(im_max[t] - im_min[t] < MinDiff)
            /\ threshim[p] = IF grey.buf[p] > im_min[t] + (im_max[t] - im_min[t]) \div 2
                             THEN 255 ELSE 0
        BY <3>6, <3>8
      <4>4. im_max[t] # im_min[t]
        BY <2>2, <3>5, <4>3
      <4>5. im_min[t] <= im_max[t]
        <5>1. im_min[t] <= grey.buf[p] /\ grey.buf[p] <= im_max[t]
          BY <3>1, <3>2 DEF Bounded
        <5>2. grey.buf[p] \in Int /\ im_min[t] \in Int /\ im_max[t] \in Int
          BY <3>4, <3>5
        <5> QED
          BY <5>1, <5>2
      <4>6. im_min[t] \in levels /\ im_max[t] \in levels /\ grey.buf[p] \in levels
        BY <3>3, <4>1
      <4>7. im_min[t] = dark /\ im_max[t] = bright
        BY <3>8, <4>2, <4>4, <4>5, <4>6
      <4>8. /\ bright > dark + (bright - dark) \div 2
            /\ ~(dark > dark + (bright - dark) \div 2)
        BY <3>8, <4>2, HalfWay
      <4> QED
        BY <3>8, <4>2, <4>3, <4>6, <4>7, <4>8
    <3> QED
      BY <3>7, <3>8
  <2> QED
    BY <2>3 DEF Grey!EdgesSurvive
<1> QED
  BY <1>1, GreyInit, GreyStep, PTL DEF Spec

-----------------------------------------------------------------------------
(* TypeOK: the start of the program, and the packets. *)

ThreadNames == {Start!Threads[i] : i \in 1 .. 5}

\* What Run has started so far; it is at "threads" as long as one is to come.
StartedOK ==
    /\ started \in Seq(ThreadNames)
    /\ Len(started) <= 5 /\ (place = "threads" => Len(started) < 5)
    /\ \A i \in 1 .. Len(started) : started[i] = Start!Threads[i]

StartTypes ==
    /\ place \in {"arguments", "socket", "serial", "joystick", "cameras", "threads",
                  "running", "failed", "exited", "terminated"}
    /\ socketOpen \in BOOLEAN /\ serialOpen \in BOOLEAN /\ isRunning \in BOOLEAN
    /\ socketHandle \in {"socket", "serial", NoHandle}
    /\ serialHandle \in {"socket", "serial", NoHandle}
    /\ opened \subseteq {"socket", "serial"} /\ cameras \subseteq {0, 1}
    /\ place \in {"arguments", "socket", "serial", "joystick", "cameras"} => started = <<>>
    /\ StartedOK

\* Run starts five threads.
LEMMA ThreadsOK ==
    Len(Start!Threads) = 5 /\ \A i \in 1 .. 5 : Start!Threads[i] \in ThreadNames
<1>1. Len(Start!Threads) = 5
  BY DEF Start!Threads
<1> QED
  BY <1>1 DEF ThreadNames

\* No thread is started yet.
LEMMA NothingStarted ==
    <<>> \in Seq(ThreadNames) /\ Len(<<>>) = 0
  OBVIOUS

\* Appending to a sequence.
LEMMA AppendOK ==
    ASSUME NEW S, NEW s \in Seq(S), NEW e \in S
    PROVE  /\ Append(s, e) \in Seq(S) /\ Len(Append(s, e)) = Len(s) + 1
           /\ \A i \in 1 .. Len(s) + 1 :
                  Append(s, e)[i] = IF i = Len(s) + 1 THEN e ELSE s[i]
  OBVIOUS

LEMMA StartTypesInit == Init => StartTypes
<1> SUFFICES ASSUME Init PROVE StartTypes
  OBVIOUS
<1>1. started = <<>> /\ place = "arguments"
  BY DEF Init, Start!Init
<1>2. StartedOK
  BY <1>1, NothingStarted DEF StartedOK
<1> QED
  BY <1>1, <1>2 DEF Init, Start!Init, StartTypes

LEMMA StartTypesStep == StartTypes /\ [Next]_vars => StartTypes'
<1> SUFFICES ASSUME StartTypes, [Next]_vars PROVE StartTypes'
  OBVIOUS
<1>1. Start!Next \/ UNCHANGED startVars
  BY StepOfOne
<1>a. CASE started' = started /\ place' # "threads"
  <2>1. StartedOK'
    BY <1>a DEF StartTypes, StartedOK
  <2> USE <1>a, <2>1 DEF StartTypes, Start!At, Start!To, Start!endpoints
  <2>2. CASE Start!NoSerialPort
    BY <2>2 DEF Start!NoSerialPort
  <2>3. CASE Start!Construct
    BY <2>3 DEF Start!Construct, Start!OpenSerialPort
  <2>4. CASE Start!OpenSocket
    BY <2>4 DEF Start!OpenSocket
  <2>5. CASE Start!SocketFails
    BY <2>5 DEF Start!SocketFails
  <2>6. CASE Start!OpenSerial
    BY <2>6 DEF Start!OpenSerial, Start!OpenSerialPort
  <2>7. CASE Start!InitializeJoysticks
    BY <2>7 DEF Start!InitializeJoysticks
  <2>8. CASE Start!Destroy
    BY <2>8 DEF Start!Destroy
  <2>9. CASE Start!End
    BY <2>9 DEF Start!End, Start!vars
  <2>10. CASE UNCHANGED startVars
    BY <2>10 DEF startVars
  <2>11. CASE Start!OpenCameras
    BY <2>11 DEF Start!OpenCameras
  <2>12. CASE Start!StartThread
    BY <2>12 DEF Start!StartThread, StartedOK
  <2>13. CASE Start!StartThreadThrows
    BY <2>13 DEF Start!StartThreadThrows
  <2> QED
    BY <1>1, <2>2, <2>3, <2>4, <2>5, <2>6, <2>7, <2>8, <2>9, <2>10, <2>11, <2>12, <2>13
       DEF Start!Next
<1>b. CASE ~(started' = started /\ place' # "threads")
  <2>1. CASE Start!OpenCameras
    BY <2>1 DEF Start!OpenCameras, StartTypes, StartedOK, Start!At, Start!To,
       Start!endpoints
  <2>2. CASE Start!StartThread
    <3>1. /\ started' = Append(started, Start!Threads[Len(started) + 1])
          /\ Len(started) \in 0 .. 4 /\ place = "threads"
          /\ place' = IF Len(started) + 1 = 5 THEN "running" ELSE "threads"
          /\ UNCHANGED <<socketOpen, serialOpen, socketHandle, serialHandle, opened,
                         cameras, isRunning>>
      <4>1. Len(started) \in Nat /\ Len(started) <= 5
        BY DEF StartTypes, StartedOK
      <4>2. place = "threads" => Len(started) < 5
        BY DEF StartTypes, StartedOK
      <4>3. place = "threads" /\ started' = Append(started, Start!Threads[Len(started) + 1])
        BY <2>2 DEF Start!StartThread, Start!At
      <4>4. place' = IF Len(started) + 1 = 5 THEN "running" ELSE "threads"
        BY <2>2, ThreadsOK DEF Start!StartThread, Start!To
      <4>5. UNCHANGED <<socketOpen, serialOpen, socketHandle, serialHandle, opened,
                        cameras, isRunning>>
        BY <2>2 DEF Start!StartThread, Start!endpoints
      <4>7. Len(started) < 5
        BY <4>2, <4>3
      <4>6. Len(started) \in 0 .. 4
        <5>1. \A m \in Nat : m < 5 => m \in 0 .. 4
          OBVIOUS
        <5> QED
          BY <4>1, <4>7, <5>1, Zenon
      <4> QED
        BY <4>3, <4>4, <4>5, <4>6
    <3>2. Start!Threads[Len(started) + 1] \in ThreadNames /\ started \in Seq(ThreadNames)
      BY <3>1, ThreadsOK DEF StartTypes, StartedOK
    <3>3. /\ started' \in Seq(ThreadNames) /\ Len(started') = Len(started) + 1
          /\ \A i \in 1 .. Len(started) + 1 :
                 started'[i] = IF i = Len(started) + 1 THEN Start!Threads[i] ELSE started[i]
      <4> HIDE DEF ThreadNames
      <4> DEFINE e == Start!Threads[Len(started) + 1]
      <4>1. /\ Append(started, e) \in Seq(ThreadNames)
            /\ Len(Append(started, e)) = Len(started) + 1
            /\ \A i \in 1 .. Len(started) + 1 :
                   Append(started, e)[i] = IF i = Len(started) + 1 THEN e ELSE started[i]
        <5> HIDE DEF e
        <5>1. e \in ThreadNames
          BY <3>2 DEF e
        <5> QED
          BY <3>2, <5>1, AppendOK
      <4>2. started' = Append(started, e)
        BY <3>1
      <4>3. \A i \in 1 .. Len(started) + 1 :
                IF i = Len(started) + 1 THEN e = Start!Threads[i] ELSE TRUE
        OBVIOUS
      <4> HIDE DEF e
      <4> QED
        BY <4>1, <4>2, <4>3
    <3>4. StartedOK'
      BY <3>1, <3>3 DEF StartTypes, StartedOK
    <3> QED
      BY <3>1, <3>4 DEF StartTypes
  <2>3. CASE Start!StartThreadThrows
    BY <2>3 DEF Start!StartThreadThrows, StartTypes, StartedOK, Start!At, Start!To
  <2>4. CASE Start!Construct \/ Start!OpenSerial
    BY <1>b, <2>4 DEF Start!Construct, Start!OpenSerial, Start!To
  <2>5. CASE UNCHANGED startVars \/ Start!End
    <3>1. UNCHANGED startVars
      BY <2>5 DEF startVars, Start!End, Start!vars, Start!endpoints
    <3>2. UNCHANGED <<place, socketOpen, serialOpen, isRunning, socketHandle, serialHandle,
                      opened, cameras, started>>
      BY <3>1 DEF startVars
    <3>3. StartedOK'
      BY <3>2 DEF StartedOK, StartTypes
    <3> QED
      BY <3>2, <3>3 DEF StartTypes
  <2> QED
    BY <1>1, <1>b, <2>1, <2>2, <2>3, <2>4, <2>5
       DEF Start!Next, Start!NoSerialPort, Start!OpenSocket, Start!SocketFails,
           Start!InitializeJoysticks, Start!Destroy, Start!To
<1> QED
  BY <1>a, <1>b

FieldTypes ==
    /\ step \in {"idle", "created", "parsed", "refused"}
    /\ kind \in Fields!Kinds
    /\ payload \in Seq(Fields!Bytes) /\ Len(payload) <= 12

\* A packet has at most six fields.
LEMMA OrderLength ==
    ASSUME NEW k \in Fields!Kinds
    PROVE  /\ Len(Fields!Order[k]) \in 1 .. 6
           /\ \A j \in 1 .. Len(Fields!Order[k]) : Fields!Order[k][j] \in Fields!Names(k)
<1>1. Len(Fields!Order[k]) \in 1 .. 6
  <2>1. CASE k = "drive"
    BY <2>1 DEF Fields!Order
  <2>2. CASE k = "quality"
    BY <2>2 DEF Fields!Order
  <2>3. CASE k = "place"
    BY <2>3 DEF Fields!Order
  <2>4. CASE k = "location"
    BY <2>4 DEF Fields!Order
  <2>5. CASE k = "encoder"
    BY <2>5 DEF Fields!Order
  <2> QED
    BY <2>1, <2>2, <2>3, <2>4, <2>5 DEF Fields!Kinds
<1> QED
  BY <1>1 DEF Fields!Names

LEMMA LengthOK ==
    ASSUME NEW n \in Nat, NEW m \in Nat, m <= n, NEW S, NEW f \in [1 .. m -> S]
    PROVE  f \in Seq(S) /\ Len(f) <= n
  OBVIOUS

\* What is written is bytes, two for each field of a wide packet.
LEMMA WrittenOK ==
    ASSUME Fields!FieldAssumption, NEW k \in Fields!Kinds, NEW p \in Fields!Structs[k]
    PROVE  /\ Fields!Written(k, Fields!Prepared(k, p)) \in Seq(Fields!Bytes)
           /\ Len(Fields!Written(k, Fields!Prepared(k, p))) <= 12
<1> DEFINE q == Fields!Prepared(k, p)
           n == Len(Fields!Order[k])
<1>1. /\ n \in 1 .. 6
      /\ \A j \in 1 .. n : Fields!Order[k][j] \in Fields!Names(k)
  BY OrderLength
<1>2. \A f \in Fields!Names(k) : q[f] \in Int
  BY PreparedIsMeant, Ranges DEF Fields!Kinds, Fields!Wide, Percent, Fields!Int8
<1>3. \A v \in Int : Fields!Low(v) \in 0 .. 255 /\ Fields!High(v) \in 0 .. 255
  BY DEF Fields!Low, Fields!High
<1> HIDE DEF q, n
<1>4. CASE k \in Fields!Wide
  <2>1. Fields!Written(k, q) =
            [i \in 1 .. 2 * n |->
                IF i % 2 = 1 THEN Fields!High(q[Fields!Order[k][(i + 1) \div 2]])
                ELSE Fields!Low(q[Fields!Order[k][i \div 2]])]
    BY <1>4 DEF Fields!Written, n
  <2>2. \A i \in 1 .. 2 * n : /\ i % 2 = 1 => (i + 1) \div 2 \in 1 .. n
                              /\ i % 2 # 1 => i \div 2 \in 1 .. n
    BY <1>1
  <2>3. \A j \in 1 .. n : /\ Fields!High(q[Fields!Order[k][j]]) \in 0 .. 255
                          /\ Fields!Low(q[Fields!Order[k][j]]) \in 0 .. 255
    BY <1>1, <1>2, <1>3
  <2>5. 2 * n \in Nat /\ 2 * n <= 12 /\ 12 \in Nat
    BY <1>1
  <2>6. \A i \in 1 .. 2 * n :
            (IF i % 2 = 1 THEN Fields!High(q[Fields!Order[k][(i + 1) \div 2]])
             ELSE Fields!Low(q[Fields!Order[k][i \div 2]])) \in 0 .. 255
    <3> TAKE i \in 1 .. 2 * n
    <3>1. CASE i % 2 = 1
      BY <2>2, <2>3, <3>1, Zenon
    <3>2. CASE i % 2 # 1
      BY <2>2, <2>3, <3>2, Zenon
    <3> QED
      BY <3>1, <3>2
  <2>4. Fields!Written(k, q) \in [1 .. 2 * n -> 0 .. 255]
    BY <2>1, <2>6, Zenon
  <2> QED
    BY <2>4, <2>5, LengthOK DEF Fields!Bytes, q
<1>5. CASE k \notin Fields!Wide
  <2>1. Fields!Written(k, q) = [i \in 1 .. n |-> Fields!Low(q[Fields!Order[k][i]])]
    BY <1>5 DEF Fields!Written, n
  <2>2. \A i \in 1 .. n : Fields!Low(q[Fields!Order[k][i]]) \in 0 .. 255
    BY <1>1, <1>2, <1>3
  <2>3. Fields!Written(k, q) \in [1 .. n -> 0 .. 255]
    BY <2>1, <2>2, Zenon
  <2>4. n \in Nat /\ n <= 12 /\ 12 \in Nat
    BY <1>1
  <2> QED
    BY <2>3, <2>4, LengthOK DEF Fields!Bytes, q
<1> QED
  BY <1>4, <1>5

LEMMA FieldTypesInit == Init => FieldTypes
  BY DEF Init, Fields!Init, FieldTypes, Fields!Kinds

LEMMA FieldTypesStep ==
    ASSUME Fields!FieldAssumption, FieldTypes, [Next]_vars
    PROVE  FieldTypes'
<1>1. Fields!Next \/ UNCHANGED fieldsVars
  BY StepOfOne
<1>2. ASSUME NEW k \in Fields!Kinds, NEW p \in Fields!Structs[k], Fields!Create(k, p)
      PROVE  FieldTypes'
  BY <1>2, WrittenOK DEF Fields!Create, FieldTypes
<1>3. CASE Fields!Parse
  BY <1>3 DEF Fields!Parse, FieldTypes
<1>4. CASE Fields!ParseReport
  BY <1>4 DEF Fields!ParseReport, FieldTypes
<1>5. CASE Fields!Again
  BY <1>5 DEF Fields!Again, FieldTypes, Fields!Kinds
<1>6. CASE UNCHANGED fieldsVars
  BY <1>6 DEF fieldsVars, FieldTypes
<1> QED
  BY <1>1, <1>2, <1>3, <1>4, <1>5, <1>6 DEF Fields!Next

\* Every variable of the robot's start, its frames, the packets and the joystick
\* stays within the values the code can give it: the threads are started in their
\* order and payloads are bytes, twelve at most (BLER.cpp:450-455, Packet.h:236-398).
THEOREM PartsTypes == Spec => []PartsTypeOK
<1>1. Fields!FieldAssumption /\ Stick!ControlAssumption
  BY PartsAssumption
<1>2. Init => StartTypes /\ FramesInv /\ FieldTypes /\ TypesInv /\ SpeedInv
  BY <1>1, StartTypesInit, FramesInit, FieldTypesInit, ControlInit
<1>3. /\ StartTypes /\ FramesInv /\ FieldTypes /\ TypesInv /\ SpeedInv
      /\ [Next]_vars
      => (StartTypes /\ FramesInv /\ FieldTypes /\ TypesInv /\ SpeedInv)'
  BY <1>1, StartTypesStep, FramesStep, FieldTypesStep, ControlStep
<1>4. StartTypes /\ FramesInv /\ FieldTypes /\ TypesInv => PartsTypeOK
  <2>1. StartTypes => Start!TypeOK
    BY ThreadsOK DEF StartTypes, StartedOK, Start!TypeOK, Start!Handles
  <2>2. FramesInv => Frames!TypeOK
    BY DEF FramesInv
  <2>3. FieldTypes => Fields!TypeOK
    BY DEF FieldTypes, Fields!TypeOK
  <2>4. TypesInv => Stick!TypeOK
    BY DEF TypesInv, Stick!TypeOK, Places, Record, Stick!MaxDivisor
  <2> QED
    BY <2>1, <2>2, <2>3, <2>4 DEF PartsTypeOK
<1> QED
  BY <1>2, <1>3, <1>4, PTL DEF Spec

-----------------------------------------------------------------------------
(* Induction and recursion over an interval *)

LEMMA Positive ==
    ASSUME NEW m \in Nat \ {0}, NEW n \in Nat \ {0}
    PROVE  m * n > 0
<1>1. m * n >= n
  OBVIOUS
<1> QED
  BY <1>1

\* MinOf, without the operator.
LEMMA LeastOf ==
    ASSUME NEW S, S \subseteq Int, IsFiniteSet(S), S # {}
    PROVE  \E x \in S : \A y \in S : x <= y
  BY MinOf

\* Induction on an interval.
LEMMA UpTo ==
    ASSUME NEW n \in Nat, NEW S, 0 \in S, \A i \in 0 .. n - 1 : i \in S => i + 1 \in S
    PROVE  \A i \in 0 .. n : i \in S
<1> DEFINE left == {i \in 0 .. n : i \notin S}
<1>1. CASE left # {}
  <2>1. IsFiniteSet(left) /\ left \subseteq Int
    <3>1. left \in SUBSET (0 .. n)
      OBVIOUS
    <3>2. IsFiniteSet(0 .. n)
      BY FS_Interval
    <3> QED
      BY <3>1, <3>2, FS_Subset
  <2>2. PICK m \in left : \A y \in left : m <= y
    <3> HIDE DEF left
    <3> QED
      BY <1>1, <2>1, LeastOf
  <2>3. m - 1 \in 0 .. n - 1 /\ m - 1 \notin left
    BY <2>2
  <2> QED
    BY <2>2, <2>3
<1> QED
  BY <1>1

\* A recursion over an interval has a solution.
Nexts(n, T) == [(1 .. n) \X T -> T]
Solves(f, n, T, base, next) ==
    /\ f \in [0 .. n -> T] /\ f[0] = base
    /\ \A i \in 1 .. n : f[i] = next[<<i, f[i - 1]>>]

LEMMA Recursion ==
    ASSUME NEW T, NEW n \in Nat, NEW base \in T, NEW next \in Nexts(n, T)
    PROVE  \E f : Solves(f, n, T, base, next)
<1> DEFINE Good(m, f) == /\ f \in [0 .. m -> T] /\ f[0] = base
                         /\ \A i \in 1 .. m : f[i] = next[<<i, f[i - 1]>>]
           S == {m \in 0 .. n : \E f : Good(m, f)}
<1>1. 0 \in S
  <2>1. /\ [i \in 0 .. 0 |-> base] \in [0 .. 0 -> T]
        /\ [i \in 0 .. 0 |-> base][0] = base
    OBVIOUS
  <2>2. Good(0, [i \in 0 .. 0 |-> base])
    <3> DEFINE g == [i \in 0 .. 0 |-> base]
    <3>1. \A i \in 1 .. 0 : g[i] = next[<<i, g[i - 1]>>]
      OBVIOUS
    <3> HIDE DEF g
    <3> QED
      BY <2>1, <3>1 DEF g
  <2> HIDE DEF Good
  <2> QED
    BY <2>2
<1>2. ASSUME NEW m \in 0 .. n - 1, m \in S
      PROVE  m + 1 \in S
  <2>1. PICK f : Good(m, f)
    BY <1>2
  <2> DEFINE g == [i \in 0 .. m + 1 |-> IF i = m + 1 THEN next[<<i, f[m]>>] ELSE f[i]]
  <2>2. f[m] \in T /\ next[<<m + 1, f[m]>>] \in T
    BY <2>1 DEF Nexts
  <2>3. g \in [0 .. m + 1 -> T] /\ g[0] = base
    BY <2>1, <2>2
  <2>4. \A i \in 1 .. m + 1 : g[i] = next[<<i, g[i - 1]>>]
    <3> TAKE i \in 1 .. m + 1
    <3>1. CASE i = m + 1
      BY <3>1
    <3>2. CASE i # m + 1
      BY <2>1, <3>2
    <3> QED
      BY <3>1, <3>2
  <2>5. Good(m + 1, g)
    <3> HIDE DEF g
    <3> QED
      BY <2>3, <2>4
  <2> HIDE DEF Good, g
  <2> QED
    BY <2>5
<1>3. n \in S
  <2> HIDE DEF S
  <2> QED
    BY <1>1, <1>2, UpTo
<1>4. PICK f : Good(n, f)
  BY <1>3
<1> QED
  BY <1>4 DEF Solves

\* up leads to ever greater ranks.
Rises(P, up, rank, m) ==
    /\ up \in [P -> P] /\ rank \in [P -> 0 .. m]
    /\ \A q \in P : up[q] # q => rank[up[q]] > rank[q]

\* What holds where up ends, and of q if of up[q], holds everywhere.
LEMMA RankInduction ==
    ASSUME NEW P, NEW m \in Nat, NEW up, NEW rank, Rises(P, up, rank, m), NEW S,
           \A q \in P : up[q] = q \/ up[q] \in S => q \in S
    PROVE  P \subseteq S
<1> DEFINE bad == P \ S
           ranks == {rank[q] : q \in bad}
<1>1. CASE bad # {}
  <2>1. IsFiniteSet(ranks) /\ ranks \subseteq Int /\ ranks # {}
    <3>1. ranks \in SUBSET (0 .. m)
      BY DEF Rises
    <3>2. IsFiniteSet(0 .. m)
      BY FS_Interval
    <3>3. IsFiniteSet(ranks)
      <4> HIDE DEF ranks
      <4> QED
        BY <3>1, <3>2, FS_Subset
    <3> QED
      BY <1>1, <3>1, <3>3
  <2>2. PICK x \in ranks : \A y \in ranks : y <= x
    <3> HIDE DEF ranks
    <3> QED
      BY <2>1, GreatestOf
  <2>3. PICK q \in bad : x = rank[q]
    BY <2>2
  <2>4. up[q] \in bad /\ up[q] # q
    BY <2>3 DEF Rises
  <2>5. rank[up[q]] \in ranks /\ rank[up[q]] > rank[q]
    BY <2>3, <2>4 DEF Rises
  <2>6. rank[up[q]] \in Int /\ rank[q] \in Int
    BY <2>3, <2>4 DEF Rises
  <2> QED
    BY <2>2, <2>3, <2>5, <2>6
<1> QED
  BY <1>1

\* A recursion along up has a solution.
Steps(P, T) == [P \X T -> T]
Climbs(f, P, T, up, base, next) ==
    /\ f \in [P -> T]
    /\ \A q \in P : f[q] = IF up[q] = q THEN base[q] ELSE next[<<q, f[up[q]]>>]

\* A recursion along a map whose ranks rise up to a bound has a solution.
LEMMA RankRecursion ==
    ASSUME NEW P, NEW T, NEW m \in Nat, NEW up, NEW rank, Rises(P, up, rank, m),
           NEW base \in [P -> T], NEW next \in Steps(P, T)
    PROVE  \E f : Climbs(f, P, T, up, base, next)
<1> DEFINE Above(k) == {q \in P : rank[q] >= m - k}
           Good(k, f) ==
               /\ f \in [Above(k) -> T]
               /\ \A q \in Above(k) :
                      f[q] = IF up[q] = q THEN base[q] ELSE next[<<q, f[up[q]]>>]
           S == {k \in 0 .. m : \E f : Good(k, f)}
<1>0. /\ up \in [P -> P] /\ \A q \in P : rank[q] \in Int /\ rank[q] >= 0 /\ rank[q] <= m
      /\ \A q \in P : up[q] # q => rank[up[q]] > rank[q]
  BY DEF Rises
<1>1. 0 \in S
  <2> DEFINE f == [q \in Above(0) |-> base[q]]
  <2>1. f \in [Above(0) -> T]
    OBVIOUS
  <2>2. \A q \in Above(0) : up[q] = q
    <3>1. TAKE q \in Above(0)
    <3>2. q \in P /\ rank[q] >= m /\ up[q] \in P
      BY <1>0
    <3>3. rank[up[q]] \in Int /\ rank[up[q]] <= m /\ rank[q] \in Int
      BY <1>0, <3>2
    <3> QED
      BY <1>0, <3>2, <3>3
  <2>3. \A q \in Above(0) : f[q] = base[q]
    OBVIOUS
  <2> HIDE DEF f, Above
  <2>4. Good(0, f)
    BY <2>1, <2>2, <2>3
  <2> HIDE DEF Good
  <2> QED
    BY <2>4
<1>2. ASSUME NEW k \in 0 .. m - 1, k \in S
      PROVE  k + 1 \in S
  <2>1. PICK f : Good(k, f)
    BY <1>2
  <2> DEFINE g == [q \in Above(k + 1) |->
                      IF q \in Above(k) THEN f[q]
                      ELSE IF up[q] = q THEN base[q] ELSE next[<<q, f[up[q]]>>]]
  <2>2. \A q \in Above(k) : q \in Above(k + 1)
    <3> TAKE q \in Above(k)
    <3>1. q \in P /\ rank[q] \in Int /\ rank[q] >= m - k
      BY <1>0
    <3> QED
      BY <3>1
  <2>3. \A q \in Above(k + 1) : up[q] # q => up[q] \in Above(k)
    <3> TAKE q \in Above(k + 1)
    <3> HAVE up[q] # q
    <3>1. q \in P /\ rank[q] \in Int /\ rank[q] >= m - (k + 1) /\ up[q] \in P
      BY <1>0
    <3>2. rank[up[q]] \in Int /\ rank[up[q]] > rank[q]
      BY <1>0, <3>1
    <3> QED
      BY <3>1, <3>2
  <2>4. /\ f \in [Above(k) -> T]
        /\ \A q \in Above(k) : f[q] = IF up[q] = q THEN base[q] ELSE next[<<q, f[up[q]]>>]
    BY <2>1
  <2>5. \A q \in Above(k + 1) : q \in P
    OBVIOUS
  <2> HIDE DEF Above
  <2>6. \A q \in Above(k + 1) :
            g[q] = IF q \in Above(k) THEN f[q]
                   ELSE IF up[q] = q THEN base[q] ELSE next[<<q, f[up[q]]>>]
    OBVIOUS
  <2>7. \A q \in Above(k + 1) : up[q] # q => f[up[q]] \in T
    BY <2>3, <2>4
  <2>8. \A q \in Above(k + 1) : g[q] \in T
    <3> TAKE q \in Above(k + 1)
    <3>1. CASE q \in Above(k)
      BY <2>4, <2>6, <3>1
    <3>2. CASE q \notin Above(k) /\ up[q] = q
      BY <2>5, <2>6, <3>2
    <3>3. CASE q \notin Above(k) /\ up[q] # q
      <4>1. next[<<q, f[up[q]]>>] \in T
        BY <2>5, <2>7, <3>3 DEF Steps
      <4> QED
        BY <2>6, <3>3, <4>1
    <3> QED
      BY <3>1, <3>2, <3>3
  <2>9. g \in [Above(k + 1) -> T]
    <3>1. g = [q \in Above(k + 1) |-> g[q]]
      OBVIOUS
    <3> HIDE DEF g
    <3> QED
      BY <2>8, <3>1
  <2>10. \A q \in Above(k + 1) :
             g[q] = IF up[q] = q THEN base[q] ELSE next[<<q, g[up[q]]>>]
    <3> TAKE q \in Above(k + 1)
    <3>1. up[q] # q => g[up[q]] = f[up[q]]
      BY <2>2, <2>3, <2>6
    <3>2. g[q] = IF up[q] = q THEN base[q] ELSE next[<<q, f[up[q]]>>]
      BY <2>4, <2>6
    <3> HIDE DEF g
    <3> QED
      BY <3>1, <3>2
  <2>11. Good(k + 1, g)
    <3> HIDE DEF g
    <3> QED
      BY <2>9, <2>10
  <2> HIDE DEF Good, g
  <2> QED
    BY <2>11, <1>2
<1>3. m \in S
  <2>1. m \in 0 .. m
    OBVIOUS
  <2> HIDE DEF S
  <2> QED
    BY <1>1, <1>2, <2>1, UpTo
<1>4. PICK f : Good(m, f)
  BY <1>3
<1>5. Above(m) = P
  BY <1>0
<1> QED
  <2> HIDE DEF Above
  <2> QED
    BY <1>4, <1>5 DEF Climbs

\* A recursion whose values keep an invariant, where each step is only known to be one
\* between values that do.
Keeps(n, I, base, next) ==
    /\ <<0, base>> \in I
    /\ \A k \in 1 .. n : \A v : <<k - 1, v>> \in I => <<k, next[<<k, v>>]>> \in I
Unfolds(f, n, base, next) ==
    f = [k \in 0 .. n |-> IF k = 0 THEN base ELSE next[<<k, f[k - 1]>>]]

\* Such a recursion has a solution, all of whose values keep the invariant.
LEMMA KeptRecursion ==
    ASSUME NEW n \in Nat, NEW I, NEW base, NEW next, Keeps(n, I, base, next)
    PROVE  \E f : Unfolds(f, n, base, next) /\ \A k \in 0 .. n : <<k, f[k]>> \in I
<1> DEFINE Good(m, f) == /\ f = [k \in 0 .. m |-> IF k = 0 THEN base ELSE next[<<k, f[k - 1]>>]]
                         /\ \A k \in 0 .. m : <<k, f[k]>> \in I
           S == {m \in 0 .. n : \E f : Good(m, f)}
<1>1. 0 \in S
  <2> DEFINE g == [k \in 0 .. 0 |-> base]
  <2>1. \A k \in 0 .. 0 : k = 0
    OBVIOUS
  <2>2. g = [k \in 0 .. 0 |-> IF k = 0 THEN base ELSE next[<<k, g[k - 1]>>]]
    BY <2>1, Zenon
  <2>3. g[0] = base
    OBVIOUS
  <2> HIDE DEF g
  <2>4. Good(0, g)
    BY <2>1, <2>2, <2>3 DEF Keeps
  <2> HIDE DEF Good
  <2> QED
    BY <2>4
<1>2. ASSUME NEW m \in 0 .. n - 1, m \in S
      PROVE  m + 1 \in S
  <2>1. PICK f : Good(m, f)
    BY <1>2
  <2> DEFINE g == [k \in 0 .. m + 1 |-> IF k = m + 1 THEN next[<<k, f[m]>>] ELSE f[k]]
  <2>2. g[m + 1] = next[<<m + 1, f[m]>>] /\ \A k \in 0 .. m : g[k] = f[k]
    OBVIOUS
  <2>3. g = [k \in 0 .. m + 1 |-> g[k]]
    OBVIOUS
  <2> HIDE DEF g
  <2>4. \A k \in 0 .. m + 1 : g[k] = IF k = 0 THEN base ELSE next[<<k, g[k - 1]>>]
    <3>1. \A k \in 0 .. m : f[k] = IF k = 0 THEN base ELSE next[<<k, f[k - 1]>>]
      BY <2>1
    <3> TAKE k \in 0 .. m + 1
    <3>2. CASE k = m + 1
      BY <2>2, <3>2
    <3>3. CASE k # m + 1
      <4>1. k \in 0 .. m /\ (k # 0 => k - 1 \in 0 .. m)
        BY <3>3
      <4> QED
        BY <2>2, <3>1, <4>1
    <3> QED
      BY <3>2, <3>3
  <2>5. g = [k \in 0 .. m + 1 |-> IF k = 0 THEN base ELSE next[<<k, g[k - 1]>>]]
    BY <2>3, <2>4, Zenon
  <2>6. \A k \in 0 .. m + 1 : <<k, g[k]>> \in I
    <3> TAKE k \in 0 .. m + 1
    <3>1. CASE k = m + 1
      <4>1. m + 1 \in 1 .. n /\ (m + 1) - 1 = m /\ <<m, f[m]>> \in I
        BY <2>1
      <4>2. <<m + 1, next[<<m + 1, f[m]>>]>> \in I
        BY <4>1 DEF Keeps
      <4> QED
        BY <2>2, <3>1, <4>2
    <3>2. CASE k # m + 1
      <4>1. k \in 0 .. m
        BY <3>2
      <4> QED
        BY <2>1, <2>2, <4>1
    <3> QED
      BY <3>1, <3>2
  <2>7. Good(m + 1, g)
    BY <2>5, <2>6, Zenon
  <2> HIDE DEF Good
  <2> QED
    BY <2>7
<1>3. n \in S
  <2> HIDE DEF S
  <2> QED
    BY <1>1, <1>2, UpTo
<1>4. PICK f : Good(n, f)
  BY <1>3
<1> QED
  BY <1>4, Zenon DEF Unfolds

\* A recursion of two branches, each of a smaller rank.
Branches(P, leaf, left, right, rank, m) ==
    \A q \in P : /\ rank[q] \in 0 .. m
                 /\ q \notin leaf =>
                        /\ left[q] \in P /\ rank[left[q]] < rank[q]
                        /\ right[q] \in P /\ rank[right[q]] < rank[q]
Grows(P, leaf, left, right, I, base, next) ==
    \A q \in P :
        /\ q \in leaf => <<q, base[q]>> \in I
        /\ q \notin leaf =>
               \A v, w : <<left[q], v>> \in I /\ <<right[q], w>> \in I =>
                             <<q, next[<<v, w>>]>> \in I
Branched(f, P, leaf, left, right, base, next) ==
    f = [q \in P |-> IF q \in leaf THEN base[q] ELSE next[<<f[left[q]], f[right[q]]>>]]

\* It has a solution too, which keeps its invariant.
LEMMA TreeRecursion ==
    ASSUME NEW P, NEW m \in Nat, NEW leaf, NEW left, NEW right, NEW rank,
           Branches(P, leaf, left, right, rank, m),
           NEW I, NEW base, NEW next, Grows(P, leaf, left, right, I, base, next)
    PROVE  \E f : /\ Branched(f, P, leaf, left, right, base, next)
                  /\ \A q \in P : <<q, f[q]>> \in I
<1> DEFINE Below(k) == {q \in P : rank[q] <= k}
           Value(f, q) == IF q \in leaf THEN base[q] ELSE next[<<f[left[q]], f[right[q]]>>]
           Good(k, f) == \A q \in Below(k) : f[q] = Value(f, q) /\ <<q, f[q]>> \in I
           S == {k \in 0 .. m : \E f : Good(k, f)}
<1>1. \A q \in P : rank[q] \in 0 .. m
  BY DEF Branches
<1>2. \A q \in P : q \notin leaf => /\ left[q] \in P /\ rank[left[q]] < rank[q]
                                    /\ right[q] \in P /\ rank[right[q]] < rank[q]
  BY DEF Branches
<1>3. 0 \in S
  <2> DEFINE g == [q \in P |-> base[q]]
  <2>1. \A q \in Below(0) : q \in leaf
    BY <1>1, <1>2
  <2>2. \A q \in Below(0) : g[q] = base[q] /\ <<q, base[q]>> \in I
    BY <2>1 DEF Grows
  <2> HIDE DEF g, Below
  <2>3. Good(0, g)
    BY <2>1, <2>2
  <2> HIDE DEF Good
  <2> QED
    BY <2>3
<1>4. ASSUME NEW k \in 0 .. m - 1, k \in S
      PROVE  k + 1 \in S
  <2>1. PICK f : Good(k, f)
    BY <1>4
  <2> DEFINE g == [q \in P |-> IF q \in Below(k) THEN f[q] ELSE Value(f, q)]
  <2>2. \A q \in Below(k + 1) :
            q \in P /\ (q \notin leaf => left[q] \in Below(k) /\ right[q] \in Below(k))
    BY <1>1, <1>2
  <2>3. \A q \in Below(k) : f[q] = Value(f, q) /\ <<q, f[q]>> \in I
    BY <2>1
  <2> HIDE DEF Below
  <2>4. \A q \in P : g[q] = IF q \in Below(k) THEN f[q] ELSE Value(f, q)
    OBVIOUS
  <2> HIDE DEF g
  <2>5. \A q \in Below(k) \cap P : g[q] = f[q]
    BY <2>4
  <2>6. \A q \in Below(k) : q \in P
    BY DEF Below
  <2>7. \A q \in Below(k + 1) : Value(g, q) = Value(f, q) /\ g[q] = Value(f, q)
    <3> TAKE q \in Below(k + 1)
    <3>1. Value(g, q) = Value(f, q)
      <4>1. CASE q \in leaf
        BY <4>1
      <4>2. CASE q \notin leaf
        <5>1. g[left[q]] = f[left[q]] /\ g[right[q]] = f[right[q]]
          BY <2>2, <2>5, <2>6, <4>2
        <5> QED
          BY <4>2, <5>1
      <4> QED
        BY <4>1, <4>2
    <3>2. g[q] = Value(f, q)
      <4> HIDE DEF Value
      <4> QED
        BY <2>2, <2>3, <2>4
    <3> QED
      BY <3>1, <3>2
  <2>8. \A q \in Below(k + 1) : <<q, Value(f, q)>> \in I
    <3> TAKE q \in Below(k + 1)
    <3>1. CASE q \in leaf
      BY <2>2, <3>1 DEF Grows
    <3>2. CASE q \notin leaf
      <4>1. <<left[q], f[left[q]]>> \in I /\ <<right[q], f[right[q]]>> \in I
        BY <2>2, <2>3, <3>2
      <4> QED
        BY <2>2, <3>2, <4>1 DEF Grows
    <3> QED
      BY <3>1, <3>2
  <2>9. Good(k + 1, g)
    <3> HIDE DEF Value
    <3> QED
      BY <2>7, <2>8
  <2>10. k + 1 \in 0 .. m
    OBVIOUS
  <2> HIDE DEF Good
  <2> QED
    BY <2>9, <2>10
<1>5. m \in S
  <2>1. m \in 0 .. m
    OBVIOUS
  <2> HIDE DEF S
  <2> QED
    BY <1>3, <1>4, <2>1, UpTo
<1>6. PICK f : Good(m, f)
  BY <1>5
<1> DEFINE g == [q \in P |-> f[q]]
<1>7. \A q \in P : f[q] = Value(f, q) /\ <<q, f[q]>> \in I
  BY <1>1, <1>6
<1>8. \A q \in P : g[q] = f[q]
  OBVIOUS
<1>9. g = [q \in P |-> g[q]]
  OBVIOUS
<1> HIDE DEF g
<1>10. \A q \in P : g[q] = Value(g, q)
  BY <1>2, <1>7, <1>8
<1>11. g = [q \in P |-> IF q \in leaf THEN base[q] ELSE next[<<g[left[q]], g[right[q]]>>]]
  BY <1>9, <1>10, Zenon
<1> QED
  <2> HIDE DEF Value
  <2> QED
    BY <1>7, <1>8, <1>11, Zenon DEF Branched

-----------------------------------------------------------------------------
(* Words as numbers, and how far they are apart *)

\* Value numbers the words from 0 to Capacity - 1, each once.
LEMMA ValueOK ==
    ASSUME Side \in Nat
    PROVE  \A w : Code!Value(w) \in Nat
<1> TAKE w
<1> DEFINE n == Side * Side
           next == [p \in (1 .. n) \X Nat |->
                       2 * p[2] + (IF Side * Side - p[1] \in w THEN 1 ELSE 0)]
           Is(f) == f = [b \in 0 .. Side * Side |->
                           IF b = 0 THEN 0
                           ELSE 2 * f[b - 1] + (IF Side * Side - b \in w THEN 1 ELSE 0)]
<1>1. n \in Nat /\ next \in [(1 .. n) \X Nat -> Nat]
  <2>1. \A d \in Nat : d * d \in Nat
    OBVIOUS
  <2>2. n \in Nat
    BY <2>1
  <2>3. \A p \in (1 .. n) \X Nat :
            2 * p[2] + (IF Side * Side - p[1] \in w THEN 1 ELSE 0) \in Nat
    <3> HIDE DEF n
    <3> TAKE p \in (1 .. n) \X Nat
    <3>1. p[2] \in Nat
      OBVIOUS
    <3> QED
      BY <3>1
  <2> QED
    BY <2>2, <2>3
<1>2. PICK f \in [0 .. n -> Nat] :
          f[0] = 0 /\ \A i \in 1 .. n : f[i] = next[<<i, f[i - 1]>>]
  <2> DEFINE T == Nat
             base == 0
  <2>1. base \in T /\ n \in Nat /\ next \in Nexts(n, T)
    BY <1>1 DEF Nexts
  <2>2. \E f : Solves(f, n, T, base, next)
    <3> HIDE DEF n, next, T, base
    <3> QED
      BY <2>1, Recursion
  <2> HIDE DEF n, next
  <2> QED
    BY <2>2 DEF Solves
<1>4. Is(f)
  <2>1. \A i \in 0 .. n :
            f[i] = (IF i = 0 THEN 0
                    ELSE 2 * f[i - 1] + (IF Side * Side - i \in w THEN 1 ELSE 0))
    <3> TAKE i \in 0 .. n
    <3>1. CASE i # 0
      <4>1. i \in 1 .. n /\ i - 1 \in 0 .. n
        BY <3>1, <1>1
      <4>2. <<i, f[i - 1]>> \in (1 .. n) \X Nat
        BY <4>1, <1>2
      <4> QED
        BY <4>1, <4>2, <3>1, <1>2
    <3> QED
      BY <3>1, <1>2
  <2>2. f = [i \in 0 .. n |-> f[i]]
    BY <1>2
  <2> HIDE DEF next
  <2> QED
    BY <2>1, <2>2, Zenon
<1>5. \A g : Is(g) => g[n] \in Nat
  <2> TAKE g
  <2> HAVE Is(g)
  <2> DEFINE S == {i \in 0 .. n : g[i] \in Nat}
  <2>4. \A i \in 0 .. n :
            g[i] = IF i = 0 THEN 0
                   ELSE 2 * g[i - 1] + (IF Side * Side - i \in w THEN 1 ELSE 0)
    OBVIOUS
  <2> HIDE DEF Is
  <2> HIDE DEF n
  <2>1. 0 \in S
    BY <1>1, <2>4
  <2>2. ASSUME NEW i \in 0 .. n - 1, i \in S
        PROVE  i + 1 \in S
    <3>1. i + 1 \in 0 .. n /\ i + 1 # 0 /\ (i + 1) - 1 = i /\ g[i] \in Nat
      BY <2>2, <1>1
    <3>2. g[i + 1] = 2 * g[i] + (IF Side * Side - (i + 1) \in w THEN 1 ELSE 0)
      BY <3>1, <2>4
    <3>3. g[i + 1] \in Nat
      BY <3>1, <3>2
    <3> QED
      BY <3>1, <3>3
  <2>3. n \in S
    <3>1. n \in 0 .. n
      BY <1>1
    <3> HIDE DEF S, Is
    <3> QED
      BY <1>1, <2>1, <2>2, <3>1, UpTo
  <2> QED
    BY <2>3
<1>6. Code!Value(w) = (CHOOSE h : Is(h))[n]
  BY DEF Code!Value
<1> QED
  <2> HIDE DEF Is, n
  <2> QED
    BY <1>4, <1>5, <1>6

\* The cardinality of the instances is the usual one.
LEMMA CodeCard == \A S : Code!Cardinality(S) = Cardinality(S)
  BY DEF Code!Cardinality, Cardinality, Code!IsFiniteSet, IsFiniteSet

Apart2(v, w) == (v \ w) \cup (w \ v)

\* A word has finitely many bits.
LEMMA BitsFinite ==
    ASSUME Side \in Nat \ {0}
    PROVE  /\ Side * Side \in Nat \ {0} /\ IsFiniteSet(Code!Bits)
           /\ \A w \in Code!Words : IsFiniteSet(w) /\ Cardinality(w) \in Nat
<1>1. Side * Side \in Nat \ {0}
  BY Positive
<1>2. IsFiniteSet(Code!Bits)
  <2> DEFINE n == Side * Side - 1
  <2>1. n \in Int
    BY <1>1
  <2> HIDE DEF n
  <2>2. IsFiniteSet(0 .. n)
    BY <2>1, FS_Interval
  <2> QED
    BY <2>2 DEF Code!Bits, n
<1>3. ASSUME NEW w \in Code!Words
      PROVE  IsFiniteSet(w) /\ Cardinality(w) \in Nat
  BY <1>2, FS_Subset, FS_CardinalityType DEF Code!Words
<1> QED
  BY <1>1, <1>2, <1>3

\* The bits two words differ in are a word, counted from either side.
LEMMA DistanceOK ==
    ASSUME Side \in Nat \ {0}, NEW v \in Code!Words, NEW w \in Code!Words
    PROVE  /\ Apart2(v, w) \in Code!Words
           /\ Code!Distance(v, w) = Cardinality(Apart2(v, w))
           /\ Code!Distance(v, w) = Code!Distance(w, v)
           /\ Code!Distance(v, w) \in Nat
<1>1. Apart2(v, w) \in Code!Words /\ Apart2(v, w) = Apart2(w, v)
  BY DEF Apart2, Code!Words
<1>2. /\ Code!Distance(v, w) = Cardinality(Apart2(v, w))
      /\ Code!Distance(w, v) = Cardinality(Apart2(w, v))
  BY CodeCard DEF Code!Distance, Apart2
<1> QED
  BY <1>1, <1>2, BitsFinite

\* The triangle inequality.
LEMMA Triangle ==
    ASSUME Side \in Nat \ {0},
           NEW u \in Code!Words, NEW v \in Code!Words, NEW w \in Code!Words
    PROVE  Code!Distance(u, w) <= Code!Distance(u, v) + Code!Distance(v, w)
<1> DEFINE A == Apart2(u, v)
           B == Apart2(v, w)
           C == Apart2(u, w)
<1>1. A \in Code!Words /\ B \in Code!Words /\ C \in Code!Words
  BY DistanceOK
<1>2. C \subseteq A \cup B
  BY DEF Apart2
<1>3. /\ IsFiniteSet(A) /\ IsFiniteSet(B) /\ IsFiniteSet(C)
      /\ Cardinality(A) \in Nat /\ Cardinality(B) \in Nat /\ Cardinality(C) \in Nat
  BY <1>1, BitsFinite
<1> HIDE DEF A, B, C
<1>4. /\ IsFiniteSet(A \cup B)
      /\ Cardinality(A \cup B) = Cardinality(A) + Cardinality(B) - Cardinality(A \cap B)
  BY <1>3, FS_Union
<1>5. IsFiniteSet(A \cap B) /\ Cardinality(A \cap B) \in Nat
  BY <1>3, FS_Intersection, FS_CardinalityType
<1>6. Cardinality(C) <= Cardinality(A \cup B)
  BY <1>2, <1>4, FS_Subset
<1>7. Cardinality(C) <= Cardinality(A) + Cardinality(B)
  BY <1>3, <1>4, <1>5, <1>6
<1> QED
  BY <1>7, DistanceOK DEF A, B, C

\* Flipping h bits leads to just the words at a distance of h.
LEMMA FlippedOK ==
    ASSUME Side \in Nat \ {0}, NEW code \in Code!Words, NEW h
    PROVE  \A w : w \in Code!Flipped(code, h)
                  <=> w \in Code!Words /\ Code!Distance(code, w) = h
<1>1. ASSUME NEW e \in Code!kSubset(h, Code!Bits)
      PROVE  /\ Apart2(code, e) \in Code!Words
             /\ Code!Distance(code, Apart2(code, e)) = h
  <2>1. e \in Code!Words /\ Cardinality(e) = h
    BY CodeCard DEF Code!kSubset, Code!Words
  <2>2. Apart2(code, Apart2(code, e)) = e
    BY DEF Apart2
  <2>3. Apart2(code, e) \in Code!Words
    BY <2>1, DistanceOK
  <2> QED
    BY <2>1, <2>2, <2>3, DistanceOK
<1>2. ASSUME NEW w \in Code!Words, Code!Distance(code, w) = h
      PROVE  \E e \in Code!kSubset(h, Code!Bits) : w = Apart2(code, e)
  <2>1. Apart2(code, w) \in Code!Words /\ Cardinality(Apart2(code, w)) = h
    BY <1>2, DistanceOK
  <2>2. Apart2(code, Apart2(code, w)) = w
    BY DEF Apart2
  <2>3. Apart2(code, w) \in Code!kSubset(h, Code!Bits)
    BY <2>1, CodeCard DEF Code!kSubset, Code!Words
  <2> QED
    BY <2>2, <2>3
<1>3. Code!Flipped(code, h) = {Apart2(code, e) : e \in Code!kSubset(h, Code!Bits)}
  BY DEF Code!Flipped, Apart2
<1> QED
  BY <1>1, <1>2, <1>3


-----------------------------------------------------------------------------
(* rotate90 *)

\* Quotient and remainder are the only ones.
LEMMA OnlyOne ==
    ASSUME NEW c \in Nat \ {0}, NEW q \in Nat, NEW m \in 0 .. c - 1
    PROVE  /\ c * q + m \in Nat
           /\ (c * q + m) \div c = q /\ (c * q + m) % c = m
<1>1. /\ c * q + m \in Nat /\ q * c \in Nat /\ q * c = c * q
      /\ q * c <= c * q + m /\ c * q + m < q * c + c
  OBVIOUS
<1> DEFINE x == c * q + m
<1>2. x = c * q + m
  OBVIOUS
<1> HIDE DEF x
<1>3. q = x \div c
  BY <1>1, <1>2, OneChunk
<1>4. x % c \in 0 .. c - 1 /\ x = c * (x \div c) + (x % c)
  BY <1>1, <1>2, DivMod
<1>5. x % c = m
  BY <1>1, <1>2, <1>3, <1>4
<1> QED
  BY <1>1, <1>2, <1>3, <1>5

\* Where a bit comes to lie by a quarter turn.
Quarter(b) == Side * (b % Side) + (Side - 1 - b \div Side)

\* Bits are numbered by row and column, the last bit first.
LEMMA BitPlaces ==
    ASSUME Side \in Nat \ {0}
    PROVE  /\ \A b \in Code!Bits : b \div Side \in 0 .. Side - 1 /\ b % Side \in 0 .. Side - 1
                                   /\ b = Side * (b \div Side) + (b % Side)
           /\ \A q, m \in 0 .. Side - 1 :
                  /\ Side * q + m \in Code!Bits
                  /\ (Side * q + m) \div Side = q /\ (Side * q + m) % Side = m
           /\ \A r, c \in 0 .. Side - 1 :
                  Code!BitAt(r, c) = Side * (Side - 1 - r) + (Side - 1 - c)
<1>0. Side * Side \in Nat \ {0}
  BY BitsFinite
<1>1. ASSUME NEW b \in Code!Bits
      PROVE  b \div Side \in 0 .. Side - 1 /\ b % Side \in 0 .. Side - 1
             /\ b = Side * (b \div Side) + (b % Side)
  <2>1. b \in Nat /\ b < Side * Side
    BY <1>0 DEF Code!Bits
  <2>2. /\ b \div Side \in Nat /\ b % Side \in 0 .. Side - 1
        /\ b = Side * (b \div Side) + (b % Side)
    BY <2>1, DivMod
  <2>3. ASSUME Side - 1 < b \div Side
        PROVE  FALSE
    <3> DEFINE k == Side - 1
               l == b \div Side
    <3>4. k \in Nat /\ l \in Nat /\ k < l
      BY <2>2, <2>3
    <3>5. k * Side + Side <= l * Side
      <4> HIDE DEF k, l
      <4> QED
        BY <3>4, Apart
    <3>1. (Side - 1) * Side + Side <= (b \div Side) * Side
      BY <3>5
    <3>2. (Side - 1) * Side + Side = Side * Side
      OBVIOUS
    <3>3. (b \div Side) * Side = Side * (b \div Side) /\ Side * (b \div Side) \in Nat
      BY <2>2
    <3> QED
      BY <1>0, <2>1, <2>2, <3>1, <3>2, <3>3
  <2> QED
    BY <2>2, <2>3
<1>2. ASSUME NEW q \in 0 .. Side - 1, NEW m \in 0 .. Side - 1
      PROVE  /\ Side * q + m \in Code!Bits
             /\ (Side * q + m) \div Side = q /\ (Side * q + m) % Side = m
  <2>1. /\ Side * q + m \in Nat
        /\ (Side * q + m) \div Side = q /\ (Side * q + m) % Side = m
    BY OnlyOne
  <2>2. q * Side + Side <= Side * Side /\ q * Side \in Nat
    BY Apart
  <2>3. q * Side = Side * q
    OBVIOUS
  <2>4. Side * q + m < Side * Side
    BY <1>0, <2>2, <2>3
  <2> QED
    BY <1>0, <2>1, <2>4 DEF Code!Bits
<1>3. ASSUME NEW r \in 0 .. Side - 1, NEW c \in 0 .. Side - 1
      PROVE  Code!BitAt(r, c) = Side * (Side - 1 - r) + (Side - 1 - c)
  <2>1. Side * (Side - 1 - r) = Side * Side - Side - Side * r
    OBVIOUS
  <2>2. Side * r \in Int /\ Side * Side \in Int
    OBVIOUS
  <2> QED
    BY <2>1, <2>2 DEF Code!BitAt
<1> QED
  BY <1>1, <1>2, <1>3

\* A quarter turn permutes the bits and takes each to its place (rotate90).
LEMMA QuarterOK ==
    ASSUME Side \in Nat \ {0}
    PROVE  /\ \A b \in Code!Bits : Quarter(b) \in Code!Bits
           /\ \A a, b \in Code!Bits : Quarter(a) = Quarter(b) => a = b
           /\ \A r, c \in 0 .. Side - 1 :
                  /\ Code!BitAt(Side - 1 - c, r) \in Code!Bits
                  /\ Quarter(Code!BitAt(Side - 1 - c, r)) = Code!BitAt(r, c)
           /\ \A b \in Code!Bits : \E r, c \in 0 .. Side - 1 :
                  b = Code!BitAt(Side - 1 - c, r)
<1>1. ASSUME NEW b \in Code!Bits
      PROVE  /\ Quarter(b) \in Code!Bits
             /\ Quarter(b) \div Side = b % Side
             /\ Quarter(b) % Side = Side - 1 - b \div Side
  <2>2. b % Side \in 0 .. Side - 1 /\ b \div Side \in 0 .. Side - 1
    BY BitPlaces
  <2>1. b % Side \in 0 .. Side - 1 /\ Side - 1 - b \div Side \in 0 .. Side - 1
    BY <2>2
  <2> QED
    BY <2>1, BitPlaces DEF Quarter
<1>2. ASSUME NEW a \in Code!Bits, NEW b \in Code!Bits, Quarter(a) = Quarter(b)
      PROVE  a = b
  <2>1. a % Side = b % Side /\ Side - 1 - a \div Side = Side - 1 - b \div Side
    BY <1>1, <1>2
  <2>2. a \div Side \in Int /\ b \div Side \in Int
    BY BitPlaces
  <2>3. a \div Side = b \div Side
    BY <2>1, <2>2
  <2> QED
    BY <2>1, <2>3, BitPlaces
<1>3. ASSUME NEW r \in 0 .. Side - 1, NEW c \in 0 .. Side - 1
      PROVE  /\ Code!BitAt(Side - 1 - c, r) \in Code!Bits
             /\ Quarter(Code!BitAt(Side - 1 - c, r)) = Code!BitAt(r, c)
  <2> DEFINE b == Side * c + (Side - 1 - r)
  <2>1. Side - 1 - c \in 0 .. Side - 1 /\ Side - 1 - r \in 0 .. Side - 1
        /\ Side - 1 - (Side - 1 - c) = c /\ Side - 1 - (Side - 1 - r) = r
    OBVIOUS
  <2>2. Code!BitAt(Side - 1 - c, r) = b
    BY <2>1, BitPlaces
  <2>3. b \in Code!Bits /\ b \div Side = c /\ b % Side = Side - 1 - r
    BY <2>1, BitPlaces
  <2>4. Quarter(b) = Side * (Side - 1 - r) + (Side - 1 - c)
    <3> HIDE DEF b
    <3> QED
      BY <2>3 DEF Quarter
  <2>5. Quarter(b) = Code!BitAt(r, c)
    BY <2>4, BitPlaces
  <2> QED
    BY <2>2, <2>3, <2>5
<1>4. ASSUME NEW b \in Code!Bits
      PROVE  \E r, c \in 0 .. Side - 1 : b = Code!BitAt(Side - 1 - c, r)
  <2> DEFINE c == b \div Side
             r == Side - 1 - (b % Side)
  <2>1. c \in 0 .. Side - 1 /\ b % Side \in 0 .. Side - 1
        /\ b = Side * c + (b % Side)
    BY BitPlaces
  <2>2. /\ r \in 0 .. Side - 1 /\ Side - 1 - r = b % Side
        /\ Side - 1 - c \in 0 .. Side - 1 /\ Side - 1 - (Side - 1 - c) = c
    BY <2>1
  <2> HIDE DEF c, r
  <2>3. Code!BitAt(Side - 1 - c, r) = Side * c + (b % Side)
    BY <2>1, <2>2, BitPlaces
  <2> QED
    BY <2>1, <2>2, <2>3
<1> QED
  BY <1>1, <1>2, <1>3, <1>4

\* rotate90 turns a word as its comment says, and keeps distances.
LEMMA TurnOK ==
    ASSUME Side \in Nat \ {0}, NEW v \in Code!Words, NEW w \in Code!Words
    PROVE  /\ Code!Rotate90(w) = Code!Turned(w) /\ Code!Turned(w) \in Code!Words
           /\ Code!Distance(Code!Turned(v), Code!Turned(w)) = Code!Distance(v, w)
<1>1. ASSUME NEW s \in Code!Words
      PROVE  /\ Code!Rotate90(s) = {Quarter(b) : b \in s}
             /\ Code!Rotate90(s) = Code!Turned(s) /\ Code!Turned(s) \in Code!Words
  <2>0. \A b \in s : b \in Code!Bits
    BY DEF Code!Words
  <2>1. Code!Rotate90(s) = {Quarter(b) : b \in s}
    BY DEF Code!Rotate90, Quarter
  <2>2. ASSUME NEW b \in s
        PROVE  Quarter(b) \in Code!Turned(s)
    <3>1. PICK r \in 0 .. Side - 1, c \in 0 .. Side - 1 : b = Code!BitAt(Side - 1 - c, r)
      BY <2>0, QuarterOK
    <3>2. Quarter(b) = Code!BitAt(r, c)
      BY <3>1, QuarterOK
    <3> DEFINE p == <<r, c>>
    <3>3. p \in (0 .. Side - 1) \X (0 .. Side - 1) /\ p[1] = r /\ p[2] = c
      OBVIOUS
    <3> HIDE DEF p
    <3> QED
      BY <3>1, <3>2, <3>3 DEF Code!Turned
  <2>3. ASSUME NEW x \in Code!Turned(s)
        PROVE  \E b \in s : x = Quarter(b)
    <3>1. PICK p \in (0 .. Side - 1) \X (0 .. Side - 1) :
              Code!BitAt(Side - 1 - p[2], p[1]) \in s /\ x = Code!BitAt(p[1], p[2])
      BY DEF Code!Turned
    <3>2. p[1] \in 0 .. Side - 1 /\ p[2] \in 0 .. Side - 1
      BY <3>1
    <3> QED
      BY <3>1, <3>2, QuarterOK
  <2>4. Code!Turned(s) = {Quarter(b) : b \in s}
    BY <2>2, <2>3
  <2>5. \A x \in Code!Turned(s) : x \in Code!Bits
    BY <2>0, <2>3, QuarterOK
  <2> QED
    BY <2>1, <2>4, <2>5 DEF Code!Words
<1>2. Code!Turned(v) \in Code!Words /\ Code!Turned(w) \in Code!Words
  BY <1>1
<1> DEFINE s == Apart2(v, w)
           t == {Quarter(b) : b \in s}
<1>3. Apart2(Code!Turned(v), Code!Turned(w)) = t
  <2>1. /\ Code!Turned(v) = {Quarter(b) : b \in v}
        /\ Code!Turned(w) = {Quarter(b) : b \in w}
    BY <1>1
  <2>2. \A b \in v \cup w : b \in Code!Bits
    BY DEF Code!Words
  <2>3. \A a, b \in v \cup w : Quarter(a) = Quarter(b) => a = b
    BY <2>2, QuarterOK
  <2> QED
    BY <2>1, <2>3 DEF Apart2
<1>4. s \in Code!Words /\ IsFiniteSet(s)
  BY DistanceOK, BitsFinite
<1>5. \A a, b \in s : Quarter(a) = Quarter(b) => a = b
  BY <1>4, QuarterOK DEF Code!Words
<1>6. Cardinality(t) = Cardinality(s)
  <2> DEFINE turn90 == [b \in s |-> Quarter(b)]
  <2> HIDE DEF s
  <2>1. turn90 \in [s -> t] /\ \A b \in s : turn90[b] = Quarter(b)
    OBVIOUS
  <2>2. \A y \in t : \E b \in s : turn90[b] = y
    BY <2>1
  <2>5. \A a, b \in s : turn90[a] = turn90[b] => a = b
    BY <1>5, <2>1
  <2> HIDE DEF turn90, t
  <2>3. turn90 \in Bijection(s, t)
    BY <2>1, <2>2, <2>5 DEF Bijection, Injection, Surjection, IsInjective
  <2>4. ExistsBijection(s, t)
    BY <2>3 DEF ExistsBijection
  <2> QED
    BY <1>4, <2>4, FS_Bijection
<1>7. Code!Distance(Code!Turned(v), Code!Turned(w)) = Cardinality(t)
  <2> HIDE DEF t
  <2> QED
    BY <1>2, <1>3, DistanceOK
<1>8. Code!Distance(v, w) = Cardinality(s)
  BY DistanceOK
<1> QED
  BY <1>1, <1>6, <1>7, <1>8


-----------------------------------------------------------------------------
(* How many entries there are *)

\* A subset of h + 1 of the first m numbers is its greatest and h of the m - 1 first.
Chosen(h, m) == {s \in SUBSET (0 .. m - 1) : Cardinality(s) = h}

\* Whoever chooses one place more has as many choices again for each largest place.
LEMMA ChosenStep ==
    ASSUME NEW h \in Nat, NEW m \in Nat \ {0}, IsFiniteSet(Chosen(h, m - 1)),
           NEW b \in Nat, Cardinality(Chosen(h, m - 1)) <= b
    PROVE  IsFiniteSet(Chosen(h + 1, m)) /\ Cardinality(Chosen(h + 1, m)) <= m * b
<1> DEFINE S == Chosen(h + 1, m)
           T == (0 .. m - 1) \X Chosen(h, m - 1)
           Top(s) == CHOOSE x \in s : \A y \in s : y <= x
           f == [s \in S |-> <<Top(s), s \ {Top(s)}>>]
<1>1. ASSUME NEW s \in S
      PROVE  Top(s) \in s /\ f[s] = <<Top(s), s \ {Top(s)}>> /\ f[s] \in T
  <2>1. s \subseteq 0 .. m - 1 /\ Cardinality(s) = h + 1
    BY DEF Chosen
  <2>2. IsFiniteSet(0 .. m - 1)
    BY FS_Interval
  <2>3. IsFiniteSet(s) /\ s \subseteq Int
    <3>1. s \in SUBSET (0 .. m - 1) /\ s \subseteq Int
      BY <2>1
    <3> QED
      BY <2>2, <3>1, FS_Subset
  <2>4. s # {}
    BY <2>1, FS_EmptySet
  <2>5. \E x \in s : \A y \in s : y <= x
    BY <2>3, <2>4, GreatestOf
  <2>6. Top(s) \in s /\ \A y \in s : y <= Top(s)
    BY <2>5
  <2> DEFINE x == Top(s)
  <2>7. x \in s /\ \A y \in s : y <= x
    BY <2>6
  <2> HIDE DEF x, Top
  <2>8. Cardinality(s \ {x}) = h
    <3>1. Cardinality(s \ {x}) = Cardinality(s) - 1
      BY <2>3, <2>7, FS_RemoveElement
    <3>2. \A c : c = h + 1 => c - 1 = h
      OBVIOUS
    <3> QED
      BY <2>1, <3>1, <3>2, Zenon
  <2>9. s \ {x} \subseteq 0 .. (m - 1) - 1
    <3>1. ASSUME NEW y \in s, y # x
          PROVE  y \in 0 .. (m - 1) - 1
      <4>1. y <= x /\ x \in 0 .. m - 1 /\ y \in 0 .. m - 1
        BY <2>1, <2>7
      <4> QED
        BY <3>1, <4>1
    <3> QED
      BY <3>1
  <2>10. s \ {x} \in Chosen(h, m - 1)
    BY <2>8, <2>9 DEF Chosen
  <2>11. <<x, s \ {x}>> \in T
    BY <2>1, <2>7, <2>10
  <2>12. f[s] = <<x, s \ {x}>>
    BY DEF x
  <2> QED
    BY <2>7, <2>11, <2>12 DEF x
<1>2. ASSUME NEW s \in S, NEW t \in S, f[s] = f[t]
      PROVE  s = t
  <2>1. Top(s) \in s /\ Top(t) \in t /\ Top(s) = Top(t) /\ s \ {Top(s)} = t \ {Top(t)}
    <3> HIDE DEF S, T, f, Top
    <3>1. /\ Top(s) \in s /\ f[s] = <<Top(s), s \ {Top(s)}>>
          /\ Top(t) \in t /\ f[t] = <<Top(t), t \ {Top(t)}>>
      BY <1>1
    <3>2. <<Top(s), s \ {Top(s)}>> = <<Top(t), t \ {Top(t)}>>
      BY <1>2, <3>1
    <3>3. Top(s) = Top(t) /\ s \ {Top(s)} = t \ {Top(t)}
      <4> DEFINE u == s \ {Top(s)}
                 v == t \ {Top(t)}
      <4>1. <<Top(s), u>> = <<Top(t), v>>
        BY <3>2
      <4> HIDE DEF u, v
      <4>2. Top(s) = Top(t) /\ u = v
        BY <4>1
      <4> QED
        BY <4>2 DEF u, v
    <3> QED
      BY <3>1, <3>3
  <2> HIDE DEF S, f, Top
  <2> QED
    BY <2>1
<1>3. f \in Injection(S, T)
  <2>1. f \in [S -> T]
    BY <1>1
  <2>2. DOMAIN f = S
    OBVIOUS
  <2> HIDE DEF f, S, T
  <2> QED
    BY <1>2, <2>1, <2>2 DEF Injection, IsInjective
<1>4. /\ IsFiniteSet(T)
      /\ Cardinality(T) = m * Cardinality(Chosen(h, m - 1))
  <2>1. IsFiniteSet(0 .. m - 1) /\ Cardinality(0 .. m - 1) = m
    BY FS_Interval
  <2> QED
    BY <2>1, FS_Product
<1>5. IsFiniteSet(S) /\ Cardinality(S) <= Cardinality(T)
  <2> HIDE DEF S, T, f
  <2> QED
    BY <1>3, <1>4, FS_Injection
<1>6. Cardinality(Chosen(h, m - 1)) \in Nat /\ Cardinality(S) \in Nat
  BY <1>5, FS_CardinalityType
<1>7. \A c \in Nat : c <= b => m * c <= m * b /\ m * c \in Nat /\ m * b \in Nat
  <2> TAKE c \in Nat
  <2> HAVE c <= b
  <2>1. b - c \in Nat
    OBVIOUS
  <2>2. m * (b - c) \in Nat /\ m * (b - c) = m * b - m * c /\ m * b \in Nat /\ m * c \in Nat
    BY <2>1
  <2> QED
    BY <2>2
<1> HIDE DEF S, T
<1>8. Cardinality(S) <= m * b
  BY <1>4, <1>5, <1>6, <1>7
<1> QED
  BY <1>5, <1>8 DEF S

\* There is one way to choose no place, and none to choose some of no places.
LEMMA ChosenNone ==
    ASSUME NEW m \in Int
    PROVE  /\ IsFiniteSet(Chosen(0, m)) /\ Cardinality(Chosen(0, m)) = 1
           /\ \A h \in Nat \ {0} :
                  m <= 0 => IsFiniteSet(Chosen(h, m)) /\ Cardinality(Chosen(h, m)) = 0
<1>1. Chosen(0, m) = {{}}
  <2>1. {} \in Chosen(0, m)
    BY FS_EmptySet DEF Chosen
  <2>2. ASSUME NEW s \in Chosen(0, m)
        PROVE  s = {}
    <3>1. s \in SUBSET (0 .. m - 1) /\ Cardinality(s) = 0
      BY DEF Chosen
    <3>2. IsFiniteSet(0 .. m - 1)
      BY FS_Interval
    <3>3. IsFiniteSet(s)
      BY <3>1, <3>2, FS_Subset
    <3> QED
      BY <3>1, <3>3, FS_EmptySet
  <2> QED
    BY <2>1, <2>2
<1>2. ASSUME NEW h \in Nat \ {0}, m <= 0
      PROVE  Chosen(h, m) = {}
  <2>1. 0 .. m - 1 = {}
    BY <1>2
  <2>2. Cardinality({}) = 0
    BY FS_EmptySet
  <2> QED
    BY <2>1, <2>2 DEF Chosen
<1>3. IsFiniteSet(Chosen(0, m)) /\ Cardinality(Chosen(0, m)) = 1
  BY <1>1, FS_Singleton
<1>4. IsFiniteSet({}) /\ Cardinality({}) = 0
  BY FS_EmptySet
<1> QED
  BY <1>2, <1>3, <1>4

\* As many as quick_decode_init reckons with, or fewer.
LEMMA ChosenFew ==
    ASSUME NEW m \in Nat
    PROVE  /\ IsFiniteSet(Chosen(1, m)) /\ Cardinality(Chosen(1, m)) <= m
           /\ IsFiniteSet(Chosen(2, m)) /\ Cardinality(Chosen(2, m)) <= m * (m - 1)
           /\ IsFiniteSet(Chosen(3, m))
           /\ Cardinality(Chosen(3, m)) <= m * ((m - 1) * (m - 2))
<1>1. ASSUME NEW k \in Nat
      PROVE  IsFiniteSet(Chosen(1, k)) /\ Cardinality(Chosen(1, k)) <= k
  <2>1. CASE k = 0
    BY <2>1, ChosenNone
  <2>2. CASE k # 0
    <3>1. k \in Nat \ {0} /\ 0 \in Nat /\ 1 \in Nat /\ k - 1 \in Int
      BY <2>2
    <3>2. IsFiniteSet(Chosen(0, k - 1)) /\ Cardinality(Chosen(0, k - 1)) <= 1
      BY <3>1, ChosenNone
    <3>3. IsFiniteSet(Chosen(0 + 1, k)) /\ Cardinality(Chosen(0 + 1, k)) <= k * 1
      BY <3>1, <3>2, ChosenStep
    <3> QED
      BY <3>3
  <2> QED
    BY <2>1, <2>2
<1>2. ASSUME NEW k \in Nat
      PROVE  IsFiniteSet(Chosen(2, k)) /\ Cardinality(Chosen(2, k)) <= k * (k - 1)
  <2>1. CASE k = 0
    BY <2>1, ChosenNone
  <2>2. CASE k # 0
    <3>1. k \in Nat \ {0} /\ 1 \in Nat /\ k - 1 \in Nat
      BY <2>2
    <3>2. IsFiniteSet(Chosen(1, k - 1)) /\ Cardinality(Chosen(1, k - 1)) <= k - 1
      BY <3>1, <1>1
    <3>3. IsFiniteSet(Chosen(1 + 1, k)) /\ Cardinality(Chosen(1 + 1, k)) <= k * (k - 1)
      BY <3>1, <3>2, ChosenStep
    <3> QED
      BY <3>3
  <2> QED
    BY <2>1, <2>2
<1>3. IsFiniteSet(Chosen(3, m)) /\ Cardinality(Chosen(3, m)) <= m * ((m - 1) * (m - 2))
  <2>1. CASE m = 0
    BY <2>1, ChosenNone
  <2>2. CASE m # 0
    <3>1. m \in Nat \ {0} /\ 2 \in Nat /\ m - 1 \in Nat
      BY <2>2
    <3>2. IsFiniteSet(Chosen(2, m - 1))
          /\ Cardinality(Chosen(2, m - 1)) <= (m - 1) * ((m - 1) - 1)
      BY <3>1, <1>2
    <3>3. (m - 1) * ((m - 1) - 1) = (m - 1) * (m - 2) /\ (m - 1) * (m - 2) \in Nat
      <4>1. CASE m = 1
        BY <4>1
      <4>2. CASE m # 1
        <5>1. m - 1 \in Nat /\ m - 2 \in Nat /\ (m - 1) - 1 = m - 2
          BY <3>1, <4>2
        <5> QED
          BY <5>1
      <4> QED
        BY <4>1, <4>2
    <3> DEFINE b == (m - 1) * (m - 2)
    <3>4. b \in Nat /\ Cardinality(Chosen(2, m - 1)) <= b
      BY <3>2, <3>3
    <3> HIDE DEF b
    <3>5. IsFiniteSet(Chosen(2 + 1, m)) /\ Cardinality(Chosen(2 + 1, m)) <= m * b
      BY <3>1, <3>2, <3>4, ChosenStep
    <3> QED
      BY <3>5 DEF b
  <2> QED
    BY <2>1, <2>2
<1> QED
  BY <1>1, <1>2, <1>3


-----------------------------------------------------------------------------
(* The entries of a family *)

\* What FamilyAssumption says of one family.
LEMMA FamilyOK ==
    ASSUME Code!FamilyAssumption, NEW f \in Families
    PROVE  /\ Side \in Nat \ {0}
           /\ Len(f.codes) \in Nat \ {0} /\ DOMAIN f.codes = 1 .. Len(f.codes)
           /\ f.maxhamming \in 0 .. 3
           /\ \A i \in 1 .. Len(f.codes) : f.codes[i] \in Code!Words
           /\ f # Code!NoFamily
<1>1. /\ Side \in Nat \ {0} /\ f.codes \in Seq(Code!Words) /\ f.codes # <<>>
      /\ f.maxhamming \in 0 .. 3
  BY DEF Code!FamilyAssumption
<1> HIDE DEF Code!FamilyAssumption
<1>2. Len(f.codes) \in Nat /\ DOMAIN f.codes = 1 .. Len(f.codes)
      /\ \A i \in 1 .. Len(f.codes) : f.codes[i] \in Code!Words
  BY <1>1
<1>3. Len(f.codes) # 0
  BY <1>1
<1>4. f # Code!NoFamily
  BY <1>1 DEF Code!NoFamily
<1> QED
  BY <1>1, <1>2, <1>3, <1>4

Entry(f) == [rcode : Code!Words, id : 1 .. Len(f.codes), hamming : 0 .. f.maxhamming]

\* The entries of quick_decode_init are the words within maxhamming of some code.
LEMMA EntriesOK ==
    ASSUME Code!FamilyAssumption, NEW f \in Families
    PROVE  \A e : e \in Code!AllEntries(f)
                  <=> /\ e \in Entry(f)
                      /\ Code!Distance(f.codes[e.id], e.rcode) = e.hamming
<1> DEFINE Of(i, h) ==
               {[rcode |-> w, id |-> i, hamming |-> h] : w \in Code!Flipped(f.codes[i], h)}
<1>1. Code!AllEntries(f) = UNION {Of(i, h) : i \in 1 .. Len(f.codes), h \in 0 .. f.maxhamming}
  BY DEF Code!AllEntries
<1>2. ASSUME NEW i \in 1 .. Len(f.codes), NEW h \in 0 .. f.maxhamming, NEW e
      PROVE  e \in Of(i, h) <=> /\ e \in Entry(f) /\ e.id = i /\ e.hamming = h
                                /\ Code!Distance(f.codes[i], e.rcode) = h
  <2>1. f.codes[i] \in Code!Words /\ Side \in Nat \ {0}
    BY FamilyOK
  <2>2. \A w : w \in Code!Flipped(f.codes[i], h)
               <=> w \in Code!Words /\ Code!Distance(f.codes[i], w) = h
    BY <2>1, FlippedOK
  <2>3. ASSUME e \in Of(i, h)
        PROVE  /\ e \in Entry(f) /\ e.id = i /\ e.hamming = h
               /\ Code!Distance(f.codes[i], e.rcode) = h
    BY <2>2, <2>3 DEF Entry
  <2>4. ASSUME e \in Entry(f), e.id = i, e.hamming = h,
               Code!Distance(f.codes[i], e.rcode) = h
        PROVE  e \in Of(i, h)
    <3>1. e.rcode \in Code!Flipped(f.codes[i], h)
      BY <2>2, <2>4 DEF Entry
    <3>2. e = [rcode |-> e.rcode, id |-> i, hamming |-> h]
      BY <2>4 DEF Entry
    <3> QED
      BY <3>1, <3>2
  <2> QED
    BY <2>3, <2>4
<1> HIDE DEF Of
<1> TAKE e
<1>3. ASSUME e \in Code!AllEntries(f)
      PROVE  /\ e \in Entry(f)
             /\ Code!Distance(f.codes[e.id], e.rcode) = e.hamming
  <2>1. PICK i \in 1 .. Len(f.codes), h \in 0 .. f.maxhamming : e \in Of(i, h)
    BY <1>1, <1>3
  <2> QED
    BY <1>2, <2>1
<1>4. ASSUME e \in Entry(f), Code!Distance(f.codes[e.id], e.rcode) = e.hamming
      PROVE  e \in Code!AllEntries(f)
  <2>1. e.id \in 1 .. Len(f.codes) /\ e.hamming \in 0 .. f.maxhamming
    BY <1>4 DEF Entry
  <2>2. e \in Of(e.id, e.hamming)
    BY <1>2, <1>4, <2>1
  <2> QED
    BY <1>1, <2>1, <2>2
<1> QED
  BY <1>3, <1>4

\* Multiplying keeps an inequality.
LEMMA Times ==
    ASSUME NEW a \in Nat, NEW b \in Nat, NEW n \in Nat, a <= b
    PROVE  n * a <= n * b /\ n * a \in Nat /\ n * b \in Nat
<1>1. b - a \in Nat
  OBVIOUS
<1>2. n * (b - a) \in Nat /\ n * (b - a) = n * b - n * a /\ n * b \in Nat /\ n * a \in Nat
  BY <1>1
<1> QED
  BY <1>2

\* The words of one code, at the most.
Reckoned(m, h) ==
    1 + (IF h >= 1 THEN m ELSE 0)
      + (IF h >= 2 THEN m * (m - 1) ELSE 0)
      + (IF h >= 3 THEN m * (m - 1) * (m - 2) ELSE 0)

\* The capacity of quick_decode_init (apriltag.c:202-213) allows for every choice of at
\* most three bits.
LEMMA ReckonedOK ==
    ASSUME NEW m \in Nat \ {0}, NEW h \in 0 .. 3
    PROVE  /\ Reckoned(m, h) \in Nat \ {0}
           /\ IsFiniteSet({s \in SUBSET (0 .. m - 1) : Cardinality(s) \in 0 .. h})
           /\ Cardinality({s \in SUBSET (0 .. m - 1) : Cardinality(s) \in 0 .. h})
                  <= Reckoned(m, h)
<1> DEFINE K(j) == {s \in SUBSET (0 .. m - 1) : Cardinality(s) \in 0 .. j}
           p == m * (m - 1)
           q == m * ((m - 1) * (m - 2))
<1>1. m - 1 \in Nat /\ p \in Nat
  <2>1. m - 1 \in Nat
    OBVIOUS
  <2> QED
    BY <2>1
<1>2. q \in Nat /\ m * (m - 1) * (m - 2) = q
  <2>1. CASE m = 1
    BY <2>1
  <2>2. CASE m # 1
    <3>1. m - 1 \in Nat /\ m - 2 \in Nat
      BY <2>2
    <3>2. (m - 1) * (m - 2) \in Nat
      BY <3>1
    <3> QED
      BY <3>1, <3>2
  <2> QED
    BY <2>1, <2>2
<1>3. /\ K(0) = Chosen(0, m) /\ K(1) = K(0) \cup Chosen(1, m)
      /\ K(2) = K(1) \cup Chosen(2, m) /\ K(3) = K(2) \cup Chosen(3, m)
  <2>1. /\ \A c : c \in 0 .. 0 <=> c = 0
        /\ \A c : c \in 0 .. 1 <=> c \in 0 .. 0 \/ c = 1
        /\ \A c : c \in 0 .. 2 <=> c \in 0 .. 1 \/ c = 2
        /\ \A c : c \in 0 .. 3 <=> c \in 0 .. 2 \/ c = 3
    OBVIOUS
  <2> QED
    BY <2>1, Zenon DEF Chosen
<1>4. ASSUME NEW S, NEW T, IsFiniteSet(S), IsFiniteSet(T), NEW a \in Nat, NEW b \in Nat,
             Cardinality(S) <= a, Cardinality(T) <= b
      PROVE  IsFiniteSet(S \cup T) /\ Cardinality(S \cup T) <= a + b
  <2>1. IsFiniteSet(S \cap T) /\ Cardinality(S \cap T) \in Nat
        /\ Cardinality(S) \in Nat /\ Cardinality(T) \in Nat
    BY <1>4, FS_Intersection, FS_CardinalityType
  <2>2. IsFiniteSet(S \cup T)
        /\ Cardinality(S \cup T) = Cardinality(S) + Cardinality(T) - Cardinality(S \cap T)
    BY <1>4, FS_Union
  <2> QED
    BY <1>4, <2>1, <2>2
<1>5. /\ IsFiniteSet(Chosen(0, m)) /\ Cardinality(Chosen(0, m)) <= 1
      /\ IsFiniteSet(Chosen(1, m)) /\ Cardinality(Chosen(1, m)) <= m
      /\ IsFiniteSet(Chosen(2, m)) /\ Cardinality(Chosen(2, m)) <= p
      /\ IsFiniteSet(Chosen(3, m)) /\ Cardinality(Chosen(3, m)) <= q
  <2>1. m \in Nat /\ m \in Int
    OBVIOUS
  <2> QED
    BY <2>1, ChosenNone, ChosenFew
<1> HIDE DEF K, p, q
<1>6. IsFiniteSet(K(0)) /\ Cardinality(K(0)) <= 1
  BY <1>3, <1>5
<1>7. IsFiniteSet(K(1)) /\ Cardinality(K(1)) <= 1 + m
  <2>1. 1 \in Nat /\ m \in Nat
    OBVIOUS
  <2> QED
    BY <1>3, <1>4, <1>5, <1>6, <2>1
<1>8. IsFiniteSet(K(2)) /\ Cardinality(K(2)) <= (1 + m) + p
  <2>1. 1 + m \in Nat
    OBVIOUS
  <2> QED
    BY <1>1, <1>3, <1>4, <1>5, <1>7, <2>1
<1>9. IsFiniteSet(K(3)) /\ Cardinality(K(3)) <= ((1 + m) + p) + q
  <2> DEFINE a == (1 + m) + p
             S == K(2)
  <2>1. a \in Nat /\ q \in Nat /\ IsFiniteSet(S) /\ Cardinality(S) <= a
    BY <1>1, <1>2, <1>8
  <2> HIDE DEF a, S
  <2>2. IsFiniteSet(S \cup Chosen(3, m)) /\ Cardinality(S \cup Chosen(3, m)) <= a + q
    BY <1>4, <1>5, <2>1
  <2> QED
    BY <1>3, <2>2 DEF a, S
<1>10. /\ Reckoned(m, h) \in Nat \ {0}
       /\ h = 0 => Reckoned(m, h) = 1
       /\ h = 1 => Reckoned(m, h) = 1 + m
       /\ h = 2 => Reckoned(m, h) = (1 + m) + p
       /\ h = 3 => Reckoned(m, h) = ((1 + m) + p) + q
  <2>1. Reckoned(m, h) = 1 + (IF h >= 1 THEN m ELSE 0) + (IF h >= 2 THEN p ELSE 0)
                           + (IF h >= 3 THEN q ELSE 0)
    BY <1>2 DEF Reckoned, p
  <2> QED
    BY <1>1, <1>2, <2>1
<1>11. IsFiniteSet(K(h)) /\ Cardinality(K(h)) <= Reckoned(m, h)
  <2>1. h = 0 \/ h = 1 \/ h = 2 \/ h = 3
    OBVIOUS
  <2> QED
    BY <1>6, <1>7, <1>8, <1>9, <1>10, <2>1
<1> QED
  BY <1>10, <1>11 DEF K

\* The table is never more than a third full.
LEMMA FewEntries ==
    ASSUME Code!FamilyAssumption, NEW f \in Families
    PROVE  /\ IsFiniteSet(Code!AllEntries(f)) /\ Code!NEntries(f) \in Nat \ {0}
           /\ Cardinality(Code!AllEntries(f)) < Code!NEntries(f)
<1> DEFINE n == Len(f.codes)
           m == Side * Side
           h == f.maxhamming
           A == Code!AllEntries(f)
           K == {s \in SUBSET (0 .. m - 1) : Cardinality(s) \in 0 .. h}
           g == [e \in A |-> <<e.id, Apart2(f.codes[e.id], e.rcode)>>]
<1>1. /\ Side \in Nat \ {0} /\ n \in Nat \ {0} /\ h \in 0 .. 3 /\ m \in Nat \ {0}
      /\ \A i \in 1 .. n : f.codes[i] \in Code!Words
  BY FamilyOK, BitsFinite
<1>2. Reckoned(m, h) \in Nat \ {0} /\ IsFiniteSet(K) /\ Cardinality(K) <= Reckoned(m, h)
  <2> HIDE DEF m, h
  <2> QED
    BY <1>1, ReckonedOK
<1>3. Code!Capacity(f) = n * Reckoned(m, h)
  BY DEF Code!Capacity, Reckoned, Code!NBits
<1>4. Code!Words = SUBSET (0 .. m - 1)
  BY DEF Code!Words, Code!Bits
<1>5. ASSUME NEW e \in A
      PROVE  /\ e.id \in 1 .. n /\ e.hamming \in 0 .. h /\ e.rcode \in Code!Words
             /\ Cardinality(Apart2(f.codes[e.id], e.rcode)) = e.hamming
             /\ Apart2(f.codes[e.id], e.rcode) \in K
             /\ e = [rcode |-> e.rcode, id |-> e.id, hamming |-> e.hamming]
  <2>1. e \in Entry(f) /\ Code!Distance(f.codes[e.id], e.rcode) = e.hamming
    BY EntriesOK
  <2>2. /\ e.id \in 1 .. n /\ e.hamming \in 0 .. h /\ e.rcode \in Code!Words
        /\ e = [rcode |-> e.rcode, id |-> e.id, hamming |-> e.hamming]
    BY <2>1 DEF Entry
  <2>3. /\ Apart2(f.codes[e.id], e.rcode) \in Code!Words
        /\ Cardinality(Apart2(f.codes[e.id], e.rcode)) = e.hamming
    BY <1>1, <2>1, <2>2, DistanceOK
  <2> QED
    BY <1>4, <2>2, <2>3
<1> HIDE DEF A, K, n, m, h
<1>6. g \in [A -> (1 .. n) \X K]
  BY <1>5
<1>7. ASSUME NEW d \in A, NEW e \in A, g[d] = g[e]
      PROVE  d = e
  <2>1. d.id = e.id /\ Apart2(f.codes[d.id], d.rcode) = Apart2(f.codes[e.id], e.rcode)
    <3> DEFINE u == Apart2(f.codes[d.id], d.rcode)
               v == Apart2(f.codes[e.id], e.rcode)
    <3>1. <<d.id, u>> = <<e.id, v>>
      BY <1>7
    <3> HIDE DEF u, v
    <3>2. d.id = e.id /\ u = v
      BY <3>1
    <3> QED
      BY <3>2 DEF u, v
  <2>2. d.rcode = e.rcode
    BY <2>1 DEF Apart2
  <2>3. d.hamming = e.hamming
    BY <1>5, <2>1
  <2> QED
    BY <1>5, <2>1, <2>2, <2>3
<1>8. g \in Injection(A, (1 .. n) \X K)
  <2>1. DOMAIN g = A
    OBVIOUS
  <2> HIDE DEF g
  <2> QED
    BY <1>6, <1>7, <2>1 DEF Injection, IsInjective
<1>9. IsFiniteSet((1 .. n) \X K) /\ Cardinality((1 .. n) \X K) = n * Cardinality(K)
  <2>1. IsFiniteSet(1 .. n) /\ Cardinality(1 .. n) = n
    BY <1>1, FS_Interval
  <2> QED
    BY <1>2, <2>1, FS_Product
<1>10. IsFiniteSet(A) /\ Cardinality(A) <= n * Cardinality(K)
  <2> HIDE DEF g
  <2> QED
    BY <1>8, <1>9, FS_Injection
<1>11. n * Cardinality(K) <= Code!Capacity(f) /\ Code!Capacity(f) \in Nat \ {0}
       /\ n * Cardinality(K) \in Nat
  <2>1. Cardinality(K) \in Nat
    BY <1>2, FS_CardinalityType
  <2>2. n * Reckoned(m, h) > 0
    BY <1>1, <1>2, Positive
  <2>3. n * Cardinality(K) <= n * Reckoned(m, h) /\ n * Reckoned(m, h) \in Nat
        /\ n * Cardinality(K) \in Nat
    BY <1>1, <1>2, <2>1, Times
  <2> QED
    BY <1>3, <2>2, <2>3
<1>12. Cardinality(A) \in Nat
  BY <1>10, FS_CardinalityType
<1> QED
  BY <1>10, <1>11, <1>12 DEF Code!NEntries, A

-----------------------------------------------------------------------------
(* The table *)

At(f, w, k) == (Code!Value(w) + k) % Code!NEntries(f)

\* k is how far from w's own bucket the first free one is.
FreeAt(f, t, w, k) ==
    /\ k \in 0 .. Code!NEntries(f) - 1
    /\ t[At(f, w, k)] = Empty
    /\ \A j \in 0 .. k - 1 : t[At(f, w, j)] # Empty

\* What is left to do is not in the table and all else is, once; and no search for it
\* meets a free bucket first.
TableOK(f, t, left) ==
    /\ left \subseteq Code!AllEntries(f)
    /\ t \in [0 .. Code!NEntries(f) - 1 -> (Code!AllEntries(f) \ left) \cup {Empty}]
    /\ \A e \in Code!AllEntries(f) \ left : \E b \in 0 .. Code!NEntries(f) - 1 : t[b] = e
    /\ \A b, c \in 0 .. Code!NEntries(f) - 1 : t[b] = t[c] /\ t[b] # Empty => b = c
    /\ \A b \in 0 .. Code!NEntries(f) - 1 :
           t[b] # Empty =>
               \E k \in 0 .. Code!NEntries(f) - 1 :
                   /\ b = At(f, t[b].rcode, k)
                   /\ \A j \in 0 .. k : t[At(f, t[b].rcode, j)] # Empty

\* An entry is not the mark of a free bucket.
LEMMA NoEntry ==
    ASSUME Code!FamilyAssumption, NEW f \in Families, NEW e \in Code!AllEntries(f)
    PROVE  e # Empty /\ e \in Entry(f)
<1>1. e \in Entry(f) /\ Len(f.codes) \in Nat \ {0} /\ f.maxhamming \in 0 .. 3
  BY EntriesOK, FamilyOK
<1>2. /\ e = [rcode |-> e.rcode, id |-> e.id, hamming |-> e.hamming]
      /\ e.rcode \in Code!Words /\ e.id \in 1 .. Len(f.codes)
      /\ e.hamming \in 0 .. f.maxhamming
  BY <1>1 DEF Entry
<1>3. e.id \in Nat /\ e.hamming \in Nat
  BY <1>1, <1>2
<1>4. e \in [rcode : Code!Words, id : Nat, hamming : Nat]
  BY <1>2, <1>3
<1> QED
  BY <1>1, <1>4 DEF Code!FamilyAssumption

\* Probing goes through every bucket.
LEMMA AtOK ==
    ASSUME Code!FamilyAssumption, NEW f \in Families, NEW w
    PROVE  /\ \A k \in Nat : At(f, w, k) \in 0 .. Code!NEntries(f) - 1
           /\ \A b \in 0 .. Code!NEntries(f) - 1 :
                  \E k \in 0 .. Code!NEntries(f) - 1 : At(f, w, k) = b
<1> DEFINE n == Code!NEntries(f)
           v == Code!Value(w)
<1>1. n \in Nat \ {0} /\ v \in Nat
  <2>1. Side \in Nat
    BY FamilyOK
  <2> QED
    BY <2>1, FewEntries, ValueOK
<1> HIDE DEF n, v
<1>2. \A k \in Nat : (v + k) % n \in 0 .. n - 1
  <2> TAKE k \in Nat
  <2> DEFINE x == v + k
  <2>1. x \in Nat
    BY <1>1
  <2> HIDE DEF x
  <2>2. x % n \in 0 .. n - 1
    BY <1>1, <2>1, DivMod
  <2> QED
    BY <2>2 DEF x
<1>3. ASSUME NEW b \in 0 .. n - 1
      PROVE  \E k \in 0 .. n - 1 : (v + k) % n = b
  <2> DEFINE q == v \div n
             r == v % n
  <2>1. q \in Nat /\ r \in 0 .. n - 1 /\ v = n * q + r
    BY <1>1, DivMod
  <2> HIDE DEF q, r
  <2>2. CASE r <= b
    <3>1. b - r \in 0 .. n - 1
      BY <1>1, <2>1, <2>2
    <3>2. n * q \in Nat
      BY <1>1, <2>1
    <3>3. v + (b - r) = n * q + b
      BY <1>1, <2>1, <3>1, <3>2
    <3>4. (n * q + b) % n = b
      BY <1>1, <2>1, OnlyOne
    <3> QED
      BY <3>1, <3>3, <3>4
  <2>3. CASE ~(r <= b)
    <3>1. (b - r) + n \in 0 .. n - 1
      BY <1>1, <2>1, <2>3
    <3>2. n * q \in Nat /\ q + 1 \in Nat /\ n * (q + 1) = n * q + n
      BY <1>1, <2>1
    <3>3. v + ((b - r) + n) = n * (q + 1) + b
      BY <1>1, <2>1, <3>1, <3>2
    <3>4. (n * (q + 1) + b) % n = b
      <4> DEFINE p == q + 1
      <4>1. p \in Nat
        BY <3>2
      <4> HIDE DEF p
      <4>2. (n * p + b) % n = b
        BY <1>1, <4>1, OnlyOne
      <4> QED
        BY <4>2 DEF p
    <3> QED
      BY <3>1, <3>3, <3>4
  <2> QED
    BY <2>2, <2>3
<1> QED
  BY <1>2, <1>3 DEF At, n, v

\* A table has a free bucket, as it is never full.
LEMMA FreeOK ==
    ASSUME Code!FamilyAssumption, NEW f \in Families, NEW t, NEW left, TableOK(f, t, left),
           NEW w
    PROVE  \E k : FreeAt(f, t, w, k)
<1> DEFINE n == Code!NEntries(f)
           A == Code!AllEntries(f)
           S == {k \in 0 .. n - 1 : t[At(f, w, k)] = Empty}
<1>1. IsFiniteSet(A) /\ n \in Nat \ {0} /\ Cardinality(A) < n
  BY FewEntries
<1>2. \E b \in 0 .. n - 1 : t[b] = Empty
  <2> SUFFICES ASSUME \A b \in 0 .. n - 1 : t[b] # Empty
               PROVE  FALSE
    OBVIOUS
  <2>1. t \in [0 .. n - 1 -> A]
    BY DEF TableOK
  <2>2. \A b, c \in 0 .. n - 1 : t[b] = t[c] => b = c
    BY DEF TableOK
  <2> HIDE DEF n, A
  <2>3. IsFiniteSet(0 .. n - 1) /\ Cardinality(0 .. n - 1) = n
    BY <1>1, FS_Interval
  <2> QED
    BY <1>1, <2>1, <2>2, <2>3, FS_PigeonHole
<1>3. S # {} /\ S \subseteq Int /\ IsFiniteSet(S)
  <2>1. S # {}
    BY <1>2, AtOK
  <2>2. S \in SUBSET (0 .. n - 1) /\ S \subseteq Int
    BY <1>1
  <2>3. IsFiniteSet(0 .. n - 1)
    BY <1>1, FS_Interval
  <2> HIDE DEF S
  <2> QED
    BY <2>1, <2>2, <2>3, FS_Subset
<1>4. PICK k \in S : \A j \in S : k <= j
  <2> HIDE DEF S
  <2> QED
    BY <1>3, LeastOf
<1>5. ASSUME NEW j \in 0 .. k - 1
      PROVE  t[At(f, w, j)] # Empty
  <2>1. k \in 0 .. n - 1 /\ j \in 0 .. n - 1 /\ ~(k <= j)
    BY <1>1, <1>4
  <2> QED
    BY <1>4, <2>1
<1> QED
  BY <1>4, <1>5 DEF FreeAt

\* quick_decode_add keeps the table as it should be.
LEMMA AddOK ==
    ASSUME Code!FamilyAssumption, NEW f \in Families, NEW t, NEW left, TableOK(f, t, left),
           NEW e \in left, NEW k, FreeAt(f, t, e.rcode, k)
    PROVE  TableOK(f, [t EXCEPT ![At(f, e.rcode, k)] = e], left \ {e})
<1> DEFINE n == Code!NEntries(f)
           A == Code!AllEntries(f)
           b0 == At(f, e.rcode, k)
           u == [t EXCEPT ![b0] = e]
<1>1. /\ n \in Nat \ {0} /\ k \in 0 .. n - 1 /\ b0 \in 0 .. n - 1
      /\ t[b0] = Empty /\ e \in A /\ e # Empty
      /\ t \in [0 .. n - 1 -> (A \ left) \cup {Empty}]
  BY FewEntries, AtOK, NoEntry DEF TableOK, FreeAt
<1>2. /\ u \in [0 .. n - 1 -> (A \ (left \ {e})) \cup {Empty}]
      /\ u[b0] = e /\ \A b \in 0 .. n - 1 : b # b0 => u[b] = t[b]
      /\ \A b \in 0 .. n - 1 : t[b] # Empty => u[b] = t[b] /\ u[b] # Empty
  <2> HIDE DEF n, A, b0
  <2> QED
    BY <1>1
<1> HIDE DEF u
<1>3. \A d \in A \ (left \ {e}) : \E b \in 0 .. n - 1 : u[b] = d
  <2> TAKE d \in A \ (left \ {e})
  <2>1. CASE d = e
    BY <1>1, <1>2, <2>1
  <2>2. CASE d # e
    <3>1. d \in A \ left /\ d # Empty
      BY <2>2, NoEntry
    <3>2. PICK b \in 0 .. n - 1 : t[b] = d
      BY <3>1 DEF TableOK
    <3> QED
      BY <1>2, <3>1, <3>2
  <2> QED
    BY <2>1, <2>2
<1>4. \A b, c \in 0 .. n - 1 : u[b] = u[c] /\ u[b] # Empty => b = c
  <2> TAKE b, c \in 0 .. n - 1
  <2>1. t[b] # e /\ t[c] # e
    BY <1>1
  <2>2. t[b] = t[c] /\ t[b] # Empty => b = c
    BY DEF TableOK
  <2> QED
    BY <1>2, <2>1, <2>2
<1>5. ASSUME NEW b \in 0 .. n - 1, u[b] # Empty
      PROVE  \E j \in 0 .. n - 1 : /\ b = At(f, u[b].rcode, j)
                                   /\ \A i \in 0 .. j : u[At(f, u[b].rcode, i)] # Empty
  <2>1. CASE b = b0
    <3>1. \A i \in 0 .. k : u[At(f, e.rcode, i)] # Empty
      <4> TAKE i \in 0 .. k
      <4>1. CASE i = k
        BY <1>1, <1>2, <4>1
      <4>2. CASE i # k
        <5>1. i \in 0 .. k - 1 /\ i \in Nat
          BY <1>1, <4>2
        <5>2. t[At(f, e.rcode, i)] # Empty /\ At(f, e.rcode, i) \in 0 .. n - 1
          BY <5>1, AtOK DEF FreeAt
        <5> QED
          BY <1>2, <5>2
      <4> QED
        BY <4>1, <4>2
    <3> QED
      BY <1>1, <1>2, <2>1, <3>1
  <2>2. CASE b # b0
    <3>1. u[b] = t[b] /\ t[b] # Empty
      BY <1>2, <1>5, <2>2
    <3>2. PICK j \in 0 .. n - 1 : /\ b = At(f, t[b].rcode, j)
                                  /\ \A i \in 0 .. j : t[At(f, t[b].rcode, i)] # Empty
      BY <3>1 DEF TableOK
    <3>3. ASSUME NEW i \in 0 .. j
          PROVE  u[At(f, t[b].rcode, i)] # Empty
      <4>1. i \in Nat
        BY <1>1
      <4>2. At(f, t[b].rcode, i) \in 0 .. n - 1 /\ t[At(f, t[b].rcode, i)] # Empty
        BY <3>2, <4>1, AtOK
      <4> QED
        BY <1>2, <4>2
    <3> QED
      BY <3>1, <3>2, <3>3
  <2> QED
    BY <2>1, <2>2
<1>6. left \ {e} \subseteq A
  BY DEF TableOK
<1>7. TableOK(f, u, left \ {e})
  BY <1>2, <1>3, <1>4, <1>5, <1>6 DEF TableOK
<1> QED
  BY <1>7 DEF u

\* A table without entries.
LEMMA BlankOK ==
    ASSUME Code!FamilyAssumption, NEW f \in Families
    PROVE  TableOK(f, [b \in 0 .. Code!NEntries(f) - 1 |-> Empty], Code!AllEntries(f))
  BY DEF TableOK

-----------------------------------------------------------------------------
(* Looking a word up *)

\* A step of Parts that is not QuickDecode's leaves its variables alone.
LEMMA StepOfDecode == [Next]_vars => Code!Next \/ UNCHANGED codeVars
  BY DEF Next, IsStart, IsFrames, IsCodec, IsFields, IsJoystick, IsPool, IsImage, packetVars,
         imageVars, vars

\* The search for a free bucket ends at the first one, as a table is never full.
LEMMA FreeIs ==
    ASSUME Code!FamilyAssumption, family \in Families, NEW left,
           TableOK(family, entries, left), NEW w
    PROVE  FreeAt(family, entries, w, Code!Free(w))
<1> DEFINE n == Code!NEntries(family)
           S == {k \in 0 .. n - 1 : entries[At(family, w, k)] = Empty}
<1>1. n \in Nat \ {0}
  BY FewEntries
<1>2. Code!Free(w) = CHOOSE k \in S : \A j \in S : k <= j
  BY DEF Code!Free, Code!Min, Code!Bucket, At
<1>3. PICK k : FreeAt(family, entries, w, k)
  BY FreeOK
<1>4. k \in S /\ \A j \in S : k <= j
  <2>1. k \in S
    BY <1>3 DEF FreeAt
  <2>2. ASSUME NEW j \in S, ~(k <= j)
        PROVE  FALSE
    <3>1. j \in 0 .. k - 1
      BY <1>1, <2>1, <2>2
    <3> QED
      BY <1>3, <3>1 DEF FreeAt
  <2> QED
    BY <2>1, <2>2
<1>5. Code!Free(w) \in S /\ \A j \in S : Code!Free(w) <= j
  BY <1>2, <1>4
<1>6. ASSUME NEW j \in 0 .. Code!Free(w) - 1
      PROVE  entries[At(family, w, j)] # Empty
  <2>1. j \in 0 .. n - 1 /\ ~(Code!Free(w) <= j)
    BY <1>1, <1>5
  <2> QED
    BY <1>5, <2>1
<1> QED
  BY <1>5, <1>6 DEF FreeAt

\* A search finds what is there, and nothing else.
LEMMA MatchOK ==
    ASSUME Code!FamilyAssumption, family \in Families, TableOK(family, entries, {}), NEW w
    PROVE  /\ \A k \in Code!Match(w) : /\ entries[Code!Bucket(w, k)] \in Code!AllEntries(family)
                                       /\ entries[Code!Bucket(w, k)].rcode = w
           /\ \A e \in Code!AllEntries(family) : e.rcode = w => Code!Match(w) # {}
           /\ Code!Match(w) \subseteq Int /\ IsFiniteSet(Code!Match(w))
<1> DEFINE n == Code!NEntries(family)
           d == Code!Free(w)
<1>1. n \in Nat \ {0}
  BY FewEntries
<1>2. FreeAt(family, entries, w, d)
  BY FreeIs
<1>3. Code!Match(w) = {k \in 0 .. d - 1 : entries[At(family, w, k)].rcode = w}
  BY DEF Code!Match, Code!Bucket, At
<1>4. \A k : Code!Bucket(w, k) = At(family, w, k)
  BY DEF Code!Bucket, At
<1> HIDE DEF d
<1>5. d \in 0 .. n - 1 /\ entries[At(family, w, d)] = Empty
      /\ \A j \in 0 .. d - 1 : entries[At(family, w, j)] # Empty
  BY <1>2 DEF FreeAt
<1>6. ASSUME NEW k \in Code!Match(w)
      PROVE  /\ entries[At(family, w, k)] \in Code!AllEntries(family)
             /\ entries[At(family, w, k)].rcode = w
  <2>1. k \in 0 .. d - 1 /\ k \in Nat /\ entries[At(family, w, k)].rcode = w
    BY <1>3, <1>5, <1>6
  <2>2. At(family, w, k) \in 0 .. n - 1 /\ entries[At(family, w, k)] # Empty
    BY <1>5, <2>1, AtOK
  <2> QED
    BY <2>1, <2>2 DEF TableOK
<1>7. ASSUME NEW e \in Code!AllEntries(family), e.rcode = w
      PROVE  Code!Match(w) # {}
  <2>1. PICK b \in 0 .. n - 1 : entries[b] = e
    BY DEF TableOK
  <2>2. PICK k \in 0 .. n - 1 : /\ b = At(family, w, k)
                                /\ \A j \in 0 .. k : entries[At(family, w, j)] # Empty
    BY <1>7, <2>1, NoEntry DEF TableOK
  <2>3. k \in 0 .. d - 1
    BY <1>1, <1>5, <2>2
  <2> QED
    BY <1>3, <1>7, <2>1, <2>2, <2>3
<1>8. Code!Match(w) \subseteq Int /\ IsFiniteSet(Code!Match(w))
  <2>1. Code!Match(w) \in SUBSET (0 .. d - 1) /\ d \in Int
    BY <1>1, <1>3, <1>5
  <2>2. IsFiniteSet(0 .. d - 1) /\ 0 .. d - 1 \subseteq Int
    BY <2>1, FS_Interval
  <2> QED
    BY <2>1, <2>2, FS_Subset
<1> QED
  BY <1>4, <1>6, <1>7, <1>8

\* Turns are words, keep distances, and add up.
LEMMA TurnsOK ==
    ASSUME Side \in Nat \ {0}, NEW v \in Code!Words, NEW w \in Code!Words
    PROVE  /\ \A k \in 0 .. 3 :
                  /\ Code!Turns(w)[k + 1] \in Code!Words
                  /\ Code!Distance(Code!Turns(v)[k + 1], Code!Turns(w)[k + 1])
                         = Code!Distance(v, w)
           /\ \A r, s \in 0 .. 3 :
                  r <= s => Code!Turns(w)[s + 1] = Code!Turns(Code!Turns(w)[r + 1])[(s - r) + 1]
           /\ Code!Turns(w) = <<w, Code!Rotate90(w), Code!Rotate90(Code!Rotate90(w)),
                                Code!Rotate90(Code!Rotate90(Code!Rotate90(w)))>>
<1> DEFINE T(x) == Code!Turned(x)
<1>1. \A x \in Code!Words :
          /\ Code!Turns(x)[1] = x /\ Code!Turns(x)[2] = T(x)
          /\ Code!Turns(x)[3] = T(T(x)) /\ Code!Turns(x)[4] = T(T(T(x)))
  BY DEF Code!Turns
<1>2. \A x, y \in Code!Words :
          /\ T(x) \in Code!Words /\ Code!Rotate90(x) = T(x)
          /\ Code!Distance(T(x), T(y)) = Code!Distance(x, y)
  BY TurnOK
<1>3. Code!Turns(w) = <<w, Code!Rotate90(w), Code!Rotate90(Code!Rotate90(w)),
                        Code!Rotate90(Code!Rotate90(Code!Rotate90(w)))>>
  <2>1. Code!Turns(w) = <<w, T(w), T(T(w)), T(T(T(w)))>>
    BY DEF Code!Turns
  <2> HIDE DEF T
  <2>2. /\ Code!Rotate90(w) = T(w) /\ Code!Rotate90(Code!Rotate90(w)) = T(T(w))
        /\ Code!Rotate90(Code!Rotate90(Code!Rotate90(w))) = T(T(T(w)))
    BY <1>2
  <2> QED
    BY <2>1, <2>2
<1> HIDE DEF T
<1>4. ASSUME NEW k \in 0 .. 3
      PROVE  /\ Code!Turns(w)[k + 1] \in Code!Words
             /\ Code!Distance(Code!Turns(v)[k + 1], Code!Turns(w)[k + 1])
                    = Code!Distance(v, w)
  <2>1. k = 0 \/ k = 1 \/ k = 2 \/ k = 3
    OBVIOUS
  <2>2. T(v) \in Code!Words /\ T(w) \in Code!Words
        /\ T(T(v)) \in Code!Words /\ T(T(w)) \in Code!Words
        /\ T(T(T(w))) \in Code!Words
    BY <1>2
  <2>3. /\ Code!Distance(T(v), T(w)) = Code!Distance(v, w)
        /\ Code!Distance(T(T(v)), T(T(w))) = Code!Distance(v, w)
        /\ Code!Distance(T(T(T(v))), T(T(T(w)))) = Code!Distance(v, w)
    BY <1>2, <2>2
  <2>4. CASE k = 0
    BY <1>1, <2>4
  <2>5. CASE k = 1
    BY <1>1, <2>2, <2>3, <2>5
  <2>6. CASE k = 2
    BY <1>1, <2>2, <2>3, <2>6
  <2>7. CASE k = 3
    BY <1>1, <2>2, <2>3, <2>7
  <2> QED
    BY <2>1, <2>4, <2>5, <2>6, <2>7
<1>5. ASSUME NEW r \in 0 .. 3, NEW s \in 0 .. 3, r <= s
      PROVE  Code!Turns(w)[s + 1] = Code!Turns(Code!Turns(w)[r + 1])[(s - r) + 1]
  <2>1. T(w) \in Code!Words /\ T(T(w)) \in Code!Words /\ T(T(T(w))) \in Code!Words
    BY <1>2
  <2>2. CASE r = 0
    BY <1>1, <2>2
  <2>3. CASE r = 1
    <3>1. s = 1 \/ s = 2 \/ s = 3
      BY <1>5, <2>3
    <3> QED
      BY <1>1, <2>1, <2>3, <3>1
  <2>4. CASE r = 2
    <3>1. s = 2 \/ s = 3
      BY <1>5, <2>4
    <3> QED
      BY <1>1, <2>1, <2>4, <3>1
  <2>5. CASE r = 3
    <3>1. s = 3
      BY <1>5, <2>5
    <3> QED
      BY <1>1, <2>1, <2>5, <3>1
  <2> QED
    BY <2>2, <2>3, <2>4, <2>5
<1> QED
  BY <1>3, <1>4, <1>5

\* Of the codes of a family one at most is near to a word, and in one turn of it.
LEMMA OneNear ==
    ASSUME Code!FamilyAssumption, NEW f \in Families, NEW w \in Code!Words,
           NEW i \in 1 .. Len(f.codes), NEW j \in 1 .. Len(f.codes),
           NEW r \in 0 .. 3, NEW s \in 0 .. 3, r <= s,
           Code!Distance(Code!Turns(w)[r + 1], f.codes[i]) <= f.maxhamming,
           Code!Distance(Code!Turns(w)[s + 1], f.codes[j]) <= f.maxhamming
    PROVE  i = j /\ r = s
<1> DEFINE k == s - r
           wr == Code!Turns(w)[r + 1]
           ws == Code!Turns(w)[s + 1]
           ci == f.codes[i]
           cj == f.codes[j]
           x == Code!Turns(ci)[k + 1]
<1>1. Side \in Nat \ {0} /\ f.maxhamming \in Nat /\ k \in 0 .. 3
      /\ ci \in Code!Words /\ cj \in Code!Words
      /\ DOMAIN f.codes = 1 .. Len(f.codes)
  BY FamilyOK
<1>2. wr \in Code!Words /\ ws \in Code!Words
  BY <1>1, TurnsOK
<1>3. ws = Code!Turns(wr)[k + 1]
  BY <1>1, TurnsOK
<1> HIDE DEF k, wr, ws, ci, cj
<1>4. x \in Code!Words /\ Code!Distance(x, ws) = Code!Distance(ci, wr)
  BY <1>1, <1>2, <1>3, TurnsOK
<1>5. /\ Code!Distance(x, cj) <= Code!Distance(x, ws) + Code!Distance(ws, cj)
      /\ Code!Distance(x, cj) \in Nat /\ Code!Distance(ws, cj) \in Nat
      /\ Code!Distance(ci, wr) = Code!Distance(wr, ci) /\ Code!Distance(wr, ci) \in Nat
  BY <1>1, <1>2, <1>4, Triangle, DistanceOK
<1>6. Code!Distance(wr, ci) <= f.maxhamming /\ Code!Distance(ws, cj) <= f.maxhamming
  BY DEF wr, ws, ci, cj
<1> HIDE DEF x
<1>7. ~(Code!Distance(x, cj) > 2 * f.maxhamming)
  BY <1>1, <1>4, <1>5, <1>6
<1>8. i # j \/ k + 1 > 1 => Code!Distance(x, cj) > 2 * f.maxhamming
  <2>1. k + 1 \in 1 .. 4
    BY <1>1
  <2> QED
    BY <1>1, <2>1 DEF Code!FamilyAssumption, x, ci, cj
<1>9. i = j /\ ~(k + 1 > 1)
  BY <1>7, <1>8
<1> QED
  BY <1>1, <1>9 DEF k

\* The right answers.
Near(f, w) ==
    {a \in {[id |-> i, hamming |-> Code!Distance(Code!Turns(w)[r + 1], f.codes[i]),
             rotation |-> r] : i \in DOMAIN f.codes, r \in 0 .. 3} :
         a.hamming <= f.maxhamming}

\* quick_decode_codeword finds it.
LEMMA DecodeOK ==
    ASSUME Code!FamilyAssumption, family \in Families, TableOK(family, entries, {}),
           NEW w \in Code!Words
    PROVE  {Code!Decode(w)} = IF Near(family, w) = {} THEN {Code!Undecoded}
                              ELSE Near(family, w)
<1> DEFINE T(r) == Code!Turns(w)[r + 1]
           c == family.codes
           mh == family.maxhamming
           A == Code!AllEntries(family)
           hits == {r \in 0 .. 3 : Code!Match(T(r)) # {}}
           first == Code!Min(hits)
           hit == entries[Code!Bucket(T(first), Code!Min(Code!Match(T(first))))]
<1>1. Side \in Nat \ {0} /\ mh \in 0 .. 3 /\ DOMAIN c = 1 .. Len(c)
      /\ \A i \in 1 .. Len(c) : c[i] \in Code!Words
  BY FamilyOK
<1>2. \A r \in 0 .. 3 : T(r) \in Code!Words
  BY <1>1, TurnsOK
<1>3. Code!Decode(w) =
          IF hits = {} THEN Code!Undecoded
          ELSE [id |-> hit.id, hamming |-> hit.hamming, rotation |-> first]
  <2>1. Code!Turns(w) = <<w, Code!Rotate90(w), Code!Rotate90(Code!Rotate90(w)),
                          Code!Rotate90(Code!Rotate90(Code!Rotate90(w)))>>
    BY <1>1, TurnsOK
  <2> QED
    BY <2>1 DEF Code!Decode
<1>4. \A e : e \in A <=> e \in Entry(family) /\ Code!Distance(c[e.id], e.rcode) = e.hamming
  BY EntriesOK
<1>5. ASSUME NEW r \in 0 .. 3, NEW i \in 1 .. Len(c), Code!Distance(T(r), c[i]) <= mh
      PROVE  r \in hits
  <2> DEFINE e == [rcode |-> T(r), id |-> i, hamming |-> Code!Distance(T(r), c[i])]
  <2>1. /\ e.rcode = T(r) /\ e.id = i /\ e.hamming = Code!Distance(c[i], T(r))
        /\ e.hamming \in Nat /\ e.hamming <= mh
    BY <1>1, <1>2, <1>5, DistanceOK
  <2>2. e.hamming \in 0 .. mh
    BY <1>1, <2>1
  <2>3. e \in Entry(family)
    BY <1>2, <2>2 DEF Entry
  <2> HIDE DEF e, T
  <2>4. e \in A
    BY <1>4, <2>1, <2>3
  <2> HIDE DEF A
  <2>5. Code!Match(T(r)) # {}
    BY <2>1, <2>4, MatchOK DEF A
  <2> QED
    BY <2>5
<1>6. CASE hits = {}
  <2>1. ASSUME NEW b \in Near(family, w)
        PROVE  FALSE
    <3>1. PICK i \in 1 .. Len(c), r \in 0 .. 3 :
              b = [id |-> i, hamming |-> Code!Distance(T(r), c[i]), rotation |-> r]
      BY <1>1 DEF Near
    <3>2. b.hamming <= mh
      BY DEF Near
    <3>3. Code!Distance(T(r), c[i]) <= mh
      BY <3>1, <3>2
    <3> HIDE DEF hits
    <3> QED
      BY <1>5, <1>6, <3>3
  <2> QED
    BY <1>3, <1>6, <2>1
<1>7. CASE hits # {}
  <2>1. first \in hits
    <3>4. IsFiniteSet(0 .. 3)
      <4>1. 0 \in Int /\ 3 \in Int
        OBVIOUS
      <4> QED
        BY <4>1, FS_Interval
    <3>1. hits \in SUBSET (0 .. 3) /\ hits \subseteq Int /\ IsFiniteSet(0 .. 3)
      BY <3>4
    <3>2. IsFiniteSet(hits)
      BY <3>1, FS_Subset
    <3> HIDE DEF hits
    <3>3. \E x \in hits : \A y \in hits : x <= y
      BY <1>7, <3>1, <3>2, LeastOf
    <3> QED
      BY <3>3 DEF Code!Min
  <2> HIDE DEF first
  <2>2. first \in 0 .. 3 /\ Code!Match(T(first)) # {}
    BY <2>1
  <2>3. Code!Min(Code!Match(T(first))) \in Code!Match(T(first))
    <3> DEFINE S == Code!Match(T(first))
    <3>1. S # {} /\ S \subseteq Int /\ IsFiniteSet(S)
      BY <2>2, MatchOK
    <3> HIDE DEF S
    <3>2. \E x \in S : \A y \in S : x <= y
      BY <3>1, LeastOf
    <3>3. Code!Min(S) \in S
      BY <3>2 DEF Code!Min
    <3> QED
      BY <3>3 DEF S
  <2>4. hit \in A /\ hit.rcode = T(first)
    BY <2>3, MatchOK
  <2> HIDE DEF hit, A
  <2>5. /\ hit.id \in 1 .. Len(c) /\ hit.hamming \in 0 .. mh
        /\ Code!Distance(c[hit.id], hit.rcode) = hit.hamming
    BY <1>4, <2>4 DEF Entry
  <2>6. Code!Distance(T(first), c[hit.id]) = hit.hamming /\ hit.hamming <= mh
    <3>1. Code!Distance(T(first), c[hit.id]) = Code!Distance(c[hit.id], T(first))
      BY <1>1, <1>2, <2>2, <2>5, DistanceOK
    <3> QED
      BY <1>1, <2>4, <2>5, <3>1
  <2> DEFINE a == [id |-> hit.id, hamming |-> hit.hamming, rotation |-> first]
  <2>7. a \in Near(family, w)
    <3>1. a = [id |-> hit.id, hamming |-> Code!Distance(Code!Turns(w)[first + 1], family.codes[hit.id]),
               rotation |-> first]
      BY <2>6
    <3>2. a.hamming <= family.maxhamming
      BY <2>6
    <3> HIDE DEF a
    <3> QED
      BY <1>1, <2>2, <2>5, <3>1, <3>2 DEF Near
  <2>8. ASSUME NEW b \in Near(family, w)
        PROVE  b = a
    <3>1. PICK i \in 1 .. Len(c), r \in 0 .. 3 :
              b = [id |-> i, hamming |-> Code!Distance(T(r), c[i]), rotation |-> r]
      BY <1>1 DEF Near
    <3>2. b.hamming <= mh
      BY DEF Near
    <3>3. Code!Distance(T(r), c[i]) <= mh
      BY <3>1, <3>2
    <3>4. i = hit.id /\ r = first
      <4>1. CASE r <= first
        BY <2>2, <2>5, <2>6, <3>3, <4>1, OneNear
      <4>2. CASE ~(r <= first)
        <5>1. first <= r
          BY <2>2, <4>2
        <5> QED
          BY <2>2, <2>5, <2>6, <3>3, <5>1, OneNear
      <4> QED
        BY <4>1, <4>2
    <3> QED
      BY <2>6, <3>1, <3>4
  <2>9. Code!Decode(w) = a
    BY <1>3, <1>7
  <2> HIDE DEF a
  <2> QED
    BY <2>7, <2>8, <2>9
<1> QED
  BY <1>6, <1>7


-----------------------------------------------------------------------------
(* DecodesNearest *)

\* While the table is filled nothing is looked up.
DecodeInv ==
    /\ family = Code!NoFamily => todo = {} /\ entry = Empty
    /\ family # Code!NoFamily => family \in Families /\ TableOK(family, entries, todo)
    /\ entry # Empty => todo = {}
    /\ entry # Empty => {entry} = IF Near(family, rcode) = {} THEN {Code!Undecoded}
                                  ELSE Near(family, rcode)

LEMMA DecodeInit == Init => DecodeInv
  BY DEF Init, Code!Init, DecodeInv

LEMMA DecodeStep ==
    ASSUME Code!FamilyAssumption, DecodeInv, [Next]_vars
    PROVE  DecodeInv'
<1>1. Code!Next \/ UNCHANGED codeVars
  BY StepOfDecode
<1>2. ASSUME NEW f \in Families, Code!QuickDecodeInit(f)
      PROVE  DecodeInv'
  <2>1. /\ family' = f /\ todo' = Code!AllEntries(f) /\ entry' = entry
        /\ entries' = [b \in 0 .. Code!NEntries(f) - 1 |-> Empty] /\ entry = Empty
    BY <1>2 DEF Code!QuickDecodeInit, DecodeInv
  <2>2. TableOK(family', entries', todo') /\ f # Code!NoFamily
    BY <2>1, BlankOK, FamilyOK
  <2> QED
    BY <2>1, <2>2 DEF DecodeInv
<1>3. CASE Code!QuickDecodeAdd
  <2>1. PICK e \in todo :
            /\ entries' = [entries EXCEPT ![Code!Bucket(e.rcode, Code!Free(e.rcode))] = e]
            /\ todo' = todo \ {e}
    BY <1>3 DEF Code!QuickDecodeAdd
  <2>2. family \in Families /\ TableOK(family, entries, todo) /\ entry = Empty
        /\ family # Code!NoFamily
    BY <2>1 DEF DecodeInv
  <2> DEFINE k == Code!Free(e.rcode)
  <2>3. FreeAt(family, entries, e.rcode, k)
    BY <2>2, FreeIs
  <2>4. entries' = [entries EXCEPT ![At(family, e.rcode, k)] = e]
    BY <2>1 DEF Code!Bucket, At
  <2> HIDE DEF k
  <2>5. TableOK(family, entries', todo')
    <3> DEFINE u == [entries EXCEPT ![At(family, e.rcode, k)] = e]
    <3>1. TableOK(family, u, todo \ {e})
      BY <2>2, <2>3, AddOK, Zenon
    <3>2. entries' = u
      BY <2>4
    <3> HIDE DEF u
    <3> QED
      BY <2>1, <3>1, <3>2
  <2>6. family' = family /\ entry' = entry
    BY <1>3 DEF Code!QuickDecodeAdd
  <2> QED
    BY <2>2, <2>5, <2>6 DEF DecodeInv
<1>4. ASSUME NEW w \in Code!Words, Code!QuickDecodeCodeword(w)
      PROVE  DecodeInv'
  <2>1. /\ family # Code!NoFamily /\ todo = {} /\ rcode' = w /\ entry' = Code!Decode(w)
        /\ family' = family /\ entries' = entries /\ todo' = todo
    BY <1>4 DEF Code!QuickDecodeCodeword
  <2>2. family \in Families /\ TableOK(family, entries, {})
    BY <2>1 DEF DecodeInv
  <2>3. {entry'} = IF Near(family, w) = {} THEN {Code!Undecoded} ELSE Near(family, w)
    BY <2>1, <2>2, DecodeOK
  <2> QED
    BY <2>1, <2>2, <2>3 DEF DecodeInv
<1>5. CASE Code!Uninit
  BY <1>5 DEF Code!Uninit, DecodeInv
<1>6. CASE UNCHANGED codeVars
  BY <1>6 DEF codeVars, DecodeInv
<1> QED
  BY <1>1, <1>2, <1>3, <1>4, <1>5, <1>6 DEF Code!Next

\* Whatever way up a tag was read, the table finds the one code of the family that is
\* within maxhamming bits of the word, with its id, its errors and its turn, and finds
\* nothing if there is none: for every family whose codes and their turns are far enough
\* apart, and every size of tag (apriltag.c:172-261, 289-314).
THEOREM DecodedNearest == Spec => []DecodesNearest
<1>1. Code!FamilyAssumption
  BY PartsAssumption
<1>2. Init => DecodeInv
  BY DecodeInit
<1>3. DecodeInv /\ [Next]_vars => DecodeInv'
  BY <1>1, DecodeStep
<1>4. DecodeInv => DecodesNearest
  BY DEF DecodeInv, DecodesNearest, Code!DecodesNearest, Code!Readings, Near
<1> QED
  BY <1>2, <1>3, <1>4, PTL DEF Spec
=============================================================================
