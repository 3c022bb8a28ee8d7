------------------------------- MODULE Joystick -------------------------------
(***************************************************************************)
(* ReadJoystickValues of the base station (MainWindow.xaml.cs:343) and the *)
(* closures it leaves to the dispatcher.  scooper_speed and vibrator_speed *)
(* are captured by a closure that overwrites them with the position of a   *)
(* slider, while the thread reads and writes them without a lock: a step   *)
(* of the thread is one access to them.                                    *)
(*                                                                         *)
(* The values of a drive packet do not depend on each other: a behaviour   *)
(* follows one of them, the value "part".                                  *)
(***************************************************************************)
EXTENDS Integers

CONSTANTS
    Positions,      \* of a stick, percent
    Squeezes,       \* of a trigger, percent
    Sliders,        \* positions of dispSlider and vibSlider; -1: no override
    MaxLag,         \* bound: tenths of a second a turn may last
    MaxPending      \* bound: closures the dispatcher is behind

\* Assumed by Parts.
ControlAssumption ==
    /\ Positions \subseteq -100 .. 100
    /\ Squeezes \subseteq 0 .. 100
    /\ Sliders \subseteq -1 .. 100 /\ -1 \in Sliders
    /\ MaxLag \in Nat \ {0} /\ MaxPending \in Nat \ {0}

VARIABLES
    part,           \* the value of the packet this behaviour follows
    pc,             \* where ReadJoystickValues is
    enumerating,    \* enumerate_js
    plugged,        \* the library knows the joystick
    input,          \* what the last turn read for the part
    divisor,        \* speed_divisor
    speed,          \* the part's value: scooper_speed, leftY, ...
    sum,            \* speed + INC before it is stored
    since,          \* .Milliseconds since the last toggle, in hundreds
    pending,        \* override closures the dispatcher has not run
    slider,         \* its position
    sent,           \* the value sent in the last step
    ignored,        \* turns in a row in which a pressed button did nothing
    blind           \* packets sent since the joystick was unplugged

device == <<plugged, blind>>
clock == <<since, ignored>>
vars == <<part, pc, enumerating, device, input, divisor, speed, sum, clock,
          pending, slider, sent>>

-----------------------------------------------------------------------------
Tools == {"scooper", "vibrator"}
Parts == Tools \cup {"wheel", "actuator"}

Deadzone == 15                                      \* JS_DEADZONE
MaxDivisor == 5                                     \* MAX_SPEED_DIVISOR
Min == 10                                           \* SCOOPER_MIN
Inc == 10                                           \* SCOOPER_INC, VIB_INC
Max == [scooper |-> 15, vibrator |-> 30]            \* SCOOPER_MAX, VIB_MAX

Released == [stick |-> 0, left |-> 0, right |-> 0, pressed |-> FALSE]

\* What the joystick can show of the part.
Readings ==
    IF part = "wheel" THEN {[Released EXCEPT !.stick = v] : v \in Positions}
    ELSE IF part = "actuator"
    THEN {[Released EXCEPT !.left = p[1], !.right = p[2]] : p \in Squeezes \X Squeezes}
    ELSE {[Released EXCEPT !.pressed = b] : b \in BOOLEAN}

Init ==
    /\ part \in Parts
    /\ pc = "sleep" /\ enumerating = TRUE /\ plugged = FALSE
    /\ input = Released /\ divisor = 2
    /\ speed = 0 /\ sum = 0
    /\ since = 0 /\ ignored = 0
    /\ pending = 0 /\ slider = -1
    /\ sent = {} /\ blind = 0

SendNothing == sent' = {}

-----------------------------------------------------------------------------
(* ReadJoystickValues *)

\* Thread.Sleep(100), or longer.  Milliseconds is a component of the time span,
\* not its length: it starts again with every second.
Sleep(lag) ==
    /\ pc = "sleep"
    /\ since' = IF part \in Tools THEN (since + lag) % 10 ELSE since
    /\ pc' = IF enumerating THEN "enumerate" ELSE "check"
    /\ SendNothing
    /\ UNCHANGED <<part, enumerating, device, input, divisor, speed, sum, ignored,
                   pending, slider>>

Enumerate ==
    /\ pc = "enumerate"
    /\ enumerating' = ~plugged
    /\ pc' = "sleep"
    /\ SendNothing
    /\ UNCHANGED <<part, device, input, divisor, speed, sum, clock, pending, slider>>

CheckNothing ==                                     \* mutant: presence not checked
    /\ pc = "check"
    /\ pc' = "read"
    /\ SendNothing
    /\ UNCHANGED <<part, enumerating, device, input, divisor, speed, sum, clock,
                   pending, slider>>
Check ==
    /\ pc = "check"
    /\ enumerating' = ~plugged
    /\ pc' = IF plugged THEN "read" ELSE "sleep"
    /\ ignored' = IF plugged THEN ignored ELSE 0
    /\ SendNothing
    /\ UNCHANGED <<part, device, input, divisor, speed, sum, since, pending, slider>>

\* If the joystick is gone by now the getters leave their arguments alone: the
\* sticks keep what the last turn made of them, the triggers what it read, and
\* the buttons are not pressed.
Gone == [input EXCEPT !.stick = IF part = "wheel" THEN speed ELSE 0,
                      !.pressed = FALSE]

NeverReady == since > 7                             \* mutant
Ready == since > 2                                  \* Milliseconds > 200

Read ==
    /\ pc = "read"
    /\ \E r \in IF plugged THEN Readings ELSE {Gone} :
           /\ input' = r
           /\ ignored' = IF r.pressed /\ ~Ready THEN ignored + 1 ELSE 0
           /\ pc' = IF r.pressed /\ Ready THEN "toggle"
                    ELSE IF part = "wheel" THEN "scale" ELSE "post"
           /\ speed' = IF part # "actuator" THEN speed
                       ELSE IF r.left # 0 /\ r.right # 0 THEN 0
                       ELSE r.right - r.left
    /\ SendNothing
    /\ UNCHANGED <<part, enumerating, device, divisor, sum, since, pending, slider>>

\* The next preset.  The scooper begins at SCOOPER_MIN.
Toggle ==
    /\ pc = "toggle"
    /\ since' = 0
    /\ pc' = IF part = "scooper" /\ speed = 0 THEN "min" ELSE "add"
    /\ SendNothing
    /\ UNCHANGED <<part, enumerating, device, input, divisor, speed, sum, ignored, pending,
                   slider>>

StoreMin ==
    /\ pc = "min"
    /\ speed' = Min
    /\ pc' = "post"
    /\ SendNothing
    /\ UNCHANGED <<part, enumerating, device, input, divisor, sum, clock, pending,
                   slider>>

Add ==
    /\ pc = "add"
    /\ sum' = speed + Inc
    /\ pc' = "store"
    /\ SendNothing
    /\ UNCHANGED <<part, enumerating, device, input, divisor, speed, clock, pending,
                   slider>>

Store ==
    /\ pc = "store"
    /\ speed' = sum /\ sum' = 0
    /\ pc' = "cap"
    /\ SendNothing
    /\ UNCHANGED <<part, enumerating, device, input, divisor, clock, pending, slider>>

NoCap ==                                            \* mutant: > MAX not checked
    /\ pc = "cap"
    /\ pc' = "post"
    /\ SendNothing
    /\ UNCHANGED <<part, enumerating, device, input, divisor, speed, sum, clock,
                   pending, slider>>
Cap ==
    /\ pc = "cap"
    /\ pc' = IF speed > Max[part] THEN "zero" ELSE "post"
    /\ SendNothing
    /\ UNCHANGED <<part, enumerating, device, input, divisor, speed, sum, clock,
                   pending, slider>>

Zero ==
    /\ pc = "zero"
    /\ speed' = 0
    /\ pc' = "post"
    /\ SendNothing
    /\ UNCHANGED <<part, enumerating, device, input, divisor, sum, clock, pending,
                   slider>>

\* Deadzone, the divisor that the pad changes, and C#'s division.
Quotient(v, d) == IF v < 0 THEN -((-v) \div d) ELSE v \div d
Clamp(v, min, max) == IF v < min THEN min ELSE IF v > max THEN max ELSE v
Quieted == IF -Deadzone < input.stick /\ input.stick < Deadzone THEN 0
           ELSE input.stick

BeyondMax(change) == Clamp(divisor + change, 1, MaxDivisor + 1)     \* mutant
Divisor(change) == Clamp(divisor + change, 1, MaxDivisor)

Scale(change) ==
    /\ pc = "scale"
    /\ divisor' = Divisor(change)
    /\ speed' = Quotient(Quieted, divisor')
    /\ pc' = "post"
    /\ SendNothing
    /\ UNCHANGED <<part, enumerating, device, input, sum, clock, pending, slider>>

\* Dispatcher.BeginInvoke
NoPost ==                                           \* mutant: closure forgotten
    /\ pc = "post"
    /\ pc' = "send"
    /\ SendNothing
    /\ UNCHANGED <<part, enumerating, device, input, divisor, speed, sum, clock,
                   pending, slider>>
Post ==
    /\ pc = "post"
    /\ IF part \in Tools THEN pending < MaxPending /\ pending' = pending + 1
       ELSE UNCHANGED pending
    /\ pc' = "send"
    /\ SendNothing
    /\ UNCHANGED <<part, enumerating, device, input, divisor, speed, sum, clock, slider>>

\* If the station is connected and in Remote mode: see BaseStation.
Send ==
    /\ pc = "send"
    /\ sent' = {speed}
    /\ blind' = IF plugged THEN 0 ELSE blind + 1
    /\ pc' = "sleep"
    /\ UNCHANGED <<part, enumerating, plugged, input, divisor, speed, sum, clock,
                   pending, slider>>

SendNot ==
    /\ pc = "send"
    /\ pc' = "sleep"
    /\ SendNothing
    /\ UNCHANGED <<part, enumerating, device, input, divisor, speed, sum, clock,
                   pending, slider>>

ReadJoystickValues ==
    \/ \E lag \in 1 .. MaxLag : Sleep(lag)
    \/ Enumerate \/ Check \/ Read
    \/ Toggle \/ StoreMin \/ Add \/ Store \/ Cap \/ Zero
    \/ \E change \in {-1, 0, 1} : Scale(change)
    \/ Post \/ Send \/ SendNot

-----------------------------------------------------------------------------
(* The dispatcher *)

Override ==
    /\ pending > 0
    /\ pending' = pending - 1
    /\ speed' = IF slider >= 0 THEN slider ELSE speed
    /\ SendNothing
    /\ UNCHANGED <<part, pc, enumerating, device, input, divisor, sum, clock, slider>>

Slide(position) ==
    /\ part \in Tools
    /\ slider' = position
    /\ SendNothing
    /\ UNCHANGED <<part, pc, enumerating, device, input, divisor, speed, sum, clock,
                   pending>>

-----------------------------------------------------------------------------
Plug ==
    /\ plugged' = ~plugged
    /\ blind' = 0
    /\ SendNothing
    /\ UNCHANGED <<part, pc, enumerating, input, divisor, speed, sum, clock, pending,
                   slider>>

Next ==
    \/ ReadJoystickValues
    \/ Override
    \/ \E position \in Sliders : Slide(position)
    \/ Plug

Spec == Init /\ [][Next]_vars

\* The thread and the dispatcher keep running; nobody makes the driver act.
Fairness == WF_vars(ReadJoystickValues) /\ WF_vars(Override)
FairSpec == Spec /\ Fairness

-----------------------------------------------------------------------------
\* Every variable stays within the values the code can give it.
TypeOK ==
    /\ part \in Parts
    /\ pc \in {"sleep", "enumerate", "check", "read", "toggle", "min", "add",
               "store", "cap", "zero", "scale", "post", "send"}
    /\ enumerating \in BOOLEAN /\ plugged \in BOOLEAN
    /\ input \in [stick : -100 .. 100, left : 0 .. 100, right : 0 .. 100,
                  pressed : BOOLEAN]
    /\ divisor \in 1 .. MaxDivisor
    /\ speed \in -100 .. 110 /\ sum \in 0 .. 110
    /\ since \in 0 .. 9 /\ ignored \in Nat
    /\ pending \in 0 .. MaxPending /\ slider \in Sliders
    /\ sent \subseteq -100 .. 110 /\ blind \in Nat

\* Whenever the dispatcher overwrites a speed while the thread is halfway through
\* the next preset, what is sent is no more than the presets go up to or what a
\* slider was set to; and a wheel never turns faster than its stick asks for, nor
\* the other way (MainWindow.xaml.cs:406-455, 476-486, 502-512).
PresetOrSlider ==
    \A v \in sent :
        IF part \in Tools THEN v \in 0 .. Max[part] \cup (Sliders \ {-1})
        ELSE IF part = "wheel"
        THEN \/ 0 <= v /\ v <= input.stick
             \/ input.stick <= v /\ v <= 0
        ELSE v \in {-input.left, input.right, 0}

\* A button that is held is heard within four turns, although the toggle compares
\* the milliseconds within the current second and not the time since the last
\* toggle (MainWindow.xaml.cs:420, 436).
PressIsHeard == ignored <= 3

\* Once the joystick is lost at most one packet repeats what it last showed: the
\* robot is not driven on by sticks nobody holds (MainWindow.xaml.cs:382-395).
LostJoystickStops == blind <= 1

\* A slider that stays at a speed wins over the presets once no button is pressed
\* any more (MainWindow.xaml.cs:476-486).
OverrideWins ==
    \A v \in Sliders \ {-1} :
        <>[](slider = v /\ ~input.pressed) => <>[](sent \subseteq {v})
=============================================================================
