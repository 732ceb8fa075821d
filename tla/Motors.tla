------------------------------- MODULE Motors -------------------------------
(***************************************************************************)
(* The motor library of util/cat: ev3_output.c.  A program calls it; the   *)
(* library turns a call into commands it writes, one after the other, to   *)
(* the brick's PWM device, and reads the tachometers from memory shared    *)
(* with the driver.  Between two commands of one call the driver goes on:  *)
(* motors turn, coast to rest, or finish the steps they were given.        *)
(*                                                                         *)
(* The code of daisy chained layers is commented out in the source: every  *)
(* command for a layer other than the master's is refused.                 *)
(***************************************************************************)
EXTENDS Integers, Sequences, FiniteSets

CONSTANTS Motor,         \* the outputs A..D that are used
          Targets,       \* the Outputs arguments the program passes
          Powers,        \* powers and speeds, signed
          Directions,    \* of OnFwd and OnRev: 1, -1
          DefaultPower,  \* OUT_POWER_DEFAULT
          CharSigned,    \* is the build's plain char signed?
          Resets,        \* the reset arguments the program passes
          Types,         \* device types
          MaxCalls       \* bound: calls other than opening and closing

ASSUME MotorsAssumption ==
    /\ Targets \subseteq [layer : {"master", "chained"}, on : SUBSET Motor]
    /\ Directions \subseteq {1, -1}
    /\ Powers \subseteq Int /\ DefaultPower \in Int \ Powers
    /\ CharSigned \in BOOLEAN
    /\ Resets \subseteq {"NONE", "COUNT", "ROTATION", "ALL"}
    /\ Types \subseteq Int /\ MaxCalls \in Nat

VARIABLES
    lib,     \* OutputInstance: PwmFile, MotorFile, pMotor, OutputTypes, Owners
    os,      \* which descriptors are open, and is the shared memory mapped?
    dev,     \* what the driver does with each motor
    devType, \* the types the driver was told
    call,    \* the call in progress, or the last one
    script,  \* the commands the call has still to issue
    ok,      \* has every command of the call succeeded so far?
    calls,   \* calls made that count against MaxCalls
    lost,    \* did the last attempt to stop every motor fail?
    fault    \* a closed descriptor or unmapped memory was used

vars == <<lib, os, dev, devType, call, script, ok, calls, lost, fault>>

------------------------------------------------------------------------------
(* Commands: what a call writes to the device, one write each. *)

Cmd(op, outs, arg) == [op |-> op, outs |-> outs, arg |-> arg]

All == [layer |-> "master", on |-> Motor]

OwnerNone == 0

OutputStop(outs, useBrake)        == Cmd("Stop", outs, useBrake)
OutputProgramStop                 == Cmd("ProgramStop", All, 0)
OutputSetType(outs, type)         == Cmd("SetType", outs, type)
OutputSetTypes(type)              == Cmd("SetTypes", All, type)
OutputReset(outs)                 == Cmd("Reset", outs, 0)
OutputClearCount(outs)            == Cmd("ClearCount", outs, 0)
OutputSpeed(outs, speed)          == Cmd("Speed", outs, speed)
OutputPower(outs, power)          == Cmd("Power", outs, power)
OutputStartEx(outs, owner)        == Cmd("Start", outs, owner)
OutputPolarity(outs, polarity)    == Cmd("Polarity", outs, polarity)
OutputStepPowerEx(outs, power)    == Cmd("Step", outs, power)
OutputTimePowerEx(outs, power)    == Cmd("Time", outs, power)
OutputStepSpeedEx(outs, speed)    == Cmd("Step", outs, speed)
OutputTimeSpeedEx(outs, speed)    == Cmd("Time", outs, speed)
OutputStepSyncEx(outs, speed)     == Cmd("StepSync", outs, speed)
OutputTimeSyncEx(outs, speed)     == Cmd("TimeSync", outs, speed)

Idle == script = <<>>

\* Mutant: the wrong descriptor is looked at.
InitializedByMotorFile == lib.MotorFile # "closed" /\ lib.pMotor # "null"

OutputInitialized == lib.PwmFile # "closed" /\ lib.pMotor # "null"

\* Early returns of the command functions: only the master's layer is served,
\* synchronised commands take exactly two motors, a type is set on one motor
\* and only if it changes.
Accepted(c) ==
    /\ OutputInitialized
    /\ c.outs.layer = "master"
    /\ c.op \in {"StepSync", "EndlessSync", "TimeSync"} => Cardinality(c.outs.on) = 2
    /\ c.op = "SetType" => \E m \in Motor : /\ c.outs.on = {m}
                                            /\ lib.OutputTypes[m] # c.arg

Moving == {"Step", "Time", "StepSync", "EndlessSync", "TimeSync"}

\* The driver's part of a command, for one of the motors it names.
\* External, and idealised in one point: a brake (Stop with 1) stands the motor still at
\* once, without the fraction of a turn it still makes.
Obey(c, d) ==
    CASE c.op = "Stop" /\ c.arg = 1 -> [d EXCEPT !.state = "rest", !.busy = "no"]
      [] c.op = "ResetOutputs" \/ (c.op = "Stop" /\ c.arg = 0) ->
             [d EXCEPT !.state = IF @ = "run" THEN "coast" ELSE @, !.busy = "no"]
      [] c.op \in {"Power", "Speed"} -> [d EXCEPT !.power = c.arg]
      [] c.op = "Polarity" -> [d EXCEPT !.dir = IF c.arg = 0 THEN -@ ELSE c.arg]
      [] c.op = "Start" -> [d EXCEPT !.state = "run", !.busy = "no"]
      [] c.op = "Reset" -> [d EXCEPT !.tacho = 0]
      [] c.op = "ClearCount" -> [d EXCEPT !.sensor = 0]
      [] c.op \in Moving ->
             [d EXCEPT !.state = "run", !.power = c.arg,
                       !.busy = IF c.op = "EndlessSync" THEN "endless" ELSE "steps"]
      [] OTHER -> d

\* What the library records before the write, whatever becomes of it ...
RecordFirst(c) ==
    CASE c.op = "ResetOutputs" -> [lib EXCEPT !.Owners = [m \in Motor |-> OwnerNone]]
      [] c.op = "SetType" -> [lib EXCEPT !.OutputTypes =
                                 [m \in Motor |-> IF m \in c.outs.on THEN c.arg ELSE @[m]]]
      [] OTHER -> lib

\* ... and what only after a successful one.
RecordLast(c, l) ==
    CASE c.op \in Moving \cup {"Start"} ->
             [l EXCEPT !.Owners = [m \in Motor |->
                 IF m \in c.outs.on THEN IF c.op = "Start" THEN c.arg ELSE OwnerNone ELSE @[m]]]
      [] c.op = "SetTypes" -> [l EXCEPT !.OutputTypes = [m \in Motor |-> c.arg]]
      [] OTHER -> l

\* ResetOutputs failing ends OutputOpen before its opProgramStart; no other
\* failure keeps a call from issuing its next command.
AfterFailure(c) ==
    IF c.op = "ResetOutputs" /\ call.fn \in {"OutputInit", "OutputOpen"}
    THEN <<>> ELSE Tail(script)

Refused ==
    LET c == Head(script) IN
    /\ ~Accepted(c)
    /\ ok' = FALSE /\ script' = AfterFailure(c)
    /\ UNCHANGED <<lib, os, dev, devType, call, calls, lost, fault>>

Written ==
    LET c == Head(script) IN
    /\ Accepted(c) /\ os.pwm > 0
    /\ lib' = RecordLast(c, RecordFirst(c))
    /\ dev' = [m \in Motor |-> IF m \in c.outs.on THEN Obey(c, dev[m]) ELSE dev[m]]
    /\ devType' = IF c.op \in {"SetType", "SetTypes"} THEN lib'.OutputTypes ELSE devType
    /\ lost' = (lost /\ c.op # "ResetOutputs")
    /\ fault' = (fault \/ (c.op = "ClearCount" /\ lib.pMotor = "shared" /\ ~os.mapped))
    /\ script' = Tail(script)
    /\ UNCHANGED <<os, call, ok, calls>>

WriteFails ==
    LET c == Head(script) IN
    /\ Accepted(c)
    /\ lib' = RecordFirst(c)
    /\ lost' = (lost \/ c.op = "ResetOutputs")
    /\ fault' = (fault \/ os.pwm = 0)
    /\ ok' = FALSE /\ script' = AfterFailure(c)
    /\ UNCHANGED <<os, dev, devType, call, calls>>

\* The steps of a call that are no write.
Unwritten == {"CloseDevices", "Sleep", "WaitTest"}

WriteToPWMDevice ==
    /\ ~Idle /\ Head(script).op \notin Unwritten
    /\ Refused \/ Written \/ WriteFails

------------------------------------------------------------------------------
(* The calls of the library: each is the sequence of its commands. *)

Want(dir, power, reset) == [dir |-> dir, power |-> power, reset |-> reset]
Nothing == Want(0, 0, "NONE")

Opening == {"OutputInit", "OutputOpen", "OutputClose", "OutputExit"}

Begin(fn, outs, want, commands) ==
    /\ Idle
    /\ IF fn \in Opening THEN UNCHANGED calls
       ELSE calls < MaxCalls /\ calls' = calls + 1
    /\ call' = [fn |-> fn, outs |-> outs, want |-> want]
    /\ script' = commands

Call(fn, outs, want, commands) ==
    /\ Begin(fn, outs, want, commands)
    /\ ok' = TRUE
    /\ UNCHANGED <<lib, os, dev, devType, lost, fault>>

\* A call nothing is claimed about once it has returned.
Plain(commands) == Call("other", All, Nothing, commands)

OpenCommands == <<Cmd("ResetOutputs", All, 0), Cmd("ProgramStart", All, 0)>>

\* Opening the two devices and mapping the shared memory.  A motor device that
\* does not open leaves the PWM device open and pMotor at the private copy.
OutputInit ==
    \/ OutputInitialized /\ Call("OutputInit", All, Nothing, <<>>)
    \/ /\ ~OutputInitialized
       /\ \E pwm, motor, map \in BOOLEAN :
          /\ (motor => pwm) /\ (map => motor)
          /\ Begin("OutputInit", All, Nothing, IF map THEN OpenCommands ELSE <<>>)
          /\ ok' = map
          /\ lib' = [lib EXCEPT !.pMotor = IF map THEN "shared" ELSE "own",
                                !.PwmFile = IF pwm /\ (motor => map) THEN "open" ELSE "closed",
                                !.MotorFile = IF map THEN "open"
                                              ELSE IF pwm THEN "closed" ELSE @]
          /\ os' = [os EXCEPT !.pwm = IF pwm /\ (motor => map) THEN @ + 1 ELSE @,
                              !.motor = IF map THEN @ + 1 ELSE @,
                              !.mapped = @ \/ map]
          /\ UNCHANGED <<dev, devType, lost, fault>>

OutputOpen  == /\ OutputInitialized
               /\ Call("OutputOpen", All, Nothing, OpenCommands)
OutputClose == /\ OutputInitialized
               /\ Call("OutputClose", All, Nothing, <<Cmd("ResetOutputs", All, 0)>>)

\* Mutant: the devices are closed without stopping the motors.
ExitWithoutStop ==
    Call("OutputExit", All, Nothing,
         IF OutputInitialized THEN <<Cmd("CloseDevices", All, 0)>> ELSE <<>>)

OutputExit ==
    Call("OutputExit", All, Nothing,
         IF OutputInitialized
         THEN <<Cmd("ResetOutputs", All, 0), Cmd("CloseDevices", All, 0)>> ELSE <<>>)

\* The end of OutputExit: unmap and close; pMotor is left as it is.
CloseDevices ==
    /\ ~Idle /\ Head(script).op = "CloseDevices"
    /\ LET motor == lib.MotorFile # "closed"
           pwm   == lib.PwmFile # "closed" IN
       /\ os' = [os EXCEPT !.motor = IF motor /\ @ > 0 THEN @ - 1 ELSE @,
                           !.pwm = IF pwm /\ @ > 0 THEN @ - 1 ELSE @,
                           !.mapped = @ /\ ~motor]
       /\ fault' = (fault \/ (motor /\ os.motor = 0) \/ (pwm /\ os.pwm = 0))
       /\ lib' = [lib EXCEPT !.MotorFile = "closed", !.PwmFile = "closed"]
    /\ script' = Tail(script)
    /\ UNCHANGED <<dev, devType, call, ok, calls, lost>>

ResetCount(outs, reset) ==
    CASE reset = "NONE"     -> <<>>
      [] reset = "COUNT"    -> <<OutputReset(outs)>>
      [] reset = "ROTATION" -> <<OutputClearCount(outs)>>
      [] reset = "ALL"      -> <<OutputReset(outs), OutputClearCount(outs)>>

\* Mutant: the counters are reset before the motors stop.
ResetBeforeStop(outs, mode, reset) ==
    Append(ResetCount(outs, reset),
           IF mode = "ON" THEN OutputStartEx(outs, OwnerNone)
           ELSE OutputStop(outs, IF mode = "OFF" THEN 1 ELSE 0))

SetOutputEx(outs, mode, reset) ==
    CASE mode = "FLOAT" -> <<OutputStop(outs, 0)>> \o ResetCount(outs, reset)
      [] mode = "OFF"   -> <<OutputStop(outs, 1)>> \o ResetCount(outs, reset)
      [] mode = "ON"    -> ResetCount(outs, reset) \o <<OutputStartEx(outs, OwnerNone)>>

\* 1 forward, -1 backward, 0 the opposite of what it was.
SetDirection(outs, dir) == <<OutputPolarity(outs, dir)>>

\* OUT_POWER_DEFAULT, -127, is recognised only where plain char is signed.
SetPowerUnlessDefault(outs, power) ==
    IF power = DefaultPower /\ CharSigned THEN <<>> ELSE <<OutputPower(outs, power)>>

OnDirEx(outs, dir, power, reset) ==
    Call("On", outs, Want(dir, power, "NONE"),
         SetDirection(outs, dir) \o SetPowerUnlessDefault(outs, power)
           \o SetOutputEx(outs, "ON", reset))

OnDirRegEx(outs, dir, speed, reset) ==
    Call("On", outs, Want(dir, speed, "NONE"),
         SetDirection(outs, dir) \o <<OutputSpeed(outs, speed)>>
           \o SetOutputEx(outs, "ON", reset))

\* OutputStepSyncEx with INT_MAX steps, without end as far as a program is concerned.
OnwardSync(outs, speed) == Cmd("EndlessSync", outs, speed)

OnDirSyncEx(outs, dir, speed, reset) ==
    Call("OnSync", outs, Want(dir, dir * speed, "NONE"),
         ResetCount(outs, reset) \o <<OnwardSync(outs, dir * speed)>>)

Toggle(outs) == Plain(SetDirection(outs, 0))

OffEx(outs, reset)   == Call("Off", outs, Want(0, 0, reset), SetOutputEx(outs, "OFF", reset))
FloatEx(outs, reset) == Call("Float", outs, Nothing, SetOutputEx(outs, "FLOAT", reset))

\* A pair is synchronised when asked for, anything else steps on its own.
RotateMotorNoWait(outs, speed, sync) ==
    IF sync /\ Cardinality(outs.on) = 2 THEN <<OutputStepSyncEx(outs, speed)>>
    ELSE <<OutputStepSpeedEx(outs, speed)>>

RotateMotorNoWaitEx(outs, speed, sync) ==
    Plain(RotateMotorNoWait(outs, speed, sync))

\* Mutant: waits for every motor, not for the ones it rotates.
RotateWaitsForAll(outs, speed, sync) ==
    Call("Rotate", outs, Nothing,
         Append(RotateMotorNoWait(outs, speed, sync), Cmd("WaitTest", All, 0)))

RotateMotorEx(outs, speed, sync) ==
    Call("Rotate", outs, Nothing,
         Append(RotateMotorNoWait(outs, speed, sync), Cmd("WaitTest", outs, 0)))

OnForSyncEx(outs, speed) ==
    Plain(<<OutputTimeSyncEx(outs, speed)>>)

OnForEx(outs, power, reset) ==
    Call("OnFor", outs, Want(0, 0, reset),
         SetPowerUnlessDefault(outs, power) \o SetOutputEx(outs, "ON", reset)
           \o <<Cmd("Sleep", outs, 0)>> \o SetOutputEx(outs, "OFF", reset))

\* usleep: any length, since the timer's SIGALRM cuts it short.
Sleep ==
    /\ ~Idle /\ Head(script).op = "Sleep"
    /\ script' = Tail(script)
    /\ UNCHANGED <<lib, os, dev, devType, call, ok, calls, lost, fault>>

\* The busy mask is read from the device; nothing counts as busy where it
\* cannot be asked for.
OutputTest(outs) ==
    /\ OutputInitialized /\ outs.layer = "master"
    /\ \E m \in outs.on : dev[m].busy # "no"

WaitTest ==
    /\ ~Idle /\ Head(script).op = "WaitTest"
    /\ ~OutputTest(Head(script).outs)
    /\ script' = Tail(script)
    /\ UNCHANGED <<lib, os, dev, devType, call, ok, calls, lost, fault>>

\* A failing read counts as one that succeeded and leaves an uninitialised
\* buffer to scan: busy or not.
WaitTestFails ==
    /\ ~Idle /\ Head(script).op = "WaitTest"
    /\ OutputInitialized /\ Head(script).outs.layer = "master"
    /\ script' \in {script, Tail(script)}
    /\ ok' = FALSE
    /\ UNCHANGED <<lib, os, dev, devType, call, calls, lost, fault>>

\* One motor's counters, from the memory pMotor points to.
OutputRead(m) ==
    /\ ok' = OutputInitialized
    /\ fault' = (fault \/ (OutputInitialized /\ lib.pMotor = "shared" /\ ~os.mapped))

MotorTachoCount(m) ==
    /\ Begin("other", All, Nothing, <<>>)
    /\ OutputRead(m)
    /\ UNCHANGED <<lib, os, dev, devType, lost>>

------------------------------------------------------------------------------
(* The driver and the motors. *)

Turn(m) ==
    /\ dev[m].state # "rest"
    /\ dev' = [dev EXCEPT ![m].tacho = 1, ![m].sensor = 1]
    /\ UNCHANGED <<lib, os, devType, call, script, ok, calls, lost, fault>>

ComesToRest(m) ==
    /\ \/ dev[m].state = "coast"
       \/ dev[m].busy = "steps"
    /\ dev' = [dev EXCEPT ![m].state = "rest", ![m].busy = "no"]
    /\ UNCHANGED <<lib, os, devType, call, script, ok, calls, lost, fault>>

------------------------------------------------------------------------------
Init ==
    /\ lib = [PwmFile |-> "static", MotorFile |-> "static", pMotor |-> "null",
              OutputTypes |-> [m \in Motor |-> 0], Owners |-> [m \in Motor |-> OwnerNone]]
    /\ os = [pwm |-> 0, motor |-> 0, mapped |-> FALSE]
    /\ dev = [m \in Motor |-> [state |-> "rest", busy |-> "no", dir |-> 1, power |-> 0,
                               tacho |-> 0, sensor |-> 0]]
    /\ devType = [m \in Motor |-> 0]
    /\ call = [fn |-> "none", outs |-> All, want |-> Nothing]
    /\ script = <<>> /\ ok = TRUE /\ calls = 0 /\ lost = FALSE /\ fault = FALSE

Lifecycle == OutputInit \/ OutputOpen \/ OutputClose \/ OutputExit

Drive ==
    \E outs \in Targets, p \in Powers :
       \/ \E dir \in Directions, r \in Resets :
             \/ OnDirEx(outs, dir, p, r)
             \/ OnDirEx(outs, dir, DefaultPower, r)
             \/ OnDirRegEx(outs, dir, p, r)
             \/ OnDirSyncEx(outs, dir, p, r)
       \/ \E r \in Resets : OffEx(outs, r) \/ FloatEx(outs, r) \/ OnForEx(outs, p, r)
       \/ \E sync \in BOOLEAN : \/ RotateMotorNoWaitEx(outs, p, sync)
                                \/ RotateMotorEx(outs, p, sync)
       \/ Toggle(outs) \/ OnForSyncEx(outs, p)
       \/ \E c \in {OutputStartEx(outs, OwnerNone + 1), OutputTimePowerEx(outs, p),
                   OutputStepPowerEx(outs, p), OutputTimeSpeedEx(outs, p)} : Plain(<<c>>)

Configure == \/ \E outs \in Targets, t \in Types :
                    Call("SetType", outs, Nothing, <<OutputSetType(outs, t)>>)
             \/ \E t \in Types : Call("SetType", All, Nothing, <<OutputSetTypes(t)>>)
             \/ Plain(<<OutputProgramStop>>)
             \/ \E m \in Motor : MotorTachoCount(m)

Proceed == WriteToPWMDevice \/ CloseDevices \/ Sleep \/ WaitTest

Next == Lifecycle \/ Drive \/ Configure \/ Proceed \/ WaitTestFails \/ \E m \in Motor : Turn(m) \/ ComesToRest(m)

Spec == /\ Init /\ [][Next]_vars
        /\ WF_vars(Proceed)
        /\ \A m \in Motor : WF_vars(ComesToRest(m))

------------------------------------------------------------------------------
(* Properties *)

\* Every descriptor that is open is the one OutputInstance records, the shared
\* memory is mapped exactly while the library uses it, and no call ever
\* touches a closed descriptor or unmapped memory: however initialisations
\* fail half way, are repeated, and alternate with OutputExit.
NoStaleDevice ==
    /\ ~fault
    /\ os.pwm = IF lib.PwmFile = "open" THEN 1 ELSE 0
    /\ os.motor = IF lib.MotorFile = "open" THEN 1 ELSE 0
    /\ os.mapped = (OutputInitialized /\ lib.pMotor = "shared")

\* Once OutputExit has closed the devices no motor is driven and none has an
\* owner, unless the write that stops them failed (which a repeated OutputExit
\* reports as success).
StoppedAfterExit ==
    ~OutputInitialized /\ ~lost => \A m \in Motor : /\ dev[m].state # "run"
                                                    /\ lib.Owners[m] = OwnerNone

On(m, want) == /\ dev[m].state = "run" /\ dev[m].dir = want.dir
               /\ want.power # DefaultPower => dev[m].power = want.power
Off(m, reset) == /\ dev[m].state = "rest"
                 /\ reset \in {"COUNT", "ALL"} => dev[m].tacho = 0
                 /\ reset \in {"ROTATION", "ALL"} => dev[m].sensor = 0

\* A call all of whose commands went through has done what its name says when
\* it returns, although the motors turn between its commands: On runs at the
\* given direction and power, Off and OnFor leave the motors at rest with the
\* counters they were asked to reset at zero, Rotate returns only when the
\* steps are done, and the driver knows the types the library remembers.
CallsTakeEffect ==
    Idle /\ ok => \A m \in call.outs.on :
        CASE call.fn = "On"       -> On(m, call.want)
          [] call.fn \in {"Off", "OnFor"} -> Off(m, call.want.reset)
          [] call.fn = "Float"    -> dev[m].state # "run"
          [] call.fn = "Rotate"   -> dev[m].busy = "no"
          [] call.fn = "OnSync"   -> dev[m].state = "run" /\ dev[m].power = call.want.power
          [] call.fn = "SetType"  -> devType = lib.OutputTypes
          [] OTHER -> TRUE

\* A call whose commands go through returns: RotateMotorEx's wait ends because
\* the steps it waits for end, even where the same motors had been told to run
\* without end before.
CallsReturn == (~Idle /\ ok) ~> (Idle \/ ~ok)
==============================================================================
