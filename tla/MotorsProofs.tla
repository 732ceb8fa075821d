---------------------------- MODULE MotorsProofs ----------------------------
(***************************************************************************)
(* Proofs about Motors, for any set of outputs, targets, powers, device    *)
(* types and any number of calls: what the devices and the motors are left *)
(* in by every interleaving of a call's commands, failed writes, the       *)
(* driver and the turning motors.                                          *)
(***************************************************************************)
EXTENDS Motors, SequenceTheorems, TLAPS

-----------------------------------------------------------------------------
(***************************************************************************)
(* Types.                                                                  *)
(***************************************************************************)

Outputs == [layer : {"master", "chained"}, on : SUBSET Motor]

Ops == {"Stop", "ProgramStop", "ProgramStart", "SetType", "SetTypes", "Reset",
        "ClearCount", "Speed", "Power", "Start", "Polarity", "Step", "Time",
        "StepSync", "TimeSync", "EndlessSync", "ResetOutputs",
        "CloseDevices", "Sleep", "WaitTest"}

Command == [op : Ops, outs : Outputs, arg : Int]

ResetArgs == {"NONE", "COUNT", "ROTATION", "ALL"}

Calls == {"none", "other", "On", "OnSync", "Off", "Float", "OnFor", "Rotate",
          "SetType", "OutputInit", "OutputOpen", "OutputClose", "OutputExit"}

Wanted == [dir : Int, power : Int, reset : ResetArgs]

File == {"static", "open", "closed"}

Motion == [state : {"rest", "run", "coast"}, busy : {"no", "steps", "endless"},
           dir : Int, power : Int, tacho : {0, 1}, sensor : {0, 1}]

Lib == [PwmFile : File, MotorFile : File, pMotor : {"null", "own", "shared"},
        OutputTypes : [Motor -> Int], Owners : [Motor -> Int]]

TypeOK ==
  /\ lib \in Lib
  /\ os \in [pwm : Nat, motor : Nat, mapped : BOOLEAN]
  /\ dev \in [Motor -> Motion]
  /\ devType \in [Motor -> Int]
  /\ call \in [fn : Calls, outs : Outputs, want : Wanted]
  /\ script \in Seq(Command)
  /\ ok \in BOOLEAN /\ lost \in BOOLEAN /\ fault \in BOOLEAN
  /\ calls \in 0..MaxCalls

-----------------------------------------------------------------------------
(***************************************************************************)
(* What the commands a call has still to issue look like.  Each of these   *)
(* holds of the whole sequence and of everything that follows a command.   *)
(***************************************************************************)

Pending(s, c) == \E i \in 1..Len(s) : s[i] = c

Later(s, i, c) == \E j \in (i + 1)..Len(s) : s[j] = c

OnShape(s, o, want) ==
  /\ want.dir \in {1, -1}
  /\ \A i \in 1..Len(s) :
       s[i] \in {OutputPolarity(o, want.dir), OutputPower(o, want.power),
                 OutputSpeed(o, want.power), OutputReset(o), OutputClearCount(o),
                 OutputStartEx(o, OwnerNone)}
  /\ s # << >> => s[Len(s)] = OutputStartEx(o, OwnerNone)

SyncShape(s, o, want) == s # << >> => s[Len(s)] = OnwardSync(o, want.power)

\* A start is followed by the stop, and either by the counters' resets.
OffShape(s, o, reset) ==
  \A i \in 1..Len(s) :
    /\ s[i].outs = o
    /\ s[i].op \in {"Power", "Reset", "ClearCount", "Start", "Sleep", "Stop"}
    /\ s[i].op = "Reset" => s[i] = OutputReset(o)
    /\ s[i].op = "ClearCount" => s[i] = OutputClearCount(o)
    /\ s[i].op = "Stop" => s[i] = OutputStop(o, 1)
    /\ s[i].op = "Start" => Later(s, i, OutputStop(o, 1))
    /\ s[i].op \in {"Start", "Stop"} =>
         /\ reset \in {"COUNT", "ALL"} => Later(s, i, OutputReset(o))
         /\ reset \in {"ROTATION", "ALL"} => Later(s, i, OutputClearCount(o))

FloatShape(s, o) ==
  \A i \in 1..Len(s) :
    s[i] \in {OutputStop(o, 0), OutputReset(o), OutputClearCount(o)}

RotateShape(s, o) ==
  /\ Len(s) <= 2
  /\ Len(s) >= 1 => s[Len(s)] = Cmd("WaitTest", o, 0)
  /\ Len(s) = 2 => s[1].outs = o /\ s[1].op \in {"Step", "StepSync"}

TypeShape(s) == Len(s) <= 1 /\ (s # << >> => s[1].op \in {"SetType", "SetTypes"})

ExitShape(s) ==
  /\ Len(s) <= 2
  /\ Len(s) >= 1 => s[Len(s)] = Cmd("CloseDevices", All, 0)
  /\ Len(s) = 2 => s[1] = Cmd("ResetOutputs", All, 0)

NoClose(s) == \A i \in 1..Len(s) : s[i].op # "CloseDevices"

Shaped(s, c) ==
  /\ c.fn = "On" => OnShape(s, c.outs, c.want)
  /\ c.fn = "OnSync" => SyncShape(s, c.outs, c.want)
  /\ c.fn \in {"Off", "OnFor"} => OffShape(s, c.outs, c.want.reset)
  /\ c.fn = "Float" => FloatShape(s, c.outs)
  /\ c.fn = "Rotate" => RotateShape(s, c.outs)
  /\ c.fn = "SetType" => TypeShape(s)
  /\ IF c.fn = "OutputExit" THEN ExitShape(s) ELSE NoClose(s)

-----------------------------------------------------------------------------
(***************************************************************************)
(* The inductive invariant.                                                *)
(***************************************************************************)

ShapeInv == Shaped(script, call)

\* How far the three records of the devices can differ while an
\* initialisation has failed half way or an exit has run.
DeviceInv ==
  /\ lib.PwmFile = "static" <=> lib.pMotor = "null"
  /\ lib.MotorFile = "static" => lib.PwmFile # "open"
  /\ lib.MotorFile = "open" <=> lib.PwmFile = "open" /\ lib.pMotor = "shared"

Stopped == \A m \in Motor : dev[m].state # "run" /\ lib.Owners[m] = OwnerNone

\* OutputExit closes what is open, after the motors were told to stop.
ExitInv ==
  call.fn = "OutputExit" /\ ~Idle =>
    OutputInitialized /\ (Len(script) = 1 => lost \/ Stopped)

\* What a call has established so far, as long as its commands succeed.
Effect(m) ==
  LET o == call.outs  want == call.want  d == dev[m] IN
  /\ call.fn = "On" =>
       /\ Pending(script, OutputPolarity(o, want.dir)) \/ d.dir = want.dir
       /\ \/ want.power = DefaultPower \/ d.power = want.power
          \/ Pending(script, OutputPower(o, want.power))
          \/ Pending(script, OutputSpeed(o, want.power))
       /\ Idle => d.state = "run" /\ d.busy = "no"
  /\ call.fn = "OnSync" /\ Idle =>
       d.state = "run" /\ d.busy = "endless" /\ d.power = want.power
  /\ call.fn \in {"Off", "OnFor"} =>
       /\ Pending(script, OutputStop(o, 1)) \/ (d.state = "rest" /\ d.busy = "no")
       /\ want.reset \in {"COUNT", "ALL"} =>
            Pending(script, OutputReset(o)) \/ d.tacho = 0
       /\ want.reset \in {"ROTATION", "ALL"} =>
            Pending(script, OutputClearCount(o)) \/ d.sensor = 0
  /\ call.fn = "Float" => Pending(script, OutputStop(o, 0)) \/ d.state # "run"
  /\ call.fn = "Rotate" /\ Idle => d.busy = "no"

EffectInv ==
  ok => /\ \A m \in call.outs.on : Effect(m)
        /\ call.fn = "Rotate" /\ Len(script) = 1 =>
             OutputInitialized /\ call.outs.layer = "master"
        /\ call.fn = "SetType" /\ Idle => devType = lib.OutputTypes

IInv ==
  /\ TypeOK /\ ShapeInv /\ DeviceInv /\ NoStaleDevice
  /\ StoppedAfterExit /\ ExitInv /\ EffectInv

-----------------------------------------------------------------------------
(***************************************************************************)
(* Sequences of commands.                                                  *)
(***************************************************************************)

\* What is left of a call after a command.
LEMMA TailElements ==
  ASSUME NEW s \in Seq(Command), s # << >>
  PROVE  /\ Tail(s) \in Seq(Command)
         /\ Len(s) \in Nat \ {0}
         /\ Len(Tail(s)) = Len(s) - 1
         /\ \A i \in 1..Len(Tail(s)) : Tail(s)[i] = s[i + 1]
         /\ Head(s) = s[1] /\ s[1] \in Command
  BY HeadTailProperties, LenProperties, EmptySeq, ElementOfSeq

LEMMA TailPending ==
  ASSUME NEW s \in Seq(Command), s # << >>, NEW c, Pending(s, c)
  PROVE  s[1] = c \/ Pending(Tail(s), c)
  <1>1. PICK i \in 1..Len(s) : s[i] = c
    BY DEF Pending
  <1>2. CASE i # 1
    <2>1. i - 1 \in 1..Len(Tail(s)) /\ Tail(s)[i - 1] = s[i]
      BY <1>2, TailElements
    <2>. QED
      BY <1>1, <2>1 DEF Pending
  <1>. QED
    BY <1>1, <1>2

LEMMA TailLater ==
  ASSUME NEW s \in Seq(Command), s # << >>, NEW c
  PROVE  /\ \A i \in 1..Len(Tail(s)) : Later(s, i + 1, c) => Later(Tail(s), i, c)
         /\ Later(s, 1, c) => Pending(Tail(s), c)
  <1>1. ASSUME NEW i \in 1..Len(Tail(s)), Later(s, i + 1, c)
        PROVE  Later(Tail(s), i, c)
    <2>1. PICK j \in (i + 2)..Len(s) : s[j] = c
      BY <1>1, TailElements DEF Later
    <2>2. j - 1 \in (i + 1)..Len(Tail(s)) /\ j - 1 \in 1..Len(Tail(s))
      BY TailElements
    <2>3. Tail(s)[j - 1] = c
      BY <2>1, <2>2, TailElements
    <2>. QED
      BY <2>2, <2>3 DEF Later
  <1>2. ASSUME Later(s, 1, c)
        PROVE  Pending(Tail(s), c)
    <2>1. PICK j \in 2..Len(s) : s[j] = c
      BY <1>2, TailElements DEF Later
    <2>2. j - 1 \in 1..Len(Tail(s)) /\ Tail(s)[j - 1] = c
      BY <2>1, TailElements
    <2>. QED
      BY <2>2 DEF Pending
  <1>. QED
    BY <1>1, <1>2

LEMMA EmptyShaped ==
  ASSUME NEW c, c.fn = "On" => c.want.dir \in {1, -1}
  PROVE  Shaped(<< >>, c)
  BY DEF Shaped, OnShape, SyncShape, OffShape, FloatShape, RotateShape, TypeShape,
         ExitShape, NoClose

\* The rest of a call has the shape the call has.
LEMMA TailShaped ==
  ASSUME NEW s \in Seq(Command), s # << >>, NEW c, Shaped(s, c)
  PROVE  Shaped(Tail(s), c)
  <1>. DEFINE t == Tail(s)
  <1>1. /\ t \in Seq(Command) /\ Len(s) \in Nat \ {0} /\ Len(t) = Len(s) - 1
        /\ \A i \in 1..Len(t) : t[i] = s[i + 1] /\ i + 1 \in 1..Len(s)
        /\ t # << >> => Len(t) \in 1..Len(t)
    BY TailElements, LenProperties, EmptySeq
  <1>2. t # << >> => t[Len(t)] = s[Len(s)]
    BY <1>1
  <1>3. \A i \in 1..Len(t) : \A d : Later(s, i + 1, d) => Later(t, i, d)
    BY TailLater
  <1>. HIDE DEF t
  <1>4. ASSUME NEW o, NEW w, OnShape(s, o, w) PROVE OnShape(t, o, w)
    BY <1>1, <1>2, <1>4 DEF OnShape
  <1>5. ASSUME NEW o, NEW w, SyncShape(s, o, w) PROVE SyncShape(t, o, w)
    BY <1>2, <1>5 DEF SyncShape, t
  <1>6. ASSUME NEW o, NEW r, OffShape(s, o, r) PROVE OffShape(t, o, r)
    <2>1. SUFFICES ASSUME NEW i \in 1..Len(t)
                   PROVE  /\ t[i].outs = o
                          /\ t[i].op \in {"Power", "Reset", "ClearCount", "Start", "Sleep", "Stop"}
                          /\ t[i].op = "Reset" => t[i] = OutputReset(o)
                          /\ t[i].op = "ClearCount" => t[i] = OutputClearCount(o)
                          /\ t[i].op = "Stop" => t[i] = OutputStop(o, 1)
                          /\ t[i].op = "Start" => Later(t, i, OutputStop(o, 1))
                          /\ t[i].op \in {"Start", "Stop"} =>
                               /\ r \in {"COUNT", "ALL"} => Later(t, i, OutputReset(o))
                               /\ r \in {"ROTATION", "ALL"} => Later(t, i, OutputClearCount(o))
      BY DEF OffShape
    <2>2. t[i] = s[i + 1] /\ i + 1 \in 1..Len(s)
      BY <1>1
    <2>. QED
      BY <2>2, <1>3, <1>6 DEF OffShape
  <1>7. ASSUME NEW o, FloatShape(s, o) PROVE FloatShape(t, o)
    BY <1>1, <1>7 DEF FloatShape
  <1>8. ASSUME NEW o, RotateShape(s, o) PROVE RotateShape(t, o)
    BY <1>1, <1>2, <1>8, EmptySeq DEF RotateShape
  <1>9. ASSUME TypeShape(s) PROVE TypeShape(t)
    BY <1>1, <1>9, EmptySeq DEF TypeShape
  <1>10. ASSUME ExitShape(s) PROVE ExitShape(t)
    BY <1>1, <1>2, <1>10, EmptySeq DEF ExitShape
  <1>11. ASSUME NoClose(s) PROVE NoClose(t)
    BY <1>1, <1>11 DEF NoClose
  <1>. QED
    BY <1>4, <1>5, <1>6, <1>7, <1>8, <1>9, <1>10, <1>11 DEF Shaped, t

-----------------------------------------------------------------------------
(***************************************************************************)
(* The commands of each call.                                              *)
(***************************************************************************)

LEMMA OneCommand ==
  ASSUME NEW op \in Ops, NEW o \in Outputs, NEW a \in Int
  PROVE  /\ Cmd(op, o, a) \in Command
         /\ Cmd(op, o, a).op = op /\ Cmd(op, o, a).outs = o /\ Cmd(op, o, a).arg = a
         /\ <<Cmd(op, o, a)>> \in Seq(Command)
         /\ Len(<<Cmd(op, o, a)>>) = 1 /\ <<Cmd(op, o, a)>>[1] = Cmd(op, o, a)
  BY DEF Cmd, Command

LEMMA AllOutputs == All \in Outputs
  BY DEF All, Outputs

LEMMA Joined ==
  ASSUME NEW s \in Seq(Command), NEW t \in Seq(Command)
  PROVE  /\ s \o t \in Seq(Command)
         /\ Len(s) \in Nat /\ Len(t) \in Nat
         /\ Len(s \o t) = Len(s) + Len(t)
         /\ \A i \in 1..Len(s) : (s \o t)[i] = s[i]
         /\ \A i \in 1..Len(t) : (s \o t)[Len(s) + i] = t[i]
         /\ \A i \in 1..Len(s \o t) :
              i \in 1..Len(s) \/ (i - Len(s) \in 1..Len(t) /\ (s \o t)[i] = t[i - Len(s)])
  <1>1. Len(s) \in Nat /\ Len(t) \in Nat /\ Len(s \o t) = Len(s) + Len(t)
    BY LenProperties, ConcatProperties
  <1>2. \A i \in 1..Len(s) + Len(t) : (s \o t)[i] = IF i <= Len(s) THEN s[i] ELSE t[i - Len(s)]
    BY ConcatProperties
  <1>. QED
    BY <1>1, <1>2, ConcatProperties

\* A command of the second part is pending in the whole, and later than any
\* of the first.
LEMMA JoinedPending ==
  ASSUME NEW s \in Seq(Command), NEW t \in Seq(Command), NEW c
  PROVE  /\ Pending(s, c) => Pending(s \o t, c)
         /\ Pending(t, c) => Pending(s \o t, c)
         /\ Pending(t, c) => \A i \in 1..Len(s) : Later(s \o t, i, c)
         /\ \A i \in 1..Len(t) : Later(t, i, c) => Later(s \o t, Len(s) + i, c)
  <1>. DEFINE u == s \o t
  <1>0. Len(s) \in Nat /\ Len(t) \in Nat /\ Len(u) = Len(s) + Len(t)
    BY Joined
  <1>1. \A i \in 1..Len(s) : u[i] = s[i]
    BY Joined
  <1>2. \A i \in 1..Len(t) : u[Len(s) + i] = t[i]
    BY Joined
  <1>. HIDE DEF u
  <1>3. Pending(s, c) => Pending(u, c)
    BY <1>0, <1>1 DEF Pending
  <1>4. ASSUME Pending(t, c)
        PROVE  Pending(u, c) /\ \A i \in 1..Len(s) : Later(u, i, c)
    <2>1. PICK j \in 1..Len(t) : t[j] = c
      BY <1>4 DEF Pending
    <2>2. u[Len(s) + j] = c
      BY <2>1, <1>2
    <2>3. Len(s) + j \in 1..Len(u) /\ \A i \in 1..Len(s) : Len(s) + j \in (i + 1)..Len(u)
      BY <1>0
    <2>. QED
      BY <2>2, <2>3 DEF Pending, Later
  <1>5. ASSUME NEW i \in 1..Len(t), Later(t, i, c)
        PROVE  Later(u, Len(s) + i, c)
    <2>1. PICK j \in (i + 1)..Len(t) : t[j] = c
      BY <1>5 DEF Later
    <2>2. u[Len(s) + j] = c
      BY <2>1, <1>2, <1>0
    <2>3. Len(s) + j \in (Len(s) + i + 1)..Len(u)
      BY <1>0
    <2>. QED
      BY <2>2, <2>3 DEF Later
  <1>. QED
    BY <1>3, <1>4, <1>5 DEF u

LEMMA ResetCountCommands ==
  ASSUME NEW o \in Outputs, NEW r \in ResetArgs
  PROVE  /\ ResetCount(o, r) \in Seq(Command)
         /\ \A i \in 1..Len(ResetCount(o, r)) :
              ResetCount(o, r)[i] \in {OutputReset(o), OutputClearCount(o)}
         /\ r \in {"COUNT", "ALL"} => Pending(ResetCount(o, r), OutputReset(o))
         /\ r \in {"ROTATION", "ALL"} => Pending(ResetCount(o, r), OutputClearCount(o))
  <1>. DEFINE a == OutputReset(o)
              b == OutputClearCount(o)
  <1>1. a \in Command /\ b \in Command
    BY OneCommand DEF OutputReset, OutputClearCount, Ops
  <1>2. \/ r = "NONE" /\ ResetCount(o, r) = << >>
        \/ r = "COUNT" /\ ResetCount(o, r) = <<a>>
        \/ r = "ROTATION" /\ ResetCount(o, r) = <<b>>
        \/ r = "ALL" /\ ResetCount(o, r) = <<a, b>>
    BY DEF ResetCount, ResetArgs
  <1>. HIDE DEF a, b
  <1>3. CASE r = "NONE" /\ ResetCount(o, r) = << >>
    <2>1. << >> \in Seq(Command) /\ Len(<< >>) = 0
      BY EmptySeq
    <2>2. ResetCount(o, r) \in Seq(Command) /\ Len(ResetCount(o, r)) = 0
      BY <2>1, <1>3
    <2>3. r \notin {"COUNT", "ALL"} /\ r \notin {"ROTATION", "ALL"}
      BY <1>3
    <2>. QED
      BY <2>2, <2>3
  <1>4. CASE r = "COUNT" /\ ResetCount(o, r) = <<a>>
    <2>1. <<a>> \in Seq(Command) /\ Len(<<a>>) = 1 /\ <<a>>[1] = a
      BY <1>1
    <2>2. Pending(<<a>>, a) /\ \A i \in 1..Len(<<a>>) : <<a>>[i] \in {a, b}
      BY <2>1 DEF Pending
    <2>3. r \notin {"ROTATION", "ALL"}
      BY <1>4
    <2>. QED
      BY <2>1, <2>2, <2>3, <1>4 DEF a, b
  <1>5. CASE r = "ROTATION" /\ ResetCount(o, r) = <<b>>
    <2>1. <<b>> \in Seq(Command) /\ Len(<<b>>) = 1 /\ <<b>>[1] = b
      BY <1>1
    <2>2. Pending(<<b>>, b) /\ \A i \in 1..Len(<<b>>) : <<b>>[i] \in {a, b}
      BY <2>1 DEF Pending
    <2>3. r \notin {"COUNT", "ALL"}
      BY <1>5
    <2>. QED
      BY <2>1, <2>2, <2>3, <1>5 DEF a, b
  <1>6. CASE r = "ALL" /\ ResetCount(o, r) = <<a, b>>
    <2>1. /\ Len(<<a, b>>) = 2 /\ <<a, b>>[1] = a /\ <<a, b>>[2] = b
          /\ <<a, b>> \in Seq(Command)
      BY <1>1
    <2>2. Pending(<<a, b>>, a) /\ Pending(<<a, b>>, b)
      BY <2>1 DEF Pending
    <2>3. \A i \in 1..Len(<<a, b>>) : <<a, b>>[i] \in {a, b}
      BY <2>1
    <2>. QED
      BY <2>1, <2>2, <2>3, <1>6 DEF a, b
  <1>. QED
    BY <1>2, <1>3, <1>4, <1>5, <1>6

\* Commands before a stop that is still to come.
LEMMA OffShapeJoined ==
  ASSUME NEW s \in Seq(Command), NEW t \in Seq(Command), NEW o, NEW r,
         OffShape(t, o, r), Pending(t, OutputStop(o, 1)),
         r \in {"COUNT", "ALL"} => Pending(t, OutputReset(o)),
         r \in {"ROTATION", "ALL"} => Pending(t, OutputClearCount(o)),
         \A i \in 1..Len(s) :
           /\ s[i].outs = o
           /\ s[i].op \in {"Power", "Reset", "ClearCount", "Start", "Sleep"}
           /\ s[i].op = "Reset" => s[i] = OutputReset(o)
           /\ s[i].op = "ClearCount" => s[i] = OutputClearCount(o)
  PROVE  OffShape(s \o t, o, r)
  <1>. DEFINE u == s \o t
              Good(i) == /\ u[i].outs = o
                         /\ u[i].op \in {"Power", "Reset", "ClearCount", "Start", "Sleep", "Stop"}
                         /\ u[i].op = "Reset" => u[i] = OutputReset(o)
                         /\ u[i].op = "ClearCount" => u[i] = OutputClearCount(o)
                         /\ u[i].op = "Stop" => u[i] = OutputStop(o, 1)
                         /\ u[i].op = "Start" => Later(u, i, OutputStop(o, 1))
                         /\ u[i].op \in {"Start", "Stop"} =>
                              /\ r \in {"COUNT", "ALL"} => Later(u, i, OutputReset(o))
                              /\ r \in {"ROTATION", "ALL"} => Later(u, i, OutputClearCount(o))
  <1>1. SUFFICES \A i \in 1..Len(u) : Good(i)
    BY DEF OffShape
  <1>2. ASSUME NEW i \in 1..Len(s) PROVE Good(i)
    <2>1. u[i] = s[i]
      BY Joined
    <2>2. \A c : Pending(t, c) => Later(u, i, c)
      BY JoinedPending
    <2>. HIDE DEF u
    <2>. QED
      BY <2>1, <2>2
  <1>3. ASSUME NEW i \in 1..Len(u), i - Len(s) \in 1..Len(t), u[i] = t[i - Len(s)]
        PROVE  Good(i)
    <2>1. i = Len(s) + (i - Len(s))
      BY Joined
    <2>2. \A c : Later(t, i - Len(s), c) => Later(u, i, c)
      BY <1>3, <2>1, JoinedPending
    <2>. HIDE DEF u
    <2>. QED
      BY <1>3, <2>2 DEF OffShape
  <1>. QED
    BY <1>2, <1>3, Joined

\* Off: the stop, then the resets.
LEMMA OffCommands ==
  ASSUME NEW o \in Outputs, NEW r \in ResetArgs
  PROVE  LET t == SetOutputEx(o, "OFF", r) IN
         /\ t \in Seq(Command) /\ OffShape(t, o, r) /\ Pending(t, OutputStop(o, 1))
         /\ r \in {"COUNT", "ALL"} => Pending(t, OutputReset(o))
         /\ r \in {"ROTATION", "ALL"} => Pending(t, OutputClearCount(o))
  <1>. DEFINE s == <<OutputStop(o, 1)>>
              q == ResetCount(o, r)
              u == s \o q
  <1>1. SetOutputEx(o, "OFF", r) = u
    BY DEF SetOutputEx
  <1>2. s \in Seq(Command) /\ Len(s) = 1 /\ s[1] = OutputStop(o, 1)
    BY OneCommand DEF OutputStop, Ops
  <1>3. /\ q \in Seq(Command)
        /\ \A i \in 1..Len(q) : q[i] \in {OutputReset(o), OutputClearCount(o)}
        /\ r \in {"COUNT", "ALL"} => Pending(q, OutputReset(o))
        /\ r \in {"ROTATION", "ALL"} => Pending(q, OutputClearCount(o))
    BY ResetCountCommands
  <1>4. /\ OutputReset(o).op = "Reset" /\ OutputReset(o).outs = o
        /\ OutputClearCount(o).op = "ClearCount" /\ OutputClearCount(o).outs = o
        /\ OutputStop(o, 1).op = "Stop" /\ OutputStop(o, 1).outs = o
    BY DEF OutputReset, OutputClearCount, OutputStop, Cmd
  <1>. HIDE DEF s, q
  <1>5. /\ Pending(u, OutputStop(o, 1))
        /\ \A c : Pending(q, c) => Pending(u, c) /\ Later(u, 1, c)
    <2>1. Pending(s, OutputStop(o, 1))
      BY <1>2 DEF Pending
    <2>2. \A c : /\ Pending(s, c) => Pending(u, c)
                 /\ Pending(q, c) => Pending(u, c)
                 /\ Pending(q, c) => \A i \in 1..Len(s) : Later(u, i, c)
      BY <1>2, <1>3, JoinedPending
    <2>3. 1 \in 1..Len(s)
      BY <1>2
    <2>. HIDE DEF u
    <2>4. Pending(u, OutputStop(o, 1))
      BY <2>1, <2>2
    <2>5. ASSUME NEW c, Pending(q, c)
          PROVE  Pending(u, c) /\ Later(u, 1, c)
      BY <2>2, <2>3, <2>5
    <2>. QED
      BY <2>4, <2>5
  <1>6. /\ u \in Seq(Command) /\ u[1] = OutputStop(o, 1)
        /\ \A i \in 1..Len(u) : i = 1 \/ u[i] \in {OutputReset(o), OutputClearCount(o)}
    <2>1. /\ u \in Seq(Command) /\ \A i \in 1..Len(s) : u[i] = s[i]
          /\ \A i \in 1..Len(u) :
               i \in 1..Len(s) \/ (i - Len(s) \in 1..Len(q) /\ u[i] = q[i - Len(s)])
      BY <1>2, <1>3, Joined
    <2>. HIDE DEF u
    <2>. QED
      BY <2>1, <1>2, <1>3
  <1>. HIDE DEF u
  <1>7. OffShape(u, o, r)
    BY <1>3, <1>4, <1>5, <1>6 DEF OffShape
  <1>. QED
    BY <1>1, <1>3, <1>5, <1>6, <1>7

\* On: the resets, then the start.
LEMMA OnCommands ==
  ASSUME NEW o \in Outputs, NEW r \in ResetArgs
  PROVE  LET t == SetOutputEx(o, "ON", r) IN
         /\ t \in Seq(Command) /\ Len(t) \in Nat \ {0}
         /\ t[Len(t)] = OutputStartEx(o, OwnerNone)
         /\ \A i \in 1..Len(t) : t[i] \in {OutputReset(o), OutputClearCount(o),
                                           OutputStartEx(o, OwnerNone)}
  <1>. DEFINE s == <<OutputStartEx(o, OwnerNone)>>
              q == ResetCount(o, r)
              u == q \o s
  <1>1. SetOutputEx(o, "ON", r) = u
    BY DEF SetOutputEx
  <1>2. s \in Seq(Command) /\ Len(s) = 1 /\ s[1] = OutputStartEx(o, OwnerNone)
    BY OneCommand DEF OutputStartEx, Ops, OwnerNone
  <1>3. /\ q \in Seq(Command)
        /\ \A i \in 1..Len(q) : q[i] \in {OutputReset(o), OutputClearCount(o)}
    BY ResetCountCommands
  <1>. HIDE DEF s, q
  <1>4. /\ u \in Seq(Command) /\ Len(q) \in Nat /\ Len(u) = Len(q) + Len(s)
        /\ \A i \in 1..Len(q) : u[i] = q[i]
        /\ \A i \in 1..Len(s) : u[Len(q) + i] = s[i]
        /\ \A i \in 1..Len(u) :
             i \in 1..Len(q) \/ (i - Len(q) \in 1..Len(s) /\ u[i] = s[i - Len(q)])
    BY <1>2, <1>3, Joined
  <1>. HIDE DEF u
  <1>5. \A i \in 1..Len(u) : u[i] \in {OutputReset(o), OutputClearCount(o),
                                       OutputStartEx(o, OwnerNone)}
    BY <1>2, <1>3, <1>4
  <1>6. Len(u) \in Nat \ {0} /\ u[Len(u)] = OutputStartEx(o, OwnerNone)
    BY <1>2, <1>4
  <1>. QED
    BY <1>1, <1>4, <1>5, <1>6

\* A call as it begins: everything it promises is still to come.
Fresh(s, c) ==
  /\ c.fn \in {"On", "OnSync", "Rotate", "SetType"} => s # << >>
  /\ c.fn = "On" =>
       /\ Pending(s, OutputPolarity(c.outs, c.want.dir))
       /\ \/ c.want.power = DefaultPower
          \/ Pending(s, OutputPower(c.outs, c.want.power))
          \/ Pending(s, OutputSpeed(c.outs, c.want.power))
  /\ c.fn \in {"Off", "OnFor"} =>
       /\ Pending(s, OutputStop(c.outs, 1))
       /\ c.want.reset \in {"COUNT", "ALL"} => Pending(s, OutputReset(c.outs))
       /\ c.want.reset \in {"ROTATION", "ALL"} => Pending(s, OutputClearCount(c.outs))
  /\ c.fn = "Float" => Pending(s, OutputStop(c.outs, 0))
  /\ c.fn = "Rotate" => Len(s) = 2

WellFormed(fn, o, want, s) ==
  LET c == [fn |-> fn, outs |-> o, want |-> want] IN
  /\ fn \in Calls /\ o \in Outputs /\ want \in Wanted
  /\ s \in Seq(Command) /\ Shaped(s, c) /\ Fresh(s, c)

LEMMA NothingWanted == Nothing \in Wanted
  BY DEF Nothing, Want, Wanted, ResetArgs

\* Calls nothing is claimed about.
LEMMA PlainWellFormed ==
  ASSUME NEW fn \in {"other", "OutputInit", "OutputOpen", "OutputClose"},
         NEW s \in Seq(Command), NoClose(s)
  PROVE  WellFormed(fn, All, Nothing, s)
  BY NothingWanted, AllOutputs DEF WellFormed, Shaped, Fresh, Calls

LEMMA OneNoClose ==
  ASSUME NEW op \in Ops \ {"CloseDevices"}, NEW o \in Outputs, NEW a \in Int
  PROVE  <<Cmd(op, o, a)>> \in Seq(Command) /\ NoClose(<<Cmd(op, o, a)>>)
  BY OneCommand DEF NoClose

LEMMA OpenWellFormed ==
  /\ << >> \in Seq(Command) /\ NoClose(<< >>)
  /\ OpenCommands \in Seq(Command) /\ NoClose(OpenCommands)
  /\ Len(OpenCommands) = 2
  /\ OpenCommands[1].op = "ResetOutputs" /\ OpenCommands[2].op = "ProgramStart"
  <1>. DEFINE a == Cmd("ResetOutputs", All, 0)
              b == Cmd("ProgramStart", All, 0)
  <1>1. a \in Command /\ b \in Command /\ a.op = "ResetOutputs" /\ b.op = "ProgramStart"
    BY OneCommand, AllOutputs DEF Ops
  <1>2. OpenCommands = <<a, b>>
    BY DEF OpenCommands
  <1>. HIDE DEF a, b
  <1>3. <<a, b>> \in Seq(Command) /\ Len(<<a, b>>) = 2 /\ <<a, b>>[1] = a /\ <<a, b>>[2] = b
    BY <1>1
  <1>. QED
    BY <1>1, <1>2, <1>3 DEF NoClose

LEMMA OffWellFormed ==
  ASSUME NEW o \in Outputs, NEW r \in ResetArgs
  PROVE  WellFormed("Off", o, Want(0, 0, r), SetOutputEx(o, "OFF", r))
  <1>. DEFINE t == SetOutputEx(o, "OFF", r)
              w == Want(0, 0, r)
  <1>1. w \in Wanted /\ w.reset = r
    BY DEF Want, Wanted
  <1>2. /\ t \in Seq(Command) /\ OffShape(t, o, r) /\ Pending(t, OutputStop(o, 1))
        /\ r \in {"COUNT", "ALL"} => Pending(t, OutputReset(o))
        /\ r \in {"ROTATION", "ALL"} => Pending(t, OutputClearCount(o))
    BY OffCommands
  <1>. HIDE DEF t, w
  <1>3. NoClose(t)
    BY <1>2 DEF NoClose, OffShape
  <1>. QED
    BY <1>1, <1>2, <1>3 DEF WellFormed, Shaped, Fresh, Calls, t, w

LEMMA FloatWellFormed ==
  ASSUME NEW o \in Outputs, NEW r \in ResetArgs
  PROVE  WellFormed("Float", o, Nothing, SetOutputEx(o, "FLOAT", r))
  <1>. DEFINE s == <<OutputStop(o, 0)>>
              q == ResetCount(o, r)
              u == s \o q
  <1>1. SetOutputEx(o, "FLOAT", r) = u
    BY DEF SetOutputEx
  <1>2. s \in Seq(Command) /\ Len(s) = 1 /\ s[1] = OutputStop(o, 0)
    BY OneCommand DEF OutputStop, Ops
  <1>3. /\ q \in Seq(Command)
        /\ \A i \in 1..Len(q) : q[i] \in {OutputReset(o), OutputClearCount(o)}
    BY ResetCountCommands
  <1>4. /\ OutputReset(o).op = "Reset" /\ OutputClearCount(o).op = "ClearCount"
        /\ OutputStop(o, 0).op = "Stop"
    BY DEF OutputReset, OutputClearCount, OutputStop, Cmd
  <1>. HIDE DEF s, q
  <1>5. /\ u \in Seq(Command) /\ \A i \in 1..Len(s) : u[i] = s[i]
        /\ \A i \in 1..Len(u) :
             i \in 1..Len(s) \/ (i - Len(s) \in 1..Len(q) /\ u[i] = q[i - Len(s)])
    BY <1>2, <1>3, Joined
  <1>6. Pending(s, OutputStop(o, 0))
    BY <1>2 DEF Pending
  <1>7. Pending(u, OutputStop(o, 0))
    BY <1>2, <1>3, <1>6, JoinedPending
  <1>. HIDE DEF u
  <1>8. FloatShape(u, o)
    BY <1>2, <1>3, <1>5 DEF FloatShape
  <1>9. NoClose(u)
    BY <1>4, <1>8 DEF NoClose, FloatShape
  <1>. QED
    BY <1>1, <1>5, <1>7, <1>8, <1>9, NothingWanted DEF WellFormed, Shaped, Fresh, Calls

LEMMA PowerCommands ==
  ASSUME NEW o \in Outputs, NEW p \in Int
  PROVE  /\ SetPowerUnlessDefault(o, p) \in Seq(Command)
         /\ \A i \in 1..Len(SetPowerUnlessDefault(o, p)) :
              SetPowerUnlessDefault(o, p)[i] = OutputPower(o, p)
         /\ p = DefaultPower \/ Pending(SetPowerUnlessDefault(o, p), OutputPower(o, p))
  <1>1. CASE SetPowerUnlessDefault(o, p) = << >> /\ p = DefaultPower
    BY <1>1, EmptySeq
  <1>2. CASE SetPowerUnlessDefault(o, p) = <<OutputPower(o, p)>>
    <2>1. /\ <<OutputPower(o, p)>> \in Seq(Command) /\ Len(<<OutputPower(o, p)>>) = 1
          /\ <<OutputPower(o, p)>>[1] = OutputPower(o, p)
      BY OneCommand DEF OutputPower, Ops
    <2>. QED
      BY <1>2, <2>1 DEF Pending
  <1>. QED
    BY <1>1, <1>2 DEF SetPowerUnlessDefault

\* On, with a power or a speed: the direction, how fast, the resets, the start.
LEMMA OnWellFormed ==
  ASSUME NEW o \in Outputs, NEW dir \in {1, -1}, NEW p \in Int, NEW r \in ResetArgs,
         NEW q \in Seq(Command),
         \A i \in 1..Len(q) : q[i] \in {OutputPower(o, p), OutputSpeed(o, p)},
         \/ p = DefaultPower
         \/ Pending(q, OutputPower(o, p))
         \/ Pending(q, OutputSpeed(o, p))
  PROVE  WellFormed("On", o, Want(dir, p, "NONE"),
                    SetDirection(o, dir) \o q \o SetOutputEx(o, "ON", r))
  <1>. DEFINE s == SetDirection(o, dir)
              a == s \o q
              t == SetOutputEx(o, "ON", r)
              u == a \o t
              w == Want(dir, p, "NONE")
              E == {OutputPolarity(o, dir), OutputPower(o, p), OutputSpeed(o, p),
                    OutputReset(o), OutputClearCount(o), OutputStartEx(o, OwnerNone)}
  <1>1. w \in Wanted /\ w.dir = dir /\ w.power = p
    BY DEF Want, Wanted, ResetArgs
  <1>2. s \in Seq(Command) /\ Len(s) = 1 /\ s[1] = OutputPolarity(o, dir)
    BY OneCommand DEF SetDirection, OutputPolarity, Ops
  <1>3. /\ t \in Seq(Command) /\ Len(t) \in Nat \ {0}
        /\ t[Len(t)] = OutputStartEx(o, OwnerNone)
        /\ \A i \in 1..Len(t) : t[i] \in {OutputReset(o), OutputClearCount(o),
                                          OutputStartEx(o, OwnerNone)}
    BY OnCommands
  <1>4. \A e \in E : e.op # "CloseDevices"
    BY DEF OutputPolarity, OutputPower, OutputSpeed, OutputReset, OutputClearCount,
           OutputStartEx, Cmd
  <1>. HIDE DEF s, t, w
  <1>5. /\ a \in Seq(Command)
        /\ \A i \in 1..Len(s) : a[i] = s[i]
        /\ \A i \in 1..Len(a) :
             i \in 1..Len(s) \/ (i - Len(s) \in 1..Len(q) /\ a[i] = q[i - Len(s)])
    BY <1>2, Joined
  <1>6. \A c : Pending(s, c) \/ Pending(q, c) => Pending(a, c)
    BY <1>2, JoinedPending
  <1>. HIDE DEF a
  <1>7. \A i \in 1..Len(a) : a[i] \in E
    BY <1>2, <1>5
  <1>8. /\ u \in Seq(Command) /\ Len(a) \in Nat /\ Len(u) = Len(a) + Len(t)
        /\ \A i \in 1..Len(a) : u[i] = a[i]
        /\ \A i \in 1..Len(t) : u[Len(a) + i] = t[i]
        /\ \A i \in 1..Len(u) :
             i \in 1..Len(a) \/ (i - Len(a) \in 1..Len(t) /\ u[i] = t[i - Len(a)])
    BY <1>3, <1>5, Joined
  <1>9. \A c : Pending(a, c) => Pending(u, c)
    BY <1>3, <1>5, JoinedPending
  <1>. HIDE DEF u
  <1>10. \A i \in 1..Len(u) : u[i] \in E
    BY <1>3, <1>7, <1>8
  <1>11. Len(u) \in Nat \ {0} /\ u[Len(u)] = OutputStartEx(o, OwnerNone)
    BY <1>3, <1>8
  <1>12. OnShape(u, o, w) /\ NoClose(u)
    BY <1>1, <1>4, <1>10, <1>11 DEF OnShape, NoClose
  <1>13. Pending(s, OutputPolarity(o, dir))
    BY <1>2 DEF Pending
  <1>14. /\ u # << >> /\ Pending(u, OutputPolarity(o, dir))
         /\ p = DefaultPower \/ Pending(u, OutputPower(o, p)) \/ Pending(u, OutputSpeed(o, p))
    BY <1>6, <1>9, <1>11, <1>13, EmptySeq
  <1>15. WellFormed("On", o, w, u)
    BY <1>1, <1>8, <1>12, <1>14 DEF WellFormed, Shaped, Fresh, Calls
  <1>. QED
    BY <1>15 DEF u, a, s, t, w

LEMMA OnSyncWellFormed ==
  ASSUME NEW o \in Outputs, NEW dir \in {1, -1}, NEW p \in Int, NEW r \in ResetArgs
  PROVE  WellFormed("OnSync", o, Want(dir, dir * p, "NONE"),
                    ResetCount(o, r) \o <<OnwardSync(o, dir * p)>>)
  <1>. DEFINE w == Want(dir, dir * p, "NONE")
              q == ResetCount(o, r)
              s == <<OnwardSync(o, dir * p)>>
              u == q \o s
  <1>1. dir * p \in Int
    OBVIOUS
  <1>2. w \in Wanted /\ w.power = dir * p
    BY <1>1 DEF Want, Wanted, ResetArgs
  <1>3. /\ s \in Seq(Command) /\ Len(s) = 1 /\ s[1] = OnwardSync(o, dir * p)
        /\ OnwardSync(o, dir * p).op = "EndlessSync"
    BY <1>1, OneCommand DEF OnwardSync, Ops
  <1>4. /\ q \in Seq(Command)
        /\ \A i \in 1..Len(q) : q[i] \in {OutputReset(o), OutputClearCount(o)}
    BY ResetCountCommands
  <1>5. OutputReset(o).op = "Reset" /\ OutputClearCount(o).op = "ClearCount"
    BY DEF OutputReset, OutputClearCount, Cmd
  <1>. HIDE DEF q, s, w
  <1>6. /\ u \in Seq(Command) /\ Len(q) \in Nat /\ Len(u) = Len(q) + Len(s)
        /\ \A i \in 1..Len(q) : u[i] = q[i]
        /\ \A i \in 1..Len(s) : u[Len(q) + i] = s[i]
        /\ \A i \in 1..Len(u) :
             i \in 1..Len(q) \/ (i - Len(q) \in 1..Len(s) /\ u[i] = s[i - Len(q)])
    BY <1>3, <1>4, Joined
  <1>. HIDE DEF u
  <1>7. Len(u) \in Nat \ {0} /\ u[Len(u)] = OnwardSync(o, dir * p)
    BY <1>3, <1>6
  <1>8. NoClose(u)
    BY <1>3, <1>4, <1>5, <1>6, SMTT(30) DEF NoClose
  <1>9. u # << >> /\ SyncShape(u, o, w)
    BY <1>2, <1>7, EmptySeq DEF SyncShape
  <1>10. WellFormed("OnSync", o, w, u)
    BY <1>2, <1>6, <1>8, <1>9 DEF WellFormed, Shaped, Fresh, Calls
  <1>. QED
    BY <1>10 DEF u, q, s, w

\* OnFor: power, resets, start and sleep before what Off does.
LEMMA OnForWellFormed ==
  ASSUME NEW o \in Outputs, NEW p \in Int, NEW r \in ResetArgs
  PROVE  WellFormed("OnFor", o, Want(0, 0, r),
                    SetPowerUnlessDefault(o, p) \o SetOutputEx(o, "ON", r)
                      \o <<Cmd("Sleep", o, 0)>> \o SetOutputEx(o, "OFF", r))
  <1>. DEFINE w == Want(0, 0, r)
              a == SetPowerUnlessDefault(o, p)
              b == SetOutputEx(o, "ON", r)
              ab == a \o b
              z == <<Cmd("Sleep", o, 0)>>
              s == ab \o z
              t == SetOutputEx(o, "OFF", r)
              u == s \o t
              Good(c) == /\ c.outs = o
                         /\ c.op \in {"Power", "Reset", "ClearCount", "Start", "Sleep"}
                         /\ c.op = "Reset" => c = OutputReset(o)
                         /\ c.op = "ClearCount" => c = OutputClearCount(o)
  <1>1. w \in Wanted /\ w.reset = r
    BY DEF Want, Wanted
  <1>2. a \in Seq(Command) /\ \A i \in 1..Len(a) : a[i] = OutputPower(o, p)
    BY PowerCommands
  <1>3. /\ b \in Seq(Command)
        /\ \A i \in 1..Len(b) : b[i] \in {OutputReset(o), OutputClearCount(o),
                                          OutputStartEx(o, OwnerNone)}
    BY OnCommands
  <1>4. z \in Seq(Command) /\ Len(z) = 1 /\ z[1] = Cmd("Sleep", o, 0)
    BY OneCommand DEF Ops
  <1>5. /\ t \in Seq(Command) /\ OffShape(t, o, r) /\ Pending(t, OutputStop(o, 1))
        /\ r \in {"COUNT", "ALL"} => Pending(t, OutputReset(o))
        /\ r \in {"ROTATION", "ALL"} => Pending(t, OutputClearCount(o))
    BY OffCommands
  <1>6. /\ Good(OutputPower(o, p)) /\ Good(OutputReset(o)) /\ Good(OutputClearCount(o))
        /\ Good(OutputStartEx(o, OwnerNone)) /\ Good(Cmd("Sleep", o, 0))
    BY DEF OutputPower, OutputReset, OutputClearCount, OutputStartEx, Cmd
  <1>. HIDE DEF w, a, b, z, t, Good
  <1>7. /\ ab \in Seq(Command)
        /\ \A i \in 1..Len(a) : ab[i] = a[i]
        /\ \A i \in 1..Len(ab) :
             i \in 1..Len(a) \/ (i - Len(a) \in 1..Len(b) /\ ab[i] = b[i - Len(a)])
    BY <1>2, <1>3, Joined
  <1>. HIDE DEF ab
  <1>8. \A i \in 1..Len(ab) : Good(ab[i])
    BY <1>2, <1>3, <1>6, <1>7
  <1>9. /\ s \in Seq(Command)
        /\ \A i \in 1..Len(ab) : s[i] = ab[i]
        /\ \A i \in 1..Len(s) :
             i \in 1..Len(ab) \/ (i - Len(ab) \in 1..Len(z) /\ s[i] = z[i - Len(ab)])
    BY <1>4, <1>7, Joined
  <1>. HIDE DEF s
  <1>10. \A i \in 1..Len(s) : Good(s[i])
    BY <1>4, <1>6, <1>8, <1>9
  <1>11. OffShape(u, o, r)
    BY <1>5, <1>9, <1>10, OffShapeJoined DEF Good
  <1>12. u \in Seq(Command) /\ \A c : Pending(t, c) => Pending(u, c)
    BY <1>5, <1>9, Joined, JoinedPending
  <1>. HIDE DEF u
  <1>13. NoClose(u)
    BY <1>11 DEF OffShape, NoClose
  <1>14. WellFormed("OnFor", o, w, u)
    BY <1>1, <1>5, <1>11, <1>12, <1>13 DEF WellFormed, Shaped, Fresh, Calls
  <1>. QED
    BY <1>14 DEF u, s, ab, a, b, z, t, w

LEMMA RotateWellFormed ==
  ASSUME NEW o \in Outputs, NEW p \in Int, NEW sync \in BOOLEAN
  PROVE  /\ RotateMotorNoWait(o, p, sync) \in Seq(Command)
         /\ NoClose(RotateMotorNoWait(o, p, sync))
         /\ WellFormed("Rotate", o, Nothing,
                       Append(RotateMotorNoWait(o, p, sync), Cmd("WaitTest", o, 0)))
  <1>. DEFINE z == Cmd("WaitTest", o, 0)
  <1>1. PICK c \in Command : /\ c.outs = o /\ c.op \in {"Step", "StepSync"}
                             /\ RotateMotorNoWait(o, p, sync) = <<c>>
    <2>1. /\ OutputStepSyncEx(o, p) \in Command /\ OutputStepSyncEx(o, p).outs = o
          /\ OutputStepSyncEx(o, p).op = "StepSync"
      BY OneCommand DEF OutputStepSyncEx, Ops
    <2>2. /\ OutputStepSpeedEx(o, p) \in Command /\ OutputStepSpeedEx(o, p).outs = o
          /\ OutputStepSpeedEx(o, p).op = "Step"
      BY OneCommand DEF OutputStepSpeedEx, Ops
    <2>. QED
      BY <2>1, <2>2 DEF RotateMotorNoWait
  <1>2. z \in Command /\ z.op = "WaitTest"
    BY OneCommand DEF Ops
  <1>. DEFINE u == Append(<<c>>, z)
  <1>3. <<c>> \in Seq(Command) /\ Len(<<c>>) = 1 /\ <<c>>[1] = c
    OBVIOUS
  <1>4. u \in Seq(Command) /\ Len(u) = 2 /\ u[1] = c /\ u[2] = z
    BY <1>2, <1>3, AppendProperties
  <1>5. NoClose(<<c>>)
    BY <1>1, <1>3 DEF NoClose
  <1>. HIDE DEF u
  <1>6. RotateShape(u, o) /\ NoClose(u) /\ u # << >>
    BY <1>1, <1>2, <1>4, EmptySeq DEF RotateShape, NoClose
  <1>7. WellFormed("Rotate", o, Nothing, u)
    BY <1>4, <1>6, NothingWanted DEF WellFormed, Shaped, Fresh, Calls
  <1>. QED
    BY <1>1, <1>3, <1>5, <1>7 DEF u

LEMMA TypeWellFormed ==
  ASSUME NEW op \in {"SetType", "SetTypes"}, NEW o \in Outputs, NEW a \in Int
  PROVE  WellFormed("SetType", o, Nothing, <<Cmd(op, o, a)>>)
  <1>. DEFINE s == <<Cmd(op, o, a)>>
  <1>1. s \in Seq(Command) /\ Len(s) = 1 /\ s[1].op = op
    BY OneCommand DEF Ops
  <1>. HIDE DEF s
  <1>2. TypeShape(s) /\ NoClose(s) /\ s # << >>
    BY <1>1, EmptySeq DEF TypeShape, NoClose
  <1>3. WellFormed("SetType", o, Nothing, s)
    BY <1>1, <1>2, NothingWanted DEF WellFormed, Shaped, Fresh, Calls
  <1>. QED
    BY <1>3 DEF s

-----------------------------------------------------------------------------
(***************************************************************************)
(* A call begins.                                                          *)
(***************************************************************************)

LEMMA Begun ==
  ASSUME IInv, NEW fn, NEW o, NEW want, NEW s,
         Begin(fn, o, want, s), WellFormed(fn, o, want, s)
  PROVE  /\ call' \in [fn : Calls, outs : Outputs, want : Wanted]
         /\ call'.fn = fn /\ call'.outs = o /\ call'.want = want
         /\ script' = s /\ script' \in Seq(Command) /\ calls' \in 0..MaxCalls
         /\ ShapeInv' /\ EffectInv'
  <1>. DEFINE c == [fn |-> fn, outs |-> o, want |-> want]
  <1>1. /\ call' = c /\ script' = s /\ c.fn = fn /\ c.outs = o /\ c.want = want
        /\ c \in [fn : Calls, outs : Outputs, want : Wanted] /\ s \in Seq(Command)
        /\ Shaped(s, c) /\ Fresh(s, c)
    BY DEF Begin, WellFormed
  <1>. HIDE DEF c
  <1>2. calls' \in 0..MaxCalls
    BY MotorsAssumption DEF Begin, IInv, TypeOK, MotorsAssumption
  <1>3. ShapeInv'
    BY <1>1 DEF ShapeInv
  <1>4. /\ Fresh(script', call') /\ script' \in Seq(Command)
        /\ call'.fn \in {"On", "OnSync", "Rotate", "SetType"} => script' # << >>
    BY <1>1 DEF Fresh
  <1>5. ASSUME NEW m PROVE Effect(m)'
    BY <1>4 DEF Effect, Fresh, Idle
  <1>6. EffectInv'
    BY <1>4, <1>5 DEF EffectInv, Fresh, Idle
  <1>. QED
    BY <1>1, <1>2, <1>3, <1>6

\* The devices' part of the invariant survives what leaves them alone.
LEMMA DevicesKept ==
  ASSUME IInv, UNCHANGED <<lib, os, lost, fault>>,
         \A m \in Motor : dev'[m].state = "run" => dev[m].state = "run"
  PROVE  /\ DeviceInv' /\ NoStaleDevice' /\ StoppedAfterExit'
         /\ OutputInitialized' = OutputInitialized
         /\ Stopped => Stopped'
  BY DEF IInv, DeviceInv, NoStaleDevice, StoppedAfterExit, OutputInitialized, Stopped

LEMMA CallPreserves ==
  ASSUME IInv, NEW fn, NEW o, NEW want, NEW s,
         Call(fn, o, want, s), WellFormed(fn, o, want, s), fn # "OutputExit"
  PROVE  IInv'
  <1>1. Begin(fn, o, want, s) /\ ok' = TRUE /\ UNCHANGED <<lib, os, dev, devType, lost, fault>>
    BY DEF Call
  <1>2. /\ call' \in [fn : Calls, outs : Outputs, want : Wanted] /\ call'.fn = fn
        /\ script' \in Seq(Command) /\ calls' \in 0..MaxCalls /\ ShapeInv' /\ EffectInv'
    BY <1>1, Begun
  <1>3. TypeOK'
    BY <1>1, <1>2 DEF IInv, TypeOK
  <1>4. DeviceInv' /\ NoStaleDevice' /\ StoppedAfterExit'
    BY <1>1, DevicesKept
  <1>5. ExitInv'
    BY <1>2 DEF ExitInv
  <1>. QED
    BY <1>2, <1>3, <1>4, <1>5 DEF IInv

LEMMA ExitPreserves ==
  ASSUME IInv, OutputExit
  PROVE  IInv'
  <1>. DEFINE a == Cmd("ResetOutputs", All, 0)
              b == Cmd("CloseDevices", All, 0)
              s == IF OutputInitialized THEN <<a, b>> ELSE << >>
  <1>1. a \in Command /\ b \in Command
    BY OneCommand, AllOutputs DEF Ops
  <1>2. /\ Call("OutputExit", All, Nothing, s)
        /\ (s = <<a, b>> /\ OutputInitialized) \/ s = << >>
    BY DEF OutputExit
  <1>. HIDE DEF a, b, s
  <1>3. <<a, b>> \in Seq(Command) /\ Len(<<a, b>>) = 2 /\ <<a, b>>[1] = a /\ <<a, b>>[2] = b
    BY <1>1
  <1>4. /\ s \in Seq(Command)
        /\ \/ s = << >> /\ Len(s) = 0
           \/ Len(s) = 2 /\ s[1] = a /\ s[2] = b /\ OutputInitialized
    BY <1>2, <1>3, EmptySeq
  <1>5. ExitShape(s)
    BY <1>4 DEF ExitShape, a, b
  <1>6. WellFormed("OutputExit", All, Nothing, s)
    BY <1>4, <1>5, NothingWanted, AllOutputs DEF WellFormed, Shaped, Fresh, Calls
  <1>7. /\ Begin("OutputExit", All, Nothing, s) /\ ok' = TRUE
        /\ UNCHANGED <<lib, os, dev, devType, lost, fault>>
    BY <1>2 DEF Call
  <1>8. /\ call' \in [fn : Calls, outs : Outputs, want : Wanted] /\ script' = s
        /\ script' \in Seq(Command) /\ calls' \in 0..MaxCalls /\ ShapeInv' /\ EffectInv'
    BY <1>6, <1>7, Begun
  <1>9. TypeOK'
    BY <1>7, <1>8 DEF IInv, TypeOK
  <1>10. /\ DeviceInv' /\ NoStaleDevice' /\ StoppedAfterExit'
         /\ OutputInitialized' = OutputInitialized
    BY <1>7, DevicesKept
  <1>11. ExitInv'
    BY <1>4, <1>8, <1>10 DEF ExitInv, Idle
  <1>. QED
    BY <1>8, <1>9, <1>10, <1>11 DEF IInv

LEMMA InitPreserves ==
  ASSUME IInv, OutputInit
  PROVE  IInv'
  <1>1. CASE OutputInitialized /\ Call("OutputInit", All, Nothing, << >>)
    BY <1>1, OpenWellFormed, PlainWellFormed, CallPreserves
  <1>2. CASE ~OutputInitialized /\ ~(OutputInitialized /\ Call("OutputInit", All, Nothing, << >>))
    <2>1. PICK pwm \in BOOLEAN, motor \in BOOLEAN, map \in BOOLEAN :
          /\ (motor => pwm) /\ (map => motor)
          /\ Begin("OutputInit", All, Nothing, IF map THEN OpenCommands ELSE << >>)
          /\ ok' = map
          /\ lib' = [lib EXCEPT !.pMotor = IF map THEN "shared" ELSE "own",
                                !.PwmFile = IF pwm /\ (motor => map) THEN "open" ELSE "closed",
                                !.MotorFile = IF map THEN "open"
                                              ELSE IF pwm THEN "closed" ELSE @]
          /\ os' = [os EXCEPT !.pwm = IF pwm /\ (motor => map) THEN @ + 1 ELSE @,
                              !.motor = IF map THEN @ + 1 ELSE @,
                              !.mapped = @ \/ map]
          /\ UNCHANGED <<dev, devType, lost, fault>>
      BY <1>2 DEF OutputInit
    <2>2. WellFormed("OutputInit", All, Nothing, IF map THEN OpenCommands ELSE << >>)
      BY OpenWellFormed, PlainWellFormed
    <2>3. /\ call' \in [fn : Calls, outs : Outputs, want : Wanted] /\ call'.fn = "OutputInit"
          /\ script' \in Seq(Command) /\ calls' \in 0..MaxCalls /\ ShapeInv' /\ EffectInv'
      BY <2>1, <2>2, Begun
    <2>4. /\ lib \in Lib /\ os \in [pwm : Nat, motor : Nat, mapped : BOOLEAN]
      BY DEF IInv, TypeOK
    <2>5. /\ lib'.pMotor = (IF map THEN "shared" ELSE "own")
          /\ lib'.PwmFile = (IF pwm /\ (motor => map) THEN "open" ELSE "closed")
          /\ lib'.MotorFile = (IF map THEN "open" ELSE IF pwm THEN "closed" ELSE lib.MotorFile)
          /\ lib'.Owners = lib.Owners /\ lib'.OutputTypes = lib.OutputTypes
          /\ lib' \in Lib
      BY <2>1, <2>4 DEF Lib, File
    <2>6. /\ os'.pwm = (IF pwm /\ (motor => map) THEN os.pwm + 1 ELSE os.pwm)
          /\ os'.motor = (IF map THEN os.motor + 1 ELSE os.motor)
          /\ os'.mapped = (os.mapped \/ map)
          /\ os' \in [pwm : Nat, motor : Nat, mapped : BOOLEAN]
      <3>. DEFINE x == IF pwm /\ (motor => map) THEN os.pwm + 1 ELSE os.pwm
                  y == IF map THEN os.motor + 1 ELSE os.motor
                  z == os.mapped \/ map
      <3>1. os' = [pwm |-> x, motor |-> y, mapped |-> z]
        BY <2>1, <2>4
      <3>2. x \in Nat /\ y \in Nat
        BY <2>4
      <3>3. z \in BOOLEAN
        BY <2>4
      <3>. HIDE DEF x, y, z
      <3>4. os'.pwm = x /\ os'.motor = y /\ os'.mapped = z
        BY <3>1
      <3>5. os' \in [pwm : Nat, motor : Nat, mapped : BOOLEAN]
        BY <3>1, <3>2, <3>3
      <3>. QED
        BY <3>4, <3>5 DEF x, y, z
    <2>7. TypeOK'
      BY <2>1, <2>3, <2>5, <2>6 DEF IInv, TypeOK
    <2>8. /\ lib.PwmFile # "open" /\ lib.MotorFile # "open"
          /\ os.pwm = 0 /\ os.motor = 0 /\ os.mapped = FALSE /\ ~fault
      BY <1>2, <2>4 DEF IInv, DeviceInv, NoStaleDevice, OutputInitialized, Lib, File
    <2>9. DeviceInv'
      BY <2>1, <2>4, <2>5, <2>8 DEF DeviceInv, Lib, File
    <2>10. NoStaleDevice'
      BY <2>1, <2>4, <2>5, <2>6, <2>8 DEF NoStaleDevice, OutputInitialized
    <2>11. StoppedAfterExit'
      BY <1>2, <2>1, <2>5 DEF IInv, StoppedAfterExit
    <2>12. ExitInv'
      BY <2>3 DEF ExitInv
    <2>. QED
      BY <2>3, <2>7, <2>9, <2>10, <2>11, <2>12 DEF IInv
  <1>. QED
    BY <1>1, <1>2 DEF OutputInit

LEMMA TachoPreserves ==
  ASSUME IInv, NEW m \in Motor, MotorTachoCount(m)
  PROVE  IInv'
  <1>1. /\ Begin("other", All, Nothing, << >>)
        /\ UNCHANGED <<lib, os, dev, devType, lost>>
        /\ ok' = OutputInitialized
        /\ fault' = (fault \/ (OutputInitialized /\ lib.pMotor = "shared" /\ ~os.mapped))
    BY DEF MotorTachoCount, OutputRead
  <1>2. fault' = fault
    BY <1>1 DEF IInv, NoStaleDevice, TypeOK
  <1>3. /\ call' \in [fn : Calls, outs : Outputs, want : Wanted] /\ call'.fn = "other"
        /\ script' \in Seq(Command) /\ calls' \in 0..MaxCalls /\ ShapeInv' /\ EffectInv'
    BY <1>1, OpenWellFormed, PlainWellFormed, Begun
  <1>4. TypeOK'
    BY <1>1, <1>2, <1>3 DEF IInv, TypeOK, OutputInitialized
  <1>5. DeviceInv' /\ NoStaleDevice' /\ StoppedAfterExit'
    BY <1>1, <1>2, DevicesKept
  <1>6. ExitInv'
    BY <1>3 DEF ExitInv
  <1>. QED
    BY <1>3, <1>4, <1>5, <1>6 DEF IInv

-----------------------------------------------------------------------------
(***************************************************************************)
(* A command is issued.                                                    *)
(***************************************************************************)

LEMMA Advanced ==
  ASSUME IInv, ~Idle, call' = call, script' \in {Tail(script), << >>, script}
  PROVE  script' \in Seq(Command) /\ ShapeInv'
  <1>1. script \in Seq(Command) /\ script # << >> /\ Shaped(script, call)
    BY DEF IInv, TypeOK, Idle, ShapeInv
  <1>2. call.fn = "On" => call.want.dir \in {1, -1}
    BY <1>1 DEF Shaped, OnShape
  <1>3. Shaped(<< >>, call) /\ Shaped(Tail(script), call)
    BY <1>1, <1>2, EmptyShaped, TailShaped
  <1>. QED
    BY <1>1, <1>3, EmptySeq, TailElements DEF ShapeInv

\* The command at hand and the ones after it.
LEMMA AtHand ==
  ASSUME IInv, ~Idle
  PROVE  /\ script \in Seq(Command) /\ Len(script) \in Nat \ {0}
         /\ Head(script) = script[1] /\ script[1] \in Command
         /\ Tail(script) \in Seq(Command) /\ Len(Tail(script)) = Len(script) - 1
         /\ Tail(script) = << >> <=> Len(script) = 1
         /\ 1 \in 1..Len(script)
  <1>1. script \in Seq(Command) /\ script # << >>
    BY DEF IInv, TypeOK, Idle
  <1>2. /\ Len(script) \in Nat \ {0} /\ Head(script) = script[1] /\ script[1] \in Command
        /\ Tail(script) \in Seq(Command) /\ Len(Tail(script)) = Len(script) - 1
    BY <1>1, TailElements
  <1>3. Tail(script) = << >> <=> Len(script) = 1
    <2>1. Tail(script) = << >> => Len(Tail(script)) = 0
      BY EmptySeq
    <2>2. Tail(script) # << >> => Len(Tail(script)) \in Nat \ {0}
      BY <1>2, EmptySeq
    <2>. QED
      BY <1>2, <2>1, <2>2
  <1>. QED
    BY <1>1, <1>2, <1>3

\* What OutputExit writes is the command that stops the motors.
LEMMA ExitHead ==
  ASSUME NEW s \in Seq(Command), Len(s) \in Nat \ {0}, ExitShape(s), s[1].op \notin Unwritten
  PROVE  s[1] = Cmd("ResetOutputs", All, 0)
  <1>1. s[1] # Cmd("CloseDevices", All, 0)
    BY DEF Unwritten, Cmd
  <1>2. Len(s) # 1
    BY <1>1 DEF ExitShape
  <1>3. Len(s) = 2
    <2>1. \A n \in Nat \ {0} : n <= 2 /\ n # 1 => n = 2
      OBVIOUS
    <2>2. Len(s) <= 2
      BY DEF ExitShape
    <2>. QED
      BY <1>2, <2>1, <2>2, Zenon
  <1>. QED
    BY <1>3 DEF ExitShape

LEMMA ObeyEffect ==
  ASSUME NEW c \in Command, NEW d \in Motion
  PROVE  LET e == Obey(c, d) IN
         /\ e \in Motion
         /\ c.op = "Stop" /\ c.arg = 1 => e = [d EXCEPT !.state = "rest", !.busy = "no"]
         /\ c.op = "ResetOutputs" \/ (c.op = "Stop" /\ c.arg = 0) => e.state # "run"
         /\ c.op \in {"Power", "Speed"} => e = [d EXCEPT !.power = c.arg]
         /\ c.op = "Polarity" /\ c.arg # 0 => e = [d EXCEPT !.dir = c.arg]
         /\ c.op = "Start" => e = [d EXCEPT !.state = "run", !.busy = "no"]
         /\ c.op = "Reset" => e = [d EXCEPT !.tacho = 0]
         /\ c.op = "ClearCount" => e = [d EXCEPT !.sensor = 0]
         /\ c.op = "EndlessSync" =>
              e = [d EXCEPT !.state = "run", !.power = c.arg, !.busy = "endless"]
  <1>. DEFINE e == Obey(c, d)
  <1>0. c.arg \in Int /\ c.op \in Ops
    BY DEF Command
  <1>1. CASE c.op = "Stop" /\ c.arg = 1
    <2>1. e = [d EXCEPT !.state = "rest", !.busy = "no"]
      BY <1>1 DEF Obey, Moving
    <2>. QED
      BY <1>1, <2>1 DEF Motion
  <1>2. CASE c.op = "ResetOutputs" \/ (c.op = "Stop" /\ c.arg = 0)
    <2>1. e = [d EXCEPT !.state = IF @ = "run" THEN "coast" ELSE @, !.busy = "no"]
      BY <1>2 DEF Obey, Moving
    <2>2. e \in Motion
      BY <2>1 DEF Motion
    <2>3. e.state = IF d.state = "run" THEN "coast" ELSE d.state
      BY <2>1 DEF Motion
    <2>. HIDE DEF e
    <2>4. e.state # "run"
      BY <2>3
    <2>. QED
      BY <1>2, <2>2, <2>4 DEF e
  <1>3. CASE c.op \in {"Power", "Speed"}
    <2>1. e = [d EXCEPT !.power = c.arg]
      BY <1>3 DEF Obey, Moving
    <2>. QED
      BY <1>0, <1>3, <2>1 DEF Motion
  <1>4. CASE c.op = "Polarity"
    <2>1. e = [d EXCEPT !.dir = IF c.arg = 0 THEN -@ ELSE c.arg]
      BY <1>4 DEF Obey, Moving
    <2>. QED
      BY <1>0, <1>4, <2>1 DEF Motion
  <1>5. CASE c.op = "Start"
    <2>1. e = [d EXCEPT !.state = "run", !.busy = "no"]
      BY <1>5 DEF Obey, Moving
    <2>. QED
      BY <1>5, <2>1 DEF Motion
  <1>6. CASE c.op = "Reset"
    <2>1. e = [d EXCEPT !.tacho = 0]
      BY <1>6 DEF Obey, Moving
    <2>. QED
      BY <1>6, <2>1 DEF Motion
  <1>7. CASE c.op = "ClearCount"
    <2>1. e = [d EXCEPT !.sensor = 0]
      BY <1>7 DEF Obey, Moving
    <2>. QED
      BY <1>7, <2>1 DEF Motion
  <1>8. CASE c.op \in Moving
    <2>1. e = [d EXCEPT !.state = "run", !.power = c.arg,
                        !.busy = IF c.op = "EndlessSync" THEN "endless" ELSE "steps"]
      BY <1>8 DEF Obey, Moving
    <2>. QED
      BY <1>0, <1>8, <2>1 DEF Motion, Moving
  <1>9. CASE /\ c.op \notin {"ResetOutputs", "Power", "Speed", "Polarity", "Start",
                             "Reset", "ClearCount"} \cup Moving
             /\ ~(c.op = "Stop" /\ c.arg = 1) /\ ~(c.op = "Stop" /\ c.arg = 0)
    <2>1. e = d
      BY <1>9 DEF Obey, Moving
    <2>. QED
      BY <1>9, <2>1 DEF Moving
  <1>. QED
    BY <1>1, <1>2, <1>3, <1>4, <1>5, <1>6, <1>7, <1>8, <1>9

LEMMA Recorded ==
  ASSUME lib \in Lib, NEW c \in Command
  PROVE  LET f == RecordFirst(c)
             l == RecordLast(c, f) IN
         /\ f \in Lib /\ l \in Lib
         /\ f.PwmFile = lib.PwmFile /\ f.MotorFile = lib.MotorFile /\ f.pMotor = lib.pMotor
         /\ l.PwmFile = lib.PwmFile /\ l.MotorFile = lib.MotorFile /\ l.pMotor = lib.pMotor
         /\ c.op = "ResetOutputs" => \A m \in Motor : l.Owners[m] = OwnerNone
  <1>. DEFINE f == RecordFirst(c)
  <1>1. /\ f \in Lib /\ f.PwmFile = lib.PwmFile /\ f.MotorFile = lib.MotorFile
        /\ f.pMotor = lib.pMotor
        /\ c.op = "ResetOutputs" => \A m \in Motor : f.Owners[m] = OwnerNone
    <2>1. CASE c.op = "ResetOutputs"
      BY <2>1 DEF RecordFirst, Lib, OwnerNone
    <2>2. CASE c.op = "SetType"
      BY <2>2 DEF RecordFirst, Lib, Command
    <2>3. CASE c.op \notin {"ResetOutputs", "SetType"}
      BY <2>3 DEF RecordFirst
    <2>. QED
      BY <2>1, <2>2, <2>3
  <1>. HIDE DEF f
  <1>2. /\ RecordLast(c, f) \in Lib /\ RecordLast(c, f).PwmFile = f.PwmFile
        /\ RecordLast(c, f).MotorFile = f.MotorFile /\ RecordLast(c, f).pMotor = f.pMotor
        /\ c.op = "ResetOutputs" => RecordLast(c, f) = f
    <2>1. CASE c.op \in Moving \cup {"Start"}
      BY <1>1, <2>1 DEF RecordLast, Lib, Command, OwnerNone, Moving
    <2>2. CASE c.op = "SetTypes"
      BY <1>1, <2>2 DEF RecordLast, Lib, Command, Moving
    <2>3. CASE c.op \notin Moving \cup {"Start", "SetTypes"}
      BY <1>1, <2>3 DEF RecordLast, Moving
    <2>. QED
      BY <2>1, <2>2, <2>3
  <1>. QED
    BY <1>1, <1>2 DEF f

\* What a written command leaves of a call's promise: it is kept already, or
\* by a command after this one.
LEMMA WrittenEffect ==
  ASSUME IInv, ~Idle, Head(script).op \notin Unwritten, Written, ok
  PROVE  EffectInv'
  <1>. DEFINE c == script[1]
              t == Tail(script)
              o == call.outs
              want == call.want
  <1>1. /\ script \in Seq(Command) /\ script # << >> /\ Len(script) \in Nat \ {0}
        /\ Head(script) = c /\ c \in Command /\ t \in Seq(Command)
        /\ Len(t) = Len(script) - 1 /\ (t = << >> <=> Len(script) = 1) /\ 1 \in 1..Len(script)
    BY AtHand DEF Idle
  <1>2. /\ Accepted(c) /\ lib' = RecordLast(c, RecordFirst(c)) /\ script' = t
        /\ dev' = [m \in Motor |-> IF m \in c.outs.on THEN Obey(c, dev[m]) ELSE dev[m]]
        /\ devType' = (IF c.op \in {"SetType", "SetTypes"} THEN lib'.OutputTypes ELSE devType)
        /\ call' = call /\ ok' = ok /\ c.op \notin Unwritten
    BY <1>1 DEF Written
  <1>3. /\ \A x : Pending(script, x) => c = x \/ Pending(t, x)
        /\ \A x : Later(script, 1, x) => Pending(t, x)
    BY <1>1, TailPending, TailLater
  <1>4. /\ Shaped(script, call) /\ call \in [fn : Calls, outs : Outputs, want : Wanted]
        /\ dev \in [Motor -> Motion] /\ lib \in Lib
    BY DEF IInv, TypeOK, ShapeInv
  <1>5. o.on \subseteq Motor
    BY <1>4 DEF Outputs
  <1>6. t = << >> => c = script[Len(script)]
    BY <1>1
  <1>7. OutputInitialized' /\ OutputInitialized /\ c.outs.layer = "master"
    BY <1>1, <1>2, <1>4, Recorded DEF Accepted, OutputInitialized
  <1>. HIDE DEF c, t
  <1>8. ASSUME NEW m \in o.on, Effect(m) PROVE Effect(m)'
    <2>. DEFINE d == dev[m]
                e == dev'[m]
    <2>1. d \in Motion /\ (c.outs = o => e = Obey(c, d))
      BY <1>2, <1>4, <1>5
    <2>2. e \in Motion
      <3>1. Obey(c, d) \in Motion
        BY <1>1, <2>1, ObeyEffect
      <3>2. e = Obey(c, d) \/ e = d
        BY <1>2, <1>5
      <3>. QED
        BY <2>1, <3>1, <3>2
    <2>3. CASE call.fn = "On"
      <3>1. /\ want.dir \in {1, -1}
            /\ c \in {OutputPolarity(o, want.dir), OutputPower(o, want.power),
                      OutputSpeed(o, want.power), OutputReset(o), OutputClearCount(o),
                      OutputStartEx(o, OwnerNone)}
            /\ t = << >> => c = OutputStartEx(o, OwnerNone)
        BY <1>1, <1>4, <1>6, <2>3 DEF Shaped, OnShape, c
      <3>2. e = Obey(c, d)
        BY <2>1, <3>1 DEF OutputPolarity, OutputPower, OutputSpeed, OutputReset,
                          OutputClearCount, OutputStartEx, Cmd
      <3>3. /\ Pending(t, OutputPolarity(o, want.dir)) \/ c = OutputPolarity(o, want.dir)
               \/ d.dir = want.dir
            /\ \/ want.power = DefaultPower \/ d.power = want.power
               \/ c = OutputPower(o, want.power) \/ c = OutputSpeed(o, want.power)
               \/ Pending(t, OutputPower(o, want.power))
               \/ Pending(t, OutputSpeed(o, want.power))
        BY <1>3, <1>8, <2>3 DEF Effect
      <3>. HIDE DEF d, e
      <3>4. CASE c = OutputPolarity(o, want.dir)
        <4>1. c.op = "Polarity" /\ c.arg = want.dir /\ want.dir # 0
          BY <3>1, <3>4 DEF OutputPolarity, Cmd
        <4>2. e = [d EXCEPT !.dir = c.arg]
          BY <1>1, <2>1, <3>2, <4>1, ObeyEffect
        <4>3. t # << >> /\ c # OutputPower(o, want.power) /\ c # OutputSpeed(o, want.power)
          BY <3>1, <4>1 DEF OutputStartEx, OutputPower, OutputSpeed, Cmd
        <4>4. e.dir = want.dir /\ e.power = d.power
          BY <2>1, <4>1, <4>2 DEF Motion
        <4>. QED
          BY <1>2, <2>3, <3>3, <4>3, <4>4 DEF Effect, Idle, e
      <3>5. CASE c = OutputPower(o, want.power) \/ c = OutputSpeed(o, want.power)
        <4>1. c.op \in {"Power", "Speed"} /\ c.arg = want.power
          BY <3>5 DEF OutputPower, OutputSpeed, Cmd
        <4>2. e = [d EXCEPT !.power = c.arg]
          BY <1>1, <2>1, <3>2, <4>1, ObeyEffect
        <4>3. t # << >> /\ c # OutputPolarity(o, want.dir)
          BY <3>1, <4>1 DEF OutputStartEx, OutputPolarity, Cmd
        <4>4. e.dir = d.dir /\ e.power = want.power
          BY <2>1, <4>1, <4>2 DEF Motion
        <4>. QED
          BY <1>2, <2>3, <3>3, <4>3, <4>4 DEF Effect, Idle, e
      <3>6. CASE c = OutputReset(o) \/ c = OutputClearCount(o)
        <4>1. c.op \in {"Reset", "ClearCount"}
          BY <3>6 DEF OutputReset, OutputClearCount, Cmd
        <4>2. e = [d EXCEPT !.tacho = 0] \/ e = [d EXCEPT !.sensor = 0]
          BY <1>1, <2>1, <3>2, <4>1, ObeyEffect
        <4>3. /\ t # << >> /\ c # OutputPolarity(o, want.dir)
              /\ c # OutputPower(o, want.power) /\ c # OutputSpeed(o, want.power)
          BY <3>1, <4>1 DEF OutputStartEx, OutputPolarity, OutputPower, OutputSpeed, Cmd
        <4>4. e.dir = d.dir /\ e.power = d.power
          BY <2>1, <4>2 DEF Motion
        <4>. QED
          BY <1>2, <2>3, <3>3, <4>3, <4>4 DEF Effect, Idle, e
      <3>7. CASE c = OutputStartEx(o, OwnerNone)
        <4>1. c.op = "Start"
          BY <3>7 DEF OutputStartEx, Cmd
        <4>2. e = [d EXCEPT !.state = "run", !.busy = "no"]
          BY <1>1, <2>1, <3>2, <4>1, ObeyEffect
        <4>3. /\ c # OutputPolarity(o, want.dir)
              /\ c # OutputPower(o, want.power) /\ c # OutputSpeed(o, want.power)
          BY <4>1 DEF OutputPolarity, OutputPower, OutputSpeed, Cmd
        <4>4. e.dir = d.dir /\ e.power = d.power /\ e.state = "run" /\ e.busy = "no"
          BY <2>1, <4>2 DEF Motion
        <4>. QED
          BY <1>2, <2>3, <3>3, <4>3, <4>4 DEF Effect, Idle, e
      <3>. QED
        BY <3>1, <3>4, <3>5, <3>6, <3>7
    <2>4. CASE call.fn = "OnSync"
      <3>1. CASE t = << >>
        <4>1. c = OnwardSync(o, want.power)
          BY <1>1, <1>4, <1>6, <2>4, <3>1 DEF Shaped, SyncShape
        <4>2. c.op = "EndlessSync" /\ c.arg = want.power /\ c.outs = o
          BY <4>1 DEF OnwardSync, Cmd
        <4>3. e = [d EXCEPT !.state = "run", !.power = c.arg, !.busy = "endless"]
          BY <1>1, <2>1, <4>2, ObeyEffect
        <4>. HIDE DEF d, e
        <4>4. e.state = "run" /\ e.power = want.power /\ e.busy = "endless"
          BY <2>1, <4>2, <4>3 DEF Motion
        <4>. QED
          BY <1>2, <2>4, <4>4 DEF Effect, e
      <3>2. CASE t # << >>
        BY <1>2, <2>4, <3>2 DEF Effect, Idle
      <3>. QED
        BY <3>1, <3>2
    <2>5. CASE call.fn \in {"Off", "OnFor"}
      <3>. DEFINE r == want.reset
                  stop == OutputStop(o, 1)
                  reset == OutputReset(o)
                  clear == OutputClearCount(o)
      <3>1. /\ c.outs = o
            /\ c.op \in {"Power", "Reset", "ClearCount", "Start", "Sleep", "Stop"}
            /\ c.op = "Stop" => c = stop
            /\ c.op = "Start" => Later(script, 1, stop)
            /\ c.op \in {"Start", "Stop"} =>
                 /\ r \in {"COUNT", "ALL"} => Later(script, 1, reset)
                 /\ r \in {"ROTATION", "ALL"} => Later(script, 1, clear)
        BY <1>1, <1>4, <2>5 DEF Shaped, OffShape, c
      <3>2. e = Obey(c, d)
        BY <2>1, <3>1
      <3>3. /\ Pending(t, stop) \/ c = stop \/ (d.state = "rest" /\ d.busy = "no")
            /\ r \in {"COUNT", "ALL"} => Pending(t, reset) \/ c = reset \/ d.tacho = 0
            /\ r \in {"ROTATION", "ALL"} => Pending(t, clear) \/ c = clear \/ d.sensor = 0
        BY <1>3, <1>8, <2>5 DEF Effect
      <3>4. stop.op = "Stop" /\ stop.arg = 1 /\ reset.op = "Reset" /\ clear.op = "ClearCount"
        BY DEF OutputStop, OutputReset, OutputClearCount, Cmd
      <3>5. SUFFICES /\ Pending(t, stop) \/ (e.state = "rest" /\ e.busy = "no")
                     /\ r \in {"COUNT", "ALL"} => Pending(t, reset) \/ e.tacho = 0
                     /\ r \in {"ROTATION", "ALL"} => Pending(t, clear) \/ e.sensor = 0
        BY <1>2, <2>5 DEF Effect
      <3>. HIDE DEF d, e, stop, reset, clear, r
      <3>6. CASE c.op = "Stop"
        <4>0. c.arg = 1
          BY <3>1, <3>4, <3>6
        <4>1. e = [d EXCEPT !.state = "rest", !.busy = "no"]
          BY <1>1, <2>1, <3>2, <3>6, <4>0, ObeyEffect
        <4>2. e.state = "rest" /\ e.busy = "no"
          BY <2>1, <4>1 DEF Motion
        <4>. QED
          BY <1>3, <3>1, <3>6, <4>2
      <3>7. CASE c.op = "Start"
        BY <1>3, <3>1, <3>7
      <3>8. CASE c.op = "Power"
        <4>1. e = [d EXCEPT !.power = c.arg]
          BY <1>1, <2>1, <3>2, <3>8, ObeyEffect
        <4>2. e.state = d.state /\ e.busy = d.busy /\ e.tacho = d.tacho /\ e.sensor = d.sensor
          BY <2>1, <4>1 DEF Motion
        <4>. QED
          BY <3>3, <3>4, <3>8, <4>2
      <3>9. CASE c.op = "Reset"
        <4>1. e = [d EXCEPT !.tacho = 0]
          BY <1>1, <2>1, <3>2, <3>9, ObeyEffect
        <4>2. e.state = d.state /\ e.busy = d.busy /\ e.tacho = 0 /\ e.sensor = d.sensor
          BY <2>1, <4>1 DEF Motion
        <4>. QED
          BY <3>3, <3>4, <3>9, <4>2
      <3>10. CASE c.op = "ClearCount"
        <4>1. e = [d EXCEPT !.sensor = 0]
          BY <1>1, <2>1, <3>2, <3>10, ObeyEffect
        <4>2. e.state = d.state /\ e.busy = d.busy /\ e.tacho = d.tacho /\ e.sensor = 0
          BY <2>1, <4>1 DEF Motion
        <4>. QED
          BY <3>3, <3>4, <3>10, <4>2
      <3>11. c.op # "Sleep"
        BY <1>2 DEF Unwritten
      <3>. QED
        BY <3>1, <3>6, <3>7, <3>8, <3>9, <3>10, <3>11
    <2>6. CASE call.fn = "Float"
      <3>1. c \in {OutputStop(o, 0), OutputReset(o), OutputClearCount(o)}
        BY <1>1, <1>4, <2>6 DEF Shaped, FloatShape, c
      <3>2. /\ c.outs = o
            /\ \/ c = OutputStop(o, 0) /\ c.op = "Stop" /\ c.arg = 0
               \/ c # OutputStop(o, 0) /\ c.op = "Reset"
               \/ c # OutputStop(o, 0) /\ c.op = "ClearCount"
        BY <3>1 DEF OutputStop, OutputReset, OutputClearCount, Cmd
      <3>3. Pending(t, OutputStop(o, 0)) \/ c = OutputStop(o, 0) \/ d.state # "run"
        BY <1>3, <1>8, <2>6 DEF Effect
      <3>. HIDE DEF d, e
      <3>4. c.op = "Stop" /\ c.arg = 0 => e.state # "run"
        BY <1>1, <2>1, <3>2, ObeyEffect
      <3>5. c.op = "Reset" => e.state = d.state
        <4>1. c.op = "Reset" => e = [d EXCEPT !.tacho = 0]
          BY <1>1, <2>1, <3>2, ObeyEffect
        <4>. QED
          BY <2>1, <4>1 DEF Motion
      <3>6. c.op = "ClearCount" => e.state = d.state
        <4>1. c.op = "ClearCount" => e = [d EXCEPT !.sensor = 0]
          BY <1>1, <2>1, <3>2, ObeyEffect
        <4>. QED
          BY <2>1, <4>1 DEF Motion
      <3>7. Pending(t, OutputStop(o, 0)) \/ e.state # "run"
        BY <3>2, <3>3, <3>4, <3>5, <3>6
      <3>. QED
        BY <1>2, <2>6, <3>7 DEF Effect, e
    <2>7. CASE call.fn = "Rotate"
      <3>1. t # << >>
        BY <1>1, <1>2, <1>4, <1>6, <2>7 DEF Shaped, RotateShape, Unwritten, Cmd
      <3>. QED
        BY <1>2, <2>7, <3>1 DEF Effect, Idle
    <2>8. CASE call.fn \notin {"On", "OnSync", "Off", "OnFor", "Float", "Rotate"}
      BY <1>2, <2>8 DEF Effect
    <2>. QED
      BY <2>3, <2>4, <2>5, <2>6, <2>7, <2>8
  <1>9. \A m \in call'.outs.on : Effect(m)'
    BY <1>2, <1>8 DEF IInv, EffectInv
  <1>10. (call.fn = "Rotate" /\ Len(script') = 1) =>
           (OutputInitialized' /\ call.outs.layer = "master")
    BY <1>1, <1>2, <1>4, <1>7 DEF Shaped, RotateShape, c
  <1>11. call.fn = "SetType" => devType' = lib'.OutputTypes
    BY <1>1, <1>2, <1>4 DEF Shaped, TypeShape, c
  <1>. QED
    BY <1>2, <1>9, <1>10, <1>11 DEF EffectInv

LEMMA WrittenPreserves ==
  ASSUME IInv, ~Idle, Head(script).op \notin Unwritten, Written
  PROVE  IInv'
  <1>. DEFINE c == script[1]
  <1>1. /\ script \in Seq(Command) /\ Len(script) \in Nat \ {0} /\ Head(script) = c
        /\ c \in Command /\ Len(Tail(script)) = Len(script) - 1
    BY AtHand
  <1>2. /\ Accepted(c) /\ lib' = RecordLast(c, RecordFirst(c)) /\ script' = Tail(script)
        /\ dev' = [m \in Motor |-> IF m \in c.outs.on THEN Obey(c, dev[m]) ELSE dev[m]]
        /\ devType' = (IF c.op \in {"SetType", "SetTypes"} THEN lib'.OutputTypes ELSE devType)
        /\ lost' = (lost /\ c.op # "ResetOutputs")
        /\ fault' = (fault \/ (c.op = "ClearCount" /\ lib.pMotor = "shared" /\ ~os.mapped))
        /\ UNCHANGED <<os, call, ok, calls>> /\ c.op \notin Unwritten
    BY <1>1 DEF Written
  <1>3. TypeOK /\ Shaped(script, call) /\ NoStaleDevice /\ DeviceInv
    BY DEF IInv, ShapeInv
  <1>4. script' \in Seq(Command) /\ ShapeInv'
    BY <1>2, Advanced
  <1>. HIDE DEF c
  <1>5. /\ lib' \in Lib /\ lib'.PwmFile = lib.PwmFile /\ lib'.MotorFile = lib.MotorFile
        /\ lib'.pMotor = lib.pMotor
        /\ c.op = "ResetOutputs" => \A m \in Motor : lib'.Owners[m] = OwnerNone
    BY <1>1, <1>2, <1>3, Recorded DEF TypeOK
  <1>6. OutputInitialized /\ OutputInitialized'
    BY <1>2, <1>5 DEF Accepted, OutputInitialized
  <1>7. \A m \in Motor : Obey(c, dev[m]) \in Motion
    BY <1>1, <1>3, ObeyEffect DEF TypeOK
  <1>8. dev' \in [Motor -> Motion]
    BY <1>2, <1>3, <1>7 DEF TypeOK
  <1>9. fault' = fault
    BY <1>2, <1>3, <1>6 DEF TypeOK, NoStaleDevice
  <1>10. devType' \in [Motor -> Int]
    BY <1>2, <1>3, <1>5 DEF TypeOK, Lib
  <1>11. TypeOK'
    BY <1>2, <1>3, <1>4, <1>5, <1>8, <1>9, <1>10 DEF TypeOK
  <1>12. DeviceInv' /\ NoStaleDevice'
    BY <1>2, <1>3, <1>5, <1>6, <1>9 DEF DeviceInv, NoStaleDevice
  <1>13. StoppedAfterExit'
    BY <1>6 DEF StoppedAfterExit
  <1>14. ExitInv'
    <2>1. SUFFICES ASSUME call.fn = "OutputExit" PROVE Stopped'
      BY <1>2, <1>6 DEF ExitInv
    <2>2. c = Cmd("ResetOutputs", All, 0)
      BY <1>1, <1>2, <1>3, <2>1, ExitHead DEF Shaped, c
    <2>3. c.op = "ResetOutputs" /\ c.outs.on = Motor
      BY <2>2 DEF Cmd, All
    <2>4. \A m \in Motor : dev'[m] = Obey(c, dev[m])
      BY <1>2, <2>3
    <2>5. \A m \in Motor : Obey(c, dev[m]).state # "run"
      BY <1>1, <1>3, <2>3, ObeyEffect DEF TypeOK
    <2>. QED
      BY <1>5, <2>3, <2>4, <2>5 DEF Stopped
  <1>15. EffectInv'
    BY <1>2, WrittenEffect DEF EffectInv
  <1>. QED
    BY <1>4, <1>11, <1>12, <1>13, <1>14, <1>15 DEF IInv

LEMMA WriteFailsPreserves ==
  ASSUME IInv, ~Idle, Head(script).op \notin Unwritten, WriteFails
  PROVE  IInv'
  <1>. DEFINE c == script[1]
  <1>1. /\ script \in Seq(Command) /\ Len(script) \in Nat \ {0} /\ Head(script) = c
        /\ c \in Command /\ Len(Tail(script)) = Len(script) - 1
    BY AtHand
  <1>2. /\ Accepted(c) /\ lib' = RecordFirst(c) /\ script' = AfterFailure(c)
        /\ lost' = (lost \/ c.op = "ResetOutputs")
        /\ fault' = (fault \/ os.pwm = 0) /\ ok' = FALSE
        /\ UNCHANGED <<os, dev, devType, call, calls>> /\ c.op \notin Unwritten
    BY <1>1 DEF WriteFails
  <1>3. TypeOK /\ Shaped(script, call) /\ NoStaleDevice /\ DeviceInv
    BY DEF IInv, ShapeInv
  <1>4. script' \in {Tail(script), << >>, script}
    BY <1>2 DEF AfterFailure
  <1>5. script' \in Seq(Command) /\ ShapeInv'
    BY <1>2, <1>4, Advanced
  <1>. HIDE DEF c
  <1>6. /\ lib' \in Lib /\ lib'.PwmFile = lib.PwmFile /\ lib'.MotorFile = lib.MotorFile
        /\ lib'.pMotor = lib.pMotor
    BY <1>1, <1>2, <1>3, Recorded DEF TypeOK
  <1>7. OutputInitialized /\ OutputInitialized'
    BY <1>2, <1>6 DEF Accepted, OutputInitialized
  <1>8. os.pwm = 1
    BY <1>3, <1>7 DEF TypeOK, Lib, File, OutputInitialized, DeviceInv, NoStaleDevice
  <1>9. fault' = fault
    BY <1>2, <1>3, <1>8 DEF TypeOK
  <1>10. TypeOK'
    BY <1>2, <1>3, <1>5, <1>6, <1>9 DEF TypeOK
  <1>11. DeviceInv' /\ NoStaleDevice'
    BY <1>2, <1>3, <1>6, <1>7, <1>9 DEF DeviceInv, NoStaleDevice
  <1>12. StoppedAfterExit'
    BY <1>7 DEF StoppedAfterExit
  <1>13. ExitInv'
    <2>1. SUFFICES ASSUME call.fn = "OutputExit" PROVE lost'
      BY <1>2, <1>7 DEF ExitInv
    <2>2. c = Cmd("ResetOutputs", All, 0)
      BY <1>1, <1>2, <1>3, <2>1, ExitHead DEF Shaped, c
    <2>. QED
      BY <1>2, <2>2 DEF Cmd
  <1>14. EffectInv'
    BY <1>2 DEF EffectInv
  <1>. QED
    BY <1>5, <1>10, <1>11, <1>12, <1>13, <1>14 DEF IInv

LEMMA RefusedPreserves ==
  ASSUME IInv, ~Idle, Head(script).op \notin Unwritten, Refused
  PROVE  IInv'
  <1>. DEFINE c == script[1]
  <1>1. /\ script \in Seq(Command) /\ Len(script) \in Nat \ {0} /\ Head(script) = c
        /\ c \in Command
    BY AtHand
  <1>2. /\ ~Accepted(c) /\ ok' = FALSE /\ script' = AfterFailure(c)
        /\ UNCHANGED <<lib, os, dev, devType, call, calls, lost, fault>> /\ c.op \notin Unwritten
    BY <1>1 DEF Refused
  <1>3. TypeOK /\ Shaped(script, call) /\ ExitInv
    BY DEF IInv, ShapeInv
  <1>4. script' \in {Tail(script), << >>, script}
    BY <1>2 DEF AfterFailure
  <1>5. script' \in Seq(Command) /\ ShapeInv'
    BY <1>2, <1>4, Advanced
  <1>. HIDE DEF c
  <1>6. TypeOK'
    BY <1>2, <1>3, <1>5 DEF TypeOK
  <1>7. DeviceInv' /\ NoStaleDevice' /\ StoppedAfterExit'
    BY <1>2, DevicesKept
  <1>8. ExitInv'
    <2>1. SUFFICES ASSUME call.fn = "OutputExit" PROVE FALSE
      BY <1>2 DEF ExitInv
    <2>2. c = Cmd("ResetOutputs", All, 0)
      BY <1>1, <1>2, <1>3, <2>1, ExitHead DEF Shaped, c
    <2>3. OutputInitialized
      BY <1>3, <2>1 DEF ExitInv
    <2>. QED
      BY <1>2, <2>2, <2>3 DEF Accepted, Cmd, All
  <1>9. EffectInv'
    BY <1>2 DEF EffectInv
  <1>. QED
    BY <1>5, <1>6, <1>7, <1>8, <1>9 DEF IInv

LEMMA ClosePreserves ==
  ASSUME IInv, CloseDevices
  PROVE  IInv'
  <1>. DEFINE motor == lib.MotorFile # "closed"
              pwm == lib.PwmFile # "closed"
  <1>1. /\ ~Idle /\ Head(script).op = "CloseDevices"
        /\ os' = [os EXCEPT !.motor = IF motor /\ @ > 0 THEN @ - 1 ELSE @,
                            !.pwm = IF pwm /\ @ > 0 THEN @ - 1 ELSE @,
                            !.mapped = @ /\ ~motor]
        /\ fault' = (fault \/ (motor /\ os.motor = 0) \/ (pwm /\ os.pwm = 0))
        /\ lib' = [lib EXCEPT !.MotorFile = "closed", !.PwmFile = "closed"]
        /\ script' = Tail(script) /\ UNCHANGED <<dev, devType, call, ok, calls, lost>>
    BY DEF CloseDevices
  <1>2. /\ script \in Seq(Command) /\ Len(script) \in Nat \ {0} /\ Head(script) = script[1]
        /\ Len(Tail(script)) = Len(script) - 1 /\ 1 \in 1..Len(script)
        /\ (Tail(script) = << >> <=> Len(script) = 1)
    BY <1>1, AtHand
  <1>3. TypeOK /\ Shaped(script, call) /\ NoStaleDevice /\ DeviceInv /\ ExitInv
    BY DEF IInv, ShapeInv
  <1>4. call.fn = "OutputExit"
    BY <1>1, <1>2, <1>3 DEF Shaped, NoClose
  <1>5. Len(script) = 1
    BY <1>1, <1>2, <1>3, <1>4 DEF Shaped, ExitShape, Cmd
  <1>6. OutputInitialized /\ (lost \/ Stopped)
    BY <1>1, <1>3, <1>4, <1>5 DEF ExitInv
  <1>7. /\ lib.PwmFile = "open" /\ lib.MotorFile \in {"open", "closed"}
        /\ os.pwm = 1 /\ os.motor = (IF lib.MotorFile = "open" THEN 1 ELSE 0)
        /\ os.mapped = (lib.pMotor = "shared") /\ ~fault
    BY <1>3, <1>6 DEF TypeOK, Lib, File, OutputInitialized, DeviceInv, NoStaleDevice
  <1>8. /\ lib' \in Lib /\ lib'.MotorFile = "closed" /\ lib'.PwmFile = "closed"
        /\ lib'.pMotor = lib.pMotor /\ lib'.Owners = lib.Owners
    BY <1>1, <1>3 DEF TypeOK, Lib, File
  <1>9. os' = [pwm |-> 0, motor |-> 0, mapped |-> FALSE]
    <2>1. os \in [pwm : Nat, motor : Nat, mapped : BOOLEAN]
      BY <1>3 DEF TypeOK
    <2>2. /\ (IF motor /\ os.motor > 0 THEN os.motor - 1 ELSE os.motor) = 0
          /\ (IF pwm /\ os.pwm > 0 THEN os.pwm - 1 ELSE os.pwm) = 0
      BY <1>7
    <2>3. (os.mapped /\ ~motor) = FALSE
      BY <1>3, <1>7 DEF DeviceInv
    <2>4. os' = [pwm |-> IF pwm /\ os.pwm > 0 THEN os.pwm - 1 ELSE os.pwm,
                 motor |-> IF motor /\ os.motor > 0 THEN os.motor - 1 ELSE os.motor,
                 mapped |-> (os.mapped /\ ~motor)]
      BY <1>1, <2>1
    <2>. QED
      BY <2>2, <2>3, <2>4
  <1>18. os' \in [pwm : Nat, motor : Nat, mapped : BOOLEAN]
    BY <1>9
  <1>10. fault' = FALSE
    BY <1>1, <1>3, <1>7 DEF TypeOK, DeviceInv
  <1>11. script' \in Seq(Command) /\ ShapeInv'
    BY <1>1, Advanced
  <1>12. TypeOK'
    BY <1>1, <1>3, <1>8, <1>10, <1>11, <1>18 DEF TypeOK
  <1>13. ~OutputInitialized'
    BY <1>8 DEF OutputInitialized
  <1>14. DeviceInv' /\ NoStaleDevice'
    <2>1. lib.pMotor # "null"
      BY <1>6 DEF OutputInitialized
    <2>. QED
      BY <1>8, <1>9, <1>10, <1>13, <2>1 DEF DeviceInv, NoStaleDevice
  <1>15. StoppedAfterExit'
    BY <1>1, <1>6, <1>8 DEF StoppedAfterExit, Stopped
  <1>16. ExitInv'
    BY <1>1, <1>2, <1>5 DEF ExitInv, Idle
  <1>17. EffectInv'
    BY <1>1, <1>4 DEF EffectInv, Effect
  <1>. QED
    BY <1>11, <1>12, <1>14, <1>15, <1>16, <1>17 DEF IInv

\* The steps that write nothing: Sleep and the two ends of a wait.
LEMMA PausePreserves ==
  ASSUME IInv, Sleep \/ WaitTest \/ WaitTestFails
  PROVE  IInv'
  <1>. DEFINE c == script[1]
              t == Tail(script)
              o == call.outs
  <1>1. /\ ~Idle /\ Head(script).op \in {"Sleep", "WaitTest"} /\ script' \in {script, t}
        /\ UNCHANGED <<lib, os, dev, devType, call, calls, lost, fault>>
        /\ \/ ok' = FALSE
           \/ /\ ok' = ok /\ script' = t
              /\ Head(script).op = "WaitTest" => ~OutputTest(Head(script).outs)
    BY DEF Sleep, WaitTest, WaitTestFails
  <1>2. /\ script \in Seq(Command) /\ script # << >> /\ Len(script) \in Nat \ {0}
        /\ Head(script) = c /\ c \in Command /\ t \in Seq(Command)
        /\ Len(t) = Len(script) - 1 /\ (t = << >> <=> Len(script) = 1) /\ 1 \in 1..Len(script)
    BY <1>1, AtHand DEF Idle
  <1>3. TypeOK /\ Shaped(script, call) /\ EffectInv
    BY DEF IInv, ShapeInv
  <1>4. script' \in Seq(Command) /\ ShapeInv'
    BY <1>1, Advanced
  <1>5. TypeOK'
    BY <1>1, <1>3, <1>4 DEF TypeOK
  <1>6. /\ DeviceInv' /\ NoStaleDevice' /\ StoppedAfterExit'
        /\ OutputInitialized' = OutputInitialized
    BY <1>1, DevicesKept
  <1>7. t = << >> => c = script[Len(script)]
    BY <1>2
  <1>8. c.op \in {"Sleep", "WaitTest"}
    BY <1>1, <1>2
  <1>9. /\ call.fn # "OutputExit" /\ call.fn # "On" /\ call.fn # "Float" /\ call.fn # "SetType"
        /\ call.fn = "OnSync" => t # << >>
        /\ call.fn = "Rotate" => t = << >> /\ c = Cmd("WaitTest", o, 0)
    <2>1. ~ExitShape(script)
      BY <1>2, <1>8 DEF ExitShape, Cmd
    <2>2. ~OnShape(script, o, call.want)
      BY <1>2, <1>8 DEF OnShape, OutputPolarity, OutputPower, OutputSpeed, OutputReset,
                        OutputClearCount, OutputStartEx, Cmd
    <2>3. ~FloatShape(script, o)
      BY <1>2, <1>8 DEF FloatShape, OutputStop, OutputReset, OutputClearCount, Cmd
    <2>4. ~TypeShape(script)
      BY <1>2, <1>8 DEF TypeShape
    <2>5. SyncShape(script, o, call.want) => t # << >>
      BY <1>2, <1>7, <1>8 DEF SyncShape, OnwardSync, Cmd
    <2>6. RotateShape(script, o) => t = << >> /\ c = Cmd("WaitTest", o, 0)
      BY <1>2, <1>7, <1>8 DEF RotateShape
    <2>. QED
      BY <1>3, <2>1, <2>2, <2>3, <2>4, <2>5, <2>6 DEF Shaped
  <1>10. ExitInv'
    BY <1>1, <1>9 DEF ExitInv
  <1>11. EffectInv'
    <2>1. CASE ok' = FALSE
      BY <2>1 DEF EffectInv
    <2>2. CASE /\ ok' = ok /\ script' = t
               /\ Head(script).op = "WaitTest" => ~OutputTest(Head(script).outs)
      <3>1. SUFFICES ASSUME ok PROVE EffectInv'
        BY <2>2 DEF EffectInv
      <3>2. \A x : Pending(script, x) => c = x \/ Pending(t, x)
        BY <1>2, TailPending
      <3>. HIDE DEF c, t
      <3>3. ASSUME NEW m \in o.on PROVE Effect(m)'
        <4>1. Effect(m)
          BY <1>3, <3>1 DEF EffectInv
        <4>2. CASE call.fn \in {"Off", "OnFor"}
          <5>1. c # OutputStop(o, 1) /\ c # OutputReset(o) /\ c # OutputClearCount(o)
            BY <1>8 DEF OutputStop, OutputReset, OutputClearCount, Cmd
          <5>. QED
            BY <1>1, <2>2, <3>2, <4>1, <4>2, <5>1 DEF Effect
        <4>3. CASE call.fn = "Rotate"
          <5>1. c = Cmd("WaitTest", o, 0) /\ t = << >>
            BY <1>9, <4>3
          <5>2. c.op = "WaitTest" /\ c.outs = o
            BY <5>1 DEF Cmd
          <5>3. ~OutputTest(o)
            BY <1>2, <2>2, <5>2
          <5>4. OutputInitialized /\ o.layer = "master"
            BY <1>2, <1>3, <3>1, <4>3, <5>1 DEF EffectInv
          <5>5. dev[m].busy = "no"
            BY <5>3, <5>4 DEF OutputTest
          <5>. QED
            BY <1>1, <4>3, <5>5 DEF Effect
        <4>4. CASE call.fn = "OnSync"
          BY <1>1, <1>9, <2>2, <4>4 DEF Effect, Idle
        <4>5. CASE call.fn \notin {"Off", "OnFor", "Rotate", "OnSync"}
          BY <1>1, <1>9, <4>5 DEF Effect
        <4>. QED
          BY <4>2, <4>3, <4>4, <4>5
      <3>4. \A m \in call'.outs.on : Effect(m)'
        BY <1>1, <3>3
      <3>5. ~(call.fn = "Rotate" /\ Len(script') = 1)
        BY <1>2, <1>9, <2>2
      <3>. QED
        BY <1>1, <1>9, <3>4, <3>5 DEF EffectInv
    <2>. QED
      BY <1>1, <2>1, <2>2
  <1>. QED
    BY <1>4, <1>5, <1>6, <1>10, <1>11 DEF IInv

-----------------------------------------------------------------------------
(***************************************************************************)
(* The motors turn.                                                        *)
(***************************************************************************)

LEMMA TurnPreserves ==
  ASSUME IInv, NEW n \in Motor, Turn(n)
  PROVE  IInv'
  <1>1. /\ dev[n].state # "rest"
        /\ dev' = [dev EXCEPT ![n].tacho = 1, ![n].sensor = 1]
        /\ UNCHANGED <<lib, os, devType, call, script, ok, calls, lost, fault>>
    BY DEF Turn
  <1>2. TypeOK /\ Shaped(script, call) /\ EffectInv /\ ExitInv /\ dev \in [Motor -> Motion]
    BY DEF IInv, ShapeInv, TypeOK
  <1>3. dev' \in [Motor -> Motion]
    <2>1. [dev[n] EXCEPT !.tacho = 1, !.sensor = 1] \in Motion
      BY <1>2 DEF Motion
    <2>2. dev' = [dev EXCEPT ![n] = [dev[n] EXCEPT !.tacho = 1, !.sensor = 1]]
      BY <1>1, <1>2
    <2>. HIDE DEF Motion
    <2>. QED
      BY <1>2, <2>1, <2>2
  <1>4. \A m \in Motor : /\ dev'[m].state = dev[m].state /\ dev'[m].busy = dev[m].busy
                         /\ dev'[m].dir = dev[m].dir /\ dev'[m].power = dev[m].power
                         /\ \/ m = n
                            \/ dev'[m].tacho = dev[m].tacho /\ dev'[m].sensor = dev[m].sensor
    BY <1>1, <1>2 DEF Motion
  <1>5. TypeOK' /\ ShapeInv'
    BY <1>1, <1>2, <1>3 DEF TypeOK, ShapeInv
  <1>6. /\ DeviceInv' /\ NoStaleDevice' /\ StoppedAfterExit'
        /\ OutputInitialized' = OutputInitialized /\ (Stopped => Stopped')
    BY <1>1, <1>4, DevicesKept
  <1>7. ExitInv'
    BY <1>1, <1>2, <1>6 DEF ExitInv, Idle
  <1>8. EffectInv'
    <2>1. SUFFICES ASSUME ok PROVE EffectInv'
      BY <1>1 DEF EffectInv
    <2>2. ASSUME NEW m \in call.outs.on PROVE Effect(m)'
      <3>1. Effect(m) /\ m \in Motor
        BY <1>2, <2>1 DEF EffectInv, TypeOK, Outputs
      <3>2. CASE call.fn \in {"Off", "OnFor"}
        <4>. DEFINE o == call.outs
                    r == call.want.reset
        <4>1. Pending(script, OutputStop(o, 1)) =>
                /\ r \in {"COUNT", "ALL"} => Pending(script, OutputReset(o))
                /\ r \in {"ROTATION", "ALL"} => Pending(script, OutputClearCount(o))
          <5>1. SUFFICES ASSUME Pending(script, OutputStop(o, 1))
                         PROVE  /\ r \in {"COUNT", "ALL"} => Pending(script, OutputReset(o))
                                /\ r \in {"ROTATION", "ALL"} => Pending(script, OutputClearCount(o))
            OBVIOUS
          <5>2. PICK i \in 1..Len(script) : script[i] = OutputStop(o, 1)
            BY <5>1 DEF Pending
          <5>3. script[i].op = "Stop"
            BY <5>2 DEF OutputStop, Cmd
          <5>4. /\ r \in {"COUNT", "ALL"} => Later(script, i, OutputReset(o))
                /\ r \in {"ROTATION", "ALL"} => Later(script, i, OutputClearCount(o))
            BY <1>2, <3>2, <5>3 DEF Shaped, OffShape
          <5>5. \A c : Later(script, i, c) => Pending(script, c)
            BY DEF Later, Pending
          <5>. QED
            BY <5>4, <5>5
        <4>2. m = n => Pending(script, OutputStop(o, 1))
          BY <1>1, <3>1, <3>2 DEF Effect
        <4>. QED
          BY <1>1, <1>4, <3>1, <3>2, <4>1, <4>2 DEF Effect
      <3>3. CASE call.fn \notin {"Off", "OnFor"}
        BY <1>1, <1>4, <3>1, <3>3 DEF Effect, Idle
      <3>. QED
        BY <3>2, <3>3
    <2>. QED
      BY <1>1, <1>2, <1>6, <2>1, <2>2 DEF EffectInv, Idle
  <1>. QED
    BY <1>5, <1>6, <1>7, <1>8 DEF IInv

LEMMA RestPreserves ==
  ASSUME IInv, NEW n \in Motor, ComesToRest(n)
  PROVE  IInv'
  <1>1. /\ dev[n].state = "coast" \/ dev[n].busy = "steps"
        /\ dev' = [dev EXCEPT ![n].state = "rest", ![n].busy = "no"]
        /\ UNCHANGED <<lib, os, devType, call, script, ok, calls, lost, fault>>
    BY DEF ComesToRest
  <1>2. TypeOK /\ Shaped(script, call) /\ EffectInv /\ ExitInv /\ dev \in [Motor -> Motion]
    BY DEF IInv, ShapeInv, TypeOK
  <1>3. dev' \in [Motor -> Motion]
    <2>1. [dev[n] EXCEPT !.state = "rest", !.busy = "no"] \in Motion
      BY <1>2 DEF Motion
    <2>2. dev' = [dev EXCEPT ![n] = [dev[n] EXCEPT !.state = "rest", !.busy = "no"]]
      BY <1>1, <1>2
    <2>. QED
      BY <1>2, <2>1, <2>2
  <1>4. \A m \in Motor : /\ dev'[m].dir = dev[m].dir /\ dev'[m].power = dev[m].power
                         /\ dev'[m].tacho = dev[m].tacho /\ dev'[m].sensor = dev[m].sensor
                         /\ \/ m = n /\ dev'[m].state = "rest" /\ dev'[m].busy = "no"
                            \/ dev'[m].state = dev[m].state /\ dev'[m].busy = dev[m].busy
    BY <1>1, <1>2 DEF Motion
  <1>5. TypeOK' /\ ShapeInv'
    BY <1>1, <1>2, <1>3 DEF TypeOK, ShapeInv
  <1>6. /\ DeviceInv' /\ NoStaleDevice' /\ StoppedAfterExit'
        /\ OutputInitialized' = OutputInitialized /\ (Stopped => Stopped')
    BY <1>1, <1>4, DevicesKept
  <1>7. ExitInv'
    BY <1>1, <1>2, <1>6 DEF ExitInv, Idle
  <1>8. EffectInv'
    <2>1. SUFFICES ASSUME ok PROVE EffectInv'
      BY <1>1 DEF EffectInv
    <2>2. ASSUME NEW m \in call.outs.on PROVE Effect(m)'
      <3>1. Effect(m) /\ m \in Motor
        BY <1>2, <2>1 DEF EffectInv, TypeOK, Outputs
      <3>2. (call.fn \in {"On", "OnSync"} /\ Idle) =>
              dev'[m].state = dev[m].state /\ dev'[m].busy = dev[m].busy
        BY <1>1, <1>4, <3>1 DEF Effect
      <3>. QED
        BY <1>1, <1>4, <3>1, <3>2, ZenonT(30) DEF Effect, Idle
    <2>. QED
      BY <1>1, <1>2, <1>6, <2>1, <2>2 DEF EffectInv, Idle
  <1>. QED
    BY <1>5, <1>6, <1>7, <1>8 DEF IInv

-----------------------------------------------------------------------------
(***************************************************************************)
(* Every step.                                                             *)
(***************************************************************************)

LEMMA InitEstablishes == Init => IInv
  <1>. SUFFICES ASSUME Init PROVE IInv
    OBVIOUS
  <1>1. /\ script = << >> /\ Len(script) = 0 /\ script \in Seq(Command)
        /\ call = [fn |-> "none", outs |-> All, want |-> Nothing]
    BY EmptySeq DEF Init
  <1>2. call.fn = "none" /\ call \in [fn : Calls, outs : Outputs, want : Wanted]
    BY <1>1, AllOutputs, NothingWanted DEF Calls
  <1>3. lib \in Lib /\ os \in [pwm : Nat, motor : Nat, mapped : BOOLEAN]
    BY DEF Init, Lib, File, OwnerNone
  <1>4. dev \in [Motor -> Motion] /\ devType \in [Motor -> Int]
    BY DEF Init, Motion
  <1>5. TypeOK
    <2>1. calls \in 0..MaxCalls
      BY MotorsAssumption DEF Init, MotorsAssumption
    <2>2. ok \in BOOLEAN /\ lost \in BOOLEAN /\ fault \in BOOLEAN
      BY DEF Init
    <2>. QED
      BY <1>1, <1>2, <1>3, <1>4, <2>1, <2>2 DEF TypeOK
  <1>6. ShapeInv
    BY <1>1, <1>2, EmptyShaped DEF ShapeInv
  <1>7. DeviceInv /\ NoStaleDevice
    BY DEF Init, DeviceInv, NoStaleDevice, OutputInitialized
  <1>8. StoppedAfterExit
    BY DEF Init, StoppedAfterExit
  <1>9. ExitInv /\ EffectInv
    BY <1>1, <1>2 DEF ExitInv, EffectInv, Effect
  <1>. QED
    BY <1>5, <1>6, <1>7, <1>8, <1>9 DEF IInv

LEMMA DrivePreserves ==
  ASSUME IInv, Drive
  PROVE  IInv'
  <1>0. /\ Targets \subseteq Outputs /\ Directions \subseteq {1, -1} /\ Powers \subseteq Int
        /\ DefaultPower \in Int /\ Resets \subseteq ResetArgs
    BY MotorsAssumption DEF MotorsAssumption, Outputs, ResetArgs
  <1>1. PICK o \in Targets, p \in Powers :
       \/ \E dir \in Directions, r \in Resets :
             \/ OnDirEx(o, dir, p, r)
             \/ OnDirEx(o, dir, DefaultPower, r)
             \/ OnDirRegEx(o, dir, p, r)
             \/ OnDirSyncEx(o, dir, p, r)
       \/ \E r \in Resets : OffEx(o, r) \/ FloatEx(o, r) \/ OnForEx(o, p, r)
       \/ \E sync \in BOOLEAN : \/ RotateMotorNoWaitEx(o, p, sync)
                                \/ RotateMotorEx(o, p, sync)
       \/ Toggle(o) \/ OnForSyncEx(o, p)
       \/ \E c \in {OutputStartEx(o, OwnerNone + 1), OutputTimePowerEx(o, p),
                   OutputStepPowerEx(o, p), OutputTimeSpeedEx(o, p)} : Plain(<<c>>)
    BY DEF Drive
  <1>2. o \in Outputs /\ p \in Int
    BY <1>0
  <1>3. ASSUME NEW dir \in Directions, NEW r \in Resets, NEW q \in Powers \cup {DefaultPower},
               OnDirEx(o, dir, q, r)
        PROVE  IInv'
    <2>1. dir \in {1, -1} /\ r \in ResetArgs /\ q \in Int
      BY <1>0
    <2>2. /\ SetPowerUnlessDefault(o, q) \in Seq(Command)
          /\ \A i \in 1..Len(SetPowerUnlessDefault(o, q)) :
               SetPowerUnlessDefault(o, q)[i] = OutputPower(o, q)
          /\ q = DefaultPower \/ Pending(SetPowerUnlessDefault(o, q), OutputPower(o, q))
      BY <1>2, <2>1, PowerCommands
    <2>3. WellFormed("On", o, Want(dir, q, "NONE"),
                     SetDirection(o, dir) \o SetPowerUnlessDefault(o, q)
                       \o SetOutputEx(o, "ON", r))
      BY <1>2, <2>1, <2>2, OnWellFormed
    <2>. QED
      BY <1>3, <2>3, CallPreserves DEF OnDirEx
  <1>4. ASSUME NEW dir \in Directions, NEW r \in Resets, OnDirRegEx(o, dir, p, r)
        PROVE  IInv'
    <2>1. dir \in {1, -1} /\ r \in ResetArgs
      BY <1>0
    <2>2. /\ <<OutputSpeed(o, p)>> \in Seq(Command) /\ Len(<<OutputSpeed(o, p)>>) = 1
          /\ <<OutputSpeed(o, p)>>[1] = OutputSpeed(o, p)
      BY <1>2, OneCommand DEF OutputSpeed, Ops
    <2>3. Pending(<<OutputSpeed(o, p)>>, OutputSpeed(o, p))
      BY <2>2 DEF Pending
    <2>4. \A i \in 1..Len(<<OutputSpeed(o, p)>>) :
            <<OutputSpeed(o, p)>>[i] \in {OutputPower(o, p), OutputSpeed(o, p)}
      BY <2>2
    <2>5. WellFormed("On", o, Want(dir, p, "NONE"),
                     SetDirection(o, dir) \o <<OutputSpeed(o, p)>> \o SetOutputEx(o, "ON", r))
      BY <1>2, <2>1, <2>2, <2>3, <2>4, OnWellFormed
    <2>. QED
      BY <1>4, <2>5, CallPreserves DEF OnDirRegEx
  <1>5. ASSUME NEW dir \in Directions, NEW r \in Resets, OnDirSyncEx(o, dir, p, r)
        PROVE  IInv'
    <2>1. dir \in {1, -1} /\ r \in ResetArgs
      BY <1>0
    <2>2. WellFormed("OnSync", o, Want(dir, dir * p, "NONE"),
                     ResetCount(o, r) \o <<OnwardSync(o, dir * p)>>)
      BY <1>2, <2>1, OnSyncWellFormed
    <2>. QED
      BY <1>5, <2>2, CallPreserves DEF OnDirSyncEx
  <1>6. ASSUME NEW r \in Resets, OffEx(o, r) \/ FloatEx(o, r) \/ OnForEx(o, p, r)
        PROVE  IInv'
    <2>1. r \in ResetArgs
      BY <1>0
    <2>2. CASE OffEx(o, r)
      BY <1>2, <2>1, <2>2, OffWellFormed, CallPreserves DEF OffEx
    <2>3. CASE FloatEx(o, r)
      BY <1>2, <2>1, <2>3, FloatWellFormed, CallPreserves DEF FloatEx
    <2>4. CASE OnForEx(o, p, r)
      BY <1>2, <2>1, <2>4, OnForWellFormed, CallPreserves DEF OnForEx
    <2>. QED
      BY <1>6, <2>2, <2>3, <2>4
  <1>7. ASSUME NEW sync \in BOOLEAN,
               RotateMotorNoWaitEx(o, p, sync) \/ RotateMotorEx(o, p, sync)
        PROVE  IInv'
    <2>1. CASE RotateMotorNoWaitEx(o, p, sync)
      <3>1. WellFormed("other", All, Nothing, RotateMotorNoWait(o, p, sync))
        BY <1>2, RotateWellFormed, PlainWellFormed
      <3>. QED
        BY <2>1, <3>1, CallPreserves DEF RotateMotorNoWaitEx, Plain
    <2>2. CASE RotateMotorEx(o, p, sync)
      BY <1>2, <2>2, RotateWellFormed, CallPreserves DEF RotateMotorEx
    <2>. QED
      BY <1>7, <2>1, <2>2
  <1>8. ASSUME NEW op \in Ops \ {"CloseDevices"}, NEW a \in Int, Plain(<<Cmd(op, o, a)>>)
        PROVE  IInv'
    <2>1. WellFormed("other", All, Nothing, <<Cmd(op, o, a)>>)
      BY <1>2, OneNoClose, PlainWellFormed
    <2>. QED
      BY <1>8, <2>1, CallPreserves DEF Plain
  <1>9. CASE Toggle(o) \/ OnForSyncEx(o, p)
    <2>1. Plain(<<Cmd("Polarity", o, 0)>>) \/ Plain(<<Cmd("TimeSync", o, p)>>)
      BY <1>9 DEF Toggle, OnForSyncEx, SetDirection, OutputPolarity, OutputTimeSyncEx
    <2>2. /\ "Polarity" \in Ops \ {"CloseDevices"} /\ "TimeSync" \in Ops \ {"CloseDevices"}
          /\ 0 \in Int
      BY DEF Ops
    <2>. QED
      BY <1>2, <1>8, <2>1, <2>2
  <1>10. CASE \E c \in {OutputStartEx(o, OwnerNone + 1), OutputTimePowerEx(o, p),
                        OutputStepPowerEx(o, p), OutputTimeSpeedEx(o, p)} : Plain(<<c>>)
    <2>1. \/ Plain(<<Cmd("Start", o, 1)>>) \/ Plain(<<Cmd("Time", o, p)>>)
          \/ Plain(<<Cmd("Step", o, p)>>)
      BY <1>10 DEF OutputStartEx, OutputTimePowerEx, OutputStepPowerEx, OutputTimeSpeedEx,
                   OwnerNone
    <2>2. /\ "Start" \in Ops \ {"CloseDevices"} /\ "Time" \in Ops \ {"CloseDevices"}
          /\ "Step" \in Ops \ {"CloseDevices"} /\ 1 \in Int
      BY DEF Ops
    <2>. QED
      BY <1>2, <1>8, <2>1, <2>2
  <1>. QED
    BY <1>1, <1>3, <1>4, <1>5, <1>6, <1>7, <1>9, <1>10

LEMMA ConfigurePreserves ==
  ASSUME IInv, Configure
  PROVE  IInv'
  <1>0. Targets \subseteq Outputs /\ Types \subseteq Int
    BY MotorsAssumption DEF MotorsAssumption, Outputs
  <1>1. ASSUME NEW o \in Outputs, NEW t \in Types, NEW op \in {"SetType", "SetTypes"},
               Call("SetType", o, Nothing, <<Cmd(op, o, t)>>)
        PROVE  IInv'
    <2>1. WellFormed("SetType", o, Nothing, <<Cmd(op, o, t)>>)
      BY <1>0, TypeWellFormed
    <2>. QED
      BY <1>1, <2>1, CallPreserves
  <1>2. CASE \E o \in Targets, t \in Types :
               Call("SetType", o, Nothing, <<OutputSetType(o, t)>>)
    BY <1>0, <1>1, <1>2 DEF OutputSetType
  <1>3. CASE \E t \in Types : Call("SetType", All, Nothing, <<OutputSetTypes(t)>>)
    BY <1>1, <1>3, AllOutputs DEF OutputSetTypes
  <1>4. CASE Plain(<<OutputProgramStop>>)
    <2>1. "ProgramStop" \in Ops \ {"CloseDevices"} /\ 0 \in Int
      BY DEF Ops
    <2>2. WellFormed("other", All, Nothing, <<OutputProgramStop>>)
      BY <2>1, OneNoClose, AllOutputs, PlainWellFormed DEF OutputProgramStop
    <2>. QED
      BY <1>4, <2>2, CallPreserves DEF Plain
  <1>5. CASE \E m \in Motor : MotorTachoCount(m)
    BY <1>5, TachoPreserves
  <1>. QED
    BY <1>2, <1>3, <1>4, <1>5 DEF Configure

LEMMA LifecyclePreserves ==
  ASSUME IInv, Lifecycle
  PROVE  IInv'
  <1>1. CASE OutputInit
    BY <1>1, InitPreserves
  <1>2. CASE OutputOpen
    <2>1. WellFormed("OutputOpen", All, Nothing, OpenCommands)
      BY OpenWellFormed, PlainWellFormed
    <2>. QED
      BY <1>2, <2>1, CallPreserves DEF OutputOpen
  <1>3. CASE OutputClose
    <2>1. "ResetOutputs" \in Ops \ {"CloseDevices"} /\ 0 \in Int
      BY DEF Ops
    <2>2. WellFormed("OutputClose", All, Nothing, <<Cmd("ResetOutputs", All, 0)>>)
      BY <2>1, OneNoClose, AllOutputs, PlainWellFormed
    <2>. QED
      BY <1>3, <2>2, CallPreserves DEF OutputClose
  <1>4. CASE OutputExit
    BY <1>4, ExitPreserves
  <1>. QED
    BY <1>1, <1>2, <1>3, <1>4 DEF Lifecycle

LEMMA NextPreserves == IInv /\ [Next]_vars => IInv'
  <1>. SUFFICES ASSUME IInv, [Next]_vars PROVE IInv'
    OBVIOUS
  <1>1. CASE Lifecycle
    BY <1>1, LifecyclePreserves
  <1>2. CASE Drive
    BY <1>2, DrivePreserves
  <1>3. CASE Configure
    BY <1>3, ConfigurePreserves
  <1>4. CASE WriteToPWMDevice
    BY <1>4, RefusedPreserves, WrittenPreserves, WriteFailsPreserves DEF WriteToPWMDevice
  <1>5. CASE CloseDevices
    BY <1>5, ClosePreserves
  <1>6. CASE Sleep \/ WaitTest \/ WaitTestFails
    BY <1>6, PausePreserves
  <1>7. CASE \E m \in Motor : Turn(m) \/ ComesToRest(m)
    BY <1>7, TurnPreserves, RestPreserves
  <1>8. CASE UNCHANGED vars
    <2>1. /\ lib' = lib /\ os' = os /\ dev' = dev /\ devType' = devType /\ call' = call
          /\ script' = script /\ ok' = ok /\ calls' = calls /\ lost' = lost /\ fault' = fault
      BY <1>8 DEF vars
    <2>. QED
      BY <2>1 DEF IInv, TypeOK, ShapeInv, DeviceInv, NoStaleDevice, StoppedAfterExit,
                  ExitInv, EffectInv, Effect, Stopped, Idle, OutputInitialized
  <1>. QED
    BY <1>1, <1>2, <1>3, <1>4, <1>5, <1>6, <1>7, <1>8 DEF Next, Proceed

LEMMA Invariant == Spec => []IInv
  <1>. QED
    BY InitEstablishes, NextPreserves, PTL DEF Spec

-----------------------------------------------------------------------------
(***************************************************************************)
(* What the motor library guarantees.                                      *)
(***************************************************************************)

\* However initialisations fail half way, are repeated and alternate with
\* OutputExit: a descriptor is open exactly if OutputInstance records it, the
\* shared memory is mapped exactly while it is used, and no command, close or
\* read of the counters ever touches a closed or unmapped one.
THEOREM DevicesInStep == Spec => []NoStaleDevice
  <1>1. IInv => NoStaleDevice
    BY DEF IInv
  <1>. QED
    BY <1>1, Invariant, PTL

\* Once OutputExit has run no motor is driven and none has an owner, unless
\* the write that stops them failed.
THEOREM ExitStopsMotors == Spec => []StoppedAfterExit
  <1>1. IInv => StoppedAfterExit
    BY DEF IInv
  <1>. QED
    BY <1>1, Invariant, PTL

\* A call whose commands all went through has done what its name says when it
\* returns, although the motors turn and come to rest between its commands.
THEOREM CallsDoWhatTheySay == Spec => []CallsTakeEffect
  <1>1. IInv => CallsTakeEffect
    <2>. SUFFICES ASSUME IInv, Idle, ok, NEW m \in call.outs.on
                  PROVE  CASE call.fn = "On"       -> On(m, call.want)
                           [] call.fn \in {"Off", "OnFor"} -> Off(m, call.want.reset)
                           [] call.fn = "Float"    -> dev[m].state # "run"
                           [] call.fn = "Rotate"   -> dev[m].busy = "no"
                           [] call.fn = "OnSync"   -> /\ dev[m].state = "run"
                                                      /\ dev[m].power = call.want.power
                           [] call.fn = "SetType"  -> devType = lib.OutputTypes
                           [] OTHER -> TRUE
      BY DEF CallsTakeEffect
    <2>1. Effect(m) /\ (call.fn = "SetType" => devType = lib.OutputTypes)
      BY DEF IInv, EffectInv
    <2>2. \A c : ~Pending(script, c)
      BY EmptySeq DEF Idle, Pending
    <2>3. CASE call.fn = "On"
      BY <2>1, <2>2, <2>3 DEF Effect, On
    <2>4. CASE call.fn \in {"Off", "OnFor"}
      <3>1. Off(m, call.want.reset)
        BY <2>1, <2>2, <2>4 DEF Effect, Off
      <3>. QED
        BY <2>4, <3>1
    <2>5. CASE call.fn \in {"Float", "Rotate", "OnSync", "SetType"}
      BY <2>1, <2>2, <2>5 DEF Effect
    <2>6. CASE call.fn \notin {"On", "Off", "OnFor", "Float", "Rotate", "OnSync", "SetType"}
      BY <2>6
    <2>. QED
      BY <2>3, <2>4, <2>5, <2>6
  <1>. QED
    BY <1>1, Invariant, PTL
=============================================================================
