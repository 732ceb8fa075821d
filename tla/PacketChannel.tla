---------------------------- MODULE PacketChannel ----------------------------
(***************************************************************************)
(* What the commands take ev3_read_timeout for: the receiving end of a     *)
(* queue of packets.  A call takes the oldest packet, or nothing.  A line  *)
(* that has ended may lose packets, and yields at most one remnant of a    *)
(* packet, as the last thing that is ever read from it.  Nothing is        *)
(* promised of a channel that is broken, until it is opened anew.          *)
(***************************************************************************)
EXTENDS Naturals, Sequences

CONSTANT Packets

VARIABLES
  queue,    \* packets that were sent and can still be read
  result,   \* what the last call read; empty if that was nothing
  line,     \* "up", "ended", or "dry" once it has nothing more to yield
  broken    \* the channel is closed, or packet borders are lost

vars == <<queue, result, line, broken>>

Init == queue = << >> /\ result = << >> /\ line = "up" /\ broken = TRUE

\* An ended line may turn out to be dry with any step.
Wane == line' = line \/ (line = "ended" /\ line' = "dry")

Put ==
  /\ line = "up"
  /\ \E p \in Packets : queue' = Append(queue, p)
  /\ UNCHANGED <<result, line, broken>>

Take ==
  /\ queue # << >>
  /\ result' = Head(queue)
  /\ queue' = Tail(queue)
  /\ Wane
  /\ UNCHANGED broken

Nothing == result' = << >> /\ Wane /\ UNCHANGED <<queue, broken>>

End ==
  /\ line = "up" /\ line' \in {"ended", "dry"}
  /\ \E n \in 0 .. Len(queue) : queue' = SubSeq(queue, 1, n)
  /\ UNCHANGED <<result, broken>>

Remnant ==
  /\ queue = << >>
  /\ line = "ended" /\ line' = "dry"
  /\ UNCHANGED <<queue, broken>>

Break == broken' = TRUE

Open ==
  /\ broken = TRUE /\ broken' = FALSE
  /\ line' = "up" /\ queue' = << >> /\ result' = << >>

Next == Put \/ Take \/ Nothing \/ End \/ Remnant \/ Break \/ Open

Spec == Init /\ [][Next]_vars
=============================================================================
