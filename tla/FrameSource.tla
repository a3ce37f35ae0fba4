---------------------------- MODULE FrameSource -----------------------------
(* What the transmitter promises, without schedules, interrupts and threads:
   while a frame is loaded it is shown run by run, whole, again and again, with
   at least NrPulses pulses in front of it each time; a build that is not
   INFINITE unloads it after exactly NumberOfMessages times. *)
EXTENDS Naturals, Sequences

CONSTANTS Frames, NumberOfMessages, Infinite, NrPulses

VARIABLES
    frame,   \* the frame loaded, or <<>>
    sent,    \* the bits shown of the last frame
    shown,   \* whole frames shown since one was loaded, counted up to one more
             \* than NumberOfMessages
    pulses   \* since the last bit, counted up to one more than NrPulses

vars == <<frame, sent, shown, pulses>>

Init == frame = <<>> /\ sent = <<>> /\ shown = 0 /\ pulses = 0

Between == sent \in Frames \cup {<<>>}

Load ==
    /\ frame = <<>>
    /\ frame' \in Frames
    /\ shown' = 0
    /\ UNCHANGED <<sent, pulses>>

Unload ==
    /\ ~Infinite /\ shown = NumberOfMessages /\ sent = frame
    /\ frame' = <<>>
    /\ pulses' \in {pulses, pulses + 1}
    /\ UNCHANGED <<sent, shown>>

Pulse ==
    /\ Between
    /\ pulses <= NrPulses
    /\ pulses' = pulses + 1
    /\ UNCHANGED <<frame, sent, shown>>

\* The longest run of equal bits from one bit on comes on the light.
ShowFrom(from) ==
    \E to \in from..Len(frame) :
        /\ \A k \in from..to : frame[k] = frame[from]
        /\ to < Len(frame) => frame[to + 1] # frame[to]
        /\ sent' = SubSeq(frame, 1, to)
        /\ shown' = IF to = Len(frame) /\ shown <= NumberOfMessages THEN shown + 1 ELSE shown
        /\ pulses' = 0
        /\ UNCHANGED frame

Start == Between /\ pulses >= NrPulses /\ ShowFrom(1)

Continue ==
    /\ Len(sent) < Len(frame) /\ sent = SubSeq(frame, 1, Len(sent))
    /\ ShowFrom(Len(sent) + 1)

Next == Load \/ Unload \/ Pulse \/ Start \/ Continue

Spec == Init /\ [][Next]_vars
=============================================================================
