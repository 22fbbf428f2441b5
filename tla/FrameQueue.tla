----------------------------- MODULE FrameQueue -----------------------------
(* What the audio mixer promises its writers, whatever its rings do: the      *)
(* frames of a source are played in the order they were written, each at most *)
(* once; when a source falls behind, the oldest frames are given up; a source *)
(* that was switched off plays nothing of what it was given before.           *)
EXTENDS Naturals, Sequences

CONSTANTS Source, Capacity, Silence,
          Pcm   \* what may be written at once

VARIABLES queue,   \* the frames each source has still to play
          on,      \* the sources that are switched on
          out      \* the frame played last, by source

vars == <<queue, on, out>>

Init ==
    /\ queue = [s \in Source |-> <<>>]
    /\ on = {}
    /\ out = [s \in Source |-> Silence]

Newest(q, n) == IF Len(q) > n THEN SubSeq(q, Len(q) - n + 1, Len(q)) ELSE q

SwitchOn(s) ==
    /\ s \notin on
    /\ on' = on \union {s}
    /\ queue' = [queue EXCEPT ![s] = <<>>]
    /\ UNCHANGED out

SwitchOff(S) ==
    /\ on' = on \ S
    /\ queue' = [s \in Source |-> IF s \in S THEN <<>> ELSE queue[s]]
    /\ UNCHANGED out

Put(s, pcm) ==
    /\ s \in on
    /\ queue' = [queue EXCEPT ![s] = Newest(@ \o pcm, Capacity[s])]
    /\ UNCHANGED <<on, out>>

Plays(s) == s \in on /\ queue[s] # <<>>

Play ==
    /\ out' = [s \in Source |-> IF Plays(s) THEN Head(queue[s]) ELSE Silence]
    /\ queue' = [s \in Source |-> IF Plays(s) THEN Tail(queue[s]) ELSE queue[s]]
    /\ UNCHANGED on

Next ==
    \/ Play
    \/ \E s \in Source : SwitchOn(s) \/ \E pcm \in Pcm : Put(s, pcm)
    \/ \E S \in SUBSET Source : SwitchOff(S)

Spec == Init /\ [][Next]_vars
=============================================================================
