---------------------------- MODULE MCMixerRing ----------------------------
(* TLC instances of MixerRing: rings short enough to wrap many times.         *)
EXTENDS MixerRing

MCCapacity == [background |-> 3, voice |-> 2]
MCWatermark == [background |-> 2, voice |-> 1]

\* Shorter than a ring, as long, and longer.
MCPcm == {<<1>>, <<0, 1>>, <<1, 1, 0>>, <<1, 0, 0, 1>>}
=============================================================================
