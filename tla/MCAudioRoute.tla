---------------------------- MODULE MCAudioRoute ----------------------------
(* TLC instances of AudioRoute; the priorities are the program's.             *)
EXTENDS AudioRoute

MCThread == {"bt", "rx", "ctl"}
MCPriority == [bt |-> 9, rx |-> 13, ctl |-> 19]
MCNone == {}
MCCalls == {"8k", "16k"}
MCOneCall == {"16k"}
=============================================================================
