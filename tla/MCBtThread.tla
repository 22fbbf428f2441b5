----------------------------- MODULE MCBtThread -----------------------------
(* TLC instances of BtThread; the priorities are the program's.               *)
EXTENDS BtThread

MCThread == {"h4", "bt", "ota", "ctl"}
MCPriority == [h4 |-> 8, bt |-> 9, ota |-> 10, ctl |-> 19]
MCNode == {"rx", "tx", "spp", "cmd", "vol"}

\* A phone that sends data over SPP, one that plays music with its own volume,
\* one whose volume is absolute.  One at a time keeps the instance small: the
\* posters share nothing but the list, where each meets h4 and bt.
MCProfiles == {{"spp"}, {"keys"}, {"volume"}}
MCKeysOnly == {{"keys"}}
=============================================================================
