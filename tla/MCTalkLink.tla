----------------------------- MODULE MCTalkLink -----------------------------
(* The instance of TalkLink: the times of the key in polls, in the order the  *)
(* code's have (20, 250, 800 ms), and blocks of one sample.                   *)
EXTENDS TalkLink
=============================================================================
