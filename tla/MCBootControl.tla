--------------------------- MODULE MCBootControl ---------------------------
EXTENDS BootControl, TLC

CONSTANTS s1, s2    \* two control statuses, as model values

MCStatus == {s1, s2}
=============================================================================
