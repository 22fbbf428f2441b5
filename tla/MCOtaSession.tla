---------------------------- MODULE MCOtaSession ----------------------------
(* Instances of OtaSession for TLC.                                        *)
EXTENDS OtaSession

CONSTANTS one, two      \* images

\* Every image takes one data frame.
OneSize == [i \in Image |-> 1]

\* An image of two data frames, and one of a single frame.
TwoSizes == [i \in Image |-> IF i = one THEN 1 ELSE 2]
=============================================================================
