------------------------------ MODULE Keyboard ------------------------------
(* One key of the keyboard driver (keyboard_driver.c), polled: debounced,      *)
(* then told apart into a click, a double click and a long press.  Times are  *)
(* in polls.  PRESS, RELEASE and REPEAT, which no callback of the firmware    *)
(* looks at, are left out, and press_ms is not counted past a long press.     *)
EXTENDS Naturals

CONSTANTS Debounce, LongPress, DoubleClick

\* What the times have to be (keyboard_config.h:24-42).
Times == Debounce \in Nat \ {0} /\ LongPress \in Nat \ {0} /\ DoubleClick \in Nat \ {0, 1}

Key == [raw : BOOLEAN, debounce : 0..Debounce, stable : BOOLEAN,
        press : 0..LongPress, long : BOOLEAN, clicked : BOOLEAN, wait : 0..DoubleClick]

Released == [raw |-> FALSE, debounce |-> 0, stable |-> FALSE,
             press |-> 0, long |-> FALSE, clicked |-> FALSE, wait |-> 0]

\* Mutant: debounce_ms counts on.
SampledOn(k, raw) ==
    IF raw # k.raw THEN [k EXCEPT !.raw = raw, !.debounce = 0]
    ELSE [k EXCEPT !.debounce = @ + 1]

Sampled(k, raw) ==
    IF raw # k.raw THEN [k EXCEPT !.raw = raw, !.debounce = 0]
    ELSE IF k.debounce < Debounce THEN [k EXCEPT !.debounce = @ + 1]
    ELSE k

Settles(k) == k.debounce >= Debounce /\ k.stable # k.raw

\* The key was let go: the end of a long press, a second click, or a first.
LetGo(k) ==
    [k EXCEPT !.stable = FALSE, !.press = 0, !.long = FALSE,
              !.clicked = ~k.long /\ ~k.clicked, !.wait = 0]

Settled(k) ==
    IF ~Settles(k) THEN k
    ELSE IF k.raw THEN [k EXCEPT !.stable = TRUE, !.press = 0, !.long = FALSE]
    ELSE LetGo(k)

Elapsed(k) ==
    IF k.stable
    THEN [k EXCEPT !.press = IF @ < LongPress THEN @ + 1 ELSE @,
                   !.long = @ \/ k.press + 1 >= LongPress]
    ELSE IF ~k.clicked THEN k
    ELSE IF k.wait + 1 >= DoubleClick THEN [k EXCEPT !.clicked = FALSE, !.wait = 0]
    ELSE [k EXCEPT !.wait = @ + 1]

Polled(k, raw) == Elapsed(Settled(Sampled(k, raw)))

\* What keyboard_poll reports of it: at most one of these.
Reported(k, raw) ==
    LET s == Sampled(k, raw)
        t == Settled(s)
    IN  CASE Settles(s) /\ ~s.raw /\ s.long -> "longRelease"
          [] Settles(s) /\ ~s.raw /\ ~s.long /\ s.clicked -> "double"
          [] t.stable /\ ~t.long /\ Elapsed(t).long -> "long"
          [] ~t.stable /\ t.clicked /\ ~Elapsed(t).clicked -> "click"
          [] OTHER -> "none"
=============================================================================
