------------------------------ MODULE Threads ------------------------------
(* The firmware's threads, for the modules that model what runs in several of *)
(* them.  A C function is the sequence of its atomic steps; a thread has the  *)
(* steps it still has to run.  A call inlines the callee's steps; a step that *)
(* branches puts the steps of its branch in front of the rest; an error       *)
(* return unwinds to the nearest call that looks at the result.               *)
(* RT-Thread runs the most urgent ready thread (a smaller number is more      *)
(* urgent), and a mutex lends its owner the urgency of those who wait for it. *)
EXTENDS Naturals, Sequences, FiniteSetsExt

CONSTANTS Thread,   \* the threads of the model
          Priority  \* their RT-Thread priorities

ASSUME PriorityAssumption == Priority \in [Thread -> Nat]

VARIABLES todo,     \* what each thread still has to do, <<>> when it waits for an event
          mutex     \* the owner of audio_mixer_session_mutex, or "none"

Do(step) == <<[do |-> step]>>
With(step, x) == <<[do |-> step, arg |-> x]>>

\* `if (body() == RT_EOK) ok else err`; a result thrown away is Ignore(body).
Try(body, ok, err) == <<[do |-> "Call", body |-> body, ok |-> ok, err |-> err]>>
Ignore(body) == Try(body, <<>>, <<>>)

Idle(t) == todo[t] = <<>>
At(t, step) == todo[t] # <<>> /\ Head(todo[t]).do = step
Arg(t) == Head(todo[t]).arg

\* The step at hand is done; its own continuation comes first.
Go(t, program) == todo' = [todo EXCEPT ![t] = program \o Tail(@)]

\* The step at hand returns an error.
Unwound(steps) ==
    LET n == Min({i \in 1..Len(steps) : steps[i].do = "Return"})
    IN  steps[n].err \o SubSeq(steps, n + 1, Len(steps))

Raise(t) == todo' = [todo EXCEPT ![t] = Unwound(Tail(@))]

----------------------------------------------------------------------------
Blocked(t) == At(t, "Lock") /\ mutex # "none"

Urgency(t) ==
    IF mutex = t
    THEN Min({Priority[t]} \union {Priority[u] : u \in {v \in Thread : Blocked(v)}})
    ELSE Priority[t]

\* t may take a step: it is not blocked, and no thread that is ready to run is
\* more urgent.  asleep are the threads inside a delay of their own.
Runs(t, asleep) ==
    /\ ~Blocked(t)
    /\ \A u \in Thread \ asleep :
          ~Idle(u) /\ ~Blocked(u) => Urgency(t) <= Urgency(u)

----------------------------------------------------------------------------
Lock(t) ==
    /\ At(t, "Lock")
    /\ mutex = "none"
    /\ mutex' = t
    /\ Go(t, <<>>)

Unlock(t) ==
    /\ At(t, "Unlock")
    /\ mutex' = "none"
    /\ Go(t, <<>>)

\* The call begins: its Return waits below the body.
Call(t) ==
    /\ At(t, "Call")
    /\ LET c == Head(todo[t])
       IN  Go(t, Append(c.body, [do |-> "Return", ok |-> c.ok, err |-> c.err]))
    /\ UNCHANGED mutex

Return(t) ==
    /\ At(t, "Return")
    /\ Go(t, Head(todo[t]).ok)
    /\ UNCHANGED mutex

Fail(t) ==
    /\ At(t, "Fail")
    /\ Raise(t)
    /\ UNCHANGED mutex
=============================================================================
