----------------------------- MODULE SerialAttempts -----------------------------
(***************************************************************************)
(* What RetryService.retry promises to the code that calls it: the         *)
(* function it is given is attempted by one caller at a time, each caller  *)
(* has a fixed budget of attempts, and an attempt that began ends.         *)
(* When the attempts of different callers happen is left open.             *)
(***************************************************************************)
EXTENDS Integers

CONSTANTS
    Calls,       \* the calls of retry
    MaxAttempts, \* the attempts each of them may make
    NoCall       \* no call is making an attempt

VARIABLES
    active,  \* the call whose function is being executed, or NoCall
    budget   \* the attempts each call has left

vars == <<active, budget>>

Init ==
    /\ active = NoCall
    /\ budget = [c \in Calls |-> MaxAttempts]

Begin(c) ==
    /\ active = NoCall
    /\ budget[c] > 0
    /\ active' = c
    /\ budget' = [budget EXCEPT ![c] = @ - 1]

End(c) ==
    /\ active = c
    /\ active' = NoCall
    /\ UNCHANGED budget

Next == \E c \in Calls : Begin(c) \/ End(c)

Fairness == \A c \in Calls : WF_vars(End(c))

Safety == Init /\ [][Next]_vars
Spec == Safety /\ Fairness
=============================================================================
