------------------------------ MODULE RetryService ------------------------------
(***************************************************************************)
(* pkg/service/retry_service.go: a function is attempted under a mutex and *)
(* attempted again, from a timer, while it fails and retries are left.     *)
(*                                                                         *)
(* A call of retry and the retries its failures schedule form a chain: at  *)
(* any time the chain is at one place, its phase, so a chain is identified *)
(* with the call that started it.                                          *)
(*                                                                         *)
(*   new        retry was not called yet                                   *)
(*   blocked    the call, or the goroutine of its timer, is at r.mu.Lock() *)
(*   running    r.mu is held and f is being executed                       *)
(*   scheduled  f failed, a timer for the next attempt is pending          *)
(*   done       f succeeded;  exhausted: f failed with no retry left       *)
(*   cancelled  the pending timer was stopped by clearTimer                *)
(***************************************************************************)
EXTENDS Integers

CONSTANTS
    Calls,      \* the calls of retry
    MaxRetries, \* the argument n: how often a failure is retried
    NoCall      \* r.mu is free, or r.timer is nil

ASSUME RetryAssumption ==
    /\ MaxRetries \in Nat
    /\ NoCall \notin Calls

VARIABLES
    phase,  \* the place of each chain
    left,   \* the argument n of the chain's current or next attempt
    mu,     \* the chain that holds r.mu, or NoCall
    timer   \* the chain whose timer r.timer points to, fired or not, or NoCall

vars == <<phase, left, mu, timer>>

Settled == {"done", "exhausted", "cancelled"}
Phases == {"new", "blocked", "running", "scheduled"} \cup Settled

TypeOK ==
    /\ phase \in [Calls -> Phases]
    /\ left \in [Calls -> 0 .. MaxRetries]
    /\ mu \in Calls \cup {NoCall}
    /\ timer \in Calls \cup {NoCall}

Init ==
    /\ phase = [c \in Calls |-> "new"]
    /\ left = [c \in Calls |-> MaxRetries]
    /\ mu = NoCall
    /\ timer = NoCall

(***************************************************************************)
(* retry is called.                                                        *)
(***************************************************************************)
Call(c) ==
    /\ phase[c] = "new"
    /\ phase' = [phase EXCEPT ![c] = "blocked"]
    /\ UNCHANGED <<left, mu, timer>>

\* Mutant of ClearTimer: the pending timer is not stopped.
ClearNoTimer(ph) == ph

(***************************************************************************)
(* clearTimer: Stop keeps a pending timer from firing and does nothing to  *)
(* one that fired; the channel of an AfterFunc timer is nil, so nothing is *)
(* waited for.                                                             *)
(***************************************************************************)
ClearTimer(ph) ==
    [c \in Calls |-> IF c = timer /\ ph[c] = "scheduled" THEN "cancelled" ELSE ph[c]]

(***************************************************************************)
(* The mutex is taken, the timer cleared, and f starts.                    *)
(***************************************************************************)
Lock(c) ==
    /\ phase[c] = "blocked"
    /\ mu = NoCall
    /\ mu' = c
    /\ phase' = [ClearTimer(phase) EXCEPT ![c] = "running"]
    /\ UNCHANGED <<left, timer>>

(***************************************************************************)
(* f returned nil.                                                         *)
(***************************************************************************)
Succeed(c) ==
    /\ mu = c
    /\ mu' = NoCall
    /\ phase' = [phase EXCEPT ![c] = "done"]
    /\ UNCHANGED <<left, timer>>

(***************************************************************************)
(* f failed with n = 0.                                                    *)
(***************************************************************************)
GiveUp(c) ==
    /\ mu = c
    /\ left[c] = 0
    /\ mu' = NoCall
    /\ phase' = [phase EXCEPT ![c] = "exhausted"]
    /\ UNCHANGED <<left, timer>>

\* Mutant of Reschedule: n is not compared with 0.
RescheduleAlways(c) ==
    /\ mu = c
    /\ mu' = NoCall
    /\ phase' = [phase EXCEPT ![c] = "scheduled"]
    /\ left' = [left EXCEPT ![c] = @ - 1]
    /\ timer' = c

\* Mutant of Reschedule: the mutex is not released.
RescheduleLocked(c) ==
    /\ mu = c
    /\ left[c] > 0
    /\ phase' = [phase EXCEPT ![c] = "scheduled"]
    /\ left' = [left EXCEPT ![c] = @ - 1]
    /\ timer' = c
    /\ UNCHANGED mu

\* Mutant of Reschedule: a retry does not use up the retries left.
RescheduleForever(c) ==
    /\ mu = c
    /\ left[c] > 0
    /\ mu' = NoCall
    /\ phase' = [phase EXCEPT ![c] = "scheduled"]
    /\ timer' = c
    /\ UNCHANGED left

(***************************************************************************)
(* f failed and a retry is left: AfterFunc replaces r.timer.               *)
(***************************************************************************)
Reschedule(c) ==
    /\ mu = c
    /\ left[c] > 0
    /\ mu' = NoCall
    /\ phase' = [phase EXCEPT ![c] = "scheduled"]
    /\ left' = [left EXCEPT ![c] = @ - 1]
    /\ timer' = c

(***************************************************************************)
(* The runtime runs the timer's function in a goroutine: it calls retry.   *)
(***************************************************************************)
Fire(c) ==
    /\ phase[c] = "scheduled"
    /\ phase' = [phase EXCEPT ![c] = "blocked"]
    /\ UNCHANGED <<left, mu, timer>>

Finish(c) == Succeed(c) \/ GiveUp(c) \/ Reschedule(c)

Next == \E c \in Calls : Call(c) \/ Lock(c) \/ Finish(c) \/ Fire(c)

(***************************************************************************)
(* f returns, the runtime fires timers, and sync.Mutex starves nobody.     *)
(***************************************************************************)
Fairness ==
    \A c \in Calls : SF_vars(Lock(c)) /\ WF_vars(Finish(c)) /\ WF_vars(Fire(c))

Safety == Init /\ [][Next]_vars
Spec == Safety /\ Fairness

-----------------------------------------------------------------------------
(***************************************************************************)
(* No timer is pending that r.timer does not point to, and none while f is *)
(* being executed: replacing r.timer never loses a timer that clearTimer   *)
(* could no longer stop, so at most one retry is ever scheduled.           *)
(***************************************************************************)
NoLostTimer ==
    \A c \in Calls : phase[c] = "scheduled" => timer = c /\ mu = NoCall

(***************************************************************************)
(* The mutex is held exactly by the chain that executes f.                 *)
(***************************************************************************)
MutexHeld ==
    \A c \in Calls : mu = c <=> phase[c] = "running"

(***************************************************************************)
(* Every call of retry comes to an end, whatever the others do: its        *)
(* function succeeds, its retries run out, or a later attempt cancels it.  *)
(***************************************************************************)
EveryCallSettles ==
    \A c \in Calls : phase[c] = "blocked" ~> phase[c] \in Settled

(***************************************************************************)
(* retry implements SerialAttempts: an attempt is active while the mutex   *)
(* is held, and a chain that is not in an attempt still has the one its    *)
(* argument n does not count.                                              *)
(***************************************************************************)
Attempted == {"running", "done", "exhausted"}

Serial == INSTANCE SerialAttempts
            WITH active <- mu,
                 budget <- [c \in Calls |->
                              IF phase[c] \in Attempted THEN left[c] ELSE left[c] + 1],
                 MaxAttempts <- MaxRetries + 1

(***************************************************************************)
(* The attempts of all callers are serial, at most MaxRetries + 1 for each *)
(* call of retry, and each of them ends.                                   *)
(***************************************************************************)
ImplementsSerialAttempts == Serial!Spec
=============================================================================
