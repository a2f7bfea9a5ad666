--------------------------- MODULE RetryServiceProofs ---------------------------
(***************************************************************************)
(* What RetryService guarantees for any number of calls and retries. The   *)
(* three invariants are inductive together; the refinement of the abstract *)
(* specification follows from them step by step.                           *)
(***************************************************************************)
EXTENDS RetryService, TLAPS

Inv == TypeOK /\ NoLostTimer /\ MutexHeld

USE RetryAssumption

(***************************************************************************)
(* clearTimer changes nothing but the phase of the pending timer, and      *)
(* after it no timer is pending.                                           *)
(***************************************************************************)
LEMMA ClearTimerClears ==
    ASSUME TypeOK, NoLostTimer
    PROVE  /\ ClearTimer(phase) \in [Calls -> Phases]
           /\ \A c \in Calls : ClearTimer(phase)[c] # "scheduled"
           /\ \A c \in Calls : phase[c] # "scheduled" => ClearTimer(phase)[c] = phase[c]
           /\ \A c \in Calls : ClearTimer(phase)[c] \in {phase[c], "cancelled"}
BY DEF ClearTimer, TypeOK, NoLostTimer, Phases, Settled

LEMMA InvInit == Init => Inv
BY DEF Init, Inv, TypeOK, NoLostTimer, MutexHeld, Phases, Settled

LEMMA InvStep == Inv /\ [Next]_vars => Inv'
<1> SUFFICES ASSUME Inv, [Next]_vars PROVE Inv'
  OBVIOUS
<1> USE DEF Inv
<1>1. ASSUME NEW c \in Calls, Call(c) PROVE Inv'
  BY <1>1 DEF Call, TypeOK, NoLostTimer, MutexHeld, Phases, Settled
<1>2. ASSUME NEW c \in Calls, Lock(c) PROVE Inv'
  <2> DEFINE cleared == ClearTimer(phase)
  <2>1. /\ cleared \in [Calls -> Phases]
        /\ \A d \in Calls : cleared[d] # "scheduled"
        /\ \A d \in Calls : cleared[d] \in {phase[d], "cancelled"}
    BY ClearTimerClears
  <2>2. /\ phase' = [cleared EXCEPT ![c] = "running"]
        /\ mu = NoCall /\ mu' = c /\ UNCHANGED <<left, timer>>
    BY <1>2 DEF Lock
  <2> HIDE DEF cleared
  <2>3. TypeOK'
    BY <2>1, <2>2 DEF TypeOK, Phases
  <2>4. NoLostTimer'
    BY <2>1, <2>2 DEF NoLostTimer
  <2>5. MutexHeld'
    BY <2>1, <2>2 DEF MutexHeld
  <2> QED
    BY <2>3, <2>4, <2>5
<1>3. ASSUME NEW c \in Calls, Finish(c) PROVE Inv'
  BY <1>3 DEF Finish, Succeed, GiveUp, Reschedule, TypeOK, NoLostTimer, MutexHeld,
              Phases, Settled
<1>4. ASSUME NEW c \in Calls, Fire(c) PROVE Inv'
  BY <1>4 DEF Fire, TypeOK, NoLostTimer, MutexHeld, Phases, Settled
<1>5. CASE UNCHANGED vars
  BY <1>5 DEF vars, TypeOK, NoLostTimer, MutexHeld
<1> QED
  BY <1>1, <1>2, <1>3, <1>4, <1>5 DEF Next

LEMMA InvAlways == Safety => []Inv
BY InvInit, InvStep, PTL DEF Safety

(***************************************************************************)
(* The state of a RetryService stays well typed: in particular n is never  *)
(* below zero when a retry is scheduled.                                   *)
(***************************************************************************)
THEOREM RetryTypeCorrect == Safety => []TypeOK
BY InvAlways, PTL DEF Inv

(***************************************************************************)
(* clearTimer can stop every timer that is pending: none is ever pending   *)
(* that r.timer does not point to, nor while f is being executed.          *)
(***************************************************************************)
THEOREM RetryLosesNoTimer == Safety => []NoLostTimer
BY InvAlways, PTL DEF Inv

(***************************************************************************)
(* The function is executed exactly while its chain holds the mutex.       *)
(***************************************************************************)
THEOREM RetryHoldsMutex == Safety => []MutexHeld
BY InvAlways, PTL DEF Inv

-----------------------------------------------------------------------------
(* The abstract specification *)

LEMMA SerialInit == Init => Serial!Init
BY DEF Init, Serial!Init, Attempted

LEMMA SerialStep == Inv /\ [Next]_vars => [Serial!Next]_(Serial!vars)
<1> SUFFICES ASSUME Inv, [Next]_vars PROVE [Serial!Next]_(Serial!vars)
  OBVIOUS
<1> DEFINE budget == [d \in Calls |-> IF phase[d] \in Attempted THEN left[d] ELSE left[d] + 1]
<1>s. /\ Inv
      /\ phase \in [Calls -> Phases]
      /\ left \in [Calls -> 0 .. MaxRetries]
  BY DEF Inv, TypeOK
<1>1. ASSUME NEW c \in Calls, Call(c) \/ Fire(c) PROVE UNCHANGED Serial!vars
  BY <1>1, <1>s DEF Call, Fire, Serial!vars, Attempted
<1>2. ASSUME NEW c \in Calls, Lock(c) PROVE Serial!Begin(c)
  <2>1. \A d \in Calls : ClearTimer(phase)[d] \in {phase[d], "cancelled"}
    BY ClearTimerClears DEF Inv
  <2>2. \A d \in Calls : ClearTimer(phase)[d] \in Attempted <=> phase[d] \in Attempted
    BY <2>1 DEF ClearTimer, Attempted
  <2>3. budget' = [budget EXCEPT ![c] = @ - 1]
    <3>1. left' = left /\ phase'[c] \in Attempted /\ phase[c] \notin Attempted
      BY <1>2, <2>1, <1>s DEF Lock, Attempted, ClearTimer
    <3>2. \A d \in Calls \ {c} : phase'[d] \in Attempted <=> phase[d] \in Attempted
      BY <1>2, <2>2 DEF Lock, ClearTimer
    <3>3. budget[c] - 1 = left[c]
      BY <3>1, <1>s
    <3>4. \A d \in Calls : budget'[d] = IF d = c THEN left[c] ELSE budget[d]
      BY <3>1, <3>2, <1>s DEF Attempted
    <3>5. \A d \in Calls : budget'[d] = [budget EXCEPT ![c] = @ - 1][d]
      BY <3>3, <3>4
    <3> QED
      BY <3>5
  <2>4. budget[c] > 0
    BY <1>2, <1>s DEF Lock, Attempted
  <2> QED
    BY <1>2, <2>3, <2>4 DEF Serial!Begin, Lock
<1>3. ASSUME NEW c \in Calls, Finish(c) PROVE Serial!End(c)
  <2>1. phase[c] = "running" /\ mu = c /\ mu' = NoCall
    BY <1>3 DEF Inv, MutexHeld, Finish, Succeed, GiveUp, Reschedule
  <2>2. budget' = budget
    BY <1>3, <1>s, <2>1 DEF Finish, Succeed, GiveUp, Reschedule, Attempted
  <2> QED
    BY <2>1, <2>2 DEF Serial!End
<1>4. CASE UNCHANGED vars
  BY <1>4 DEF vars, Serial!vars, Attempted
<1> QED
  BY <1>1, <1>2, <1>3, <1>4 DEF Next, Serial!Next

(***************************************************************************)
(* The safety half of ImplementsSerialAttempts: the attempts of all callers*)
(* are serial, and no call of retry makes more than MaxRetries + 1.        *)
(***************************************************************************)
THEOREM RetryIsSerial == Safety => Serial!Safety
BY SerialInit, SerialStep, InvAlways, PTL DEF Safety, Serial!Safety
=============================================================================
