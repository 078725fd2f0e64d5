----------------------------- MODULE SemContract -----------------------------
(***************************************************************************)
(* What synch.h promises of a semaphore, with no scheduler: P() waits      *)
(* until the value is positive and then decrements it, V() increments it,  *)
(* both in one step.  The other modules use semaphores through this        *)
(* contract; Threads is shown to implement it.                             *)
(***************************************************************************)
EXTENDS Naturals

CONSTANTS Thread, Sem, InitialValue, NoSem

VARIABLES
    value,  \* the value of each semaphore
    want    \* the semaphore each thread waits for, NoSem for none

vars == <<value, want>>

Init ==
    /\ value = InitialValue
    /\ want = [t \in Thread |-> NoSem]

(* P() finds no unit to take. *)
Wait(t, s) ==
    /\ want[t] = NoSem
    /\ value[s] = 0
    /\ want' = [want EXCEPT ![t] = s]
    /\ UNCHANGED value

(* P() returns, at once or after a wait. *)
Take(t, s) ==
    /\ want[t] \in {NoSem, s}
    /\ value[s] > 0
    /\ value' = [value EXCEPT ![s] = @ - 1]
    /\ want' = [want EXCEPT ![t] = NoSem]

Give(s) ==
    /\ value' = [value EXCEPT ![s] = @ + 1]
    /\ UNCHANGED want

Next ==
    \/ \E t \in Thread, s \in Sem : Wait(t, s) \/ Take(t, s)
    \/ \E s \in Sem : Give(s)

Spec == Init /\ [][Next]_vars

(* A positive value does not stay beside a waiting thread for ever.  Which  *)
(* thread gets it is open: P() lets newcomers overtake the sleepers.        *)
WaiterTakes(s) == \E t \in Thread : want[t] = s /\ Take(t, s)

FairSpec == Spec /\ \A s \in Sem : WF_vars(WaiterTakes(s))
=============================================================================
