-------------------------------- MODULE STable --------------------------------
(***************************************************************************)
(* The named semaphores of userprog/stable.cc and the system calls         *)
(* CreateSemaphore, Wait and Signal.  Create, Signal and the search of     *)
(* Wait run without a context switch; Wait then blocks in P() of the       *)
(* semaphore it found.  Nothing ever removes a semaphore.                  *)
(***************************************************************************)
EXTENDS Integers

CONSTANTS
    Process,       \* processes
    Name,          \* semaphore names
    MaxSemaphore,  \* MAX_SEMAPHORE
    InitVals,      \* initial values that programs ask for, negative ones too
    MaxSignals,    \* bound: Signals per name
    MaxWaits,      \* bound: Waits done, per name, when another begins
    NoSem          \* no semaphore

ASSUME STableAssumption ==
    /\ MaxSemaphore \in Nat \ {0}
    /\ InitVals \subseteq Int
    /\ MaxSignals \in Nat /\ MaxWaits \in Nat
    /\ NoSem \notin Int \cup [name : Name, value : Int]

VARIABLES
    bm,                     \* marked slots
    semTab,                 \* the Sem in each slot
    at, slot,               \* a process blocked in Wait, and where
    created, signalled, passed  \* history: initial value, Signals and Waits done

history == <<created, signalled, passed>>
stableVars == <<bm, semTab, at, slot, history>>

Slots == 0 .. MaxSemaphore - 1
Sem(n, v) == [name |-> n, value |-> v]

STableInit ==
    /\ bm = {}
    /\ semTab = [i \in Slots |-> NoSem]
    /\ at = [p \in Process |-> "user"]
    /\ slot = [p \in Process |-> 0]
    /\ created = [n \in Name |-> NoSem]
    /\ signalled = [n \in Name |-> 0]
    /\ passed = [n \in Name |-> 0]

\* The slots whose semaphore has the name n; the loops stop at the first.
Named(n) == {i \in bm : semTab[i].name = n}
First(n, i) == i \in Named(n) /\ \A j \in Named(n) : i <= j

\* The first clear bit of bm.
FindFreeSlot(i) == i \in Slots \ bm /\ \A j \in Slots \ bm : i <= j

(* Create returns -1 and changes nothing when the name exists or the table  *)
(* is full.                                                                 *)
Create(p, n, v) ==
    /\ at[p] = "user"
    /\ Named(n) = {}
    /\ \E i \in Slots :
          /\ FindFreeSlot(i)
          /\ bm' = bm \cup {i}
          /\ semTab' = [semTab EXCEPT ![i] = Sem(n, v)]
    /\ created' = [created EXCEPT ![n] = v]
    /\ UNCHANGED <<at, slot, signalled, passed>>

(* Wait up to P(); it returns -1 when the name does not exist.              *)
Wait(p, n) ==
    /\ at[p] = "user"
    /\ passed[n] < MaxWaits
    /\ at' = [at EXCEPT ![p] = "P"]
    /\ \E i \in Slots : First(n, i) /\ slot' = [slot EXCEPT ![p] = i]
    /\ UNCHANGED <<bm, semTab, history>>

\* Mutant of Down: the last token is not taken.
DownOffByOne(p) ==
    /\ at[p] = "P"
    /\ semTab[slot[p]].value > 1
    /\ semTab' = [semTab EXCEPT ![slot[p]].value = @ - 1]
    /\ passed' = [passed EXCEPT ![semTab[slot[p]].name] = @ + 1]
    /\ at' = [at EXCEPT ![p] = "user"]
    /\ UNCHANGED <<bm, slot, created, signalled>>

\* Mutant of Down: the value is not tested.
DownAlways(p) ==
    /\ at[p] = "P"
    /\ semTab' = [semTab EXCEPT ![slot[p]].value = @ - 1]
    /\ passed' = [passed EXCEPT ![semTab[slot[p]].name] = @ + 1]
    /\ at' = [at EXCEPT ![p] = "user"]
    /\ UNCHANGED <<bm, slot, created, signalled>>

(* Semaphore::P() blocks while the value is 0, and only then: not while it   *)
(* is negative.                                                             *)
Down(p) ==
    /\ at[p] = "P"
    /\ semTab[slot[p]].value # 0
    /\ semTab' = [semTab EXCEPT ![slot[p]].value = @ - 1]
    /\ passed' = [passed EXCEPT ![semTab[slot[p]].name] = @ + 1]
    /\ at' = [at EXCEPT ![p] = "user"]
    /\ UNCHANGED <<bm, slot, created, signalled>>

\* Mutant of Signal: the first semaphore of the table is signalled.
SignalFirst(p, n) ==
    /\ at[p] = "user"
    /\ signalled[n] < MaxSignals
    /\ Named(n) # {}
    /\ \E i \in Slots : /\ i \in bm /\ \A j \in bm : i <= j
                        /\ semTab' = [semTab EXCEPT ![i].value = @ + 1]
    /\ signalled' = [signalled EXCEPT ![n] = @ + 1]
    /\ UNCHANGED <<bm, at, slot, created, passed>>

(* Signal returns -1 when the name does not exist: the signal is lost.      *)
Signal(p, n) ==
    /\ at[p] = "user"
    /\ signalled[n] < MaxSignals
    /\ \E i \in Slots : /\ First(n, i)
                        /\ semTab' = [semTab EXCEPT ![i].value = @ + 1]
    /\ signalled' = [signalled EXCEPT ![n] = @ + 1]
    /\ UNCHANGED <<bm, at, slot, created, passed>>

STableNext ==
    \E p \in Process :
        \/ \E n \in Name, v \in InitVals : Create(p, n, v)
        \/ \E n \in Name : Wait(p, n)
        \/ Down(p)
        \/ \E n \in Name : Signal(p, n)

STableSpec == STableInit /\ [][STableNext]_stableVars

(* A thread that V() made ready gets the processor.                         *)
FairSTable == STableSpec /\ \A p \in Process : WF_stableVars(Down(p))

-----------------------------------------------------------------------------
\* Marked slots hold a semaphore, others none.
STableTypeOK ==
    /\ bm \subseteq Slots
    /\ semTab \in [Slots -> [name : Name, value : Int] \cup {NoSem}]
    /\ \A i \in Slots : i \in bm <=> semTab[i] # NoSem
    /\ at \in [Process -> {"user", "P"}]
    /\ slot \in [Process -> Slots]
    /\ \A p \in Process : at[p] = "P" => slot[p] \in bm
    /\ created \in [Name -> Int \cup {NoSem}]
    /\ signalled \in [Name -> Nat]
    /\ passed \in [Name -> Nat]

\* Processes that use one name use one semaphore: a name has one slot, for ever.
NamesUnique ==
    /\ \A i, j \in bm : semTab[i].name = semTab[j].name => i = j
    /\ \A n \in Name : created[n] # NoSem <=> Named(n) # {}

\* No token is lost or made: for each name, Waits that returned and the value
\* left add up to the initial value and the Signals that found the name.
TokensExact ==
    \A i \in bm : LET n == semTab[i].name
                  IN  semTab[i].value + passed[n] = created[n] + signalled[n]

\* Where CreateSemaphore was given a value that is not negative, no more Waits
\* return than that value and the Signals allow, however P() and V() interleave.
NeverOverdrawn ==
    \A n \in Name : created[n] # NoSem /\ created[n] >= 0 =>
                        passed[n] <= created[n] + signalled[n]

\* Processes that wait at a token: in P() of slot i, whose value is positive.
TokenWaits(i) ==
    i \in bm /\ semTab[i].value > 0 /\ \E p \in Process : at[p] = "P" /\ slot[p] = i

\* A token does not stay with a waiter beside it: Wait returns to some of them.
TokenTaken == \A i \in Slots : TokenWaits(i) ~> ~TokenWaits(i)
=============================================================================
