------------------------------ MODULE MCThreads ------------------------------
(* Instances of Threads for TLC: a lock, a semaphore a device signals. *)
EXTENDS Threads

CONSTANTS t1, t2, t3, lock, io, disk, keyboard

LockAndIo == [s \in {lock, io} |-> IF s = lock THEN 1 ELSE 0]
IoDone == [d \in {disk} |-> io]
BothDone == [d \in {disk, keyboard} |-> io]
=============================================================================
