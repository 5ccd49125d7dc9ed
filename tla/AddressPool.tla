---------------------------- MODULE AddressPool -----------------------------
(***************************************************************************)
(* What a heap of addresses promises its clients, with no block list in    *)
(* sight: a set of free addresses and the set of addresses handed out.     *)
(* MemHeap implements it as long as what is added was not free already.    *)
(***************************************************************************)
EXTENDS Integers

CONSTANT MaxAdr

VARIABLES free,         \* addresses that may still be handed out
          taken,        \* addresses handed out
          withdrawn     \* the range being withdrawn, {} when there is none

vars == <<free, taken, withdrawn>>

Runs == {a..b : a, b \in 0..(MaxAdr - 1)} \ {{}}

Init == free = {} /\ taken = {} /\ withdrawn = {}

\* A range nobody owns becomes available.
Give(S) ==
    /\ withdrawn = {}
    /\ S \cap (free \cup taken) = {}
    /\ free' = free \cup S
    /\ UNCHANGED <<taken, withdrawn>>

\* A client withdraws a range, whatever of it was available.
Withdraw(S) ==
    /\ withdrawn = {}
    /\ free' = free \ S
    /\ withdrawn' = S
    /\ UNCHANGED taken

\* The withdrawal is complete.  Until then nothing else happens.
Withdrawn ==
    /\ withdrawn # {}
    /\ withdrawn' = {}
    /\ UNCHANGED <<free, taken>>

\* A client receives a run of addresses that were all available.
Alloc(S) ==
    /\ withdrawn = {}
    /\ S \subseteq free
    /\ free' = free \ S
    /\ taken' = taken \cup S
    /\ UNCHANGED withdrawn

Next ==
    \/ \E S \in Runs : Give(S) \/ Withdraw(S) \/ Alloc(S)
    \/ Withdrawn

Spec == Init /\ [][Next]_vars
=============================================================================
