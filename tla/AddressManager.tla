--------------------------- MODULE AddressManager ---------------------------
(***************************************************************************)
(* AddressManager (src/challd/src/address_manager.rs): MAX_INSTANCES      *)
(* AtomicBools, take_next_addr scanning them with fetch_or(true) from the  *)
(* lowest index, relinquish_addr storing false.  Callers run concurrently  *)
(* without a lock, so every fetch_or is its own step.  Each process p is a *)
(* connection task that takes a slot and, if it got one, later gives it    *)
(* back, over and over.                                                    *)
(***************************************************************************)
EXTENDS Naturals

CONSTANTS Procs, N

ASSUME N \in Nat \ {0}

\* Address a = i + 1 for the AtomicBool at index i.
Slots == 1..N

VARIABLES
  used,      \* used_addresses
  pc,        \* "idle" | "scan" | "holding"
  idx,       \* the address whose flag the scan examines next
  held,      \* the address take_next_addr returned (0: none held)
  fullSeen   \* history: every slot was in use at some state of p's scan

vars == <<used, pc, idx, held, fullSeen>>

AllUsed == \A a \in Slots : used[a]

Init ==
  /\ used = [a \in Slots |-> FALSE]
  /\ pc = [p \in Procs |-> "idle"]
  /\ idx = [p \in Procs |-> 1]
  /\ held = [p \in Procs |-> 0]
  /\ fullSeen = [p \in Procs |-> FALSE]

\* Entering take_next_addr: the loop starts at i = 0, address 1.
BeginTake(p) ==
  /\ pc[p] = "idle"
  /\ pc' = [pc EXCEPT ![p] = "scan"]
  /\ idx' = [idx EXCEPT ![p] = 1]
  /\ UNCHANGED <<used, held>>

\* fetch_or(true) returns false: the slot is ours, return Some(i + 1).
FetchOrWins(p) ==
  /\ pc[p] = "scan"
  /\ ~used[idx[p]]
  /\ used' = [used EXCEPT ![idx[p]] = TRUE]
  /\ held' = [held EXCEPT ![p] = idx[p]]
  /\ pc' = [pc EXCEPT ![p] = "holding"]
  /\ UNCHANGED idx

\* Mutant: a loop bound of 0..=MAX_INSTANCES, one flag past the array.
FetchOrLosesPastEnd(p) ==
  /\ pc[p] = "scan"
  /\ used[idx[p]]
  /\ idx' = [idx EXCEPT ![p] = idx[p] + 1]
  /\ UNCHANGED <<used, pc, held>>

\* fetch_or(true) returns true on a slot that is not the last: next i.
FetchOrLoses(p) ==
  /\ pc[p] = "scan"
  /\ used[idx[p]]
  /\ idx[p] < N
  /\ idx' = [idx EXCEPT ![p] = idx[p] + 1]
  /\ UNCHANGED <<used, pc, held>>

\* fetch_or(true) returns true on the last slot: the loop ends, None.
ScanExhausted(p) ==
  /\ pc[p] = "scan"
  /\ used[idx[p]]
  /\ idx[p] = N
  /\ pc' = [pc EXCEPT ![p] = "idle"]
  /\ UNCHANGED <<used, idx, held>>

\* relinquish_addr(addr): store(false) at index addr - 1.
RelinquishAddr(p) ==
  /\ pc[p] = "holding"
  /\ used' = [used EXCEPT ![held[p]] = FALSE]
  /\ held' = [held EXCEPT ![p] = 0]
  /\ pc' = [pc EXCEPT ![p] = "idle"]
  /\ UNCHANGED idx

\* The history variable fullSeen is updated alongside every step; it is
\* read by no action.
RecordFull ==
  fullSeen' = [q \in Procs |->
                 /\ pc'[q] = "scan"
                 /\ (pc[q] = "scan" /\ fullSeen[q]) \/ AllUsed']

Next ==
  /\ \E p \in Procs :
       \/ BeginTake(p) \/ FetchOrWins(p) \/ FetchOrLoses(p)
       \/ ScanExhausted(p) \/ RelinquishAddr(p)
  /\ RecordFull

Spec == Init /\ [][Next]_vars

-----------------------------------------------------------------------------
(* Properties                                                              *)

TypeOK ==
  /\ used \in [Slots -> BOOLEAN]
  /\ pc \in [Procs -> {"idle", "scan", "holding"}]
  /\ idx \in [Procs -> Slots]
  /\ held \in [Procs -> 0..N]
  /\ fullSeen \in [Procs -> BOOLEAN]

\* take_next_addr returns None only when every slot is taken (spec
\* section 4.A / 8): the None answer is linearizable to some moment of the
\* call at which all N slots were in use.
BusyOnlyWhenFull ==
  [][\A p \in Procs : pc[p] = "scan" /\ pc'[p] = "idle" => fullSeen[p]]_vars

=============================================================================
