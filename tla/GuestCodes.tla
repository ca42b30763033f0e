----------------------------- MODULE GuestCodes -----------------------------
(***************************************************************************)
(* Guest invite codes of the archive (src/ctf_archive/src/codes.rs and     *)
(* guest.rs).  The codes live in an InMemorySet: a HashSet behind a Mutex, *)
(* each operation one critical section.  insert_temp spawns a task that    *)
(* sleeps 30 minutes and then removes the value; every such task sleeps    *)
(* the same duration, so they fire in the order they were spawned and are  *)
(* a queue.  wipe and remove do not cancel them.                           *)
(*                                                                         *)
(* Ghost state: each pending timer carries `live`, TRUE while the          *)
(* issuance it belongs to has been neither redeemed nor wiped; issued and  *)
(* redeemed count, per code, the codes generated and the successful        *)
(* redemptions.                                                            *)
(***************************************************************************)
EXTENDS Naturals, Sequences, SequencesExt

CONSTANTS
  Codes,       \* values getrandom::u32 may return
  MaxIssued    \* bound: times one code value is generated

VARIABLES
  codes,       \* the InMemorySet<GuestCode>
  timers,      \* pending insert_temp tasks, in firing order
  userJwts,    \* codes with an unexpired user JWT (6 h)
  issued,      \* ghost: generations per code
  redeemed     \* ghost: successful redemptions per code

codeVars == <<codes, timers, userJwts, issued, redeemed>>

CodeInit ==
  /\ codes = {}
  /\ timers = <<>>
  /\ userJwts = {}
  /\ issued = [c \in Codes |-> 0]
  /\ redeemed = [c \in Codes |-> 0]

\* Mutant: the sleeping task finds the lock poisoned and removes nothing.
TimerFiresNoop ==
  /\ timers # <<>>
  /\ timers' = Tail(timers)
  /\ UNCHANGED <<codes, userJwts, issued, redeemed>>

\* The insert_temp task wakes: set.remove(&val2) under the lock.
TimerFires ==
  /\ timers # <<>>
  /\ codes' = codes \ {Head(timers).code}
  /\ timers' = Tail(timers)
  /\ UNCHANGED <<userJwts, issued, redeemed>>

\* generate_code: a random u32, inserted with a 30-minute timer.  The
\* admin's can_invite is checked by the caller; a getrandom failure returns
\* 500 before anything changes.
GenerateCode(c) ==
  /\ issued[c] < MaxIssued
  /\ codes' = codes \cup {c}
  /\ timers' = Append(timers, [code |-> c, live |-> TRUE])
  /\ issued' = [issued EXCEPT ![c] = @ + 1]
  /\ UNCHANGED <<userJwts, redeemed>>

\* wipe_codes: set.clear(); the sleeping tasks stay.
WipeCodes ==
  /\ codes' = {}
  /\ timers' = [i \in 1..Len(timers) |-> [timers[i] EXCEPT !.live = FALSE]]
  /\ UNCHANGED <<userJwts, issued, redeemed>>

Consumed(c) ==
  [i \in 1..Len(timers) |->
     IF timers[i].code = c THEN [timers[i] EXCEPT !.live = FALSE] ELSE timers[i]]

\* Mutant: redeem checks contains() and never removes the code.
RedeemCodeContains(c) ==
  /\ c \in codes
  /\ userJwts' = userJwts \cup {c}
  /\ redeemed' = [redeemed EXCEPT ![c] = @ + 1]
  /\ UNCHANGED <<codes, timers, issued>>

\* redeem_code: remove() reports whether the code was present; only then
\* a user JWT is issued.  An absent code is answered 401 and changes
\* nothing.
RedeemCode(c) ==
  /\ c \in codes
  /\ codes' = codes \ {c}
  /\ timers' = Consumed(c)
  /\ userJwts' = userJwts \cup {c}
  /\ redeemed' = [redeemed EXCEPT ![c] = @ + 1]
  /\ UNCHANGED issued

\* A user JWT reaches its 6 h expiry: verify_token rejects it from then on.
UserJwtExpires(c) ==
  /\ c \in userJwts
  /\ userJwts' = userJwts \ {c}
  /\ UNCHANGED <<codes, timers, issued, redeemed>>

CodeNext ==
  \/ \E c \in Codes : GenerateCode(c) \/ RedeemCode(c) \/ UserJwtExpires(c)
  \/ WipeCodes
  \/ TimerFires

\* Every spawned tokio timer eventually fires.
CodeFairness == WF_codeVars(TimerFires)

CodeSpec == CodeInit /\ [][CodeNext]_codeVars /\ CodeFairness

-----------------------------------------------------------------------------
(* Properties                                                              *)

CodeTypeOK ==
  /\ codes \subseteq Codes
  /\ timers \in Seq([code : Codes, live : BOOLEAN])
  /\ userJwts \subseteq Codes
  /\ issued \in [Codes -> 0..MaxIssued]
  /\ redeemed \in [Codes -> 0..MaxIssued]

\* A code in the set always has a removal timer still to fire: wipe, redeem
\* and earlier timers never leave a code redeemable past its 30 minutes.
ExpiryScheduled ==
  \A c \in codes : \E i \in 1..Len(timers) : timers[i].code = c

\* An invite is single use: a code value is redeemed at most as many times
\* as it was generated, however redeems, wipes and timers interleave.
SingleUse == \A c \in Codes : redeemed[c] <= issued[c]

\* Every generated code leaves the set (redeemed, wiped or expired).
CodesExpire == \A c \in Codes : c \in codes ~> c \notin codes

\* A code stays redeemable for its full 30 minutes unless it is redeemed or
\* wiped (the promise of generate_code's documentation).
CodeLivesFullTerm ==
  \A i \in 1..Len(timers) : timers[i].live => timers[i].code \in codes

=============================================================================
