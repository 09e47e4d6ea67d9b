------------------------------ MODULE Registry ------------------------------
(***************************************************************************)
(* What the idempotency registry promises about one key, however callers    *)
(* overlap: the key executes for one caller at a time, that caller alone    *)
(* records how it ended, and a caller that was displaced records nothing.   *)
(* Idempotency is shown to implement this module, and so are the keys that  *)
(* Semantic and Reconcile keep for what they are about.                     *)
(***************************************************************************)
CONSTANTS
  Caller,     \* those who call with the key
  Reopens     \* whether a result on record may be withdrawn and executed anew

VARIABLES
  status,     \* FREE, HELD by a claim, or DONE with a result on record
  holder,     \* who works under the current claim: one caller, or none any more
  displaced   \* those who still work, under a claim that is no longer theirs

vars == <<status, holder, displaced>>

Init == status = "FREE" /\ holder = {} /\ displaced = {}

\* The key executes, a first time or again.  Whoever held it is displaced.
Claim(c) ==
  /\ c \notin holder \cup displaced
  /\ status \in {"FREE", "HELD"} \/ Reopens
  /\ status' = "HELD"
  /\ holder' = {c}
  /\ displaced' = displaced \cup holder

\* The holder records its result, or that it failed and may be tried again.
Record(c) ==
  /\ c \in holder
  /\ status' \in {"DONE", "FREE"}
  /\ holder' = {}
  /\ UNCHANGED displaced

\* The holder is gone, and its claim is left behind.
Vanish(c) ==
  /\ c \in holder
  /\ holder' = {}
  /\ UNCHANGED <<status, displaced>>

\* A displaced caller ends: whatever became of it, the key is not told.
EndUnheard(c) ==
  /\ displaced' = displaced \ {c}
  /\ UNCHANGED <<status, holder>>

Next == \E c \in Caller : Claim(c) \/ Record(c) \/ Vanish(c) \/ EndUnheard(c)

Spec == Init /\ [][Next]_vars
=============================================================================
