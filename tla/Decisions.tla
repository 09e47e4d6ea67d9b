------------------------------ MODULE Decisions ------------------------------
(***************************************************************************)
(* What reconciliation promises about duplicates, however many bills are    *)
(* reconciled at once: it is as if they were decided one after another, each *)
(* against all that were decided before it.  Reconcile is shown to implement *)
(* this module.                                                              *)
(***************************************************************************)
CONSTANTS
  Run,           \* runs
  InvoiceOf,     \* the Xero bill of each run
  InvoiceKey,    \* hashes of supplier and number
  BusinessKey    \* hashes of supplier, total, currency, day and order

VARIABLE
  result    \* what each run was decided

Undecided == [decided |-> FALSE, keys |-> {}, hits |-> {}]

\* What an eligible bill is told apart by; an UNPROCESSABLE one leaves nothing.
DuplicateKeys == {{invoice, business} : invoice \in InvoiceKey, business \in BusinessKey}

OnAnotherBill(run, k) ==
  \E other \in Run : InvoiceOf[other] # InvoiceOf[run] /\ k \in result[other].keys

\* The run is decided, and is a duplicate of exactly the bills it shares a key
\* with at that moment.
Decide(run) ==
  /\ ~result[run].decided
  /\ \E keys \in DuplicateKeys \cup {{}} :
       result' = [result EXCEPT ![run] =
                    [decided |-> TRUE, keys |-> keys,
                     hits |-> {k \in keys : OnAnotherBill(run, k)}]]

Init == result = [run \in Run |-> Undecided]

Next == \E run \in Run : Decide(run)

Spec == Init /\ [][Next]_result
=============================================================================
