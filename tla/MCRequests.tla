----------------------------- MODULE MCRequests -----------------------------
(* Requests for TLC: as many run requests as connections, and two alerts.    *)
EXTENDS Requests, TLC

CONSTANTS a1, a2, f1

\* One alert is tried again; the other is there to be suppressed by it, or to
\* suppress it.
OneRetry == a1 :> 2 @@ a2 :> 1

\* Failures are only told apart, so the first alert's may as well be the first.
NamedInit == Init /\ told[a1] = f1

NamedSpec == NamedInit /\ [][Next]_vars /\ Fairness
=============================================================================
