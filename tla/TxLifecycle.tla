---------------------------- MODULE TxLifecycle -----------------------------
(***************************************************************************)
(* What the transaction list promises of a write, whatever the wallet, the *)
(* RPC and the network do: sign, submit, confirm.                          *)
(***************************************************************************)
CONSTANT Ids

VARIABLES
    status,   \* what the record of a write says of it
    applied   \* its transaction took effect on the chain

vars == <<status, applied>>

Init ==
    /\ status = [i \in Ids |-> "none"]
    /\ applied = [i \in Ids |-> FALSE]

\* A record moves forward only, says "confirmed" only of a write that took
\* effect, and "refused" only of one that did not.
Report(i) ==
    \/ status[i] = "none" /\ status'[i] \in {"signing", "refused"}
    \/ status[i] = "signing" /\ status'[i] \in {"pending", "refused", "lost", "dropped"}
    \/ status[i] = "pending" /\ status'[i] \in {"lost", "dropped"}
    \/ status[i] = "pending" /\ applied[i] /\ status'[i] = "confirmed"
    \/ status[i] = "pending" /\ ~applied[i] /\ status'[i] = "refused"

\* A signed write takes effect once, and not after its failure was certain.  It
\* may after its outcome was given up: the network timed out, an answer was
\* lost, or the page went away.
Apply(i) ==
    /\ ~applied[i] /\ applied'[i]
    /\ status[i] \in {"pending", "lost", "dropped"}

\* One event of the app may concern several writes.
Next ==
    /\ status' \in [Ids -> {"none", "signing", "pending", "confirmed", "refused", "lost",
                            "dropped"}]
    /\ applied' \in [Ids -> BOOLEAN]
    /\ \A i \in Ids :
          /\ status'[i] = status[i] \/ Report(i)
          /\ applied'[i] = applied[i] \/ Apply(i)

\* A write that was submitted does not stay pending.
Settles == \A i \in Ids : (status[i] = "pending") ~> (status[i] # "pending")

Spec == Init /\ [][Next]_vars /\ Settles

=============================================================================
