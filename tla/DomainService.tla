--------------------------- MODULE DomainService ---------------------------
(***************************************************************************)
(* What the panel promises of a domain: what visitors are served           *)
(* ("served") and what the panel has on record ("status") move in a fixed  *)
(* order, the server first, the record after it.  One nginx reload may     *)
(* change what is served for several domains.                              *)
(***************************************************************************)
CONSTANT Domains

VARIABLES served, status

Statuses == {"absent", "active", "suspended"}
Services == {"none", "site", "stub"}

\* The changes of what is served that a domain's recorded status allows.
MayServe(s) ==
    CASE s = "absent" -> {"none", "site"}
      [] s = "active" -> {"site", "stub", "none"}
      [] s = "suspended" -> {"stub", "site", "none"}

\* The service a domain with this status settles on.
Settled(s) ==
    CASE s = "absent" -> "none"
      [] s = "active" -> "site"
      [] s = "suspended" -> "stub"

Init ==
    /\ served = [d \in Domains |-> "none"]
    /\ status = [d \in Domains |-> "absent"]

\* Away from the settled service, never back to it without a record: the
\* domain is withdrawn, suspended, restored or published.
Serve ==
    /\ \E S \in (SUBSET Domains) \ {{}} :
        /\ \A d \in S : served[d] = Settled(status[d])
        /\ \E f \in [S -> Services] :
            /\ \A d \in S : f[d] \in MayServe(status[d]) \ {served[d]}
            /\ served' = [d \in Domains |-> IF d \in S THEN f[d] ELSE served[d]]
    /\ UNCHANGED status

\* The record follows what is served.
Record(d) ==
    \E s \in Statuses \ {status[d]} :
        /\ served[d] = Settled(s)
        /\ served[d] # Settled(status[d])
        /\ status' = [status EXCEPT ![d] = s]
        /\ UNCHANGED served

Next == Serve \/ \E d \in Domains : Record(d)

Spec == Init /\ [][Next]_<<served, status>>
=============================================================================
