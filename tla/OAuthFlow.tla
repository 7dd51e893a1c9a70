----------------------------- MODULE OAuthFlow -----------------------------
(***************************************************************************)
(* What reauthorisation promises about a flow, without saying how callback *)
(* and completion run: the values oauth_authorizations.status takes, and   *)
(* that an authorisation is installed in the account once, in the step     *)
(* that consumes it, and by no flow that failed, expired or was purged.    *)
(*                                                                         *)
(* Credentials implements this specification.                              *)
(***************************************************************************)
EXTENDS Naturals

CONSTANT Flows

VARIABLES status,    \* oauth_authorizations.status, "none" before, "purged" after
          installs   \* how often the authorisation of a flow reached the account

vars == <<status, installs>>

Open     == {"started", "exchanged"}
Statuses == Open \union {"none", "consumed", "failed", "purged"}

Init == /\ status = [f \in Flows |-> "none"]
        /\ installs = [f \in Flows |-> 0]

Move(f, from, to) == /\ status[f] \in from
                     /\ status' = [status EXCEPT ![f] = to]

Exchange(f) == Move(f, {"started"}, "exchanged") /\ UNCHANGED installs
Fail(f)     == Move(f, Open, "failed") /\ UNCHANGED installs

Install(f)  == /\ Move(f, {"exchanged"}, "consumed")
               /\ installs' = [installs EXCEPT ![f] = @ + 1]

\* A new flow takes the place of those whose time is over.
Start(f, old) == /\ status[f] = "none"
                 /\ \A g \in old : status[g] # "none"
                 /\ status' = [g \in Flows |-> IF g = f THEN "started"
                                               ELSE IF g \in old THEN "purged" ELSE status[g]]
                 /\ UNCHANGED installs

Next == \E f \in Flows : \/ Exchange(f) \/ Fail(f) \/ Install(f)
                         \/ \E old \in SUBSET Flows : Start(f, old)

Spec == Init /\ [][Next]_vars
=============================================================================
