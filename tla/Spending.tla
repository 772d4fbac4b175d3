------------------------------- MODULE Spending -------------------------------
(***************************************************************************)
(* What Canary402 promises about money, without probes, signers or stores: *)
(* an audit commits itself to at most one transfer, one the operator's     *)
(* policy allows, and no other transfer is ever executed for it, that one  *)
(* at most once ("optionally makes one strictly budgeted downstream        *)
(* payment", README.md:7).  Auditor implements this specification.         *)
(***************************************************************************)
CONSTANTS Audits, Payable, None

VARIABLES
  mandate,  \* the transfer each audit has committed itself to, or None
  paid      \* the transfer executed for it, or None

vars == <<mandate, paid>>

Init ==
  /\ mandate = [a \in Audits |-> None]
  /\ paid = [a \in Audits |-> None]

Commit(a) ==
  /\ mandate[a] = None
  /\ mandate'[a] \in Payable
  /\ mandate' = [mandate EXCEPT ![a] = mandate'[a]]
  /\ UNCHANGED paid

Execute(a) ==
  /\ mandate[a] # None
  /\ paid[a] = None
  /\ paid' = [paid EXCEPT ![a] = mandate[a]]
  /\ UNCHANGED mandate

Next == \E a \in Audits : Commit(a) \/ Execute(a)

Spec == Init /\ [][Next]_vars

=============================================================================
