----------------------------- MODULE ReportStore -----------------------------
(***************************************************************************)
(* What the report store promises, without files: a report is kept whole   *)
(* or not at all, a Save that returns nil has kept it and one that returns *)
(* an error has not, and a look-up answers by what is kept.  A process     *)
(* that dies loses nothing that is kept; a power loss may take what was    *)
(* kept since the system last wrote its directories to disk, and nothing   *)
(* else.  FileStore implements this specification.                         *)
(***************************************************************************)
CONSTANTS Reports, Readers, None

VARIABLES
  kept,     \* the reports a look-up finds
  safe,     \* those of them that a power loss cannot take
  outcome,  \* of each Save: "pending", "saved" or "refused"
  reply     \* the answer each reader has: a report id with what was said of it, or None

vars == <<kept, safe, outcome, reply>>

Answer(i, found) == [id |-> i, answer |-> found]

Init ==
  /\ kept = {}
  /\ safe = {}
  /\ outcome = [i \in Reports |-> "pending"]
  /\ reply = [r \in Readers |-> None]

Keep(i) ==
  /\ outcome[i] = "pending"
  /\ kept' = kept \cup {i}
  /\ UNCHANGED <<safe, outcome, reply>>

Acknowledge(i) ==
  /\ outcome[i] = "pending"
  /\ i \in kept
  /\ outcome' = [outcome EXCEPT ![i] = "saved"]
  /\ UNCHANGED <<kept, safe, reply>>

Refuse(i) ==
  /\ outcome[i] = "pending"
  /\ i \notin kept
  /\ outcome' = [outcome EXCEPT ![i] = "refused"]
  /\ UNCHANGED <<kept, safe, reply>>

Ask(r) ==
  /\ reply' = [reply EXCEPT ![r] = None]
  /\ UNCHANGED <<kept, safe, outcome>>

LookUp(r, i) ==
  /\ \/ i \in kept    /\ reply' = [reply EXCEPT ![r] = Answer(i, "found")]
     \/ i \notin kept /\ reply' = [reply EXCEPT ![r] = Answer(i, "absent")]
     \/ reply' = [reply EXCEPT ![r] = Answer(i, "error")]
  /\ UNCHANGED <<kept, safe, outcome>>

Settle ==
  /\ safe' = kept
  /\ UNCHANGED <<kept, outcome, reply>>

\* The readers die with the process, with or without the power.
Die ==
  /\ reply' = [r \in Readers |-> None]
  /\ kept' \in SUBSET kept
  /\ safe \subseteq kept'
  /\ UNCHANGED <<safe, outcome>>

Next ==
  \/ \E i \in Reports : Keep(i) \/ Acknowledge(i) \/ Refuse(i)
  \/ \E r \in Readers : Ask(r) \/ \E i \in Reports : LookUp(r, i)
  \/ Settle
  \/ Die

Spec == Init /\ [][Next]_vars

=============================================================================
