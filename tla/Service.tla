------------------------------- MODULE Service -------------------------------
(***************************************************************************)
(* The HTTP API of internal/canary/httpapi.go in the process that          *)
(* cmd/canary402/main.go runs: POST /audit behind a semaphore, GET         *)
(* /reports/{id}, the recovery from panics, the shutdown on a signal, and  *)
(* a crash or a power loss at any time.  The reports go to a ReportStore,  *)
(* which FileStore implements.                                             *)
(*                                                                         *)
(* A request is called by the id of the report its audit would have, and   *)
(* its handler goes through the stages                                     *)
(*   idle        not sent yet                                              *)
(*   reading     has a slot of the semaphore; the body is being decoded    *)
(*   checking    Audit was called; nothing has left the process            *)
(*   running     the audit is probing, paying and judging                  *)
(*   saving      every check is made; inside store.Save                    *)
(*   answered    the answer is written, the deferred release due           *)
(*   panicking   unwinding, the deferred release due                       *)
(*   recovering  in the deferred recover of ServeHTTP                      *)
(*   ended       returned                                                  *)
(*   dead        the process is gone                                       *)
(***************************************************************************)
EXTENDS Naturals, FiniteSets

CONSTANTS
  Requests,       \* calls of POST /audit
  Readers,        \* calls of GET /reports/{id}
  MaxConcurrent,  \* slots of the semaphore
  None

ASSUME ServiceAssumption ==
  /\ IsFiniteSet(Requests)
  /\ MaxConcurrent \in 1 .. 64
  /\ None \notin Requests \cup {200, 400, 429, 500}
  /\ None \notin [id : Requests, answer : {"found", "absent", "error"}]

VARIABLES
  process,  \* "up"; "draining": Shutdown has begun; "overdue": its 10 seconds
            \* are over; "exited": main has returned; "crashed"
  handler,  \* the stage of each request
  sent,     \* the status its handler wrote, or None
  slots,    \* entries in the semaphore channel
  paid,     \* the requests whose audit sent a payment
  lost,     \* the reports that a power loss took
  kept, safe, outcome, reply   \* see ReportStore

storeVars == <<kept, safe, outcome, reply>>
vars == <<process, handler, sent, slots, paid, lost, storeVars>>

Store == INSTANCE ReportStore WITH Reports <- Requests

Auditing == {"checking", "running", "saving"}
HoldingStages == {"reading", "answered", "panicking"} \cup Auditing
Stages == HoldingStages \cup {"idle", "recovering", "ended", "dead"}

Holders == {r \in Requests : handler[r] \in HoldingStages}
InFlight == {r \in Requests : handler[r] \notin {"idle", "ended", "dead"}}

\* The processes that serve: main has not returned.
Alive == process \in {"up", "draining", "overdue"}

Init ==
  /\ process = "up"
  /\ handler = [r \in Requests |-> "idle"]
  /\ sent = [r \in Requests |-> None]
  /\ slots = 0
  /\ paid = {}
  /\ lost = {}
  /\ Store!Init

Move(r, from, to) == handler[r] = from /\ handler' = [handler EXCEPT ![r] = to]

\* writeJSON and writeError.
Answer(r, status) == sent' = [sent EXCEPT ![r] = status]

-----------------------------------------------------------------------------
(* POST /audit *)

\* The select takes a slot if one is free, and never waits for one.
Accept(r) ==
  /\ process = "up"
  /\ slots < MaxConcurrent
  /\ Move(r, "idle", "reading")
  /\ slots' = slots + 1
  /\ UNCHANGED <<process, sent, paid, lost, storeVars>>

\* Mutation: the release is deferred before the select.
TurnAwayReleasing(r) ==
  /\ process = "up"
  /\ slots = MaxConcurrent
  /\ Move(r, "idle", "answered")
  /\ Answer(r, 429)
  /\ UNCHANGED <<process, slots, paid, lost, storeVars>>

TurnAway(r) ==
  /\ process = "up"
  /\ slots = MaxConcurrent
  /\ Move(r, "idle", "ended")
  /\ Answer(r, 429)
  /\ UNCHANGED <<process, slots, paid, lost, storeVars>>

\* The body is too long, no JSON, has an unknown field, or something after it.
BadBody(r) ==
  /\ Move(r, "reading", "answered")
  /\ Answer(r, 400)
  /\ UNCHANGED <<process, slots, paid, lost, storeVars>>

Decode(r) ==
  /\ Move(r, "reading", "checking")
  /\ UNCHANGED <<process, sent, slots, paid, lost, storeVars>>

\* A ValidationError; and an audit that gets no report id, which the handler
\* reports as one it could not persist.
Reject(r) ==
  /\ Move(r, "checking", "answered")
  /\ Answer(r, 400) \/ Answer(r, 500)
  /\ UNCHANGED <<process, slots, paid, lost, storeVars>>

Begin(r) ==
  /\ Move(r, "checking", "running")
  /\ UNCHANGED <<process, sent, slots, paid, lost, storeVars>>

\* The paid request leaves; see Auditor for when it does.
Pay(r) ==
  /\ handler[r] = "running"
  /\ r \notin paid
  /\ paid' = paid \cup {r}
  /\ UNCHANGED <<process, handler, sent, slots, lost, storeVars>>

\* complete and persist.
Complete(r) ==
  /\ Move(r, "running", "saving")
  /\ UNCHANGED <<process, sent, slots, paid, lost, storeVars>>

\* Within store.Save the report gets its name.
Name(r) ==
  /\ handler[r] = "saving"
  /\ r \notin kept
  /\ Store!Keep(r)
  /\ UNCHANGED <<process, handler, sent, slots, paid, lost>>

\* Mutation: the error of store.Save is logged and the report answered.
SaveIgnored(r) ==
  /\ Move(r, "saving", "answered")
  /\ \/ Store!Acknowledge(r)
     \/ Store!Refuse(r)
  /\ Answer(r, 200)
  /\ UNCHANGED <<process, slots, paid, lost>>

Saved(r) ==
  /\ Move(r, "saving", "answered")
  /\ \/ Store!Acknowledge(r) /\ Answer(r, 200)
     \/ Store!Refuse(r)      /\ Answer(r, 500)
  /\ UNCHANGED <<process, slots, paid, lost>>

\* Mutation: a slot is given back by the paths that return only.
PanicWithoutRelease(r) ==
  /\ handler[r] \in {"reading", "checking", "running"}
  /\ handler' = [handler EXCEPT ![r] = "recovering"]
  /\ UNCHANGED <<process, sent, slots, paid, lost, storeVars>>

\* A panic in the handler or in the audit it calls.
Panic(r) ==
  /\ handler[r] \in {"reading", "checking", "running"}
  /\ handler' = [handler EXCEPT ![r] = "panicking"]
  /\ UNCHANGED <<process, sent, slots, paid, lost, storeVars>>

\* defer func() { <-h.semaphore }()
Release(r) ==
  /\ Move(r, "answered", "ended") \/ Move(r, "panicking", "recovering")
  /\ slots' = slots - 1
  /\ UNCHANGED <<process, sent, paid, lost, storeVars>>

\* Mutation: the panic is logged and nothing is written.
RecoverSilently(r) ==
  /\ Move(r, "recovering", "ended")
  /\ UNCHANGED <<process, sent, slots, paid, lost, storeVars>>

\* The deferred recover of ServeHTTP.
Recover(r) ==
  /\ Move(r, "recovering", "ended")
  /\ Answer(r, 500)
  /\ UNCHANGED <<process, slots, paid, lost, storeVars>>

\* What a handler does once it has a slot; it goes on while the server drains.
HandlerStep(r) ==
  /\ Alive
  /\ \/ BadBody(r) \/ Decode(r) \/ Reject(r) \/ Begin(r) \/ Pay(r) \/ Complete(r)
     \/ Name(r) \/ Saved(r) \/ Panic(r) \/ Release(r) \/ Recover(r)

-----------------------------------------------------------------------------
(* GET /reports/{id}: found is 200, absent 404, error 500. *)

ReadReport(g) ==
  /\ Alive
  /\ Store!Ask(g) \/ \E i \in Requests : Store!LookUp(g, i)
  /\ UNCHANGED <<process, handler, sent, slots, paid, lost>>

-----------------------------------------------------------------------------
(* The process *)

\* SIGINT or SIGTERM: the listeners close, and nothing new is accepted.
Signal ==
  /\ process = "up"
  /\ process' = "draining"
  /\ UNCHANGED <<handler, sent, slots, paid, lost, storeVars>>

\* Shutdown gives up on the handlers that are still running.
Overdue ==
  /\ process = "draining"
  /\ process' = "overdue"
  /\ UNCHANGED <<handler, sent, slots, paid, lost, storeVars>>

\* Handlers end with their process, and so does the semaphore.
Die ==
  /\ handler' = [r \in Requests |-> IF r \in InFlight THEN "dead" ELSE handler[r]]
  /\ slots' = 0
  /\ UNCHANGED <<sent, paid>>

\* ListenAndServe returns as soon as Shutdown is called, and main with it.
Exit ==
  /\ process \in {"draining", "overdue"}
  /\ process' = "exited"
  /\ Die
  /\ kept' = kept /\ Store!Die
  /\ UNCHANGED lost

Crash ==
  /\ Alive
  /\ process' = "crashed"
  /\ Die
  /\ kept' = kept /\ Store!Die
  /\ UNCHANGED lost

PowerLoss ==
  /\ Alive
  /\ process' = "crashed"
  /\ Die
  /\ Store!Die
  /\ lost' = lost \cup (kept \ kept')

\* A process started anew has the directory and nothing else of the last one.
Restart ==
  /\ ~Alive
  /\ process' = "up"
  /\ UNCHANGED <<handler, sent, slots, paid, lost, storeVars>>

\* The kernel writes the directory to disk.
Settle ==
  /\ Store!Settle
  /\ UNCHANGED <<process, handler, sent, slots, paid, lost>>

Next ==
  \/ \E r \in Requests : Accept(r) \/ TurnAway(r) \/ HandlerStep(r)
  \/ \E g \in Readers : ReadReport(g)
  \/ Signal \/ Overdue \/ Exit \/ Crash \/ PowerLoss \/ Restart \/ Settle

Spec == Init /\ [][Next]_vars

\* A handler is not held up for ever: bodies are read within ReadTimeout, every
\* call of an audit has a timeout, and nothing in the handler waits for a slot.
Fairness == \A r \in Requests : WF_vars(HandlerStep(r))

FairSpec == Spec /\ Fairness

-----------------------------------------------------------------------------
(* Properties *)

TypeOK ==
  /\ process \in {"up", "draining", "overdue", "exited", "crashed"}
  /\ handler \in [Requests -> Stages]
  /\ sent \in [Requests -> {200, 400, 429, 500, None}]
  /\ slots \in 0 .. MaxConcurrent
  /\ paid \subseteq Requests
  /\ lost \subseteq Requests
  /\ kept \subseteq Requests
  /\ safe \subseteq kept
  /\ outcome \in [Requests -> {"pending", "saved", "refused"}]
  /\ reply \in [Readers -> {None} \cup
       [id : Requests, answer : {"found", "absent", "error"}]]

\* No path through the handler keeps a slot or gives back two: the semaphore
\* holds exactly the audits that run, and never more than MaxConcurrent
\* (httpapi.go:74-81).
CapacityKept == slots = Cardinality(Holders) /\ slots <= MaxConcurrent

\* An answer is a promise about money and evidence: 200 says the report is kept
\* (only a power loss takes it back), every other status that there is none, and
\* 400 and 429 that nothing was paid (httpapi.go:74-108).
AnswersHonest ==
  \A r \in Requests :
    /\ sent[r] = 200 => r \in kept \cup lost
    /\ sent[r] \in {400, 429, 500} => r \notin kept
    /\ sent[r] \in {400, 429} => r \notin paid

\* A payment without a report has an explanation: the audit is still running, it
\* was answered with 500, its process died, or the power failed (httpapi.go:94-108).
PaidLeavesTrace ==
  \A r \in paid :
    \/ r \in InFlight
    \/ r \in kept \cup lost
    \/ sent[r] = 500
    \/ handler[r] = "dead"

\* Whoever asks for a report after its audit was answered with 200 does not get
\* 404, whatever processes came and went between, unless the power failed
\* (httpapi.go:111-123).
NeverMissing ==
  [][\A g \in Readers, i \in Requests :
       /\ reply'[g] # reply[g]
       /\ reply'[g] = Store!Answer(i, "absent")
       /\ sent[i] = 200
       => i \in lost]_vars

\* The service never stays full for ever: every audit gives its slot back, by
\* answering, by panicking or with its process (httpapi.go:77).
SlotsReturn == []<>(slots < MaxConcurrent)

\* "graceful shutdown", with a context of 10 seconds (main.go:66-70): the process
\* exits when nothing is in flight any more, or when the 10 seconds are over.
GracefulShutdown ==
  [][process' = "exited" /\ process = "draining" => InFlight = {}]_vars

=============================================================================
