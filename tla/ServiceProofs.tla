---------------------------- MODULE ServiceProofs ----------------------------
(* The semaphore, and what an answer of the service stands for, for any       *)
(* number of requests and slots.                                              *)
EXTENDS Service, FiniteSetTheorems, TLAPS

\* What is written, paid and kept goes with the stage of the handler.
StagesTell ==
  \A r \in Requests :
    /\ sent[r] # None => handler[r] \in {"answered", "ended", "dead"}
    /\ handler[r] \in {"answered", "ended"} => sent[r] # None
    /\ r \in paid => handler[r] \notin {"idle", "reading", "checking"}
    /\ r \in kept => handler[r] \in {"saving", "answered", "ended", "dead"}

ServiceInv == TypeOK /\ CapacityKept /\ AnswersHonest /\ StagesTell

\* No request has come and every slot is free.
LEMMA InitServiceInv == Init => ServiceInv
<1>. SUFFICES ASSUME Init PROVE ServiceInv
  OBVIOUS
<1>1. TypeOK
  BY ServiceAssumption DEF Init, TypeOK, Stages, HoldingStages, Auditing, Store!Init
<1>2. CapacityKept
  <2>1. Holders = {}
    BY DEF Init, Holders, HoldingStages, Auditing
  <2>. QED  BY <2>1, FS_EmptySet, ServiceAssumption DEF CapacityKept, Init
<1>3. AnswersHonest /\ StagesTell
  BY ServiceAssumption DEF Init, AnswersHonest, StagesTell, Store!Init
<1>. QED  BY <1>1, <1>2, <1>3 DEF ServiceInv

\* A handler that keeps its slot, or is without one, leaves the count alone.
LEMMA SameHolders ==
  ASSUME TypeOK, CapacityKept, NEW r \in Requests, NEW stage \in Stages,
         handler' = [handler EXCEPT ![r] = stage], slots' = slots,
         handler[r] \in HoldingStages <=> stage \in HoldingStages
  PROVE  CapacityKept'
<1>1. Holders' = Holders
  BY DEF Holders, TypeOK
<1>. QED  BY <1>1 DEF CapacityKept

\* There are finitely many handlers to hold slots.
LEMMA HoldersFinite == IsFiniteSet(Holders)
<1>. QED  BY ServiceAssumption, FS_Subset DEF Holders

\* Accepting takes a slot that is free.
LEMMA AcceptInv ==
  ASSUME ServiceInv, NEW r \in Requests, Accept(r)
  PROVE  ServiceInv'
<1>. USE DEF ServiceInv
<1>1. /\ handler[r] = "idle" /\ handler' = [handler EXCEPT ![r] = "reading"]
      /\ slots < MaxConcurrent /\ slots' = slots + 1
      /\ UNCHANGED <<process, sent, paid, lost, storeVars>>
  BY DEF Accept, Move
<1>2. TypeOK'
  BY <1>1, ServiceAssumption DEF TypeOK, Stages, HoldingStages, storeVars
<1>3. CapacityKept'
  <2>1. r \notin Holders /\ Holders' = Holders \cup {r}
    BY <1>1 DEF Holders, HoldingStages, Auditing, TypeOK
  <2>2. Cardinality(Holders') = Cardinality(Holders) + 1
    BY <2>1, HoldersFinite, FS_AddElement
  <2>. QED  BY <1>1, <2>2, ServiceAssumption DEF CapacityKept, TypeOK
<1>4. AnswersHonest'
  BY <1>1 DEF AnswersHonest, storeVars
<1>5. StagesTell'
  BY <1>1 DEF StagesTell, TypeOK, storeVars
<1>. QED  BY <1>2, <1>3, <1>4, <1>5

\* Releasing gives back one that is held, on both ways out.
LEMMA ReleaseInv ==
  ASSUME ServiceInv, NEW r \in Requests, Release(r)
  PROVE  ServiceInv'
<1>. USE DEF ServiceInv
<1>1. /\ \/ handler[r] = "answered" /\ handler' = [handler EXCEPT ![r] = "ended"]
         \/ handler[r] = "panicking" /\ handler' = [handler EXCEPT ![r] = "recovering"]
      /\ slots' = slots - 1
      /\ UNCHANGED <<process, sent, paid, lost, storeVars>>
  BY DEF Release, Move
<1>2. r \in Holders /\ Holders' = Holders \ {r}
  BY <1>1 DEF Holders, HoldingStages, Auditing, TypeOK
<1>3. Cardinality(Holders') = Cardinality(Holders) - 1 /\ Cardinality(Holders') \in Nat
  BY <1>2, HoldersFinite, FS_RemoveElement, FS_CardinalityType, FS_Subset
<1>4. TypeOK'
  BY <1>1, <1>3, ServiceAssumption
     DEF TypeOK, CapacityKept, Stages, HoldingStages, storeVars
<1>5. CapacityKept'
  BY <1>1, <1>3, ServiceAssumption DEF CapacityKept, TypeOK
<1>6. AnswersHonest' /\ StagesTell'
  BY <1>1 DEF AnswersHonest, StagesTell, TypeOK, storeVars
<1>. QED  BY <1>4, <1>5, <1>6

\* Steps that write an answer which promises nothing.
LEMMA RefusalInv ==
  ASSUME ServiceInv, NEW r \in Requests,
         TurnAway(r) \/ BadBody(r) \/ Reject(r) \/ Recover(r)
  PROVE  ServiceInv'
<1>. USE DEF ServiceInv
<1>1. PICK stage \in {"answered", "ended"}, status \in {400, 429, 500} :
        /\ handler' = [handler EXCEPT ![r] = stage]
        /\ handler[r] \in HoldingStages <=> stage \in HoldingStages
        /\ sent' = [sent EXCEPT ![r] = status]
        /\ r \notin kept
        /\ status \in {400, 429} => r \notin paid
  BY DEF TurnAway, BadBody, Reject, Recover, Move, Answer, HoldingStages, Auditing, StagesTell
<1>2. UNCHANGED <<process, slots, paid, lost, storeVars>>
  BY DEF TurnAway, BadBody, Reject, Recover
<1>3. TypeOK'
  BY <1>1, <1>2 DEF TypeOK, Stages, HoldingStages, storeVars
<1>4. CapacityKept'
  <2>1. stage \in Stages
    BY DEF Stages, HoldingStages
  <2>. QED  BY <1>1, <1>2, <2>1, SameHolders
<1>5. AnswersHonest'
  <2>1. sent'[r] = status /\ \A q \in Requests : q # r => sent'[q] = sent[q]
    BY <1>1 DEF TypeOK
  <2>2. kept' = kept /\ paid' = paid /\ lost' = lost
    BY <1>2 DEF storeVars
  <2>. QED  BY <1>1, <2>1, <2>2 DEF AnswersHonest
<1>6. StagesTell'
  <2>1. r \in paid => handler[r] \notin {"idle", "reading", "checking"}
    BY DEF StagesTell
  <2>. QED  BY <1>1, <1>2, ServiceAssumption DEF StagesTell, TypeOK, storeVars
<1>. QED  BY <1>3, <1>4, <1>5, <1>6

\* Steps within an audit that move its handler on and write nothing.
LEMMA ProgressInv ==
  ASSUME ServiceInv, NEW r \in Requests, Decode(r) \/ Begin(r) \/ Complete(r) \/ Panic(r)
  PROVE  ServiceInv'
<1>. USE DEF ServiceInv
<1>1. PICK stage \in Auditing \cup {"panicking"} :
        /\ handler' = [handler EXCEPT ![r] = stage]
        /\ handler[r] \in {"reading", "checking", "running"}
        /\ stage = "checking" => handler[r] = "reading"
  BY DEF Decode, Begin, Complete, Panic, Move, Auditing
<1>2. UNCHANGED <<process, sent, slots, paid, lost, storeVars>>
  BY DEF Decode, Begin, Complete, Panic
<1>3. TypeOK'
  BY <1>1, <1>2 DEF TypeOK, Stages, HoldingStages, storeVars
<1>4. CapacityKept'
  BY <1>1, <1>2, SameHolders DEF Stages, HoldingStages, Auditing
<1>5. AnswersHonest' /\ StagesTell'
  BY <1>1, <1>2 DEF AnswersHonest, StagesTell, TypeOK, storeVars, Auditing
<1>. QED  BY <1>3, <1>4, <1>5

\* Paying, and naming the report in the store.
LEMMA EffectInv ==
  ASSUME ServiceInv, NEW r \in Requests, Pay(r) \/ Name(r)
  PROVE  ServiceInv'
<1>. USE DEF ServiceInv
<1>1. UNCHANGED <<process, handler, sent, slots, lost>>
  BY DEF Pay, Name
<1>2. /\ paid' \in {paid, paid \cup {r}} /\ kept' \in {kept, kept \cup {r}}
      /\ UNCHANGED <<safe, outcome, reply>>
      /\ handler[r] \in {"running", "saving"}
      /\ r \in kept' => r \in kept \/ handler[r] = "saving"
  BY DEF Pay, Name, storeVars, Store!Keep
<1>3. TypeOK'
  BY <1>1, <1>2 DEF TypeOK
<1>4. CapacityKept'
  BY <1>1 DEF CapacityKept, Holders
<1>5. sent[r] = None
  BY <1>2 DEF StagesTell
<1>6. AnswersHonest'
  BY <1>1, <1>2, <1>5, ServiceAssumption DEF AnswersHonest, TypeOK
<1>7. StagesTell'
  BY <1>1, <1>2 DEF StagesTell
<1>. QED  BY <1>3, <1>4, <1>6, <1>7

\* The answer follows what the store did.
LEMMA SavedInv ==
  ASSUME ServiceInv, NEW r \in Requests, Saved(r)
  PROVE  ServiceInv'
<1>. USE DEF ServiceInv
<1>1. /\ handler[r] = "saving" /\ handler' = [handler EXCEPT ![r] = "answered"]
      /\ UNCHANGED <<process, slots, paid, lost, kept, safe, reply>>
  BY DEF Saved, Move, Store!Acknowledge, Store!Refuse
<1>2. \/ r \in kept /\ sent' = [sent EXCEPT ![r] = 200]
      \/ r \notin kept /\ sent' = [sent EXCEPT ![r] = 500]
  BY DEF Saved, Answer, Store!Acknowledge, Store!Refuse
<1>3. outcome' \in [Requests -> {"pending", "saved", "refused"}]
  BY DEF Saved, Store!Acknowledge, Store!Refuse, TypeOK
<1>4. TypeOK'
  <2>1. sent' \in [Requests -> {200, 400, 429, 500, None}]
    BY <1>2 DEF TypeOK
  <2>2. handler' \in [Requests -> Stages]
    BY <1>1 DEF TypeOK, Stages, HoldingStages
  <2>. QED  BY <1>1, <1>3, <2>1, <2>2 DEF TypeOK
<1>5. CapacityKept'
  <2>1. "answered" \in Stages /\ handler[r] \in HoldingStages /\ "answered" \in HoldingStages
    BY <1>1 DEF Stages, HoldingStages, Auditing
  <2>2. slots' = slots /\ handler' = [handler EXCEPT ![r] = "answered"]
    BY <1>1
  <2>. QED  BY <2>1, <2>2, SameHolders
<1>6. AnswersHonest'
  <2>1. \A q \in Requests : q # r => sent'[q] = sent[q]
    BY <1>2 DEF TypeOK
  <2>2. (r \in kept /\ sent'[r] = 200) \/ (r \notin kept /\ sent'[r] = 500)
    BY <1>2 DEF TypeOK
  <2>. QED  BY <1>1, <2>1, <2>2 DEF AnswersHonest
<1>7. StagesTell'
  BY <1>1, <1>2, ServiceAssumption DEF StagesTell, TypeOK
<1>. QED  BY <1>4, <1>5, <1>6, <1>7

\* The end of a process empties the semaphore and takes its handlers along.
LEMMA DeathInv ==
  ASSUME ServiceInv, Exit \/ Crash \/ PowerLoss
  PROVE  ServiceInv'
<1>. USE DEF ServiceInv
<1>1. /\ \A r \in Requests : handler'[r] = IF r \in InFlight THEN "dead" ELSE handler[r]
      /\ handler' \in [Requests -> Stages]
      /\ slots' = 0 /\ UNCHANGED <<sent, paid, safe, outcome>>
      /\ process' \in {"exited", "crashed"}
      /\ reply' = [g \in Readers |-> None]
  BY DEF Exit, Crash, PowerLoss, Die, Store!Die, TypeOK, Stages
<1>2. /\ kept' \subseteq kept /\ safe \subseteq kept'
      /\ lost' \subseteq Requests /\ kept \cup lost \subseteq kept' \cup lost'
  BY DEF Exit, Crash, PowerLoss, Store!Die, TypeOK
<1>3. TypeOK'
  BY <1>1, <1>2, ServiceAssumption DEF TypeOK
<1>4. CapacityKept'
  <2>1. Holders' = {}
    BY <1>1 DEF Holders, InFlight, HoldingStages, Auditing
  <2>. QED  BY <1>1, <2>1, FS_EmptySet, ServiceAssumption DEF CapacityKept
<1>5. AnswersHonest'
  BY <1>1, <1>2 DEF AnswersHonest
<1>6. StagesTell'
  BY <1>1, <1>2 DEF StagesTell, InFlight
<1>. QED  BY <1>3, <1>4, <1>5, <1>6

\* Steps that touch no request: look-ups, the signal, the restart, the disk.
LEMMA SurroundingsInv ==
  ASSUME ServiceInv,
         \/ \E g \in Readers : ReadReport(g)
         \/ Signal \/ Overdue \/ Restart \/ Settle \/ UNCHANGED vars
  PROVE  ServiceInv'
<1>. USE DEF ServiceInv
<1>1. UNCHANGED <<handler, sent, slots, paid, lost, kept, outcome>>
  BY DEF ReadReport, Signal, Overdue, Restart, Settle, vars, storeVars,
         Store!Ask, Store!LookUp, Store!Settle
<1>2. process' \in {"up", "draining", "overdue", "exited", "crashed"} /\ safe' \subseteq kept
  BY DEF TypeOK, ReadReport, Signal, Overdue, Restart, Settle, vars, storeVars,
         Store!Ask, Store!LookUp, Store!Settle
<1>3. reply' \in [Readers -> {None} \cup [id : Requests, answer : {"found", "absent", "error"}]]
  BY DEF TypeOK, ReadReport, Signal, Overdue, Restart, Settle, vars, storeVars,
         Store!Ask, Store!LookUp, Store!Answer, Store!Settle
<1>4. TypeOK'
  BY <1>1, <1>2, <1>3 DEF TypeOK
<1>5. CapacityKept' /\ AnswersHonest' /\ StagesTell'
  BY <1>1 DEF CapacityKept, Holders, AnswersHonest, StagesTell
<1>. QED  BY <1>4, <1>5

\* Every step of a handler, the store, the reader and the process keeps the invariant.
LEMMA NextServiceInv == ServiceInv /\ [Next]_vars => ServiceInv'
<1>. SUFFICES ASSUME ServiceInv, [Next]_vars PROVE ServiceInv'
  OBVIOUS
<1>1. ASSUME NEW r \in Requests, HandlerStep(r) PROVE ServiceInv'
  BY <1>1, ReleaseInv, RefusalInv, ProgressInv, EffectInv, SavedInv DEF HandlerStep
<1>2. ASSUME NEW r \in Requests, Accept(r) \/ TurnAway(r) PROVE ServiceInv'
  BY <1>2, AcceptInv, RefusalInv
<1>. QED  BY <1>1, <1>2, DeathInv, SurroundingsInv DEF Next

\* So it holds for ever.
LEMMA ServiceInvariant == Spec => []ServiceInv
<1>. QED  BY InitServiceInv, NextServiceInv, PTL DEF Spec

\* Every stage, answer and counter keeps its type; above all, the count of slots
\* stays between nothing and the limit (httpapi.go:74-81).
THEOREM ServiceTypeCorrect == Spec => []TypeOK
<1>. QED  BY ServiceInvariant, PTL DEF ServiceInv

\* The semaphore holds exactly the audits that run (httpapi.go:74-81).
THEOREM CapacityAlwaysKept == Spec => []CapacityKept
<1>. QED  BY ServiceInvariant, PTL DEF ServiceInv

\* 200 stands for a report that is kept, and every other status for none
\* (httpapi.go:74-108).
THEOREM AnswersAlwaysHonest == Spec => []AnswersHonest
<1>. QED  BY ServiceInvariant, PTL DEF ServiceInv

\* A payment without a report has an explanation (httpapi.go:94-108).
THEOREM PaymentsLeaveTrace == Spec => []PaidLeavesTrace
<1>1. ServiceInv => PaidLeavesTrace
  <2>. SUFFICES ASSUME ServiceInv, NEW r \in paid PROVE
         r \in InFlight \/ r \in kept \cup lost \/ sent[r] = 500 \/ handler[r] = "dead"
    BY DEF PaidLeavesTrace
  <2>1. r \in Requests
    BY DEF ServiceInv, TypeOK
  <2>2. CASE handler[r] = "ended"
    BY <2>1, <2>2 DEF ServiceInv, TypeOK, AnswersHonest, StagesTell
  <2>3. CASE handler[r] # "ended"
    BY <2>1, <2>3 DEF ServiceInv, StagesTell, InFlight
  <2>. QED  BY <2>2, <2>3
<1>. QED  BY <1>1, ServiceInvariant, PTL

\* A look-up never misses a report that was answered with 200 (httpapi.go:111-123).
THEOREM NothingMissing == Spec => NeverMissing
<1>1. ASSUME ServiceInv, [Next]_vars, NEW g \in Readers, NEW i \in Requests,
             reply'[g] # reply[g], reply'[g] = Store!Answer(i, "absent"), sent[i] = 200
      PROVE  i \in lost
  <2>1. CASE \E q \in Readers : ReadReport(q)
    <3>1. PICK q \in Readers : ReadReport(q)
      BY <2>1
    <3>2. q = g
      BY <1>1, <3>1 DEF ReadReport, Store!Ask, Store!LookUp, ServiceInv, TypeOK
    <3>3. reply'[g] # None
      BY <1>1, ServiceAssumption DEF Store!Answer
    <3>4. PICK j \in Requests : Store!LookUp(g, j)
      BY <1>1, <3>1, <3>2, ServiceAssumption DEF ReadReport, Store!Ask, Store!Answer, ServiceInv, TypeOK
    <3>5. i \notin kept
      BY <1>1, <3>4 DEF Store!LookUp, Store!Answer, ServiceInv, TypeOK
    <3>. QED  BY <1>1, <3>5 DEF ServiceInv, AnswersHonest
  <2>2. CASE Exit \/ Crash \/ PowerLoss
    BY <1>1, <2>2, ServiceAssumption DEF Exit, Crash, PowerLoss, Store!Die, Store!Answer
  <2>3. CASE ~(\E q \in Readers : ReadReport(q)) /\ ~(Exit \/ Crash \/ PowerLoss)
    <3>1. reply' = reply
      BY <1>1, <2>3 DEF Next, vars, storeVars, Accept, TurnAway, HandlerStep, BadBody, Decode,
         Reject, Begin, Pay, Complete, Name, Saved, Panic, Release, Recover, Signal, Overdue,
         Restart, Settle, Store!Keep, Store!Acknowledge, Store!Refuse, Store!Settle
    <3>. QED  BY <1>1, <3>1
  <2>. QED  BY <2>1, <2>2, <2>3
<1>2. ServiceInv /\ [Next]_vars =>
        [\A g \in Readers, i \in Requests :
           /\ reply'[g] # reply[g]
           /\ reply'[g] = Store!Answer(i, "absent")
           /\ sent[i] = 200
           => i \in lost]_vars
  BY <1>1
<1>. QED  BY <1>2, ServiceInvariant, PTL DEF Spec, NeverMissing

=============================================================================
