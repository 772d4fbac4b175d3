# Canary402 in TLA+

Canary402 (`src/`, Go) is an HTTP service that audits x402 endpoints: it probes a
target without paying, reads the payment challenge in the 402 answer, may pay once
within a budget, has the answer judged, and stores a scored report. What it must get
right is money (a signature that leaves the process is spent by somebody else, later,
and cannot be taken back) and evidence (a report must not say more, or less, than what
happened). This project models those two, checks the models with TLC, and proves the
central safety properties with TLAPS for every value of the constants.

Paths below are relative to `src/`; `payment.go` and the like are in
`internal/canary/`.

## Inventory

| Component | State it keeps | Operations | Correct when |
|---|---|---|---|
| Payment policy, `payment.go:54-233, 347-439` | the operator's policy (constant) | `ParsePaymentChallengeResponse`, `SelectPayment`, the checks in `Authorize` | what is chosen lies within both caps, is unambiguous, and is what `Authorize` accepts |
| Remote signer client, `payment.go:240-326` | the pinned wallet address, a mutex | `Address`, `SignTypedData` | one wallet per process lifetime; nobody waits for the mutex for ever |
| Auditor, `auditor.go` | one report under construction per call | `Audit` and its helpers `send`, `evaluateOutcome`, `complete` | each path records each check once; money is spent at most once, as authorized, and never hidden |
| Scoring, `auditor.go:275-383`, `specsmith.go:437-464` | none | check constructors, `finalizeReport` | score, coverage and verdict mean what `README.md:125-133` says |
| Semantic evaluator, `semantic.go` | none | `Evaluate` | an unusable judgement is an error |
| Specification review, `specsmith.go` | findings, facts and repairs of one audit | `inspectSpecifications`, `findOpenAPIPath`, `successfulResponseSchema`, `isConcreteSchema`, `finalize`, `inferJSONSchema` | the operation audited is the one asked for; status, checks and findings agree; concrete means concrete; a proposed schema keeps no value |
| Report store, `store.go` | a directory of reports | `Save`, `Get` | a report is absent or whole, also after a crash |
| HTTP API, `httpapi.go` | a semaphore of audit slots | `/audit`, `/reports/{id}` | slots are returned on every path, panics included; an answer is true of report and payment |
| Process lifecycle, `cmd/canary402/main.go` | the listening server | start, shutdown | an audit in flight is not lost |
| Safe target client, `safeclient.go` | an idle-connection pool | `ValidateURL`, `DialContext`, `Do` | no connection to a prohibited address, nor to another port; nothing else refused |
| Configuration, `config.go` | none | `ConfigFromEnv` | the policy is complete and positive |

**Interaction.** `/audit` takes a semaphore slot and calls `Auditor.Audit` with the
request's context, which ends when the caller disconnects. `Audit` calls, in this
order, the specification documents, the target (unpaid), the signer service (keys once
per process, then a signature), the target again (paid), the evaluator, and the store.
Audits run concurrently and share the `RemoteSigner` with its mutex and pinned address,
the connection pool, and the wallet on chain. The target settles the payment on its own,
by submitting the authorization to the token contract, whenever it likes.

**Hard behaviours.** Concurrency of audits around the mutex and a key rotation; a caller
that disconnects at any point; a paid request that fails on this side after the target
received it, or that `net/http` delivers twice; a signature whose answer is lost; a
settlement that comes after the audit is over, or interleaves with another audit's
payment from the same wallet; nine early exits of `Audit` that each must record the
checks they skip; integer division in the score; a store that refuses the report of a
paid audit. The full list, each at its line, is in `PROJECT.json` under `hazards`.

## Modules

| Module | Models |
|---|---|
| `Payment` | the challenge, the selection and the checks of `Authorize`, as operators |
| `Selection` | `SelectPayment` over a challenge and a request that change |
| `Scoring` | checks, outcome judgement, score, coverage, verdict, as operators |
| `RemoteSigner` | the signer client, with the external key ring; a component of its own |
| `Auditor` | audits in parallel; composes `Payment`, `Scoring` and an instance of `RemoteSigner` with the target, the chain, the evaluator and the store |
| `AuditorProperties` | what `Auditor` promises |
| `Spending` | the abstract specification of money that `Auditor` implements |
| `FileStore` | the report store on a file system that fails, is killed and loses power |
| `ReportStore` | the abstract store that `FileStore` implements and `Service` uses |
| `Service` | the HTTP API and the life of the process around an abstract audit |
| `SafeClient` | URL rules, look-ups, address ranges, the connection pool |
| `SpecReview` | the specification review; uses `Scoring` for its checks |
| `OperationLookup`, `Schemas`, `SchemaInference` | what `SpecReview` takes the results of: the operation found in a document, concreteness of schemas, the proposed request schema |
| `SpecReviewParts` | `SpecReview` with those three as instances, their properties and their assumption |
| `MCPayment`, `MCRemoteSigner`, `MCAuditor`, `MCFileStore`, `MCService`, `MCSafeClient`, `MCSpecReview` | instances for TLC |
| `PaymentProofs`, `RemoteSignerProofs`, `AuditorProofs`, `ReportProofs`, `FileStoreProofs`, `ServiceProofs`, `SafeClientProofs`, `SpecReviewProofs` | theorems |

### Payment

An option of a challenge is a record with the fields `SelectPayment` reads. Amounts are
integers, and a negative one stands for whatever `atomicString` rejects; addresses are
members of `AddressTexts`, of which `Addresses` match `addressPattern`.
`ChallengeParses` keeps the rule that one bad option spoils the challenge, `OptionAmount`
the fall-back to `maxAmountRequired`, `ChallengeDocument` the rule that a header excludes
the body. `SelectPayment` is the loop's result: the one acceptable option, or `None` for
its errors. `Authorizable` is what `Authorize` checks again.

`Selection` puts a seller and a caller around it: options are added (`AddOption`) and change
places (`Reorder`), the cap is raised (`RaiseCap`), a network or an asset is named. The code
makes one call of `SelectPayment` per audit; the steps are there to compare two calls.

### RemoteSigner

`call[c].stage` is the program counter of one `Authorize` (`waiting` is `mu.Lock`,
`fetching` the keys call with the mutex held), `address` the pinned field, `lock` the
mutex. `UsePinned` and `Fetch` are the two ways out of the lock, `FetchAnswered` pins the
first key, `FetchFailed` stands for every error of the call. `ring` is the external key
ring; `Rotate` replaces it at any time. A waiter in `mu.Lock` cannot be cancelled: its
context matters only to the calls.

### Auditor

`pc[a]` says which outgoing call the audit is in; one action is what the code does from
one such call to the next, so interleavings of audits, disconnections, rotations and
settlements fall exactly where the goroutines can be overtaken.

| Code | Actions |
|---|---|
| `validateRequest` | `Accept`, `Refuse` |
| `inspectSpecifications` | `Inspect` |
| the unpaid `send` and what follows | `ProbeFails`, `ProbeNotChallenged`, `ProbeBadChallenge`, `ProbeUnpaid`, `ProbeUnaffordable`, `ProbeSelects` |
| `Authorize` | `Authorize`, `Address`, `FetchEnds`, `Sign`, `SignEnds`, `AuthorizationFails`, `Authorized` |
| the paid `send` and what follows | `SendPaid`, `Redeliver`, `PaidFails`, `PaidAnswers` |
| `evaluateOutcome` | `EvaluateOutcome` inside the two answers, `EvaluatorAnswers`, `EvaluatorFails` |
| `complete`, `persist` | `Complete`, `SaveFails` |
| environment | `Disconnect`, `Rotate`, `Settle` |

`copies[a]` counts the copies of the paid request that reached the target; `Settle`
submits one of them and the token contract executes a transfer once per payer and nonce.
`PaidFails` leaves `copies` alone: the request may have arrived. A failed call needs no
reason, so it also covers cancellation; a call that succeeds requires that the caller has
not gone, because a success that overtakes the cancellation is the run in which the
cancellation comes second.

A nonce is 32 random bytes in the code; the model counts draws instead, which states that
draws differ and nothing more.

### FileStore and ReportStore

The stage of a `Save` is the last operation of `store.go:31-65` that succeeded, so a
failure, a kill or a power loss falls between any two of them. `OperationFails` stands for
the error returns and leads to the deferred `os.Remove` (`RemoveTemp`), which goes by name
whatever that name means by then. `whole` are the files with their full content, `synced`
those whose content survives a power loss, `flushed` the final names that do; the directory
is written by the kernel (`Flush`), never by `Save`. `Get` opens the file and reads it in
two steps.

`ReportStore` says what callers may rely on: a report is kept or not, `Save` answers for
what it did, a look-up tells the truth, a kill takes nothing and a power loss only what
was not safe. Nobody reads part of a report.

### Service

`handler[r]` is where the handler of a request is, from the semaphore to the return, with
the two deferred functions (`Release`, `Recover`) as steps of their own. The audit is
reduced to what the service sees of it: it may be refused, may pay, is saved or not, may
panic. `process` goes from `up` to `draining` on a signal; `Exit` is `main` returning after
`ListenAndServe`, which does not wait for `Shutdown`. `Crash`, `PowerLoss` and `Restart`
take the process away at any time. The store is an instance of `ReportStore`.

### SafeClient

A call validates its URL against one look-up (`Validate`, `RefuseURL`, `RefuseAddress`),
and `Dial` makes another, since the resolver may answer differently. `open` is the pool:
`Send` takes any open connection for its scheme, host and port, whoever dialled it. An
address is its units with their width, and whether it has a zone; a range is compared bit
by bit, in the family it is written in. `InRange` is the comparison of bits, which the
predicates of `net/netip` make, and `Contains` is `Prefix.Contains`, which an address with a
zone never passes. What the ranges are for is stated apart from them: `Reserved` describes
the reserved addresses unit by unit, and the mapped ones by what they map to. `LiftedByZone`
names the addresses for which the two differ (see the disagreements below).

### SpecReview and its parts

`SpecReview` fetches three documents, analyses them and finalizes with the live challenge;
a document is what the analysis sees of it. The calls of `addFinding`, at most twelve in a
step, are written out (`AddFindings`) in the order of the code. Three modules show how that comes about:

* `OperationLookup`: `FindOpenAPIPath` (exact, else the first template in sorted order),
  `SuccessfulResponseSchema`, `QueryParameterContract`, over a document that grows entry by
  entry.
* `Schemas`: `Resolve` and `ConcreteWith`, over documents with nesting and circular
  references, against `Meaningful`, a least fixed point without a limit.
* `SchemaInference`: `SchemaForValue` with its limits of depth, width and length, against
  `Validates`, the meaning of a JSON schema.

The depth counter of the code goes up to a limit; in both modules the recursion is on the
levels that are left, so that it is a function on the natural numbers: at depth `d`,
`isConcreteSchema` is `ConcreteWith[Levels - d]` and `schemaForValue` is
`SchemaForValue[MaxSchemaDepth - d]`. `Values` are the JSON values with all their parts.
`Alike[n]` says that two of them differ only in their leaves, `n` levels deep; `Fits[n]`, that
one may stand where the other was seen, read off the two values and not off a schema;
`Narrow[n]`, that no object in one has more names than are kept or a long one; `Tidy[n]`, that
the items of each list are alike or cannot be taken for each other.

## Runs

| Run | Question | Distinct states |
|---|---|---|
| `selection` | every challenge of up to three options from a palette, every request: is the choice one that `Authorize` accepts within both caps, and can order, a bigger cap or one more option redirect it? | 354,600 |
| `signer` | three callers, rotation among four rings, failures, restarts: one wallet per lifetime, and does everyone who waits for the mutex get through? | 78,208 |
| `audit_single` | one audit through every kind of request, reply, paid status and judgement: complete checks, honest verdict, sound numbers? | 19,464 |
| `audit_pair` | two paid audits with rotation, disconnection, duplicate delivery, late settlement: money as authorized, once, not hidden, from one wallet? | 266,534 |
| `audit_progress` | does every audit end? | 16,088 |
| `store` | three saves, two temporary names, a reader, failures, kills, power loss: is `FileStore` a `ReportStore`, and does a removal spare other saves? | 114,284 |
| `service` | two requests for one slot, a reader, panics, shutdown, crash, restart: capacity, true answers, traceable payments, and a slot that comes back? | 39,902 |
| `target_client` | two calls, names that change their addresses, a shared pool, and every end of every range in every form: what is reached, what is refused, on which ports? | 86,023 |
| `spec_review` | everything the documents and the challenge can show, and the three parts by themselves | 1,188,292 |
| `network_optional`, `graceful_shutdown`, `zoned_ranges` | three statements the code does not keep (below) | |

**Bounds.** Three options are the least that let two of them match while a third is
indifferent, in every order. Three signer callers let one fetch while another waits and a
third comes too late; rings of length 0, 1 and 2 cover no key, a replaced key and a key
put in front of the old one. Two audits suffice for the properties of `audit_pair`, which
relate at most two audits. `MaxCopies = 2` is a delivery and its replay; the properties
speak of copies only through the nonce, so more of them add nothing. The palette of
replies has one option of each kind that `SelectPayment` treats differently; amounts 1
and 2 lie at and above a cap. Scores 0, 49, 50, 100 and 101 stand on both sides of the
floor and of the valid range. `audit_pair` and `store` use symmetry over audits, reports and
names, which no property or action tells apart; the runs with liveness do not.

Three saves with two names let a name be drawn, renamed away, and drawn again while its
first owner still has its removal to do. Two requests for one slot let one be turned away,
come while the other holds the slot, or follow it in a later process; that more slots and
requests change nothing of the safety properties is proved. Two calls, two names and two
connections let one call use what another dialled before the name changed, and `MCSpec`
lets a call to a literal address at the end of a range (`Ranged`) run only by itself,
since it shares nothing with the others. Of the review, `subject` says which part a
behaviour is about; the parts share no state, and what belongs to the others stays as it
began. Three paths with segments on both sides of the brace in byte order (`a`, `{x}`,
`~`) give every order of exact and template matches; four schemas exceed a depth of 2 in
references as well as in nesting (8 in the code), and the limits 3, 2 and 2 of depth, width
and length (6, 64 and 16 in the code) are exceeded by bodies of depth 4, width 3 and length
3. `a_long` stands for a name of more than 128 bytes. Lists in lists, of objects with
different names and of objects that are too wide, make the cuts meet.

Every run but `spec_review` checks deadlock; an audit system whose audits have all ended
stutters in `Terminated`. A review ends, and a document of the full size is not extended:
there the model really stops.

**Fairness.** Every outgoing call has a timeout (15 s in the signer client,
`payment.go:255`; the target policy's and the evaluator's clients have theirs), so a call
under way ends and the audit goes on: weak fairness of `AuditStep`. Getting the mutex
needs strong fairness, since it is free only now and then while others come and go; Go's
`sync.Mutex` turns to starvation mode and hands itself to the oldest waiter after a
millisecond. Callers, rotation and settlement are given no fairness.
In `Service` each handler goes on (weak fairness of `HandlerStep`): reading the body ends
with the server's read timeout (`main.go:55-57`), an audit with its calls' limits. Nothing
is assumed of signals, crashes or restarts.

## What the properties say

* `ChoiceIsAuthorizable`, `OrderDecidesNothing`, `WideningNeverRedirects`: selection.
* `OneWalletPerLifetime`, `PinnedUntilRestart`, `EveryCallEnds`: the signer.
* `SettledWithinAuthority`: every transfer on chain was requested, is within the caller's
  and the operator's cap, on the network and asset asked for, to a payee the target
  quoted to this audit, and signed by its payer.
* `SpendsOnce`: `Auditor` implements `Spending`. The refinement maps an audit's mandate to
  the transfer in its envelope once a copy has been delivered, and its payment to what the
  chain executed; so replays and late submissions of copies are stutters, and no transfer
  other than the mandate is executed.
* `NoHiddenPayment`: a stored report of an audit whose money moved says so and names payer,
  amount and payee, also when the paid request failed on this side.
* `PaymentsIndependent`: one audit's payment never uses up another's nonce.
* `ReportsNameOneWallet`: all reports of a lifetime name one payer.
* `ChecksComplete`, `VerdictHonest`, `ScoreSound`: the report.
* `EveryAuditEnds`: progress.
* `WholeOrAbsent`: `FileStore` implements `ReportStore`, so that no order of failures,
  kills and power losses lets a reader see part of a report or a `Save` report success for
  a file that is not there.
* `RemovesOnlyItsOwn`: the deferred removal, by a name that has been free since the rename,
  never takes another save's file. It rests on `FreshName`, that two pending saves do not
  draw the same 32 random bits; with a name that merely does not exist it fails.
* `CapacityKept`, `SlotsReturn`: the semaphore holds exactly the running audits, through
  panics and restarts, and a full service gets room again.
* `AnswersHonest`, `PaidLeavesTrace`, `NeverMissing`: a status is true of the report and of
  the payment; a payment without a report has a 500, a dead process or a power loss to show
  for it; a report that was answered with 200 is not absent later.
* `ReachesOnlyAllowed`, `RefusesOnlyProhibited`: whatever names resolve to and when, nothing
  reserved is reached, but for the addresses of `LiftedByZone`, and nothing else is refused.
  `StandardPorts`: the ports.
* `ReadyMeansChecked`, `AgreesWithScoring`, `NothingDropped`: status, checks and findings
  come from separate code and agree; no finding is lost to the comparison of codes. (The limit
  of 64 is out of reach: there are 29 codes, each kept once.)
* `FindsItsPath`, `OthersDecideNothing`, `ContractIsStable`: the operation and its contract
  are read from the entries that are theirs, whatever else a document has.
* `ConcreteIsReal`, `ShallowIsFound`: the depth counter never takes a loop for content and
  loses nothing within the limit.
* `ValueFree`: two bodies that differ only in their leaves get one schema.
* `AcceptedExactly`: the schema proposed for a body accepts that body if and only if the body
  `Fits` itself: every name of its objects is kept, and each item of a list suits one and only
  one of the shapes that were looked at. `OnlyWidthCloses`: if the lists are `Tidy`, what
  decides is `Narrow`. So the two cuts for width close (`additionalProperties` is false,
  `specsmith.go:642`), the one for depth stays open, and the one for length closes to shapes
  that come only after it, which no tidy list has.

## What is proved

TLAPS checks all obligations of the eight proof modules. They rest on the named
assumptions of the modules and nothing else: `PolicyAssumption` (a positive cap, networks
that `normalizeNetwork` returns, an asset for both), `DocumentsAssumption` (what does not
decode is no document), `OffersAssumption` (offers are options), `SignerAssumption`,
`AuditAssumption` (the inputs have their types), `NoneAssumption` and `ReviewAssumption`
(`None` is none of the values), `StoreAssumption`, `ServiceAssumption` and
`ClientAssumption` (the constants have their types and a slot exists), and
`PartsAssumption`, which joins what the parts of the review take for granted (`LookupOK`,
`SchemasOK`, `InferenceOK`: types, and that codes and keys are listed once). TLC evaluates
each of them in the runs.

* **Selection** (`SelectedIsAuthorizable`). `SelectPayment` returns a requirement that
  every check repeated in `Authorize` accepts, within the request's limits. The argument
  goes through `SelectionIsQuoted`: a choice is one of the quoted options with its network
  normalised, and normalising twice changes nothing. `AnyOrderSameChoice` is about any
  rearrangement of any number of options, `WideningKeepsChoice` about a larger cap and any
  further options at once: both compare the sets of matching options, of which a choice is
  the only element. `ChoiceAlwaysAuthorizable`, `OrderNeverDecides` and `NeverRedirects`
  are what follows for `Selection`, whatever the palette and the length. `AuditorProofs`
  takes the facts from an instance of `PaymentProofs`.
* **Signer** (`SignerTypeCorrect`, `OneWallet`, `PinnedWallet`). `OneWalletPerLifetime`
  is not inductive: with two fetches under way the second could pin another wallet. The
  invariant adds `MutexGuardsFetch`, that whoever fetches holds the mutex and nothing is
  pinned yet.
* **Types** (`AuditTypeCorrect`). `TypeOK` joins the types of the data with `ScopeOK`, which
  of an audit's parts exist at which stage; without it neither the typed data of a
  signing call nor the envelope of a paid one could be typed. The signer's part is not
  proved again: `SignerStep` shows that every step of `Auditor` is a step of `RemoteSigner`
  or leaves it alone, and its invariant is carried over.
* **Money** (`MoneyWithinAuthority`). `SettledWithinAuthority` looks only at the two ends,
  request and chain. `MoneyTrail` is what connects them: the requirement lies within the
  authority of the request and is one of the options quoted (`SelectionOK`), typed data
  and signature are made from the requirement (`SigningOK`), the envelope holds the typed
  data and the chain executes what the envelope holds (`EnvelopeOK`). Each action extends
  the trail by one link, or finds it empty (`NothingChosen`), or leaves it.
* **Spending** (`PaysAtMostOnce`, `NoncesNeverMeet`). That `Auditor` implements `Spending`
  needs `SpendingInv`: every nonce in use was drawn, and for one audit (`NoncesOK`), a paid
  request leaves once, after `paying`, and what the chain executed is a copy of it
  (`DeliveriesOK`). So the transfer of an envelope differs from every other in its nonce, and
  a late copy finds its nonce used, which is a stutter of `Spending`. `NoncesNeverMeet` is
  the same fact about pairs.
* **Payer** (`OnePayer`). Every payer in a report is the pinned wallet (`PayersPinned`), and
  the pin never changes while the process lives (`AddressPinned`).
* **Reports** (`PaymentsAreReported`, `EveryCheckIsMade`, `VerdictsAreHonest`,
  `NumbersAreSound`). `ReportInv` says for each stage which checks a report under
  construction holds, in which order, and what they owe to the request, the replies, the
  copies sent and the judgement (`StageOK`); a stored report is the completed one, finalized
  (`StoredOK`). Names, statuses and points follow the order of the checks, so the loop of
  `finalizeReport` is written out as a sum over five or seven of them (`SumOfChecks`), and
  score, coverage and verdict are arithmetic on its terms. A settlement after the report is
  stored moves the money that the report names already.
* **Store** (`StoreTypeCorrect`, `StoreKeepsPromise`, `RemovalIsOwn`). That `FileStore`
  implements `ReportStore` needs `StoreInv`: pending saves own different names and a name
  means its owner's file up to the rename (`NamesOwned`), content is whole before it is
  synced and synced before it is named (`ContentFirst`), names appear with the rename
  (`NamedOnRename`), and a file that is being read stays named (`ReadersHold`). Each
  operation is then a step of `ReportStore` or a stutter.
* **Service** (`ServiceTypeCorrect`, `CapacityAlwaysKept`, `AnswersAlwaysHonest`,
  `PaymentsLeaveTrace`, `NothingMissing`), for any number of requests and slots.
  `ServiceInv` relates the stage of a handler to its answer, to its slot and to the store's
  outcome.
* **Client** (`RangesExact`, `ReachesOnlyAllowedAlways`, `StandardPortsAlways`,
  `RefusesOnlyProhibitedAlways`), for any names, look-ups and pool. `RangesExact` takes the
  ranges apart: a prefix comparison is an equality or an interval of the leading units, for
  all 2^32 and 2^128 addresses with and without a zone, mapped ones included, and an address
  is let through if and only if it is not in `Reserved` or is in `LiftedByZone`. `ClientInv`
  says that every connection, used or open, was dialled to an address that this dial allowed,
  `TargetInv` that a target under way passed the rules of its URL and that a prohibited one had
  an address that is refused.
* **Review** (`ReviewTypeCorrect`, `NothingIsDropped`, `ReadyIsChecked`, `ScoringAgrees`),
  for every three documents and every challenge. A code names one finding (`CodesAreKeys`),
  so that the look-up for a code drops only what is there already, and two steps of at most
  twelve findings stay below the limit of 64 (`FindingsOK`). Documents without an error or a
  warning have an operation with concrete schemas (`ReadyOK`), which is what the checks read.

* **Operation and contract** (`OperationIsFound`, `OthersNeverDecide`,
  `ContractStaysStable`), for any segments, paths, responses and parameters. What `First`
  chooses is defined only if the paths have one order, so the proof begins there: paths
  differ in a first place (`Differs`), which makes `Precedes` total, strict and transitive,
  and a finite set of paths has exactly one that goes before the others (`FirstPath`: the
  one that the fewest go before). `LookupInv` adds to the types that the paths are finitely
  many. A path that is added and wins is then the new first; one that does not win leaves
  the first as it was. The same with `Earliest` for responses; a further
  parameter keeps the places of those before it.
* **Concreteness** (`NothingPassesForContent`, `NothingShallowIsMissed`), for any schemas,
  loops and limit. By the levels: what is accepted with some levels is in every closed set
  (`AcceptedIsReal`), hence in the least one; one more level loses nothing (`MoreLevels`),
  and what says something within `n` levels is accepted with `n + 1` (`ShallowIsAccepted`).
  Both rest on `ResolvedFacts`: what a reference is resolved to is no reference, resolving
  it with one level more changes nothing, and what it says, the reference says.
* **Proposed schema** (`NoValueShowsThrough`, `AcceptedExactlyAlways`,
  `OnlyWidthClosesAlways`), for any JSON values and limits, those that exceed a limit
  included. By the levels again: alike values have one schema (`AlikeDescribed`); values have
  one schema if and only if they are of one shape in what is looked at (`SameDescribed`), so
  the variants of a `oneOf` are the shapes of the items, and a value validates against the
  schema of another if and only if it fits it (`FitsDescribed`). Of a tidy value that leaves the
  names: all are kept if and only if they are not too many and none is long (`WidthDecides`;
  `NothingCutOff` counts the names before the last one), and in a list an item fits one shape
  if and only if it fits itself (`ItemSuitsItself`).

The provers have no induction over levels of their own. It comes down to `Least`, that a set
of natural numbers has a least element, which the library's theorem about `<` gives, and
`EveryLevel`. That a recursive function is what its equation says needs a proof too: `Iterates`
builds the results of numbered steps, and lemmas such as `ResolveLevels`, `FitsLevels` and
`ValidatesLevels` apply it; `DescribedLevels` does the same for schemas, which have no common
set to lie in.

Model-checked only: liveness (`EveryCallEnds`, `EveryAuditEnds`, `SlotsReturn`), which is out
of the prover's reach, and the three statements that the code does not keep.

## Disagreements with the documentation

* `README.md:106-108` says that a real payment requires the user to name
  `payment_network`. `SelectPayment` (`payment.go:166`) takes an absent one for any
  allowed network; run `network_optional` shows a payment without it.
* `main.go:66-69` gives `Shutdown` ten seconds for requests in flight. `ListenAndServe`
  returns as soon as `Shutdown` is called, so `main` returns (`main.go:74`) and the process
  exits at once; run `graceful_shutdown` shows it exit with an audit in flight. A payment
  made by then has no report, which `PaidLeavesTrace` therefore has to allow.
* `README.md:215` says that the documentation and NAT64 ranges are blocked, and
  `safeclient.go:144-145` that their prefixes are there for IPv6 literals. `Prefix.Contains`
  is false for an address with a zone, and nothing removes the zone (`safeclient.go:103,
  151`); run `zoned_ranges` shows such an address dialled. Loopback, private, link-local and
  multicast addresses are refused with a zone too, since those predicates look at bits, and
  so are mapped ones, since `Unmap` drops the zone.

### Read but not run

Other places met on the way, which no violation run is about:

* `auditor.go:210`: `validateRequest` accepts an `expected_status` of 1 to 99, while the
  published schema (`httpapi.go:152`) gives it a minimum of 100.
* `specsmith.go:455`: checks read the facts and the status reads the findings, so a review
  with a warning that no check reads (`summary_missing`, `service_not_registered` and
  others) ends in `NEEDS_REPAIR` with the verdict `PROBE_PASS`. `ReadyMeansChecked` holds;
  its converse does not.
* `specsmith.go:169`: a GET with a query gets "No non-sensitive request example is
  published", whatever its parameters publish; only a POST is searched for one.
* `specsmith.go:264`: a 200 with JSON but no schema hides the schema of a 201.
* `specsmith.go:356`: a query parameter declared by `$ref` is not seen.
* `specsmith.go:634, 638, 642`: a body with more than 64 names in one object, or with a name
  of more than 128 bytes, is rejected by the schema proposed for it, which leaves the name out
  and is closed. `AcceptedExactly` and `OnlyWidthCloses` say exactly when.
* `specsmith.go:667`: the items of a list are joined by `oneOf`, so a schema inferred from a
  list with 2 and 1.0 rejects that list, because 2 is an integer and a number; and so it is
  with `[{}, {"a": 1}]`, because `{}` suits both variants, and with `[[], [1]]`.
* `specsmith.go:646`: items after the sixteenth are not looked at, so a list is rejected if
  one of them has a shape that none of the first sixteen has.
* `main.go:57`: the write timeout is 120 s, while three documents (5 s each), probe (20 s),
  wallet and signature (15 s each), paid request (20 s) and evaluation (45 s) may take
  130 s, and more behind other callers of the signer.

## Not modelled

* Wording, latencies, digests, content types, logging, base64 and JSON syntax: no property
  is about them.
* EIP-712 hashing, the validity window and the domain name of an authorization: they are
  constants of the process or decided by the clock.
* The failures of `crypto/rand` (`auditor.go:47`, `payment.go:378`): the first would end an
  audit before it begins, the second is one more reason for `SignFailed`.
* The prompt and the parsing of the evaluator's answer, beyond usable or not.
* The landing page, `/health` and the published `/openapi.json`: no state.
* Of the specification review: the layout of the repair bundle, the comparison of resource
  URLs and the search for keys in Bazaar metadata, which enter as values. That what
  `SpecReview` takes for a result is what the three part modules compute is by reading:
  they are checked side by side and not composed, because a document that has paths,
  responses and nested schemas at once is beyond TLC.
* URL syntax in `SafeClient`.
* Time. Every call under way ends, which the fairness states; how late is not modelled.
* Reading the environment in `config.go`; what it guarantees are the assumptions on the
  constants.
* Build files, manifests, scripts, the agent's objective, examples: no program state.

## Plan

Done: the money and report core (`Payment`, `Scoring`, `RemoteSigner`, `Auditor`,
`Spending`), the store (`FileStore`, `ReportStore`), the service and its life (`Service`),
the client (`SafeClient`), the specification review and its parts, and the proofs above.

Left, in order of importance:

1. Time: the limits of the calls against the write timeout and the queue for the mutex.
2. The parsing of configuration and of the evaluator's answer.
