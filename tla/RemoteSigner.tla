----------------------------- MODULE RemoteSigner -----------------------------
(***************************************************************************)
(* RemoteSigner of internal/canary/payment.go (240-326): the wallet address *)
(* fetched once under a mutex and pinned for the process lifetime, and the  *)
(* signing calls that follow.                                               *)
(*                                                                          *)
(* A caller is one PaymentAuthorizer.Authorize in flight: it asks for the   *)
(* address, then for a signature.  Its stage is                             *)
(*   idle       before Authorize                                            *)
(*   waiting    in mu.Lock, where its context cannot reach it               *)
(*   fetching   holding the mutex during GET /api/v1/keys                   *)
(*   addressed  with an address, mutex released                             *)
(*   signing    during POST /api/v1/sign/<address>/typed-data               *)
(*   signed, failed                                                         *)
(*                                                                          *)
(* The signer service is external: it lists a key ring, of which the code   *)
(* reads the first key, and signs for any key in it.  Its operator may      *)
(* replace the ring at any time.                                            *)
(*                                                                          *)
(* A call started under a cancelled context fails at once, and a call under *)
(* way may lose the race against the cancellation.  When it wins, the run   *)
(* is the one in which the cancellation comes just after the answer, so a   *)
(* successful answer needs a live context here.                             *)
(***************************************************************************)
EXTENDS Sequences

CONSTANTS
  Callers,   \* the Authorize calls
  Wallets,   \* wallet addresses
  KeyRings,  \* key lists the signer service may serve
  TypedData, \* messages to sign
  None

ASSUME SignerAssumption ==
  KeyRings \subseteq Seq(Wallets) /\ None \notin Wallets /\ None \notin Callers

VARIABLES
  address,   \* RemoteSigner.address; None is the empty string
  lock,      \* the holder of RemoteSigner.mu, or None
  call,      \* call[c].stage, and call[c].payer: what Address returned
  gone,      \* the callers whose context is cancelled
  ring,      \* the signer service's key ring
  signed     \* every signature the service has made

vars == <<address, lock, call, gone, ring, signed>>

Stages == {"idle", "waiting", "fetching", "addressed", "signing", "signed", "failed"}

Signature(by, data) == [by |-> by, data |-> data]

Held == {ring[i] : i \in DOMAIN ring}

TypeOK ==
  /\ address \in Wallets \cup {None}
  /\ lock \in Callers \cup {None}
  /\ call \in [Callers -> [stage : Stages, payer : Wallets \cup {None}]]
  /\ \A c \in Callers :
       /\ call[c].stage \in {"addressed", "signing", "signed"} => call[c].payer # None
       /\ call[c].stage \in {"idle", "waiting", "fetching"} => call[c].payer = None
  /\ gone \subseteq Callers
  /\ ring \in KeyRings
  /\ signed \subseteq [by : Wallets, data : TypedData]

Init ==
  /\ address = None
  /\ lock = None
  /\ call = [c \in Callers |-> [stage |-> "idle", payer |-> None]]
  /\ gone = {}
  /\ ring \in KeyRings
  /\ signed = {}

Enter(c, stage) == call' = [call EXCEPT ![c].stage = stage]

-----------------------------------------------------------------------------
(* Address *)

Call(c) ==
  /\ call[c].stage = "idle"
  /\ Enter(c, "waiting")
  /\ UNCHANGED <<address, lock, gone, ring, signed>>

\* The mutex is free and the address already known: returned without a call,
\* even to a caller whose context is gone.
UsePinned(c) ==
  /\ call[c].stage = "waiting"
  /\ lock = None
  /\ address # None
  /\ call' = [call EXCEPT ![c] = [stage |-> "addressed", payer |-> address]]
  /\ UNCHANGED <<address, lock, gone, ring, signed>>

\* Mutation: the mutex is not taken before the keys are fetched.
FetchUnlocked(c) ==
  /\ call[c].stage = "waiting"
  /\ address = None
  /\ Enter(c, "fetching")
  /\ UNCHANGED <<address, lock, gone, ring, signed>>

Fetch(c) ==
  /\ call[c].stage = "waiting"
  /\ lock = None
  /\ address = None
  /\ lock' = c
  /\ Enter(c, "fetching")
  /\ UNCHANGED <<address, gone, ring, signed>>

\* The first key of the ring is pinned and the mutex released.
FetchAnswered(c) ==
  /\ call[c].stage = "fetching"
  /\ c \notin gone
  /\ ring # << >>
  /\ address' = ring[1]
  /\ call' = [call EXCEPT ![c] = [stage |-> "addressed", payer |-> ring[1]]]
  /\ lock' = None
  /\ UNCHANGED <<gone, ring, signed>>

\* Mutation: the error path forgets to release the mutex.
FetchFailedHolding(c) ==
  /\ call[c].stage = "fetching"
  /\ Enter(c, "failed")
  /\ UNCHANGED <<address, lock, gone, ring, signed>>

\* Mutation: the error of the keys call is not looked at.
FetchErrorIgnored(c) ==
  /\ call[c].stage = "fetching"
  /\ Enter(c, "addressed")
  /\ lock' = None
  /\ UNCHANGED <<address, gone, ring, signed>>

\* Timeout, cancellation, an error status, no usable key: nothing is pinned.
FetchFailed(c) ==
  /\ call[c].stage = "fetching"
  /\ Enter(c, "failed")
  /\ lock' = None
  /\ UNCHANGED <<address, gone, ring, signed>>

-----------------------------------------------------------------------------
(* SignTypedData, called with the address Address returned *)

\* The request goes out for the caller's own payer address.
Sign(c) ==
  /\ call[c].stage = "addressed"
  /\ c \notin gone
  /\ Enter(c, "signing")
  /\ UNCHANGED <<address, lock, gone, ring, signed>>

\* The service signs data for the key the request names, if it holds that key.
SignAnswered(c, data) ==
  /\ call[c].stage = "signing"
  /\ c \notin gone
  /\ call[c].payer \in Held
  /\ signed' = signed \cup {Signature(call[c].payer, data)}
  /\ Enter(c, "signed")
  /\ UNCHANGED <<address, lock, gone, ring>>

\* The signature was made, and its answer was lost.
SignLost(c, data) ==
  /\ call[c].stage = "signing"
  /\ call[c].payer \in Held
  /\ signed' = signed \cup {Signature(call[c].payer, data)}
  /\ Enter(c, "failed")
  /\ UNCHANGED <<address, lock, gone, ring>>

\* No signature: the call never started, timed out, or was refused.
SignFailed(c) ==
  /\ call[c].stage \in {"addressed", "signing"}
  /\ Enter(c, "failed")
  /\ UNCHANGED <<address, lock, gone, ring, signed>>

-----------------------------------------------------------------------------
(* The environment *)

Cancel(c) ==
  /\ c \notin gone
  /\ gone' = gone \cup {c}
  /\ UNCHANGED <<address, lock, call, ring, signed>>

Rotate ==
  /\ ring' \in KeyRings \ {ring}
  /\ UNCHANGED <<address, lock, call, gone, signed>>

-----------------------------------------------------------------------------
(* The component on its own.  A caller that has its answer makes room for  *)
(* the next Authorize, and the process may be restarted at any time, which *)
(* is how a rotated wallet is meant to be taken up.                        *)

Return(c) ==
  /\ call[c].stage \in {"signed", "failed"}
  /\ call' = [call EXCEPT ![c] = [stage |-> "idle", payer |-> None]]
  /\ gone' = gone \ {c}
  /\ UNCHANGED <<address, lock, ring, signed>>

Restart ==
  /\ address' = None
  /\ lock' = None
  /\ call' = [c \in Callers |-> [stage |-> "idle", payer |-> None]]
  /\ gone' = {}
  /\ UNCHANGED <<ring, signed>>

Address(c) == UsePinned(c) \/ Fetch(c)
FetchEnds(c) == FetchAnswered(c) \/ FetchFailed(c)
SignEnds(c) == SignFailed(c) \/ \E data \in TypedData : SignAnswered(c, data) \/ SignLost(c, data)

Next ==
  \/ \E c \in Callers :
       \/ Call(c) \/ Address(c) \/ FetchEnds(c) \/ Sign(c) \/ SignEnds(c)
       \/ Return(c) \/ Cancel(c)
  \/ Rotate
  \/ Restart

\* sync.Mutex hands itself to a waiter that has starved for a millisecond, so a
\* waiter gets it although others come and go (SF).  The HTTP client gives up
\* after 15 seconds, so every call under way ends (WF).
Fairness ==
  \A c \in Callers :
    /\ SF_vars(Address(c))
    /\ WF_vars(FetchEnds(c))
    /\ WF_vars(Sign(c) \/ SignEnds(c))

Spec == Init /\ [][Next]_vars /\ Fairness

-----------------------------------------------------------------------------
(* Properties *)

\* The mutex is held exactly by the caller that is fetching the keys, and only
\* while no address is pinned (payment.go:260-274).
MutexGuardsFetch ==
  \A c \in Callers : call[c].stage = "fetching" <=> lock = c /\ address = None

\* All audits of one process lifetime pay from one wallet, the pinned one, even
\* when the key ring is rotated between their calls (payment.go:245-248).
OneWalletPerLifetime ==
  \A c \in Callers : call[c].payer \in {None, address}

\* The pinned wallet changes by a restart only (payment.go:245-248).
PinnedUntilRestart ==
  [][address # None => address' = address \/ Restart]_vars

\* Every Authorize gets its signature or an error, whatever the signer does and
\* however many callers wait for the mutex (payment.go:259-293).
EveryCallEnds ==
  \A c \in Callers : call[c].stage = "waiting" ~> call[c].stage \in {"signed", "failed", "idle"}

=============================================================================
