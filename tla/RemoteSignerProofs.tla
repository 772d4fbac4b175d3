-------------------------- MODULE RemoteSignerProofs --------------------------
(* RemoteSigner for any number of callers, wallets and rotations.             *)
EXTENDS RemoteSigner, TLAPS

\* OneWalletPerLifetime is not inductive alone: a second fetch under way could
\* pin another wallet, and the mutex is what excludes it.
IInv == TypeOK /\ MutexGuardsFetch /\ OneWalletPerLifetime

\* Nothing is pinned and nobody holds the mutex at first.
LEMMA InitEstablishes == Init => IInv
<1>. SUFFICES ASSUME Init PROVE IInv
  OBVIOUS
<1>. USE SignerAssumption DEF Init
<1>1. TypeOK
  BY DEF TypeOK, Stages
<1>2. MutexGuardsFetch
  BY DEF MutexGuardsFetch
<1>3. OneWalletPerLifetime
  BY DEF OneWalletPerLifetime
<1>. QED  BY <1>1, <1>2, <1>3 DEF IInv

\* Every step of a caller, of the operator, and a restart.
LEMMA NextPreserves == IInv /\ [Next]_vars => IInv'
<1>. SUFFICES ASSUME IInv, [Next]_vars PROVE IInv'
  OBVIOUS
<1>. USE SignerAssumption DEF IInv, TypeOK, Stages, MutexGuardsFetch, OneWalletPerLifetime
<1>1. ASSUME NEW c \in Callers, Call(c)
      PROVE  IInv'
  BY <1>1 DEF Call, Enter
<1>2. ASSUME NEW c \in Callers, UsePinned(c)
      PROVE  IInv'
  BY <1>2 DEF UsePinned
<1>3. ASSUME NEW c \in Callers, Fetch(c)
      PROVE  IInv'
  BY <1>3 DEF Fetch, Enter
<1>4. ASSUME NEW c \in Callers, FetchAnswered(c)
      PROVE  IInv'
  <2>1. ring[1] \in Wallets
    BY <1>4 DEF FetchAnswered
  <2>2. TypeOK'
    BY <1>4, <2>1 DEF FetchAnswered
  <2>3. MutexGuardsFetch'
    BY <1>4, <2>1 DEF FetchAnswered
  <2>4. OneWalletPerLifetime'
    BY <1>4, <2>1 DEF FetchAnswered
  <2>. QED  BY <2>2, <2>3, <2>4
<1>5. ASSUME NEW c \in Callers, FetchFailed(c)
      PROVE  IInv'
  BY <1>5 DEF FetchFailed, Enter
<1>6. ASSUME NEW c \in Callers, Sign(c)
      PROVE  IInv'
  BY <1>6 DEF Sign, Enter
<1>7. ASSUME NEW c \in Callers, NEW data \in TypedData, SignAnswered(c, data)
      PROVE  IInv'
  BY <1>7 DEF SignAnswered, Enter, Held, Signature
<1>8. ASSUME NEW c \in Callers, NEW data \in TypedData, SignLost(c, data)
      PROVE  IInv'
  BY <1>8 DEF SignLost, Enter, Held, Signature
<1>9. ASSUME NEW c \in Callers, SignFailed(c)
      PROVE  IInv'
  BY <1>9 DEF SignFailed, Enter
<1>10. ASSUME NEW c \in Callers, Return(c)
      PROVE  IInv'
  BY <1>10 DEF Return
<1>11. ASSUME NEW c \in Callers, Cancel(c)
      PROVE  IInv'
  BY <1>11 DEF Cancel
<1>12. ASSUME Rotate
      PROVE  IInv'
  BY <1>12 DEF Rotate
<1>13. ASSUME Restart
      PROVE  IInv'
  BY <1>13 DEF Restart
<1>14. CASE UNCHANGED vars
  BY <1>14 DEF vars
<1>. QED
  BY <1>1, <1>2, <1>3, <1>4, <1>5, <1>6, <1>7, <1>8, <1>9, <1>10, <1>11, <1>12, <1>13, <1>14 DEF Next, Address, FetchEnds, SignEnds

\* TypeOK for every set of callers, wallets and key rings.
THEOREM SignerTypeCorrect == Spec => []TypeOK
<1>1. IInv => TypeOK
  BY DEF IInv
<1>. QED  BY <1>1, InitEstablishes, NextPreserves, PTL DEF Spec

\* All audits of one process lifetime pay from one wallet, whatever the rotations.
THEOREM OneWallet == Spec => []OneWalletPerLifetime
<1>1. IInv => OneWalletPerLifetime
  BY DEF IInv
<1>. QED  BY <1>1, InitEstablishes, NextPreserves, PTL DEF Spec

\* The pinned wallet changes by a restart only: an address is stored only by the
\* caller that holds the mutex, and then none is pinned (payment.go:260-275).
THEOREM PinnedWallet == Spec => PinnedUntilRestart
<1>1. IInv /\ [Next]_vars => [address # None => address' = address \/ Restart]_vars
  BY DEF IInv, MutexGuardsFetch, Next, Call, Address, UsePinned, Fetch, FetchEnds,
         FetchAnswered, FetchFailed, Sign, SignEnds, SignAnswered, SignLost, SignFailed,
         Return, Cancel, Rotate, vars
<1>. QED  BY <1>1, InitEstablishes, NextPreserves, PTL DEF Spec, PinnedUntilRestart

=============================================================================
