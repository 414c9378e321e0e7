------------------------- MODULE BlendStorageProofs -------------------------
(***************************************************************************)
(* strategy-blend's entries agree and live as long as they are used, for   *)
(* every set of vaults and every threshold, bump and network minimum, in   *)
(* whatever order calls, restorations and ledgers come.                    *)
(*                                                                         *)
(* The inductive invariant has two parts.  Values: a vault without an      *)
(* entry has no shares, so that a missing entry may read as 0.  Lifetimes: *)
(* what an entry still lives and the time since its last use add up to at  *)
(* least what that use has left it.                                        *)
(*                                                                         *)
(* No amount is computed with here: of ArithmeticTheorems, only the facts  *)
(* about sums are used.                                                    *)
(***************************************************************************)
EXTENDS BlendStorage, ArithmeticTheorems

Values ==
  /\ TotalsAgree
  /\ \A v \in Vaults \ written : vaultShares[v] = 0

Lifetimes ==
  /\ instanceTtl + idle >= Smaller(INSTANCE_LIFETIME_THRESHOLD + 1, MaxTtl)
  /\ \A v \in Vaults : idle <= vaultIdle[v]
  /\ \A v \in written :
       entryTtl[v] + vaultIdle[v] >= Smaller(PERSISTENT_LIFETIME_THRESHOLD + 1, MinTtl)

Kept == TypeOK /\ Values /\ Lifetimes

-----------------------------------------------------------------------------
(* Lifetimes of one entry. *)

\* An extension leaves at least one ledger more than the threshold, or all the network gives.
LEMMA ExtensionBounds ==
  ASSUME NEW ttl \in Ttls, NEW threshold \in Nat, NEW bump \in Nat, threshold < bump
  PROVE  /\ Extended(ttl, threshold, bump) \in Ttls
         /\ Extended(ttl, threshold, bump) >= ttl
         /\ Extended(ttl, threshold, bump) >= Smaller(threshold + 1, MaxTtl)
         /\ Extended(ttl, threshold, bump) >= Smaller(threshold + 1, MinTtl)
  BY TtlAssumption DEF Ttls, Extended, Smaller

\* A ledger that closes takes at most what it adds to the time since the last use.
LEMMA AgeingBounds ==
  ASSUME NEW ttl \in Ttls, NEW age \in Ages, NEW bound \in Nat, bound <= MaxTtl,
         ttl + age >= bound
  PROVE  /\ Aged(ttl) \in Ttls
         /\ Smaller(age + 1, MaxTtl) \in Ages
         /\ Aged(ttl) + Smaller(age + 1, MaxTtl) >= bound
  BY TtlAssumption DEF Ttls, Ages, Aged, Live, Smaller

LEMMA RestorationBounds ==
  ASSUME NEW ttl \in Ttls
  PROVE  Restored(ttl) \in Ttls /\ Restored(ttl) >= ttl
  BY TtlAssumption DEF Ttls, Restored, Live

LEMMA Bounds ==
  /\ Smaller(INSTANCE_LIFETIME_THRESHOLD + 1, MaxTtl) \in Nat
  /\ Smaller(INSTANCE_LIFETIME_THRESHOLD + 1, MaxTtl) <= MaxTtl
  /\ Smaller(PERSISTENT_LIFETIME_THRESHOLD + 1, MinTtl) \in Nat
  /\ Smaller(PERSISTENT_LIFETIME_THRESHOLD + 1, MinTtl) <= MinTtl
  /\ MinTtl \in Nat \ {0} /\ MaxTtl \in Nat /\ MinTtl <= MaxTtl
  BY TtlAssumption, BlendStorageAssumption DEF Smaller

-----------------------------------------------------------------------------
(* What the calls do. *)

\* Every call renews the instance.
LEMMA EntryPointRenews ==
  ASSUME TypeOK, EntryPoint
  PROVE  /\ instanceTtl' \in Ttls /\ idle' = 0 /\ idle' \in Ages
         /\ instanceTtl' + idle' >= Smaller(INSTANCE_LIFETIME_THRESHOLD + 1, MaxTtl)
<1>1. instanceTtl \in Ttls /\ idle' = 0
  BY DEF TypeOK, EntryPoint
<1>2. /\ instanceTtl' \in Ttls
      /\ instanceTtl' >= Smaller(INSTANCE_LIFETIME_THRESHOLD + 1, MaxTtl)
  BY <1>1, ExtensionBounds, BlendStorageAssumption DEF EntryPoint, ExtendedInstance
<1>3. instanceTtl' \in Int
  BY <1>2, TtlAssumption DEF Ttls
<1>4. 0 \in Ages
  BY Bounds DEF Ages
<1> QED
  BY <1>1, <1>2, <1>3, <1>4, Bounds

\* A call that reads a position renews it.
LEMMA ReadRenews ==
  ASSUME TypeOK, NEW v \in Vaults
  PROVE  /\ ReadTtl(v) \in Ttls
         /\ v \in written => ReadTtl(v) >= Smaller(PERSISTENT_LIFETIME_THRESHOLD + 1, MinTtl)
<1>1. entryTtl[v] \in Ttls
  BY DEF TypeOK
<1>2. /\ Extended(entryTtl[v], PERSISTENT_LIFETIME_THRESHOLD, PERSISTENT_BUMP_AMOUNT) \in Ttls
      /\ Extended(entryTtl[v], PERSISTENT_LIFETIME_THRESHOLD, PERSISTENT_BUMP_AMOUNT)
           >= Smaller(PERSISTENT_LIFETIME_THRESHOLD + 1, MinTtl)
  BY <1>1, ExtensionBounds, BlendStorageAssumption
<1> QED
  BY <1>1, <1>2 DEF ReadTtl

\* What an accessible position reads as is what it is.
LEMMA ReadIsExact ==
  ASSUME TypeOK, Values, NEW v \in Vaults, Accessible(v)
  PROVE  /\ GetVaultShares(v) = vaultShares[v] /\ vaultShares[v] \in Nat
         /\ vaultShares[v] <= total
<1>1. vaultShares \in [Vaults -> Nat] /\ IsFiniteSet(Vaults)
  BY BlendStorageAssumption DEF TypeOK
<1>2. vaultShares[v] <= SumFunction(vaultShares)
  BY <1>1, SumBoundsEach
<1> QED
  BY <1>1, <1>2 DEF Values, TotalsAgree, Accessible, GetVaultShares

\* Setting a position that has been read changes the sum by the difference, and leaves the
\* entry the time of a read or of a new entry.
LEMMA SetKeeps ==
  ASSUME Kept, NEW v \in Vaults, NEW s \in Nat, EntryPoint, UsedBy(v), SetVaultShares(v, s),
         total' = total - vaultShares[v] + s, total' \in 0..MaxShares
  PROVE  Kept'
<1>1. /\ TypeOK /\ total = SumFunction(vaultShares)
      /\ \A u \in Vaults \ written : vaultShares[u] = 0
      /\ Lifetimes
  BY DEF Kept, Values, TotalsAgree
<1>2. /\ vaultShares \in [Vaults -> Nat] /\ written \subseteq Vaults
      /\ entryTtl \in [Vaults -> Ttls] /\ vaultIdle \in [Vaults -> Ages]
  BY <1>1 DEF TypeOK
<1>3. /\ vaultShares' = [vaultShares EXCEPT ![v] = s]
      /\ written' = written \cup {v}
      /\ entryTtl' = [entryTtl EXCEPT ![v] = IF v \in written THEN ReadTtl(v) ELSE MinTtl]
      /\ vaultIdle' = [vaultIdle EXCEPT ![v] = 0]
  BY DEF SetVaultShares, UsedBy
<1>4. /\ instanceTtl' \in Ttls /\ idle' = 0 /\ idle' \in Ages
      /\ instanceTtl' + idle' >= Smaller(INSTANCE_LIFETIME_THRESHOLD + 1, MaxTtl)
  BY <1>1, EntryPointRenews
<1>5. /\ entryTtl'[v] \in Ttls
      /\ entryTtl'[v] >= Smaller(PERSISTENT_LIFETIME_THRESHOLD + 1, MinTtl)
  <2>1. MinTtl \in Ttls /\ MinTtl >= Smaller(PERSISTENT_LIFETIME_THRESHOLD + 1, MinTtl)
    BY Bounds DEF Ttls
  <2>2. entryTtl'[v] = IF v \in written THEN ReadTtl(v) ELSE MinTtl
    BY <1>2, <1>3
  <2> QED
    BY <1>1, <2>1, <2>2, ReadRenews
<1>6. total' = SumFunction(vaultShares')
  <2>1. /\ vaultShares' \in [Vaults -> Nat] /\ vaultShares'[v] = s
        /\ \A u \in Vaults \ {v} : vaultShares'[u] = vaultShares[u]
        /\ IsFiniteSet(Vaults) /\ vaultShares \in [Vaults -> Nat]
    BY <1>2, <1>3, BlendStorageAssumption
  <2>2. SumFunction(vaultShares) \in Nat
        /\ SumFunction(vaultShares') = SumFunction(vaultShares) + s - vaultShares[v]
    BY <2>1, SumChanges
  <2>3. vaultShares[v] \in Nat
    BY <2>1
  <2> QED
    BY <1>1, <2>2, <2>3
<1>7. /\ entryTtl' \in [Vaults -> Ttls] /\ vaultIdle' \in [Vaults -> Ages]
      /\ vaultShares' \in [Vaults -> Nat] /\ written' \subseteq Vaults
  <2>1. 0 \in Ages
    BY Bounds DEF Ages
  <2> QED
    BY <1>2, <1>3, <1>5, <2>1
<1>8. TypeOK'
  BY <1>4, <1>7 DEF TypeOK
<1>9. Values'
  BY <1>1, <1>2, <1>3, <1>6 DEF Values, TotalsAgree
<1>10. \A u \in Vaults : idle' <= vaultIdle'[u]
  BY <1>4, <1>7 DEF Ages
<1>11. ASSUME NEW u \in written'
       PROVE  entryTtl'[u] + vaultIdle'[u] >= Smaller(PERSISTENT_LIFETIME_THRESHOLD + 1, MinTtl)
  <2>1. CASE u = v
    BY <1>2, <1>3, <1>5, <2>1 DEF Ttls
  <2>2. CASE u # v
    <3>1. u \in written /\ entryTtl'[u] = entryTtl[u] /\ vaultIdle'[u] = vaultIdle[u]
      BY <1>2, <1>3, <1>11, <2>2
    <3> QED
      BY <1>1, <3>1 DEF Lifetimes
  <2> QED
    BY <2>1, <2>2
<1>12. Lifetimes'
  BY <1>4, <1>10, <1>11 DEF Lifetimes
<1> QED
  BY <1>8, <1>9, <1>12 DEF Kept

-----------------------------------------------------------------------------
(* The inductive invariant, action by action. *)

LEMMA DepositKeeps ==
  ASSUME Kept, NEW v \in Vaults, NEW minted \in 1..MaxShares, Deposit(v, minted)
  PROVE  Kept'
<1>1. /\ EntryPoint /\ UsedBy(v) /\ Accessible(v)
      /\ total + minted <= MaxShares /\ total' = total + minted
      /\ SetVaultShares(v, GetVaultShares(v) + minted)
  BY DEF Deposit
<1>2. GetVaultShares(v) = vaultShares[v] /\ vaultShares[v] \in Nat
  BY <1>1, ReadIsExact DEF Kept
<1>3. total \in Nat /\ minted \in Nat /\ MaxShares \in Nat
  BY BlendStorageAssumption DEF Kept, TypeOK
<1>4. /\ vaultShares[v] + minted \in Nat
      /\ total' = total - vaultShares[v] + (vaultShares[v] + minted)
      /\ total' \in 0..MaxShares
  BY <1>1, <1>2, <1>3
<1>5. SetVaultShares(v, vaultShares[v] + minted)
  BY <1>1, <1>2
<1> QED
  BY <1>1, <1>4, <1>5, SetKeeps

LEMMA WithdrawKeeps ==
  ASSUME Kept, NEW v \in Vaults, NEW burnt \in Nat, Withdraw(v, burnt)
  PROVE  Kept'
<1>1. /\ EntryPoint /\ UsedBy(v) /\ Accessible(v)
      /\ burnt \in 1..GetVaultShares(v) /\ total' = total - burnt
      /\ SetVaultShares(v, GetVaultShares(v) - burnt)
  BY DEF Withdraw
<1>2. GetVaultShares(v) = vaultShares[v] /\ vaultShares[v] \in Nat /\ vaultShares[v] <= total
  BY <1>1, ReadIsExact DEF Kept
<1>3. total \in 0..MaxShares /\ MaxShares \in Nat
  BY BlendStorageAssumption DEF Kept, TypeOK
<1>4. /\ vaultShares[v] - burnt \in Nat
      /\ total' = total - vaultShares[v] + (vaultShares[v] - burnt)
      /\ total' \in 0..MaxShares
  BY <1>1, <1>2, <1>3
<1>5. SetVaultShares(v, vaultShares[v] - burnt)
  BY <1>1, <1>2
<1> QED
  BY <1>1, <1>4, <1>5, SetKeeps

LEMMA BalanceKeeps ==
  ASSUME Kept, NEW v \in Vaults, Balance(v)
  PROVE  Kept'
<1>1. TypeOK /\ Values /\ Lifetimes
  BY DEF Kept
<1>2. /\ EntryPoint
      /\ entryTtl' = [entryTtl EXCEPT ![v] = ReadTtl(v)]
      /\ vaultIdle' = [vaultIdle EXCEPT ![v] = 0]
      /\ total' = total /\ vaultShares' = vaultShares /\ written' = written
  BY DEF Balance, UsedBy, values
<1>3. /\ instanceTtl' \in Ttls /\ idle' = 0 /\ idle' \in Ages
      /\ instanceTtl' + idle' >= Smaller(INSTANCE_LIFETIME_THRESHOLD + 1, MaxTtl)
  BY <1>1, <1>2, EntryPointRenews
<1>4. /\ ReadTtl(v) \in Ttls
      /\ v \in written => ReadTtl(v) >= Smaller(PERSISTENT_LIFETIME_THRESHOLD + 1, MinTtl)
  BY <1>1, ReadRenews
<1>5. entryTtl \in [Vaults -> Ttls] /\ vaultIdle \in [Vaults -> Ages] /\ written \subseteq Vaults
  BY <1>1 DEF TypeOK
<1>6. entryTtl' \in [Vaults -> Ttls] /\ vaultIdle' \in [Vaults -> Ages]
  <2>1. 0 \in Ages
    BY Bounds DEF Ages
  <2> QED
    BY <1>2, <1>4, <1>5, <2>1
<1>7. TypeOK'
  BY <1>1, <1>2, <1>3, <1>6 DEF TypeOK
<1>8. Values'
  BY <1>1, <1>2 DEF Values, TotalsAgree
<1>9. \A u \in Vaults : idle' <= vaultIdle'[u]
  BY <1>3, <1>6 DEF Ages
<1>10. ASSUME NEW u \in written'
       PROVE  entryTtl'[u] + vaultIdle'[u] >= Smaller(PERSISTENT_LIFETIME_THRESHOLD + 1, MinTtl)
  <2>1. CASE u = v
    BY <1>2, <1>4, <1>5, <1>10, <2>1 DEF Ttls
  <2>2. CASE u # v
    <3>1. u \in written /\ entryTtl'[u] = entryTtl[u] /\ vaultIdle'[u] = vaultIdle[u]
      BY <1>2, <1>5, <1>10, <2>2
    <3> QED
      BY <1>1, <3>1 DEF Lifetimes
  <2> QED
    BY <2>1, <2>2
<1>11. Lifetimes'
  BY <1>3, <1>9, <1>10 DEF Lifetimes
<1> QED
  BY <1>7, <1>8, <1>11 DEF Kept

LEMMA OtherCallKeeps ==
  ASSUME Kept, OtherCall
  PROVE  Kept'
<1>1. TypeOK /\ Values /\ Lifetimes
  BY DEF Kept
<1>2. /\ EntryPoint /\ entryTtl' = entryTtl /\ vaultIdle' = vaultIdle
      /\ total' = total /\ vaultShares' = vaultShares /\ written' = written
  BY DEF OtherCall, values
<1>3. /\ instanceTtl' \in Ttls /\ idle' = 0 /\ idle' \in Ages
      /\ instanceTtl' + idle' >= Smaller(INSTANCE_LIFETIME_THRESHOLD + 1, MaxTtl)
  BY <1>1, <1>2, EntryPointRenews
<1>4. \A u \in Vaults : idle' <= vaultIdle'[u]
  BY <1>1, <1>2, <1>3 DEF TypeOK, Ages
<1>5. Lifetimes'
  BY <1>1, <1>2, <1>3, <1>4 DEF Lifetimes
<1> QED
  BY <1>1, <1>2, <1>3, <1>5 DEF Kept, TypeOK, Values, TotalsAgree

LEMMA LedgerCloseKeeps ==
  ASSUME Kept, LedgerCloses
  PROVE  Kept'
<1>1. TypeOK /\ Values /\ Lifetimes
  BY DEF Kept
<1>2. /\ instanceTtl \in Ttls /\ entryTtl \in [Vaults -> Ttls] /\ idle \in Ages
      /\ vaultIdle \in [Vaults -> Ages] /\ written \subseteq Vaults
  BY <1>1 DEF TypeOK
<1>3. /\ instanceTtl' = Aged(instanceTtl)
      /\ entryTtl' = [u \in Vaults |-> Aged(entryTtl[u])]
      /\ idle' = Smaller(idle + 1, MaxTtl)
      /\ vaultIdle' = [u \in Vaults |-> Smaller(vaultIdle[u] + 1, MaxTtl)]
      /\ total' = total /\ vaultShares' = vaultShares /\ written' = written
  BY DEF LedgerCloses, values
<1>4. /\ instanceTtl' \in Ttls /\ idle' \in Ages
      /\ instanceTtl' + idle' >= Smaller(INSTANCE_LIFETIME_THRESHOLD + 1, MaxTtl)
  BY <1>1, <1>2, <1>3, Bounds, AgeingBounds DEF Lifetimes
<1>5. ASSUME NEW u \in Vaults
      PROVE  /\ entryTtl'[u] \in Ttls /\ vaultIdle'[u] \in Ages
             /\ idle' <= vaultIdle'[u]
             /\ u \in written =>
                  entryTtl'[u] + vaultIdle'[u] >= Smaller(PERSISTENT_LIFETIME_THRESHOLD + 1, MinTtl)
  <2>1. entryTtl[u] \in Ttls /\ vaultIdle[u] \in Ages /\ idle <= vaultIdle[u]
    BY <1>1, <1>2 DEF Lifetimes
  <2>2. /\ entryTtl'[u] = Aged(entryTtl[u])
        /\ vaultIdle'[u] = Smaller(vaultIdle[u] + 1, MaxTtl)
    BY <1>3
  <2>3. Aged(entryTtl[u]) \in Ttls /\ Smaller(vaultIdle[u] + 1, MaxTtl) \in Ages
    <3>1. 0 \in Nat /\ 0 <= MaxTtl /\ entryTtl[u] + vaultIdle[u] >= 0
      BY <2>1, Bounds DEF Ttls, Ages
    <3> QED
      BY <2>1, <3>1, AgeingBounds
  <2>4. Smaller(idle + 1, MaxTtl) <= Smaller(vaultIdle[u] + 1, MaxTtl)
    BY <1>2, <2>1, Bounds DEF Smaller, Ages
  <2>5. u \in written =>
          Aged(entryTtl[u]) + Smaller(vaultIdle[u] + 1, MaxTtl)
            >= Smaller(PERSISTENT_LIFETIME_THRESHOLD + 1, MinTtl)
    <3>1. /\ Smaller(PERSISTENT_LIFETIME_THRESHOLD + 1, MinTtl) \in Nat
          /\ Smaller(PERSISTENT_LIFETIME_THRESHOLD + 1, MinTtl) <= MaxTtl
      BY Bounds
    <3> QED
      BY <1>1, <2>1, <3>1, AgeingBounds DEF Lifetimes
  <2> QED
    BY <1>3, <2>2, <2>3, <2>4, <2>5
<1>6. entryTtl' \in [Vaults -> Ttls] /\ vaultIdle' \in [Vaults -> Ages]
  BY <1>3, <1>5
<1>7. TypeOK'
  BY <1>1, <1>3, <1>4, <1>6 DEF TypeOK
<1>8. Values'
  BY <1>1, <1>3 DEF Values, TotalsAgree
<1>9. Lifetimes'
  BY <1>2, <1>3, <1>4, <1>5 DEF Lifetimes
<1> QED
  BY <1>7, <1>8, <1>9 DEF Kept

LEMMA RestoreKeeps ==
  ASSUME Kept, NEW v \in Vaults, Restore(v)
  PROVE  Kept'
<1>1. TypeOK /\ Values /\ Lifetimes
  BY DEF Kept
<1>2. /\ instanceTtl \in Ttls /\ entryTtl \in [Vaults -> Ttls] /\ idle \in Ages
      /\ vaultIdle \in [Vaults -> Ages] /\ written \subseteq Vaults
  BY <1>1 DEF TypeOK
<1>3. /\ instanceTtl' = Restored(instanceTtl)
      /\ entryTtl' = [entryTtl EXCEPT ![v] = IF v \in written THEN Restored(@) ELSE @]
      /\ idle' = idle /\ vaultIdle' = vaultIdle
      /\ total' = total /\ vaultShares' = vaultShares /\ written' = written
  BY DEF Restore, values
<1>4. instanceTtl' \in Ttls /\ instanceTtl' >= instanceTtl
  BY <1>2, <1>3, RestorationBounds
<1>5. /\ entryTtl' \in [Vaults -> Ttls]
      /\ \A u \in Vaults : entryTtl'[u] >= entryTtl[u]
  <2>1. Restored(entryTtl[v]) \in Ttls /\ Restored(entryTtl[v]) >= entryTtl[v]
    BY <1>2, RestorationBounds
  <2> QED
    BY <1>2, <1>3, <2>1 DEF Ttls
<1>6. TypeOK'
  BY <1>1, <1>3, <1>4, <1>5 DEF TypeOK
<1>7. Values'
  BY <1>1, <1>3 DEF Values, TotalsAgree
<1>8. Lifetimes'
  <2>1. instanceTtl' + idle' >= Smaller(INSTANCE_LIFETIME_THRESHOLD + 1, MaxTtl)
    BY <1>1, <1>2, <1>3, <1>4, Bounds DEF Lifetimes, Ttls, Ages
  <2>2. ASSUME NEW u \in written'
        PROVE  entryTtl'[u] + vaultIdle'[u] >= Smaller(PERSISTENT_LIFETIME_THRESHOLD + 1, MinTtl)
    <3>1. /\ u \in written /\ vaultIdle'[u] = vaultIdle[u] /\ entryTtl'[u] >= entryTtl[u]
          /\ entryTtl'[u] \in Nat /\ entryTtl[u] \in Nat /\ vaultIdle[u] \in Nat
      BY <1>2, <1>3, <1>5, <2>2 DEF Ttls, Ages
    <3>2. entryTtl[u] + vaultIdle[u] >= Smaller(PERSISTENT_LIFETIME_THRESHOLD + 1, MinTtl)
      BY <1>1, <3>1 DEF Lifetimes
    <3> QED
      BY <3>1, <3>2, Bounds
  <2> QED
    BY <1>1, <1>3, <2>1, <2>2 DEF Lifetimes
<1> QED
  BY <1>6, <1>7, <1>8 DEF Kept

-----------------------------------------------------------------------------

\* Values and lifetimes are right in every reachable state.
THEOREM StorageHolds == Spec => []Kept
<1>1. Init => Kept
  <2> SUFFICES ASSUME Init
               PROVE  Kept
    OBVIOUS
  <2>1. TypeOK
    BY Bounds, BlendStorageAssumption DEF Init, TypeOK, Ttls, Ages
  <2>2. Values
    BY SumOfZeros, BlendStorageAssumption DEF Init, Values, TotalsAgree
  <2>3. Lifetimes
    BY Bounds DEF Init, Lifetimes
  <2> QED
    BY <2>1, <2>2, <2>3 DEF Kept
<1>2. Kept /\ [Next]_vars => Kept'
  <2> SUFFICES ASSUME Kept, [Next]_vars
               PROVE  Kept'
    OBVIOUS
  <2>1. ASSUME NEW v \in Vaults, NEW s \in 1..MaxShares, Deposit(v, s) \/ Withdraw(v, s)
        PROVE  Kept'
    <3>1. s \in Nat
      BY BlendStorageAssumption
    <3> QED
      BY <2>1, <3>1, DepositKeeps, WithdrawKeeps
  <2>2. ASSUME NEW v \in Vaults, Balance(v)
        PROVE  Kept'
    BY <2>2, BalanceKeeps
  <2>3. ASSUME NEW v \in Vaults, Restore(v)
        PROVE  Kept'
    BY <2>3, RestoreKeeps
  <2>4. CASE OtherCall
    BY <2>4, OtherCallKeeps
  <2>5. CASE LedgerCloses
    BY <2>5, LedgerCloseKeeps
  <2>6. CASE UNCHANGED vars
    BY <2>6 DEF vars, values, Kept, TypeOK, Values, TotalsAgree, Lifetimes
  <2> QED
    BY <2>1, <2>2, <2>3, <2>4, <2>5, <2>6 DEF Next, Calls
<1> QED
  BY <1>1, <1>2, PTL DEF Spec

\* The totals in the instance are the sum of the vaults' entries, whatever is archived.
THEOREM TotalsAlwaysAgree == Spec => []TotalsAgree
  BY StorageHolds, PTL DEF Kept, Values

\* No position and no lifetime leaves its range.
THEOREM TypesHold == Spec => []TypeOK
  BY StorageHolds, PTL DEF Kept

\* A contract that is called more often than the threshold is never archived.
THEOREM UsedContractIsLive == Spec => []UsedContractLives
<1>1. Kept => UsedContractLives
  <2> SUFFICES ASSUME Kept, idle <= INSTANCE_LIFETIME_THRESHOLD, idle < MaxTtl
               PROVE  Live(instanceTtl)
    BY DEF UsedContractLives
  <2>1. /\ instanceTtl \in Nat /\ idle \in Nat /\ INSTANCE_LIFETIME_THRESHOLD \in Nat
        /\ instanceTtl + idle >= Smaller(INSTANCE_LIFETIME_THRESHOLD + 1, MaxTtl)
    BY BlendStorageAssumption DEF Kept, TypeOK, Lifetimes, Ttls, Ages
  <2> QED
    BY <2>1, Bounds DEF Smaller, Live
<1> QED
  BY <1>1, StorageHolds, PTL

\* A vault that calls more often than the thresholds and the network's minimum is always served.
THEOREM ActiveVaultIsServed == Spec => []ActiveVaultServed
<1>1. Kept => ActiveVaultServed
  <2> SUFFICES ASSUME Kept, NEW v \in Vaults, vaultIdle[v] < MinTtl,
                      vaultIdle[v] <= INSTANCE_LIFETIME_THRESHOLD,
                      vaultIdle[v] <= PERSISTENT_LIFETIME_THRESHOLD
               PROVE  Live(instanceTtl) /\ Accessible(v)
    BY DEF ActiveVaultServed
  <2>1. /\ instanceTtl \in Nat /\ idle \in Nat /\ vaultIdle[v] \in Nat /\ entryTtl[v] \in Nat
        /\ INSTANCE_LIFETIME_THRESHOLD \in Nat /\ PERSISTENT_LIFETIME_THRESHOLD \in Nat
        /\ idle <= vaultIdle[v]
        /\ instanceTtl + idle >= Smaller(INSTANCE_LIFETIME_THRESHOLD + 1, MaxTtl)
        /\ v \in written =>
             entryTtl[v] + vaultIdle[v] >= Smaller(PERSISTENT_LIFETIME_THRESHOLD + 1, MinTtl)
    BY BlendStorageAssumption DEF Kept, TypeOK, Lifetimes, Ttls, Ages
  <2>2. Live(instanceTtl)
    BY <2>1, Bounds DEF Smaller, Live
  <2>3. v \in written => Live(entryTtl[v])
    BY <2>1, Bounds DEF Smaller, Live
  <2> QED
    BY <2>2, <2>3 DEF Accessible
<1> QED
  BY <1>1, StorageHolds, PTL
=============================================================================
