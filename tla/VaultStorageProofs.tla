------------------------- MODULE VaultStorageProofs -------------------------
(***************************************************************************)
(* The positions of strategy-neko, strategy-soroswap and strategy-aquarius *)
(* add up to what the pool holds, and a position in use is never archived, *)
(* for every set of vaults and every threshold, bump, minimum and maximum, *)
(* in whatever order calls, restorations and ledgers come.                 *)
(*                                                                         *)
(* The inductive invariant relates, as in BlendStorageProofs, what an      *)
(* entry still lives to the time since its last use.  Here a write extends *)
(* an entry, so that even a new one lives past the threshold; a read       *)
(* leaves an empty position alone, so that nothing is said of those.       *)
(***************************************************************************)
EXTENDS VaultStorage, ArithmeticTheorems

Values ==
  /\ AttributionAgrees
  /\ \A v \in Vaults \ written : bTokens[v] = 0

\* What a use leaves of a position's life: past the threshold, or all the network gives.
Renewal == Smaller(PERSISTENT_TTL + 1, MaxTtl)

Lifetimes == \A v \in Vaults : bTokens[v] > 0 => entryTtl[v] + vaultIdle[v] >= Renewal

Kept == TypeOK /\ Values /\ Lifetimes

-----------------------------------------------------------------------------
(* Lifetimes of one entry. *)

LEMMA RenewalBounds ==
  /\ Renewal \in Nat /\ Renewal <= MaxTtl
  /\ MinTtl \in Ttls /\ MaxTtl \in Nat
  /\ 0 \in Ages /\ 0 \in Ttls
  BY TtlAssumption, VaultStorageAssumption DEF Renewal, Smaller, Ttls, Ages

\* An extension by storage.rs leaves at least the renewal.
LEMMA ExtensionRenews ==
  ASSUME NEW ttl \in Ttls
  PROVE  /\ Extended(ttl, PERSISTENT_TTL, PERSISTENT_BUMP) \in Ttls
         /\ Extended(ttl, PERSISTENT_TTL, PERSISTENT_BUMP) >= Renewal
  BY TtlAssumption, VaultStorageAssumption DEF Ttls, Extended, Smaller, Renewal

\* A ledger that closes takes at most what it adds to the time since the last use.
LEMMA AgeingBounds ==
  ASSUME NEW ttl \in Ttls, NEW age \in Ages
  PROVE  /\ Aged(ttl) \in Ttls
         /\ Smaller(age + 1, MaxTtl) \in Ages
         /\ ttl + age >= Renewal => Aged(ttl) + Smaller(age + 1, MaxTtl) >= Renewal
  BY TtlAssumption, RenewalBounds DEF Ttls, Ages, Aged, Live, Smaller

LEMMA RestorationBounds ==
  ASSUME NEW ttl \in Ttls
  PROVE  Restored(ttl) \in Ttls /\ Restored(ttl) >= ttl
  BY TtlAssumption DEF Ttls, Restored, Live

-----------------------------------------------------------------------------
(* What the calls do. *)

\* What an accessible position reads as is what it is, and reading renews what is not empty.
LEMMA ReadIsExact ==
  ASSUME TypeOK, Values, NEW v \in Vaults, Accessible(v)
  PROVE  /\ GetBTokens(v) = bTokens[v] /\ bTokens[v] \in Nat /\ bTokens[v] <= position
         /\ ReadTtl(v) \in Ttls
         /\ bTokens[v] > 0 => ReadTtl(v) >= Renewal
<1>1. bTokens \in [Vaults -> Nat] /\ IsFiniteSet(Vaults) /\ entryTtl[v] \in Ttls
  BY VaultStorageAssumption DEF TypeOK
<1>2. bTokens[v] <= SumFunction(bTokens)
  BY <1>1, SumBoundsEach
<1>3. GetBTokens(v) = bTokens[v] /\ bTokens[v] \in Nat /\ bTokens[v] <= position
  BY <1>1, <1>2 DEF Values, AttributionAgrees, Accessible, GetBTokens
<1>4. /\ Extended(entryTtl[v], PERSISTENT_TTL, PERSISTENT_BUMP) \in Ttls
      /\ Extended(entryTtl[v], PERSISTENT_TTL, PERSISTENT_BUMP) >= Renewal
  BY <1>1, ExtensionRenews
<1> QED
  BY <1>1, <1>3, <1>4 DEF ReadTtl

\* Setting a position that has been read changes the sum by the difference and renews the entry.
LEMMA SetKeeps ==
  ASSUME Kept, NEW v \in Vaults, NEW b \in Nat, Accessible(v),
         LoadConfig, UsedBy(v), SetBTokens(v, b),
         position' = position - bTokens[v] + b, position' \in 0..MaxBTokens
  PROVE  Kept'
<1>1. TypeOK /\ Values /\ Lifetimes
  BY DEF Kept
<1>2. /\ bTokens \in [Vaults -> Nat] /\ written \subseteq Vaults
      /\ entryTtl \in [Vaults -> Ttls] /\ vaultIdle \in [Vaults -> Ages]
      /\ position = SumFunction(bTokens)
  BY <1>1 DEF TypeOK, Values, AttributionAgrees
<1> DEFINE before == IF v \in written THEN ReadTtl(v) ELSE MinTtl
<1>3. /\ bTokens' = [bTokens EXCEPT ![v] = b]
      /\ written' = written \cup {v}
      /\ entryTtl' = [entryTtl EXCEPT ![v] = Extended(before, PERSISTENT_TTL, PERSISTENT_BUMP)]
      /\ vaultIdle' = [vaultIdle EXCEPT ![v] = 0]
      /\ instanceTtl' = instanceTtl /\ idle' = 0
  BY DEF SetBTokens, UsedBy, LoadConfig
<1>4. before \in Ttls
  BY <1>1, ReadIsExact, RenewalBounds
<1> HIDE DEF before
<1>5. entryTtl'[v] \in Ttls /\ entryTtl'[v] >= Renewal /\ vaultIdle'[v] = 0
  BY <1>2, <1>3, <1>4, ExtensionRenews
<1>6. position' = SumFunction(bTokens')
  <2>1. /\ bTokens' \in [Vaults -> Nat] /\ bTokens'[v] = b
        /\ \A u \in Vaults \ {v} : bTokens'[u] = bTokens[u]
        /\ IsFiniteSet(Vaults)
    BY <1>2, <1>3, VaultStorageAssumption
  <2>2. /\ SumFunction(bTokens) \in Nat
        /\ SumFunction(bTokens') = SumFunction(bTokens) + b - bTokens[v]
    BY <1>2, <2>1, SumChanges
  <2>3. bTokens[v] \in Nat
    BY <1>2
  <2> QED
    BY <1>2, <2>2, <2>3
<1>7. /\ entryTtl' \in [Vaults -> Ttls] /\ vaultIdle' \in [Vaults -> Ages]
      /\ bTokens' \in [Vaults -> Nat] /\ written' \subseteq Vaults
  BY <1>2, <1>3, <1>4, ExtensionRenews, RenewalBounds
<1>8. TypeOK'
  BY <1>1, <1>3, <1>7, RenewalBounds DEF TypeOK
<1>9. Values'
  BY <1>1, <1>2, <1>3, <1>6 DEF Values, AttributionAgrees
<1>10. ASSUME NEW u \in Vaults, bTokens'[u] > 0
       PROVE  entryTtl'[u] + vaultIdle'[u] >= Renewal
  <2>1. CASE u = v
    BY <1>5, <2>1, RenewalBounds DEF Ttls
  <2>2. CASE u # v
    <3>1. /\ bTokens'[u] = bTokens[u] /\ entryTtl'[u] = entryTtl[u]
          /\ vaultIdle'[u] = vaultIdle[u]
      BY <1>2, <1>3, <2>2
    <3> QED
      BY <1>1, <1>10, <3>1 DEF Lifetimes
  <2> QED
    BY <2>1, <2>2
<1>11. Lifetimes'
  BY <1>10 DEF Lifetimes, Renewal
<1> QED
  BY <1>8, <1>9, <1>11 DEF Kept

-----------------------------------------------------------------------------
(* The inductive invariant, action by action. *)

LEMMA DepositKeeps ==
  ASSUME Kept, NEW v \in Vaults, NEW minted \in Nat, Deposit(v, minted)
  PROVE  Kept'
<1>1. /\ LoadConfig /\ UsedBy(v) /\ Accessible(v)
      /\ position + minted <= MaxBTokens /\ position' = position + minted
      /\ SetBTokens(v, GetBTokens(v) + minted)
  BY DEF Deposit
<1>2. GetBTokens(v) = bTokens[v] /\ bTokens[v] \in Nat
  BY <1>1, ReadIsExact DEF Kept
<1>3. position \in Nat /\ MaxBTokens \in Nat
  BY VaultStorageAssumption DEF Kept, TypeOK
<1>4. /\ bTokens[v] + minted \in Nat
      /\ position' = position - bTokens[v] + (bTokens[v] + minted)
      /\ position' \in 0..MaxBTokens
  BY <1>1, <1>2, <1>3
<1>5. SetBTokens(v, bTokens[v] + minted)
  BY <1>1, <1>2
<1> QED
  BY <1>1, <1>4, <1>5, SetKeeps

LEMMA WithdrawKeeps ==
  ASSUME Kept, NEW v \in Vaults, NEW burnt \in Nat, Withdraw(v, burnt)
  PROVE  Kept'
<1>1. /\ LoadConfig /\ UsedBy(v) /\ Accessible(v)
      /\ burnt \in 1..GetBTokens(v) /\ position' = position - burnt
      /\ SetBTokens(v, GetBTokens(v) - burnt)
  BY DEF Withdraw
<1>2. GetBTokens(v) = bTokens[v] /\ bTokens[v] \in Nat /\ bTokens[v] <= position
  BY <1>1, ReadIsExact DEF Kept
<1>3. position \in 0..MaxBTokens /\ MaxBTokens \in Nat
  BY VaultStorageAssumption DEF Kept, TypeOK
<1>4. /\ bTokens[v] - burnt \in Nat
      /\ position' = position - bTokens[v] + (bTokens[v] - burnt)
      /\ position' \in 0..MaxBTokens
  BY <1>1, <1>2, <1>3
<1>5. SetBTokens(v, bTokens[v] - burnt)
  BY <1>1, <1>2
<1> QED
  BY <1>1, <1>4, <1>5, SetKeeps

LEMMA ReadKeeps ==
  ASSUME Kept, NEW v \in Vaults, Read(v)
  PROVE  Kept'
<1>1. TypeOK /\ Values /\ Lifetimes
  BY DEF Kept
<1>2. /\ Accessible(v)
      /\ entryTtl' = [entryTtl EXCEPT ![v] = ReadTtl(v)]
      /\ vaultIdle' = [vaultIdle EXCEPT ![v] = 0]
      /\ instanceTtl' = instanceTtl /\ idle' = 0
      /\ bTokens' = bTokens /\ written' = written /\ position' = position
  BY DEF Read, LoadConfig, UsedBy, values
<1>3. ReadTtl(v) \in Ttls /\ (bTokens[v] > 0 => ReadTtl(v) >= Renewal)
  BY <1>1, <1>2, ReadIsExact
<1>4. entryTtl \in [Vaults -> Ttls] /\ vaultIdle \in [Vaults -> Ages]
  BY <1>1 DEF TypeOK
<1>5. entryTtl' \in [Vaults -> Ttls] /\ vaultIdle' \in [Vaults -> Ages]
  BY <1>2, <1>3, <1>4, RenewalBounds
<1>6. TypeOK'
  BY <1>1, <1>2, <1>5, RenewalBounds DEF TypeOK
<1>7. Values'
  BY <1>1, <1>2 DEF Values, AttributionAgrees
<1>8. ASSUME NEW u \in Vaults, bTokens'[u] > 0
      PROVE  entryTtl'[u] + vaultIdle'[u] >= Renewal
  <2>1. CASE u = v
    BY <1>2, <1>3, <1>4, <1>8, <2>1, RenewalBounds DEF Ttls
  <2>2. CASE u # v
    <3>1. /\ bTokens'[u] = bTokens[u] /\ entryTtl'[u] = entryTtl[u]
          /\ vaultIdle'[u] = vaultIdle[u]
      BY <1>2, <1>4, <2>2
    <3> QED
      BY <1>1, <1>8, <3>1 DEF Lifetimes
  <2> QED
    BY <2>1, <2>2
<1>9. Lifetimes'
  BY <1>8 DEF Lifetimes, Renewal
<1> QED
  BY <1>6, <1>7, <1>9 DEF Kept

LEMMA LedgerCloseKeeps ==
  ASSUME Kept, LedgerCloses
  PROVE  Kept'
<1>1. TypeOK /\ Values /\ Lifetimes
  BY DEF Kept
<1>2. /\ instanceTtl \in Ttls /\ entryTtl \in [Vaults -> Ttls] /\ idle \in Ages
      /\ vaultIdle \in [Vaults -> Ages]
  BY <1>1 DEF TypeOK
<1>3. /\ instanceTtl' = Aged(instanceTtl)
      /\ entryTtl' = [u \in Vaults |-> Aged(entryTtl[u])]
      /\ idle' = Smaller(idle + 1, MaxTtl)
      /\ vaultIdle' = [u \in Vaults |-> Smaller(vaultIdle[u] + 1, MaxTtl)]
      /\ bTokens' = bTokens /\ written' = written /\ position' = position
  BY DEF LedgerCloses, values
<1>4. instanceTtl' \in Ttls /\ idle' \in Ages
  BY <1>2, <1>3, AgeingBounds
<1>5. ASSUME NEW u \in Vaults
      PROVE  /\ entryTtl'[u] \in Ttls /\ vaultIdle'[u] \in Ages
             /\ bTokens'[u] > 0 => entryTtl'[u] + vaultIdle'[u] >= Renewal
  <2>1. entryTtl[u] \in Ttls /\ vaultIdle[u] \in Ages
    BY <1>2
  <2>2. bTokens[u] > 0 => entryTtl[u] + vaultIdle[u] >= Renewal
    BY <1>1 DEF Lifetimes
  <2>3. /\ entryTtl'[u] = Aged(entryTtl[u]) /\ bTokens'[u] = bTokens[u]
        /\ vaultIdle'[u] = Smaller(vaultIdle[u] + 1, MaxTtl)
    BY <1>3
  <2> QED
    BY <2>1, <2>2, <2>3, AgeingBounds
<1>6. entryTtl' \in [Vaults -> Ttls] /\ vaultIdle' \in [Vaults -> Ages]
  BY <1>3, <1>5
<1>7. TypeOK'
  BY <1>1, <1>3, <1>4, <1>6 DEF TypeOK
<1>8. Values'
  BY <1>1, <1>3 DEF Values, AttributionAgrees
<1>9. Lifetimes'
  BY <1>5 DEF Lifetimes, Renewal
<1> QED
  BY <1>7, <1>8, <1>9 DEF Kept

LEMMA RestoreKeeps ==
  ASSUME Kept, NEW v \in Vaults, Restore(v)
  PROVE  Kept'
<1>1. TypeOK /\ Values /\ Lifetimes
  BY DEF Kept
<1>2. instanceTtl \in Ttls /\ entryTtl \in [Vaults -> Ttls] /\ vaultIdle \in [Vaults -> Ages]
  BY <1>1 DEF TypeOK
<1>3. /\ instanceTtl' = Restored(instanceTtl)
      /\ entryTtl' = [entryTtl EXCEPT ![v] = IF v \in written THEN Restored(@) ELSE @]
      /\ idle' = idle /\ vaultIdle' = vaultIdle
      /\ bTokens' = bTokens /\ written' = written /\ position' = position
  BY DEF Restore, values
<1>4. instanceTtl' \in Ttls
  BY <1>2, <1>3, RestorationBounds
<1>5. /\ entryTtl' \in [Vaults -> Ttls]
      /\ \A u \in Vaults : entryTtl'[u] >= entryTtl[u]
  <2>1. Restored(entryTtl[v]) \in Ttls /\ Restored(entryTtl[v]) >= entryTtl[v]
    BY <1>2, RestorationBounds
  <2> QED
    BY <1>2, <1>3, <2>1 DEF Ttls
<1>6. TypeOK'
  BY <1>1, <1>3, <1>4, <1>5 DEF TypeOK
<1>7. Values'
  BY <1>1, <1>3 DEF Values, AttributionAgrees
<1>8. ASSUME NEW u \in Vaults, bTokens'[u] > 0
      PROVE  entryTtl'[u] + vaultIdle'[u] >= Renewal
  <2>1. /\ vaultIdle'[u] = vaultIdle[u] /\ entryTtl'[u] >= entryTtl[u]
        /\ entryTtl'[u] \in Nat /\ entryTtl[u] \in Nat /\ vaultIdle[u] \in Nat
    BY <1>2, <1>3, <1>5 DEF Ttls, Ages
  <2>2. entryTtl[u] + vaultIdle[u] >= Renewal
    BY <1>1, <1>3, <1>8 DEF Lifetimes
  <2> QED
    BY <2>1, <2>2, RenewalBounds
<1>9. Lifetimes'
  BY <1>8 DEF Lifetimes, Renewal
<1> QED
  BY <1>6, <1>7, <1>9 DEF Kept

-----------------------------------------------------------------------------

\* Values and lifetimes are right in every reachable state.
THEOREM StorageHolds == Spec => []Kept
<1>1. Init => Kept
  <2> SUFFICES ASSUME Init
               PROVE  Kept
    OBVIOUS
  <2>1. Extended(MinTtl, INSTANCE_TTL, INSTANCE_BUMP) \in Ttls
    BY TtlAssumption, VaultStorageAssumption DEF Ttls, Extended, Smaller
  <2>2. TypeOK
    BY <2>1, TtlAssumption, VaultStorageAssumption DEF Init, TypeOK, Ttls, Ages
  <2>3. Values
    BY SumOfZeros, VaultStorageAssumption DEF Init, Values, AttributionAgrees
  <2>4. Lifetimes
    BY DEF Init, Lifetimes
  <2> QED
    BY <2>2, <2>3, <2>4 DEF Kept
<1>2. Kept /\ [Next]_vars => Kept'
  <2> SUFFICES ASSUME Kept, [Next]_vars
               PROVE  Kept'
    OBVIOUS
  <2>1. ASSUME NEW v \in Vaults, NEW b \in 0..MaxBTokens, Deposit(v, b) \/ Withdraw(v, b)
        PROVE  Kept'
    <3>1. b \in Nat
      BY VaultStorageAssumption
    <3> QED
      BY <2>1, <3>1, DepositKeeps, WithdrawKeeps
  <2>2. ASSUME NEW v \in Vaults, Read(v)
        PROVE  Kept'
    BY <2>2, ReadKeeps
  <2>3. ASSUME NEW v \in Vaults, Restore(v)
        PROVE  Kept'
    BY <2>3, RestoreKeeps
  <2>4. CASE LedgerCloses
    BY <2>4, LedgerCloseKeeps
  <2>5. CASE OtherCall
    <3>1. idle' = 0 /\ 0 \in Ages
      BY <2>5, RenewalBounds, TtlAssumption DEF OtherCall, LoadConfig, Ages
    <3>2. /\ instanceTtl' = instanceTtl /\ entryTtl' = entryTtl /\ vaultIdle' = vaultIdle
          /\ bTokens' = bTokens /\ written' = written /\ position' = position
      BY <2>5 DEF OtherCall, LoadConfig, values
    <3> QED
      BY <3>1, <3>2 DEF Kept, TypeOK, Values, AttributionAgrees, Lifetimes, Renewal
  <2>6. CASE UNCHANGED vars
    BY <2>6 DEF vars, values, Kept, TypeOK, Values, AttributionAgrees, Lifetimes, Renewal
  <2> QED
    BY <2>1, <2>2, <2>3, <2>4, <2>5, <2>6 DEF Next, Calls
<1> QED
  BY <1>1, <1>2, PTL DEF Spec

\* No position and no lifetime leaves its range.
THEOREM TypesHold == Spec => []TypeOK
  BY StorageHolds, PTL DEF Kept

\* The vaults' entries add up to what the pool holds, whatever is archived and restored.
THEOREM AttributionAlwaysAgrees == Spec => []AttributionAgrees
  BY StorageHolds, PTL DEF Kept, Values

\* A position that is used more often than the threshold is never archived.
THEOREM UsedPositionIsLive == Spec => []UsedPositionLives
<1>1. Kept => UsedPositionLives
  <2> SUFFICES ASSUME Kept, NEW v \in Vaults, bTokens[v] > 0,
                      vaultIdle[v] <= PERSISTENT_TTL, vaultIdle[v] < MaxTtl
               PROVE  Live(entryTtl[v])
    BY DEF UsedPositionLives
  <2>1. /\ entryTtl[v] \in Nat /\ vaultIdle[v] \in Nat /\ PERSISTENT_TTL \in Nat
        /\ entryTtl[v] + vaultIdle[v] >= Renewal
    BY VaultStorageAssumption DEF Kept, TypeOK, Lifetimes, Ttls, Ages
  <2> QED
    BY <2>1, RenewalBounds DEF Renewal, Smaller, Live
<1> QED
  BY <1>1, StorageHolds, PTL
=============================================================================
