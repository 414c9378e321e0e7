---------------------------- MODULE BlendStorage ----------------------------
(***************************************************************************)
(* strategy-blend's entries and how long they live.  The totals of the     *)
(* strategy are in the contract's instance entry, the shares of each vault *)
(* in a persistent entry of its own, and every entry is archived when      *)
(* nobody has renewed it for long enough.  Amounts are shares: what they   *)
(* are worth is BlendStrategy's.                                           *)
(*                                                                         *)
(* Times are counted in ledgers since the last use; there is no clock.     *)
(***************************************************************************)
EXTENDS Ttl, FiniteSets, Functions

CONSTANTS
  Vaults,
  MaxShares,                     \* bound on the shares in existence
  INSTANCE_LIFETIME_THRESHOLD, INSTANCE_BUMP_AMOUNT,
  PERSISTENT_LIFETIME_THRESHOLD, PERSISTENT_BUMP_AMOUNT

ASSUME BlendStorageAssumption ==
  /\ IsFiniteSet(Vaults)
  /\ MaxShares \in Nat
  /\ INSTANCE_LIFETIME_THRESHOLD \in Nat /\ INSTANCE_BUMP_AMOUNT \in Nat
  /\ PERSISTENT_LIFETIME_THRESHOLD \in Nat /\ PERSISTENT_BUMP_AMOUNT \in Nat
  /\ INSTANCE_LIFETIME_THRESHOLD < INSTANCE_BUMP_AMOUNT
  /\ PERSISTENT_LIFETIME_THRESHOLD < PERSISTENT_BUMP_AMOUNT

VARIABLES
  total,        \* instance: DataKey::Reserves, the shares attributed to vaults
  vaultShares,  \* persistent: DataKey::VaultPos(v)
  written,      \* the vaults that have such an entry
  instanceTtl,  \* time-to-live of the instance entry
  entryTtl,     \* entryTtl[v]: of v's entry
  idle,         \* ledgers since somebody called the contract
  vaultIdle     \* vaultIdle[v]: since v deposited, withdrew or asked for its balance

values == <<total, vaultShares, written>>
vars == <<values, instanceTtl, entryTtl, idle, vaultIdle>>

\* Ages are counted up to here: beyond it, everything may have been archived.
Ages == 0..MaxTtl

TypeOK ==
  /\ total \in 0..MaxShares
  /\ vaultShares \in [Vaults -> Nat]
  /\ written \subseteq Vaults
  /\ instanceTtl \in Ttls
  /\ entryTtl \in [Vaults -> Ttls]
  /\ idle \in Ages
  /\ vaultIdle \in [Vaults -> Ages]

\* The constructor writes the instance and extends nothing.
Init ==
  /\ total = 0
  /\ vaultShares = [v \in Vaults |-> 0]
  /\ written = {}
  /\ instanceTtl = MinTtl
  /\ entryTtl = [v \in Vaults |-> 0]
  /\ idle = MaxTtl
  /\ vaultIdle = [v \in Vaults |-> MaxTtl]

-----------------------------------------------------------------------------
(* storage.rs *)

\* Mutant of the next definition: no call extends.
ExtendedNever == instanceTtl

ExtendedInstance == Extended(instanceTtl, INSTANCE_LIFETIME_THRESHOLD, INSTANCE_BUMP_AMOUNT)

\* extend_instance_ttl, the first thing every entry point does; the instance must be there
EntryPoint ==
  /\ Live(instanceTtl)
  /\ instanceTtl' = ExtendedInstance
  /\ idle' = 0

\* Mutant of the next definition: an entry whose time is over is gone, as in temporary storage.
Forgotten(v) == TRUE

\* A vault without an entry reads as 0; one whose entry is archived fails the call.
Accessible(v) == v \in written => Live(entryTtl[v])

\* get_vault_shares: the value ...
GetVaultShares(v) == IF v \in written /\ Live(entryTtl[v]) THEN vaultShares[v] ELSE 0

\* Mutant of the next definition: reading a position does not renew it.
ReadOnly(v) == entryTtl[v]

\* ... and the extension of an entry that is there
ReadTtl(v) ==
  IF v \in written THEN Extended(entryTtl[v], PERSISTENT_LIFETIME_THRESHOLD, PERSISTENT_BUMP_AMOUNT)
  ELSE entryTtl[v]

\* set_vault_shares after a get: extends nothing, a new entry has what the network gives it
SetVaultShares(v, s) ==
  /\ vaultShares' = [vaultShares EXCEPT ![v] = s]
  /\ written' = written \cup {v}
  /\ entryTtl' = [entryTtl EXCEPT ![v] = IF v \in written THEN ReadTtl(v) ELSE MinTtl]

UsedBy(v) == vaultIdle' = [vaultIdle EXCEPT ![v] = 0]

-----------------------------------------------------------------------------
(* The calls, as far as storage is concerned. *)

Deposit(v, minted) ==
  /\ EntryPoint
  /\ Accessible(v)
  /\ minted > 0
  /\ total + minted <= MaxShares
  /\ total' = total + minted
  /\ SetVaultShares(v, GetVaultShares(v) + minted)
  /\ UsedBy(v)

Withdraw(v, burnt) ==
  /\ EntryPoint
  /\ Accessible(v)
  /\ burnt \in 1..GetVaultShares(v)
  /\ total' = total - burnt
  /\ SetVaultShares(v, GetVaultShares(v) - burnt)
  /\ UsedBy(v)

Balance(v) ==
  /\ EntryPoint
  /\ Accessible(v)
  /\ entryTtl' = [entryTtl EXCEPT ![v] = ReadTtl(v)]
  /\ UsedBy(v)
  /\ UNCHANGED values

\* asset, harvest, set_keeper, get_keeper: no vault's entry
OtherCall ==
  /\ EntryPoint
  /\ UNCHANGED <<values, entryTtl, vaultIdle>>

-----------------------------------------------------------------------------
(* The network. *)

LedgerCloses ==
  /\ instanceTtl' = Aged(instanceTtl)
  /\ entryTtl' = [v \in Vaults |-> Aged(entryTtl[v])]
  /\ idle' = Smaller(idle + 1, MaxTtl)
  /\ vaultIdle' = [v \in Vaults |-> Smaller(vaultIdle[v] + 1, MaxTtl)]
  /\ UNCHANGED values

\* Somebody pays to restore what a call of v touches.
Restore(v) ==
  /\ ~ Live(instanceTtl) \/ ~ Accessible(v)
  /\ instanceTtl' = Restored(instanceTtl)
  /\ entryTtl' = [entryTtl EXCEPT ![v] = IF v \in written THEN Restored(@) ELSE @]
  /\ UNCHANGED <<values, idle, vaultIdle>>

Calls(v) ==
  \/ \E s \in 1..MaxShares : Deposit(v, s) \/ Withdraw(v, s)
  \/ Balance(v)

Next ==
  \/ \E v \in Vaults : Calls(v) \/ Restore(v)
  \/ OtherCall
  \/ LedgerCloses

Spec == Init /\ [][Next]_vars

\* v withdraws all it has
Exit(v) == Withdraw(v, GetVaultShares(v))

\* A vault that wants to leave tries again and again, and whoever tries pays for restoring what
\* the call touches.  Nobody is obliged to anything else.
Fairness == \A v \in Vaults : WF_vars(Restore(v)) /\ SF_vars(Exit(v))

FairSpec == Spec /\ Fairness

-----------------------------------------------------------------------------
(* Properties. *)

\* The totals are in one entry and the positions in others, with other lifetimes: whatever is
\* archived and restored, and whoever calls in between, they agree.
TotalsAgree == total = SumFunction(vaultShares)

\* A contract somebody calls now and then is never archived, whoever calls and whatever for.
UsedContractLives == idle <= INSTANCE_LIFETIME_THRESHOLD /\ idle < MaxTtl => Live(instanceTtl)

\* A vault that calls now and then is never locked out: neither its own entry nor the instance
\* is archived, though nobody else calls.  A new entry is not extended, hence MinTtl.
ActiveVaultServed ==
  \A v \in Vaults :
    /\ vaultIdle[v] < MinTtl
    /\ vaultIdle[v] <= INSTANCE_LIFETIME_THRESHOLD
    /\ vaultIdle[v] <= PERSISTENT_LIFETIME_THRESHOLD
    => Live(instanceTtl) /\ Accessible(v)

\* However long a vault was away and whatever expired meanwhile, it gets its position out.
PositionRecoverable == \A v \in Vaults : vaultShares[v] > 0 ~> vaultShares[v] = 0
=============================================================================
