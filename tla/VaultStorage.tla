---------------------------- MODULE VaultStorage ----------------------------
(***************************************************************************)
(* strategy-neko's entries and how long they live; storage.rs of           *)
(* strategy-soroswap and of strategy-aquarius is the same code with other  *)
(* names.  The configuration is in the contract's instance entry, the      *)
(* b_tokens of each vault in a persistent entry of its own, what they add  *)
(* up to is in the pool, which does not forget.                            *)
(*                                                                         *)
(* Unlike strategy-blend a write extends an entry, a read does when there  *)
(* is something to lose, and no call extends the instance.                 *)
(***************************************************************************)
EXTENDS Ttl, FiniteSets, Functions

CONSTANTS
  Vaults,
  MaxBTokens,                      \* bound on the b_tokens in existence
  INSTANCE_TTL, INSTANCE_BUMP,     \* threshold and bump of the instance entry
  PERSISTENT_TTL, PERSISTENT_BUMP  \* and of a vault's

ASSUME VaultStorageAssumption ==
  /\ IsFiniteSet(Vaults)
  /\ MaxBTokens \in Nat
  /\ INSTANCE_TTL \in Nat /\ INSTANCE_BUMP \in Nat
  /\ PERSISTENT_TTL \in Nat /\ PERSISTENT_BUMP \in Nat
  /\ INSTANCE_TTL < INSTANCE_BUMP /\ PERSISTENT_TTL < PERSISTENT_BUMP

VARIABLES
  bTokens,      \* persistent: StorageKey::BTokens(v)
  written,      \* the vaults that have such an entry
  position,     \* b_tokens the pool holds for the strategy
  instanceTtl,  \* time-to-live of the instance entry
  entryTtl,     \* entryTtl[v]: of v's entry
  idle,         \* ledgers since somebody called the contract
  vaultIdle     \* vaultIdle[v]: since a call named v

values == <<bTokens, written, position>>
vars == <<values, instanceTtl, entryTtl, idle, vaultIdle>>

\* Ages are counted up to here: beyond it, everything may have been archived.
Ages == 0..MaxTtl

TypeOK ==
  /\ bTokens \in [Vaults -> Nat]
  /\ written \subseteq Vaults
  /\ position \in 0..MaxBTokens
  /\ instanceTtl \in Ttls
  /\ entryTtl \in [Vaults -> Ttls]
  /\ idle \in Ages
  /\ vaultIdle \in [Vaults -> Ages]

\* save_config, which the constructor calls and nothing else
Init ==
  /\ bTokens = [v \in Vaults |-> 0]
  /\ written = {}
  /\ position = 0
  /\ instanceTtl = Extended(MinTtl, INSTANCE_TTL, INSTANCE_BUMP)
  /\ entryTtl = [v \in Vaults |-> 0]
  /\ idle = 0
  /\ vaultIdle = [v \in Vaults |-> MaxTtl]

-----------------------------------------------------------------------------
(* storage.rs *)

\* load_config: the instance must be there, and is left as it is
LoadConfig ==
  /\ Live(instanceTtl)
  /\ idle' = 0
  /\ UNCHANGED instanceTtl

\* Mutant of the next definition: an entry whose time is over is gone, as in temporary storage.
Forgotten(v) == TRUE

\* A vault without an entry reads as 0; one whose entry is archived fails the call.
Accessible(v) == v \in written => Live(entryTtl[v])

\* get_b_tokens: the value ...
GetBTokens(v) == IF v \in written /\ Live(entryTtl[v]) THEN bTokens[v] ELSE 0

\* Mutants of the next definition: the bump is added to what is left, and reading a position
\* does not renew it.
ReadExtendsBy(v) == entryTtl[v] + PERSISTENT_BUMP
ReadOnly(v) == entryTtl[v]

\* ... and the extension, of a position that is not empty
ReadTtl(v) ==
  IF GetBTokens(v) > 0 THEN Extended(entryTtl[v], PERSISTENT_TTL, PERSISTENT_BUMP) ELSE entryTtl[v]

\* set_b_tokens after a get: a new entry has MinTtl before it is extended
SetBTokens(v, b) ==
  /\ bTokens' = [bTokens EXCEPT ![v] = b]
  /\ written' = written \cup {v}
  /\ entryTtl' = [entryTtl EXCEPT ![v] =
                    Extended(IF v \in written THEN ReadTtl(v) ELSE MinTtl,
                             PERSISTENT_TTL, PERSISTENT_BUMP)]

UsedBy(v) == vaultIdle' = [vaultIdle EXCEPT ![v] = 0]

-----------------------------------------------------------------------------
(* The calls, as far as storage is concerned. *)

Deposit(v, minted) ==
  /\ LoadConfig
  /\ Accessible(v)
  /\ position + minted <= MaxBTokens
  /\ position' = position + minted
  /\ SetBTokens(v, GetBTokens(v) + minted)
  /\ UsedBy(v)

Withdraw(v, burnt) ==
  /\ LoadConfig
  /\ Accessible(v)
  /\ burnt \in 1..GetBTokens(v)
  /\ position' = position - burnt
  /\ SetBTokens(v, GetBTokens(v) - burnt)
  /\ UsedBy(v)

\* balance reads the position of v, and so does harvest in strategy-soroswap and strategy-aquarius
Read(v) ==
  /\ LoadConfig
  /\ Accessible(v)
  /\ entryTtl' = [entryTtl EXCEPT ![v] = ReadTtl(v)]
  /\ UsedBy(v)
  /\ UNCHANGED values

\* asset, and strategy-neko's harvest: the configuration and no vault's entry
OtherCall ==
  /\ LoadConfig
  /\ UNCHANGED <<values, entryTtl, vaultIdle>>

-----------------------------------------------------------------------------
(* The network. *)

LedgerCloses ==
  /\ instanceTtl' = Aged(instanceTtl)
  /\ entryTtl' = [v \in Vaults |-> Aged(entryTtl[v])]
  /\ idle' = Smaller(idle + 1, MaxTtl)
  /\ vaultIdle' = [v \in Vaults |-> Smaller(vaultIdle[v] + 1, MaxTtl)]
  /\ UNCHANGED values

\* Somebody pays to restore what a call of v touches.
Restore(v) ==
  /\ ~ Live(instanceTtl) \/ ~ Accessible(v)
  /\ instanceTtl' = Restored(instanceTtl)
  /\ entryTtl' = [entryTtl EXCEPT ![v] = IF v \in written THEN Restored(@) ELSE @]
  /\ UNCHANGED <<values, idle, vaultIdle>>

Calls(v) ==
  \/ \E b \in 0..MaxBTokens : Deposit(v, b) \/ Withdraw(v, b)
  \/ Read(v)

Next ==
  \/ \E v \in Vaults : Calls(v) \/ Restore(v)
  \/ OtherCall
  \/ LedgerCloses

Spec == Init /\ [][Next]_vars

\* v withdraws all it has
Exit(v) == Withdraw(v, GetBTokens(v))

\* A vault that wants to leave tries again and again, and whoever tries pays for restoring what
\* the call touches.  Nobody is obliged to anything else.
Fairness == \A v \in Vaults : WF_vars(Restore(v)) /\ SF_vars(Exit(v))

FairSpec == Spec /\ Fairness

-----------------------------------------------------------------------------
(* Properties. *)

\* The pool remembers the position when the entries that say whose it is are archived: whatever
\* expires and is restored, and whoever calls in between, they agree.
AttributionAgrees == SumFunction(bTokens) = position

\* A position that a call touches now and then is never archived, not even after the call that
\* created it, as far as the network allows (MaxTtl may be below a year).  It is the configuration
\* beside it that expires.
UsedPositionLives ==
  \A v \in Vaults :
    bTokens[v] > 0 /\ vaultIdle[v] <= PERSISTENT_TTL /\ vaultIdle[v] < MaxTtl => Live(entryTtl[v])

\* However long a vault was away and whatever expired meanwhile, it gets its position out.
PositionRecoverable == \A v \in Vaults : bTokens[v] > 0 ~> bTokens[v] = 0

\* storage.rs: "Instance storage TTL: 30 days, bumped to 31 on every access."
BumpedOnEveryAccess == idle = 0 => instanceTtl >= Smaller(INSTANCE_TTL, MaxTtl)
=============================================================================
