--------------------------------- MODULE Ttl --------------------------------
(***************************************************************************)
(* The lifetime of a ledger entry, as the Soroban host keeps it for        *)
(* instance and persistent storage.  A time-to-live is the number of       *)
(* ledgers an entry still lives; at 0 it is archived: it keeps its value,  *)
(* but a call that touches it fails until it is restored.                  *)
(***************************************************************************)
EXTENDS Integers

CONSTANTS
  MinTtl,   \* what a new and a restored entry gets from the network
  MaxTtl    \* what an extension is cut to

ASSUME TtlAssumption == MinTtl \in Nat \ {0} /\ MaxTtl \in Nat /\ MinTtl <= MaxTtl

Ttls == 0..MaxTtl

Smaller(x, y) == IF x <= y THEN x ELSE y

Live(ttl) == ttl > 0

\* extend_ttl(threshold, extend_to): never shortens, and does nothing above the threshold
Extended(ttl, threshold, extendTo) ==
  IF ttl <= threshold /\ ttl < Smaller(extendTo, MaxTtl) THEN Smaller(extendTo, MaxTtl) ELSE ttl

\* a ledger closes
Aged(ttl) == IF Live(ttl) THEN ttl - 1 ELSE 0

Restored(ttl) == IF Live(ttl) THEN ttl ELSE MinTtl
=============================================================================
