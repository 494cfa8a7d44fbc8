------------------------------ MODULE MCIPFilter -----------------------------
(* IPFilter for TLC: 2-bit addresses, four entry strings (one malformed, *)
(* two spellings of one host), the global filter's own dict, the class    *)
(* default, and caller configurations.                                    *)
EXTENDS IPFilter, TLC

CONSTANTS eAll, eHost, eHostAlt, eBad,
          lDefB, lDefW, lOwnB, lOwnW, lTrB, lTrW, lNoB, lShared,
          dDefault, dOwn, dTrusted, dNoWhite, dShared

(* "0.0.0.0/0", one host spelled "a.b.c.2" and "a.b.c.2/32", and a     *)
(* "/1" network with a host bit set.                                    *)
MCNet ==
  (eAll :> [addr |-> 0, prefix |-> 0])
  @@ (eHost :> [addr |-> 2, prefix |-> 2]) @@ (eHostAlt :> [addr |-> 2, prefix |-> 2])
  @@ (eBad :> [addr |-> 1, prefix |-> 1])

MCLists == {lDefB, lDefW, lOwnB, lOwnW, lTrB, lTrW, lNoB, lShared}

(* dTrusted is example 1 of the IPFilter docstring; dNoWhite lacks the   *)
(* whitelist key; dShared is dict.fromkeys(keys, []) with one list.      *)
MCDictMap ==
  (dDefault :> [k \in Keys |-> IF k = "blacklist" THEN lDefB ELSE lDefW])
  @@ (dOwn :> [k \in Keys |-> IF k = "blacklist" THEN lOwnB ELSE lOwnW])
  @@ (dTrusted :> [k \in Keys |-> IF k = "blacklist" THEN lTrB ELSE lTrW])
  @@ (dNoWhite :> [k \in {"blacklist"} |-> lNoB])
  @@ (dShared :> [k \in Keys |-> lShared])

MCInitLists ==
  [l \in MCLists |-> CASE l = lTrB -> << eAll >>
                       [] l = lTrW -> << eHost >>
                       [] l = lNoB -> << eAll >>
                       [] OTHER -> << >>]

(* Callers that keep to their own, unshared configuration dicts. *)
LoadableOwn == {dTrusted, dNoWhite}
(* A caller passing IPFilter.default_config back to load_config. *)
LoadableDefault == {dTrusted, dDefault}
=============================================================================
