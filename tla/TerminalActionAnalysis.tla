----------------------- MODULE TerminalActionAnalysis -----------------------
(* Terminal action analysis of the contactless kernel (kernel2/taa.rs): which *)
(* cryptogram GENERATE AC asks for.                                           *)
EXTENDS EntryPoint

(* A TVR bit that is also in the action code; a code shorter than the TVR     *)
(* matches none of the bytes it lacks, so it is a smaller set.                *)
bitwise_match(tvr, action_code) == tvr \cap action_code # {}

(* The issuer's action code, all ones when the card has none.                 *)
IssuerActionCode(store, t) == IF Holds(store, t) THEN store[t] ELSE TvrBit

Denied(tvr, cfg, store) ==
    \/ bitwise_match(tvr, cfg.tac_denial)
    \/ Holds(store, "9F0E") /\ bitwise_match(tvr, store["9F0E"])

(* Mutant: the floor limit deferred in step 2 is forgotten. *)
GoesOnlineAnyAmount(tvr, cfg, store) ==
    \/ bitwise_match(tvr, cfg.tac_online)
    \/ bitwise_match(tvr, IssuerActionCode(store, "9F0F"))
    \/ bitwise_match(tvr, cfg.tac_default)
    \/ bitwise_match(tvr, IssuerActionCode(store, "9F0D"))

GoesOnline(tvr, cfg, store) ==
    \/ bitwise_match(tvr, cfg.tac_online)
    \/ bitwise_match(tvr, IssuerActionCode(store, "9F0F"))
    \/ floor_limit_exceeded(cfg, get_amount(store))
    \/ bitwise_match(tvr, cfg.tac_default)
    \/ bitwise_match(tvr, IssuerActionCode(store, "9F0D"))

perform_taa(tvr, cfg, store) ==
    IF cfg.force_online THEN "ARQC"
    ELSE IF Denied(tvr, cfg, store) THEN "AAC"
    ELSE IF GoesOnline(tvr, cfg, store) THEN "ARQC"
    ELSE "TC"
=============================================================================
