----------------------------- MODULE EntryPoint -----------------------------
(* The contactless entry point: the configuration of an AID (config.rs), the  *)
(* choice of that configuration, and the pre-processing of the amount against *)
(* the reader limits (entry_point.rs).                                        *)
EXTENDS EmvData

Sequence == INSTANCE SequencesExt

(* The application versions that a card and a configuration may have.         *)
Version == {"v1", "v2"}

(* The fields of McAidConfig that a decision reads.  Action codes are sets of *)
(* TVR bits, limits and amounts are in minor currency units, the empty        *)
(* version is a configuration without one.                                    *)
McAidConfig ==
    [tac_denial : SUBSET TvrBit, tac_online : SUBSET TvrBit,
     tac_default : SUBSET TvrBit, floor_limit : Nat,
     contactless_transaction_limit : Nat,
     contactless_transaction_limit_cdcvm : Nat,
     cvm_required_limit : Nat, force_online : BOOLEAN,
     version : SUBSET Version]

exceeds_transaction_limit(cfg, amount, cdcvm) ==
    amount > (IF cdcvm THEN cfg.contactless_transaction_limit_cdcvm
                       ELSE cfg.contactless_transaction_limit)

cvm_required(cfg, amount) == amount > cfg.cvm_required_limit

floor_limit_exceeded(cfg, amount) == amount > cfg.floor_limit

----------------------------------------------------------------------------
(* An AID is a sequence; the code compares their texts in uppercase hex. *)

(* The configured entries that find_mc_config accepts for an AID, and the     *)
(* first of them; 0 when there is none.                                       *)
MatchingConfigs(aid, aids) ==
    {i \in 1 .. Len(aids) : \/ Sequence!IsPrefix(aids[i], aid)
                            \/ Sequence!IsPrefix(aid, aids[i])}

find_mc_config(aid, aids) ==
    LET found == MatchingConfigs(aid, aids)
    IN  IF found = {} THEN 0
        ELSE CHOOSE i \in found : \A j \in found : i <= j

----------------------------------------------------------------------------
(* select_kernel's pre-processing. *)

(* Mutant: the limit of transactions with a consumer device CVM is applied. *)
PreProcessingResultCdcvm(cfg, amount) ==
    [contactless_application_not_allowed |->
         exceeds_transaction_limit(cfg, amount, TRUE)]

PreProcessingResult(cfg, amount) ==
    [contactless_application_not_allowed |->
         exceeds_transaction_limit(cfg, amount, FALSE),
     transaction_limit_exceeded |->
         exceeds_transaction_limit(cfg, amount, FALSE),
     cvm_required |-> cvm_required(cfg, amount),
     floor_limit_exceeded |-> floor_limit_exceeded(cfg, amount),
     zero_amount |-> amount = 0]

(* The terminal transaction qualifiers after pre-processing: the CVM-required *)
(* bit is rewritten when the tag is there with both its bytes.                *)
PreprocessedTtq(store, cfg, amount) ==
    IF ~Holds(store, TAG_TTQ) \/ "byte2" \notin store[TAG_TTQ] THEN store
    ELSE add_tag(store, TAG_TTQ,
                 IF cvm_required(cfg, amount)
                 THEN store[TAG_TTQ] \cup {"cvm_required"}
                 ELSE store[TAG_TTQ] \ {"cvm_required"})
=============================================================================
