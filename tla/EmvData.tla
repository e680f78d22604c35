------------------------------ MODULE EmvData ------------------------------
(* The data every part of emvpt works on: tag names, the bits of the         *)
(* terminal verification results (TVR), cryptogram types, and the connection's *)
(* tag store (HashMap<String, Vec<u8>> in lib.rs).                            *)
(*                                                                          *)
(* A tag's value is the set of the facts the terminal tells apart in it; a    *)
(* value of zeros is the empty set.  A tag that is in no DOMAIN is absent.    *)
EXTENDS Naturals, Sequences

TAG_AIP == "82"
TAG_AFL == "94"
TAG_PDOL == "9F38"
TAG_CDOL1 == "8C"
TAG_CRYPTOGRAM_INFO_DATA == "9F27"
TAG_APPLICATION_CRYPTOGRAM == "9F26"
TAG_TRACK2_EQUIVALENT == "57"
TAG_PAN == "5A"
TAG_AMOUNT_AUTHORISED == "9F02"
TAG_CTQ == "9F6C"
TAG_TTQ == "9F66"
TAG_TERMINAL_CAPABILITIES == "9F33"
TAG_APPLICATION_VERSION_NUMBER_TERMINAL == "9F09"
TAG_SIGNED_DYNAMIC_APPLICATION_DATA == "9F4B"

(* The TVR bits of EMV Book 3, C5, under the field names of the struct.       *)
TvrBit ==
    {"offline_data_authentication_was_not_performed", "sda_failed",
     "icc_data_missing", "card_appears_on_terminal_exception_file",
     "dda_failed", "cda_failed",
     "icc_and_terminal_have_different_application_versions",
     "expired_application", "application_not_yet_effective",
     "requested_service_not_allowed_for_card_product", "new_card",
     "cardholder_verification_was_not_successful", "unrecognised_cvm",
     "pin_try_limit_exceeded",
     "pin_entry_required_and_pin_pad_not_present_or_not_working",
     "pin_entry_required_pin_pad_present_but_pin_was_not_entered",
     "online_pin_entered", "transaction_exceeds_floor_limit",
     "lower_consecutive_offline_limit_exceeded",
     "upper_consecutive_offline_limit_exceeded",
     "transaction_selected_randomly_for_online_processing",
     "merchant_forced_transaction_online", "default_tdol_used",
     "issuer_authentication_failed",
     "script_processing_failed_before_final_generate_ac",
     "script_processing_failed_after_final_generate_ac"}

(* A set TVR bit that the issuer's or the terminal's action code has as well. *)
action_code_matches(tvr, iac, tac) == tvr \cap (iac \cup tac) # {}

(* AAC: declined.  ARQC: go online.  TC: approved offline.                    *)
CryptogramType == {"AAC", "ARQC", "TC"}

(* How far a cryptogram lets the transaction go.  A card that follows EMV     *)
(* answers a request with the same cryptogram or a lower one.                 *)
CryptogramRank == [c \in CryptogramType |-> CASE c = "AAC" -> 0
                                              [] c = "ARQC" -> 1
                                              [] c = "TC" -> 2]

----------------------------------------------------------------------------
(* The tag store. *)

TagStore(s) == s = [t \in DOMAIN s |-> s[t]]

NoTags == [t \in {} |-> {}]

Holds(store, t) == t \in DOMAIN store

(* process_tlv: a tag that is read again overrides the stored value.          *)
Merge(store, new) ==
    [t \in DOMAIN store \cup DOMAIN new |->
        IF t \in DOMAIN new THEN new[t] ELSE store[t]]

add_tag(store, tag, value) == Merge(store, [t \in {tag} |-> value])

(* The value a data object list reads for a tag: an absent tag is zeros.      *)
ValueOf(store, t) == IF Holds(store, t) THEN store[t] ELSE {}

(* A data object list that process_data_object_list cannot parse, and one    *)
(* that asks for more bytes of a tag than its value has.                      *)
ListDefects == {"unparsable", "too long"}

(* The data a DOL that names the tags in dol asks for.                        *)
get_tag_list_tag_values(store, dol) == [t \in dol |-> ValueOf(store, t)]

(* An amount as the value of 9F02.  A value that is not the digits of one     *)
(* number is a set of several: its amount is 0, as that of an absent tag.     *)
AmountValue(amount) == {amount} \ {0}

IsNumber(value) == \E n \in value : value = {n} /\ n \in Nat

get_amount(store) ==
    LET value == ValueOf(store, TAG_AMOUNT_AUTHORISED)
    IN  IF IsNumber(value) THEN CHOOSE n \in value : TRUE ELSE 0

(* print_tag_value unwraps CryptogramType::try_from(9F27): storing any other  *)
(* value of 9F27 panics.                                                      *)
ParsePanics(new) ==
    /\ Holds(new, TAG_CRYPTOGRAM_INFO_DATA)
    /\ \A c \in CryptogramType : new[TAG_CRYPTOGRAM_INFO_DATA] # {c}

(* CryptogramType::try_from on the stored 9F27.                               *)
CryptogramOf(store) ==
    CHOOSE c \in CryptogramType : store[TAG_CRYPTOGRAM_INFO_DATA] = {c}
=============================================================================
