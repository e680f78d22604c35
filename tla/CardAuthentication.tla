------------------------- MODULE CardAuthentication -------------------------
(* Offline card authentication on EmvConnection (lib.rs): the recovery of the *)
(* public key chain and the verification of a signed application cryptogram   *)
(* (CDA).  Results are "ok", "err" (Err(()) to the caller) and "panic" (an    *)
(* unwrap, an index or an assert that fails).                                 *)
(*                                                                          *)
(* A certificate's value is the set of the defects it has:                    *)
(*   "unreadable"  no CA key, undecryptable, or an algorithm assert fails     *)
(*   "wrong type"  the decrypted certificate has another type byte            *)
(*   "wrong hash"  the certificate's own hash does not match                  *)
(*   "other card"  it names another issuer or PAN than tag 5A                 *)
(* The value of 9F4B is the cryptogram type it signs and its defects.         *)
EXTENDS EmvData

CONSTANT NoData        \* icc.data_authentication = None

ASSUME NoDataAssumption == NoData \notin Seq(Nat \X Nat)

(* A key is named by the transaction whose card it belongs to; 0 is None.     *)
IccData ==
    [sda : BOOLEAN, dda : BOOLEAN, cda : BOOLEAN,
     data_authentication : Seq(Nat \X Nat) \cup {NoData},
     issuer_pk : Nat, icc_pk : Nat, icc_pin_pk : Nat]

NewIcc == [sda |-> FALSE, dda |-> FALSE, cda |-> FALSE,
           data_authentication |-> NoData,
           issuer_pk |-> 0, icc_pk |-> 0, icc_pin_pk |-> 0]

get_issuer_public_key(store) ==
    CASE \/ ~Holds(store, "9F32") \/ ~Holds(store, "90")
         \/ "unreadable" \in ValueOf(store, "90") -> "panic"
      [] /\ Holds(store, "9F32") /\ Holds(store, "90")
         /\ "unreadable" \notin store["90"]
         -> IF {"wrong type", "wrong hash"} \cap store["90"] # {} THEN "err"
            ELSE IF ~Holds(store, TAG_PAN) THEN "panic"
            ELSE IF "other card" \in store["90"] \/ store[TAG_PAN] = {} THEN "err"
            ELSE "ok"

(* Mutant: the hash does not cover the records. *)
icc_key_without_records(store, certificate, signed) ==
    LET defects == store[certificate]
    IN  IF "unreadable" \in defects THEN "panic"
        ELSE IF "wrong type" \in defects THEN "err"
        ELSE IF "wrong hash" \in defects THEN "panic"
        ELSE IF "other card" \in defects THEN "err" ELSE "ok"

(* The static data authentication tag list 9F4A, if there is one: it can be   *)
(* read, and the tags it names have the values that the issuer signed.        *)
StaticTagsSigned(store) ==
    LET list == ValueOf(store, "9F4A")
    IN  /\ ListDefects \cap list = {}
        /\ \A t \in list : "altered" \notin ValueOf(store, t)

(* signed: the static data the terminal read are what the card's issuer       *)
(* signed; the hash over them is compared with assert_eq!.                    *)
get_icc_public_key(store, certificate, signed) ==
    LET defects == store[certificate]
    IN  IF "unreadable" \in defects THEN "panic"
        ELSE IF "wrong type" \in defects THEN "err"
        ELSE IF "wrong hash" \in defects \/ ~signed \/ ~StaticTagsSigned(store)
        THEN "panic"
        ELSE IF "other card" \in defects THEN "err" ELSE "ok"

(* The chain CA -> issuer -> ICC and the separate PIN key.  Keys recovered    *)
(* before a step that fails stay in icc.                                      *)
handle_public_keys(store, icc, card, signed) ==
    LET issuer  == get_issuer_public_key(store)
        withIssuer == [icc EXCEPT !.issuer_pk = card]
        data    == icc.data_authentication
        hasIcc  == Holds(store, "9F46") /\ Holds(store, "9F47")
        iccKey  == IF hasIcc
                   THEN get_icc_public_key(store, "9F46", signed)
                   ELSE "ok"
        withIcc == IF hasIcc
                   THEN [withIssuer EXCEPT !.icc_pk = card, !.icc_pin_pk = card]
                   ELSE withIssuer
        hasPin  == Holds(store, "9F2D") /\ Holds(store, "9F2E")
        pinKey  == IF hasPin
                   THEN get_icc_public_key(store, "9F2D", signed)
                   ELSE "ok"
        withPin == IF hasPin THEN [withIcc EXCEPT !.icc_pin_pk = card]
                   ELSE withIcc
    IN  IF ~Holds(store, "8F") THEN [res |-> "ok", icc |-> icc]
        ELSE IF issuer # "ok" THEN [res |-> issuer, icc |-> icc]
        ELSE IF data = NoData THEN [res |-> "panic", icc |-> withIssuer]
        ELSE IF iccKey # "ok" THEN [res |-> iccKey, icc |-> withIssuer]
        ELSE IF pinKey # "ok" THEN [res |-> pinKey, icc |-> withIcc]
        ELSE [res |-> "ok", icc |-> withPin]

(* Mutant: whatever key was recovered last is taken for this card's. *)
validate_any_key(store, icc, card) ==
    LET sdad == store[TAG_SIGNED_DYNAMIC_APPLICATION_DATA]
    IN  IF ~Holds(store, TAG_SIGNED_DYNAMIC_APPLICATION_DATA) THEN "panic"
        ELSE IF icc.icc_pk = 0 THEN "err"
        ELSE IF "unreadable" \in sdad THEN "panic"
        ELSE IF "wrong signature" \in sdad THEN "err" ELSE "ok"

(* The signature of 9F4B under the ICC key; a key of another card opens it to *)
(* bytes without the expected format.                                         *)
validate_signed_dynamic_application_data(store, icc, card) ==
    LET sdad == store[TAG_SIGNED_DYNAMIC_APPLICATION_DATA]
    IN  IF ~Holds(store, TAG_SIGNED_DYNAMIC_APPLICATION_DATA) THEN "panic"
        ELSE IF icc.icc_pk = 0 THEN "err"
        ELSE IF "unreadable" \in sdad THEN "panic"
        ELSE IF icc.icc_pk # card \/ "wrong signature" \in sdad THEN "err"
        ELSE "ok"

(* The lists whose data CDA rebuilds (9F38 only if the card has one) are      *)
(* there and can be read, whatever has replaced them since they were answered.*)
ListsUsable(store, lists) ==
    \A t \in lists : /\ t = TAG_PDOL \/ Holds(store, t)
                     /\ ListDefects \cap ValueOf(store, t) = {}

(* Mutant: the cryptogram type in the signed data is not compared. *)
cda_without_cid(store, icc, card, lists, inResponse, sameData) ==
    LET sdad == store[TAG_SIGNED_DYNAMIC_APPLICATION_DATA]
    IN  IF validate_signed_dynamic_application_data(store, icc, card) # "ok"
           \/ ~ListsUsable(store, lists) \/ ~inResponse
        THEN "panic"
        ELSE IF "wrong hash" \in sdad \/ ~sameData THEN "err" ELSE "ok"

(* CDA.  lists: the PDOL and the CDOLs whose data are rebuilt; inResponse:    *)
(* 9F4B is part of the GENERATE AC response; sameData: the rebuilt data are   *)
(* those the card was sent.  An Err of the signature check is unwrapped.      *)
handle_application_cryptogram_card_authentication(store, icc, card, lists, inResponse, sameData) ==
    LET sdad == store[TAG_SIGNED_DYNAMIC_APPLICATION_DATA]
    IN  IF validate_signed_dynamic_application_data(store, icc, card) # "ok"
        THEN "panic"
        ELSE IF CryptogramOf(store) \notin sdad THEN "err"
        ELSE IF ~ListsUsable(store, lists) \/ ~inResponse THEN "panic"
        ELSE IF "wrong hash" \in sdad \/ ~sameData THEN "err"
        ELSE "ok"

(* SDA.  The 21 bytes that are compared with the SHA-1 hash never equal its   *)
(* 20: static data that is right is reported as failed as well.               *)
handle_signed_static_application_data(store, icc, card) ==
    LET ssad == ValueOf(store, "93")
    IN  IF icc.issuer_pk = 0 THEN "err"
        ELSE IF ~Holds(store, "93") THEN "panic"
        ELSE IF "wrong length" \in ssad THEN "err"
        ELSE IF \/ icc.issuer_pk # card \/ "unreadable" \in ssad
                \/ ~Holds(store, "9F4A") \/ ListDefects \cap store["9F4A"] # {}
        THEN "panic"
        ELSE "err"

(* The end of DDA and of fDDA: the signature in 9F4B, whose Err is unwrapped. *)
DynamicSignature(store, icc, card) ==
    IF validate_signed_dynamic_application_data(store, icc, card) = "ok"
    THEN "ok" ELSE "panic"
=============================================================================
