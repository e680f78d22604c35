-------------------------- MODULE CvmDetermination --------------------------
(* The cardholder verification method of a contactless transaction (cvm.rs)   *)
(* and how it is reported: tag 9F34 and the outcome's CVM.                    *)
EXTENDS EntryPoint

CvmOutcome == {"NoCvm", "ObtainSignature", "OnlinePin",
               "ConfirmationCodeVerified"}

(* The TTQ that determine_cvm assumes when the tag is absent: bytes 36 00.    *)
DefaultTtq == {"online_pin_supported", "signature_supported",
               "emv_mode_supported", "byte2"}

TtqOf(store) == IF Holds(store, TAG_TTQ) THEN store[TAG_TTQ] ELSE DefaultTtq

(* The priority of Table 3.5: consumer device, online PIN, signature, none.   *)
determine_cvm_from_ctq_ttq(ctq, ttq) ==
    CASE "cdcvm_performed" \in ctq -> "ConfirmationCodeVerified"
      [] /\ "cdcvm_performed" \notin ctq
         /\ "online_pin_required" \in ctq /\ "online_pin_supported" \in ttq
         -> "OnlinePin"
      [] /\ "cdcvm_performed" \notin ctq
         /\ ~("online_pin_required" \in ctq /\ "online_pin_supported" \in ttq)
         /\ "signature_required" \in ctq /\ "signature_supported" \in ttq
         -> "ObtainSignature"
      [] OTHER -> "NoCvm"

TerminalCvm(ttq) ==
    IF "online_pin_supported" \in ttq THEN "OnlinePin"
    ELSE IF "signature_supported" \in ttq THEN "ObtainSignature"
    ELSE "NoCvm"

determine_cvm(store, cfg) ==
    IF ~cvm_required(cfg, get_amount(store)) THEN "NoCvm"
    ELSE IF Holds(store, TAG_CTQ)
         THEN determine_cvm_from_ctq_ttq(store[TAG_CTQ], TtqOf(store))
         ELSE TerminalCvm(TtqOf(store))

(* The method and the result that 9F34 carries.  A consumer device CVM is     *)
(* reported with the bytes of "no CVM".                                       *)
build_cvm_results(cvm) ==
    CASE cvm = "NoCvm" -> {"no CVM", "successful"}
      [] cvm = "OnlinePin" -> {"enciphered PIN online", "unknown"}
      [] cvm = "ObtainSignature" -> {"signature", "unknown"}
      [] cvm = "ConfirmationCodeVerified" -> {"no CVM", "successful"}
=============================================================================
