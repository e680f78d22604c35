---------------------------- MODULE ContactClaims ----------------------------
(* What the contact flow's comments say and its code does not do.             *)
EXTENDS ContactSafety

(* The CVM results (tag 9F34) have "source: 'Terminal'"                       *)
(* (config/emv_tags.yaml:434): what they say after cardholder verification is *)
(* what the terminal found.  The loop's end takes any stored 9F34 for the     *)
(* result of a rule (lib.rs:3104), be it one the card put into a record.      *)
CvmResultsAreTerminals == phase = "oda" => "9F34" \notin given

(* "If the Issuer Action Code - Online is not present, a default value with   *)
(* all bits set to 1 shall be used in its place." (lib.rs:3160): any TVR bit  *)
(* then asks for the transaction to go online, if no denial code matches it.  *)
(* The default is vec![1; tvr_len], five bytes of 01.                         *)
AbsentOnlineCodeIsAllOnes ==
    phase = "gac1" /\ ~Holds(tags, "9F0F") /\ tags["95"] # {}
    /\ tags["95"] \cap ValueOf(tags, "9F0E") = {}
        => analysis = "ARQC"
=============================================================================
