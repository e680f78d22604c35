---------------------------- MODULE ContactSafety ----------------------------
(* What a contact transaction promises: what it tells the card about the      *)
(* cardholder and about its own checks, what a completed purchase rests on,   *)
(* and that it comes to an end.                                               *)
EXTENDS ContactTransaction

Phase == {"gpo", "readRecord", "keys", "cvm", "oda", "taa", "gac1", "issuerAuth",
          "gac2", "done"}

(* The state has the shape the flow relies on: a result exists only at the    *)
(* end, the READ RECORD loop (lib.rs:1649) never takes more records for data  *)
(* authentication than the AFL entry says, and the rule the CVM loop is at    *)
(* exists or is the one after the last.                                       *)
ContactTypeOK ==
    /\ phase \in Phase /\ (phase = "done") = (result # "none")
    /\ result \in {"none", "successful", "error", "panic"}
    /\ caller \in Callers /\ txn \in 1 .. MaxTransactions
    /\ amount \in Amounts /\ afl \in Afls /\ cvmList \in CvmLists
    /\ TagStore(tags) /\ ~ParsePanics(tags) /\ given \subseteq Own(tags)
    /\ tvr \subseteq TvrBit /\ icc \in IccData /\ issuerAuth \in BOOLEAN
    /\ cvmRules \in Seq(CvmRule) /\ rule \in 1 .. Len(cvmRules) + 1
    /\ purchase_amount \in {0} \cup 0 .. AmountLimit - 1
    /\ cursor \in Nat \X Nat \X Nat
    /\ \A i \in DOMAIN data :
          data[i][1] \in DOMAIN afl /\ data[i][2] <= afl[data[i][1]].records
    /\ readFailed \in BOOLEAN /\ verified \in BOOLEAN
    /\ card \in CryptogramType \cup {"none"}
    /\ DOMAIN sent = {"9F38", "8C", "8D"}

AfterCvm == phase \in {"oda", "taa", "gac1", "issuerAuth", "gac2"}

(* Tag 9F34 has a value that the terminal gave it in this transaction, not    *)
(* one that stood in a card's answer before the loop over the rules or has    *)
(* replaced the terminal's after it.  The code does not tell them apart.      *)
Reported == Holds(tags, "9F34") /\ "9F34" \notin given

(* After cardholder verification (lib.rs:2990) tag 9F34 is there, and the two *)
(* reports the card gets of it agree, whichever of the loop's exits was       *)
(* taken: what the terminal wrote into it says that verification failed       *)
(* exactly when the TVR bit says so.  A 9F34 of the card's own is left as it  *)
(* is (lib.rs:3104), without a TVR bit: see CvmResultsAreTerminals.           *)
CvmReportsAgree ==
    AfterCvm =>
        /\ Holds(tags, "9F34")
        /\ Reported => ("failed" \in tags["9F34"]) = (NotSuccessful \in tvr)

(* The terminal reports no PIN method as successful unless the card accepted  *)
(* the PIN of this transaction (lib.rs:3048-3073): a terminal that cannot     *)
(* verify, an earlier rule's PIN or the previous cardholder's does not do.  A *)
(* card that reports a PIN itself, in a 9F34 of its own, is not contradicted  *)
(* (lib.rs:3104): see CvmResultsAreTerminals.                                 *)
PinReportRestsOnVerify ==
    AfterCvm /\ Reported
    /\ "successful" \in tags["9F34"] /\ PinCodes \cap tags["9F34"] # {}
        => verified

(* EMV Book 3, 10.5: the conditions of a rule, of those the code can decide.  *)
Meets(r) ==
    CASE r.condition \in {"Always", "CvmSupported",
                          "NotCashNorPurchaseWithCashback"} -> TRUE
      [] r.condition = "IccCurrencyUnderX" -> purchase_amount < r.amount_x
      [] r.condition = "IccCurrencyOverX" -> purchase_amount > r.amount_x
      [] r.condition = "IccCurrencyUnderY" -> purchase_amount < r.amount_y
      [] r.condition = "IccCurrencyOverY" -> purchase_amount > r.amount_y
      [] OTHER -> FALSE

(* In every transaction, the rule that the terminal reports is one of those   *)
(* it has (lib.rs:1738) whose condition the amount meets, and no rule before  *)
(* it that had to be performed was passed over (lib.rs:3001-3032 and the      *)
(* loop's continue and break); the same of all rules when it reports none, or *)
(* when right after the loop a card's own 9F34 still stands.  The rules are   *)
(* this card's on a connection's first transaction; those of a later card are *)
(* appended to the old ones.                                                  *)
ReportedRuleApplies ==
    LET mayPassOver(i) == Meets(cvmRules[i]) => cvmRules[i].condition = "CvmSupported"
        nonePerformed == \A i \in DOMAIN cvmRules : mayPassOver(i)
    IN  AfterCvm =>
          /\ Reported =>
                \/ tags["9F34"] = NoCvmPerformed /\ nonePerformed
                \/ \E i \in DOMAIN cvmRules :
                      /\ cvmRules[i].code \in tags["9F34"] /\ Meets(cvmRules[i])
                      /\ \A j \in 1 .. i - 1 : mayPassOver(j)
          /\ ~Reported /\ phase = (IF caller = "library" THEN "oda" ELSE "taa")
                => nonePerformed
          /\ txn = 1 => cvmRules \in {<<>>, cvmList}
          /\ caller = "library" => purchase_amount = amount

(* What the card decides on is what the terminal found: the TVR that goes out *)
(* with the data of each GENERATE AC is the terminal's, but for the issuer    *)
(* authentication, whose failure comes after tag 95 was written               *)
(* (lib.rs:3258), and unless an answer since then had a tag 95 of its own.    *)
LateBits == {"issuer_authentication_failed"}

CardSeesTvr ==
    [][\A dol \in {"8C", "8D"} :
          sent'[dol] # sent[dol] /\ "95" \in DOMAIN sent'[dol] /\ "95" \notin given
              => sent'[dol]["95"] \ LateBits = tvr \ LateBits]_vars

(* A purchase is successful only on a TC that the terminal itself asked no    *)
(* AAC for, and when the card and the terminal agreed on CDA, only if this    *)
(* card's key verifies the signature over this cryptogram and over the data   *)
(* this card was sent, and the cryptogram kept is the signed one, through     *)
(* both GENERATE ACs (lib.rs:1985-2100).  A cryptogram a contactless card     *)
(* gave with its processing options is taken as it is.                        *)
PurchaseRestsOnSignature ==
    result = "successful" =>
        /\ tags[TAG_CRYPTOGRAM_INFO_DATA] = {"TC"} /\ card = "TC"
        /\ CdaAgreed /\ sent["8C"] # NoTags =>
              /\ icc.icc_pk = txn /\ tags[TAG_APPLICATION_CRYPTOGRAM] = {"signed"}
              /\ "TC" \in tags[TAG_SIGNED_DYNAMIC_APPLICATION_DATA]
              /\ {"wrong hash", "wrong signature"}
                    \cap tags[TAG_SIGNED_DYNAMIC_APPLICATION_DATA] = {}
              /\ \A t \in ValueOf(tags, "9F38") \ {TAG_APPLICATION_CRYPTOGRAM} :
                    sent["9F38"][t] = ValueOf(tags, t)

(* A key of this card is in use only when everything its issuer signed was    *)
(* read: a record that was skipped, or one too many, does not go unnoticed    *)
(* (lib.rs:1655-1680 and 2456-2510).                                          *)
KeyRestsOnRecords ==
    phase \notin {"gpo", "readRecord"} /\ txn \in {icc.icc_pk, icc.icc_pin_pk}
        => AreSigned(data, afl)

(* Every transaction comes to an end: the loops over the AFL, over its        *)
(* records and over the CVM rules do.                                         *)
PurchaseEnds == phase = "gpo" ~> phase = "done"
=============================================================================
