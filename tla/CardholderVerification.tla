----------------------- MODULE CardholderVerification -----------------------
(* The cardholder verification rules of a contact card (lib.rs): when a rule  *)
(* applies to an amount, which verification the terminal performs for it, and *)
(* how tag 9F34 reports it.                                                   *)
EXTENDS EmvData

CONSTANTS
    PlaintextPin,    \* settings.terminal.capabilities.plaintext_pin
    EncipheredPin    \* settings.terminal.capabilities.enciphered_pin

ASSUME PinAssumption == PlaintextPin \in BOOLEAN /\ EncipheredPin \in BOOLEAN

CvmCode == {"FailCvmProcessing", "PlaintextPin", "EncipheredPinOnline",
            "PlaintextPinAndSignature", "EncipheredPinOffline",
            "EncipheredPinOfflineAndSignature", "Signature", "NoCvm"}

CvmConditionCode ==
    {"Always", "UnattendedCash", "NotCashNorPurchaseWithCashback",
     "CvmSupported", "ManualCash", "PurchaseWithCashback",
     "IccCurrencyUnderX", "IccCurrencyOverX", "IccCurrencyUnderY",
     "IccCurrencyOverY"}

CvmRule == [amount_x : Nat, amount_y : Nat, fail_if_unsuccessful : BOOLEAN,
            code : CvmCode, condition : CvmConditionCode]

PinCodes == {"PlaintextPin", "PlaintextPinAndSignature", "EncipheredPinOffline",
             "EncipheredPinOfflineAndSignature"}

EncipheredCodes == {"EncipheredPinOffline", "EncipheredPinOfflineAndSignature"}

(* Mutant: amount X itself counts as under X. *)
SkippedBeyond(rule, amount) ==
    \/ rule.condition \in {"UnattendedCash", "ManualCash", "PurchaseWithCashback"}
    \/ rule.condition = "IccCurrencyUnderX" /\ amount > rule.amount_x
    \/ rule.condition = "IccCurrencyOverX" /\ amount <= rule.amount_x
    \/ rule.condition = "IccCurrencyUnderY" /\ amount >= rule.amount_y
    \/ rule.condition = "IccCurrencyOverY" /\ amount <= rule.amount_y

(* The conditions under which the terminal passes over a rule.                *)
Skipped(rule, amount) ==
    \/ rule.condition \in {"UnattendedCash", "ManualCash", "PurchaseWithCashback"}
    \/ rule.condition = "IccCurrencyUnderX" /\ amount >= rule.amount_x
    \/ rule.condition = "IccCurrencyOverX" /\ amount <= rule.amount_x
    \/ rule.condition = "IccCurrencyUnderY" /\ amount >= rule.amount_y
    \/ rule.condition = "IccCurrencyOverY" /\ amount <= rule.amount_y

(* What the terminal does for the rule's code: a PIN that is to be enciphered *)
(* is sent in plaintext by a terminal that cannot encipher it.                *)
MethodFor(rule) ==
    CASE rule.code \in {"Signature", "NoCvm"} -> "nothing to do"
      [] rule.code = "FailCvmProcessing" -> "fail"
      [] rule.code \in EncipheredCodes /\ EncipheredPin -> "enciphered PIN"
      [] /\ rule.code \in PinCodes /\ PlaintextPin
         /\ ~(rule.code \in EncipheredCodes /\ EncipheredPin) -> "plaintext PIN"
      [] OTHER -> "unsupported"

(* A method the terminal lacks is passed over when the rule says so; it is a  *)
(* failed verification otherwise.                                             *)
PassedOver(rule, method) == method = "unsupported" /\ rule.condition = "CvmSupported"

(* CvmRule::into_9f34_value: the code of the rule and the result.             *)
into_9f34_value(rule, success) ==
    {rule.code, IF ~success THEN "failed"
                ELSE IF rule.code = "Signature" THEN "unknown" ELSE "successful"}

NoCvmPerformed == {"no CVM performed", "failed"}
=============================================================================
