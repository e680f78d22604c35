------------------------------ MODULE MCContact ------------------------------
(* Instances of the contact transaction for TLC: Cvm (cardholder verification *)
(* on two successive cards) and Ac (the key chain, offline data               *)
(* authentication and the two GENERATE ACs, read without contact).            *)
EXTENDS ContactClaims, TLC

Answer(body, t) == [ok |-> TRUE, body |-> body, tags |-> t]
Refusal(t) == [ok |-> FALSE, body |-> "template", tags |-> t]
Lost == [ok |-> FALSE, body |-> "lost", tags |-> NoTags]
Empty == [ok |-> TRUE, body |-> "none", tags |-> NoTags]

Options(aip) == "82" :> (aip \cup {"byte2"}) @@ "94" :> {}
Cid(type) == "9F27" :> {type}
Counted(type) == Cid(type) @@ "9F36" :> {"counter"}
Sdad(facts) == "9F4B" :> facts

Chain == "5A" :> {"digits"} @@ "8F" :> {"index"} @@ "90" :> {} @@ "9F32" :> {}
         @@ "9F46" :> {} @@ "9F47" :> {}
Lists == "8C" :> {"95", "9F34"} @@ "8D" :> {"95"} @@ "8E" :> {}

OneRecord == <<[records |-> 1, oda |-> 1]>>
TwoEntries == <<[records |-> 1, oda |-> 0], [records |-> 1, oda |-> 1]>>

Rule(code, condition) ==
    [amount_x |-> 2, amount_y |-> 2, fail_if_unsuccessful |-> FALSE,
     code |-> code, condition |-> condition]

----------------------------------------------------------------------------
(* Cvm: amounts below, at and above X and Y; each code and each condition;    *)
(* lists in which a rule is passed over, fails or is unsupported before       *)
(* another one; and a second card, with and without a list of its own.  Cards *)
(* that report a verification themselves, before the loop and in the answer   *)
(* to VERIFY.                                                                 *)
CvmAmounts == 1 .. 3
CvmMcLists ==
    {<<Rule("PlaintextPin", "IccCurrencyUnderX"), Rule("Signature", "Always")>>,
     <<Rule("NoCvm", "IccCurrencyUnderY"),
       Rule("EncipheredPinOffline", "CvmSupported"), Rule("NoCvm", "CvmSupported")>>,
     <<Rule("EncipheredPinOnline", "CvmSupported"),
       Rule("FailCvmProcessing", "CvmSupported"),
       Rule("PlaintextPinAndSignature", "IccCurrencyOverX")>>,
     <<Rule("EncipheredPinOfflineAndSignature", "IccCurrencyOverY"),
       Rule("EncipheredPinOnline", "NotCashNorPurchaseWithCashback")>>,
     <<Rule("NoCvm", "ManualCash"), Rule("PlaintextPin", "CvmSupported")>>}
CardsPin == "9F34" :> {"PlaintextPin", "successful"}
CardsFailure == "9F34" :> {"NoCvm", "failed"}
CvmSelect == {NoTags, CardsFailure}
CvmAfls == {OneRecord, TwoEntries}
CvmGpo == {Answer("template", Options({})), Answer("template", Options({"cvm"}))}
CvmRecords == {Answer("template", Lists @@ Chain), Answer("template", Lists),
               Answer("template", "8E" :> {"malformed"}),
               Answer("template", Lists @@ CardsPin)}
CvmStatus == {Lost, Empty, Refusal(NoTags), Answer("template", CardsPin)}
CvmDda == {}
CvmAc == {Answer("format1", Counted("TC")), Lost}

----------------------------------------------------------------------------
(* Ac: each shape of each answer; every defect of the chain and of the        *)
(* signatures; a PDOL that names a tag set after it was sent; answers that    *)
(* replace the amount, the TVR, the CVM results, a list or a signed tag.      *)
AcAmounts == {1}
AcCvmLists == {<<Rule("EncipheredPinOffline", "Always")>>}
AcSelect == {NoTags, "9F38" :> {"9F02"}, "9F38" :> {"9F33", "9F26"}, "9F38" :> {"unparsable"}}
AcAfls == {<<>>, OneRecord, TwoEntries}
AcGpo ==
    {Lost, Empty, Refusal(Options({})), Answer("short", NoTags),
     Answer("other", Options({})), Answer("template", NoTags),
     Answer("template", "94" :> {}), Answer("template", "94" :> {"unaligned"}),
     Answer("format1", Options({"sda"})), Answer("template", Options({"cda"})),
     Answer("template", Options({"dda"})),
     Answer("template", Options({"cvm", "cda", "issuer authentication"})),
     Answer("template", Options({"dda"}) @@ "9F69" :> {} @@ Sdad({})),
     Answer("template", Options({"dda"}) @@ "9F69" :> {"unknown version"})}
    \cup {Answer("template", Options({"cda"}) @@ "9F26" :> {} @@ Counted(c)) :
             c \in CryptogramType}
Static == "93" :> {} @@ "9F4A" :> {"82"}
AcRecords ==
    {Lost, Empty, Answer("other", Lists), Refusal(NoTags),
     Answer("template", Lists), Answer("template", Lists @@ Chain),
     Answer("template", Lists @@ Chain @@ "91" :> {"host"}),
     Answer("template", "8C" :> {"9F4C", "95"} @@ Lists @@ Chain @@ Static),
     Answer("template", Lists @@ Chain @@ "9F2D" :> {} @@ "9F2E" :> {}),
     Answer("template", Lists @@ Chain @@ "93" :> {"wrong length"}),
     Answer("template", Lists @@ Chain @@ "9F49" :> {"unparsable"}),
     Answer("template", "8C" :> {"too long"} @@ Chain),
     Answer("template", Lists @@ "9F0E" :> {"dda_failed"} @@ "9F0D" :> {"too short"}),
     Answer("template", ("9F46" :> {"wrong type"}) @@ Lists @@ Chain),
     Answer("template", Lists @@ Chain @@ "9F02" :> {2}),
     Answer("template", Lists @@ "9F02" :> {0, 1} @@ "95" :> {"new_card"}),
     Answer("template", ("82" :> {"cda", "altered"}) @@ Lists @@ Chain @@ Static)}
AcStatus ==
    {Lost, Empty, Refusal(NoTags), Answer("template", "95" :> {"new_card"}),
     Answer("template", "8C" :> {"9F34"} @@ "9F26" :> {})}
AcDda ==
    {Lost, Empty, Refusal(NoTags), Answer("other", NoTags),
     Answer("format1", Sdad({})), Answer("template", Sdad({"wrong signature"})),
     Answer("template", Sdad({}) @@ "95" :> {} @@ "9F34" :> {"NoCvm", "failed"})}
AcAnswers ==
    {Lost, Empty, Refusal(Cid("TC")), Answer("other", Cid("TC")),
     Answer("format1", Cid("RFU")), Answer("template", NoTags),
     Answer("template", Cid("TC"))}
    \cup {Answer("format1", Counted(c)) : c \in CryptogramType}
    \cup {Answer("template", Counted(c) @@ Sdad({c})) : c \in CryptogramType}
    \cup {Answer("template", Counted("TC") @@ Sdad(s)) :
             s \in {{"ARQC"}, {"TC", "wrong hash"}, {"TC", "wrong signature"}}}
    \cup {Answer("template", Counted(c) @@ Sdad({c}) @@ t) : c \in {"ARQC", "TC"},
             t \in {"95" :> {}, "8C" :> {"unparsable"}, "9F38" :> {"9F33"}}}
=============================================================================
