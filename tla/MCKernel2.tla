------------------------------ MODULE MCKernel2 ------------------------------
(* Instances of the contactless kernel for TLC.  Each suffix is one question: *)
(* Flow (every error path, and a second transaction on the connection), Taa   *)
(* (the decision) and Cda (card authentication).                              *)
EXTENDS Kernel2Claims, TLC

Answer(body, t) == [ok |-> TRUE, body |-> body, tags |-> t]
Refusal(t) == [ok |-> FALSE, body |-> "template", tags |-> t]
Lost == [ok |-> FALSE, body |-> "lost", tags |-> NoTags]
Empty == [ok |-> TRUE, body |-> "none", tags |-> NoTags]

Aip(bits) == "82" :> (bits \cup {"byte2"})
ChipAip == Aip({"emv mode", "cda"})
AflTag == "94" :> {}
Cid(type) == "9F27" :> {type}
Sdad(facts) == "9F4B" :> facts
Cdol(dol) == "8C" :> dol
CardHolder == "5A" :> {"digits"} @@ "57" :> {"track"}

(* A key chain without defects. *)
Chain == "8F" :> {"index"} @@ "90" :> {} @@ "9F32" :> {} @@ "9F46" :> {}
         @@ "9F47" :> {}

Ttq == "9F66" :> {"online_pin_supported", "signature_supported", "byte2"}

Config(denial, online, default, force) ==
    [tac_denial |-> denial, tac_online |-> online, tac_default |-> default,
     floor_limit |-> 2, contactless_transaction_limit |-> 3,
     contactless_transaction_limit_cdcvm |-> 5, cvm_required_limit |-> 1,
     force_online |-> force, version |-> {}]

(* One record, two of which one is authenticated, and two entries.            *)
OneRecord == <<[records |-> 1, oda |-> 1]>>
TwoEntries == <<[records |-> 2, oda |-> 1], [records |-> 1, oda |-> 1]>>
EmptyEntry == <<[records |-> 0, oda |-> 1], [records |-> 1, oda |-> 0]>>

----------------------------------------------------------------------------
(* Flow: each shape of each answer once; a card with a key chain, so that the *)
(* next transaction finds its ICC key.                                        *)
FlowConfigs == {[Config({}, {}, {}, FALSE) EXCEPT !.version = {"v2"}]}
FlowAmounts == {0, 3, 4}
FlowSelect == {Ttq, NoTags, "9F66" :> {"signature_supported"} @@ "9F38" :> {"95"}}
              \cup {"9F38" :> {d} : d \in {"unparsable", "too long"}}
FlowAfls == {<<>>, OneRecord, EmptyEntry}
FlowGpo ==
    {Lost, Empty, Refusal(ChipAip @@ AflTag), Answer("short", NoTags),
     Answer("other", ChipAip), Answer("format1", ChipAip @@ AflTag),
     Answer("template", ChipAip @@ AflTag), Answer("template", ChipAip),
     Answer("template", ChipAip @@ "94" :> {"unaligned"}),
     Answer("template", Aip({"sda"}) @@ AflTag),
     Answer("template", "82" :> {"dda"} @@ AflTag),
     Answer("template", "82" :> {"empty"} @@ AflTag),
     Answer("template", AflTag), Answer("template", Cid("RFU") @@ ChipAip),
     Answer("template", ChipAip @@ Cdol({"95"})),
     Answer("template", ChipAip @@ "9F26" :> {}),
     Answer("template", ChipAip @@ AflTag @@ "9F26" :> {} @@ Cid("AAC"))}
    \cup {Answer("template", ChipAip @@ "9F26" :> {} @@ Cid(c)) :
             c \in CryptogramType}
Good == CardHolder @@ Cdol({"95", "9F34"}) @@ Chain
FlowRecords ==
    {Answer("template", Good), Lost, Empty, Refusal(CardHolder @@ Cdol({"95"})),
     Answer("template", CardHolder @@ Cdol({"95", "9F34"})),
     Answer("template", CardHolder @@ Cdol({"too long"})),
     Answer("template", Cdol({"unparsable"}) @@ Cid("RFU")),
     Answer("template", Cdol({"unparsable"})), Answer("other", CardHolder),
     Answer("template", Good @@ "9F02" :> {4})}
FlowAc ==
    {Lost, Empty, Refusal(Cid("TC")), Answer("short", Cid("TC")),
     Answer("other", Cid("TC")), Answer("format1", Cid("RFU")),
     Answer("template", Cid("RFU")), Answer("template", NoTags)}
    \cup {Answer(b, Cid(c)) : b \in {"format1", "template"}, c \in CryptogramType}
    \cup {Answer("template", Cid(c) @@ Sdad({c})) : c \in CryptogramType}
    \cup {Answer("template", Cid("TC") @@ Sdad({"TC"}) @@ "95" :> {"new_card"}
                              @@ "9F34" :> {"failed"})}

----------------------------------------------------------------------------
(* Taa: card data that raises TVR bits, action codes that meet them and do    *)
(* not, issuer codes present and absent, amounts at and around the limits;    *)
(* cards that replace the amount, the TVR, the CVM results or an action code. *)
Expired == {"expired_application"}
Young == {"application_not_yet_effective"}
Missing == {"icc_data_missing"}
TaaConfigs ==
    {Config({}, {}, {}, FALSE), Config(Expired, {}, {}, FALSE),
     Config(Expired, {}, {}, TRUE), Config({}, Missing, {}, FALSE),
     Config(Missing, Expired, Young, FALSE),
     [Config({}, {}, Missing, FALSE) EXCEPT !.floor_limit = 3]}
TaaAmounts == 1 .. 3
TaaSelect == {Ttq @@ "9F09" :> {"v2"}, "9F66" :> {"signature_supported"}}
TaaAfls == {OneRecord}
TaaGpo == {Answer("template", a @@ AflTag) : a \in {ChipAip, Aip({"emv mode"})}}
TaaFlaws ==
    {CardHolder, "57" :> {"track"}, "5A" :> {} @@ "57" :> {"track"},
     CardHolder @@ "5F24" :> {"expired"}, CardHolder @@ "9F08" :> {"v1"},
     CardHolder @@ "5F24" :> {} @@ "5F25" :> {"future"},
     CardHolder @@ "5F24" :> {"unreadable"} @@ "5F25" :> {"future"}}
TaaIssuerCodes ==
    {NoTags, "9F0F" :> {} @@ "9F0D" :> {}, "9F0F" :> {} @@ "9F0D" :> Young,
     "9F0E" :> Expired @@ "9F0F" :> {} @@ "9F0D" :> {}}
TaaCtq == {NoTags, "9F6C" :> {"cdcvm_performed", "signature_required"},
           "9F6C" :> {"online_pin_required"}, "9F6C" :> {"signature_required"}}
TaaRecords == {Answer("template", Cdol({"95", "9F34"}) @@ f @@ i @@ q) :
                  f \in TaaFlaws, i \in TaaIssuerCodes, q \in TaaCtq}
    \cup {Answer("template", Cdol({"95", "9F34"}) @@ CardHolder @@ "9F02" :> n) :
             n \in {{1}, {3}, {1, 3}}}
TaaAc == {Answer("template", Cid(c) @@ s) :
             c \in CryptogramType,
             s \in {NoTags, Sdad({"TC"}), "95" :> Young @@ "9F34" :> {"failed"},
                    "9F02" :> {3}, "9F0D" :> Missing, "9F6C" :> {"cdcvm_performed"}}}

----------------------------------------------------------------------------
(* Cda: each defect of the key chain and of the signature, records that       *)
(* cannot be read, AFLs with several entries, lists that the answer to        *)
(* GENERATE AC replaces by others and by some that cannot be read.            *)
CdaConfigs == {[Config({}, {}, {}, FALSE) EXCEPT !.floor_limit = 3]}
CdaAmounts == {1}
CdaSelect == {NoTags, "9F38" :> {"95", "9F33"}, "9F38" :> {"9F33"}}
CdaAfls == {OneRecord, TwoEntries, EmptyEntry}
CdaGpo == {Answer("template", ChipAip @@ AflTag)}
PinChain == "9F2D" :> {} @@ "9F2E" :> {}
CdaRecords ==
    {Refusal(NoTags), Answer("template", NoTags), Answer("template", Good),
     Answer("template", Good @@ PinChain),
     Answer("template", CardHolder @@ Cdol({"95"}))}
    \cup {Answer("template", ("90" :> {d}) @@ Good) :
             d \in {"unreadable", "wrong type", "wrong hash", "other card"}}
    \cup {Answer("template", ("9F46" :> {d}) @@ Good) :
             d \in {"unreadable", "wrong type", "wrong hash", "other card"}}
    \cup {Answer("template", ("9F2D" :> {"other card"} @@ "9F2E" :> {}) @@ Good),
          Answer("template", Good @@ Cid("TC") @@ Sdad({"TC", "wrong signature"}))}
    \cup {Answer("template", Good @@ "9F4A" :> {"82"}),
          Answer("template", ("82" :> {"altered"}) @@ Good @@ "9F4A" :> {"82"}),
          Answer("template", Good @@ "9F4A" :> {"unparsable"})}
CdaAc ==
    {Answer("format1", Cid("TC")), Answer("template", Cid("ARQC")),
     Answer("template", NoTags),
     Answer("template", Cid("ARQC") @@ Sdad({"ARQC"})),
     Answer("template", Cid("AAC") @@ Sdad({"AAC"}))}
    \cup {Answer("template", Cid("TC") @@ Sdad(s)) :
             s \in {{"TC"}, {"ARQC"}, {"TC", "wrong hash"}, {"TC", "unreadable"},
                    {"TC", "wrong signature"}}}
    \cup {Answer("template", Cid("TC") @@ Sdad({"TC"}) @@ l) :
             l \in {"8C" :> {"unparsable"}, "8C" :> {"95", "9F33"},
                    "9F38" :> {"too long"}, "95" :> {"new_card"}}}

----------------------------------------------------------------------------
(* A record with a cryptogram information data of its own.                    *)
StaleRecords == {Answer("template", Good @@ Cid("ARQC"))}
StaleAc == CdaAc \cup {Answer("template", "9F26" :> {})}
=============================================================================
