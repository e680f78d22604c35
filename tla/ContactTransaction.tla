-------------------------- MODULE ContactTransaction --------------------------
(* A contact transaction of emvpt: the calls of EmvConnection (lib.rs) in the *)
(* order of their two callers.  The terminal simulator (main.rs) unwraps what *)
(* every call returns and leaves out offline data authentication and issuer   *)
(* authentication; the library's purchase transaction makes all the calls and *)
(* hands an Err on.                                                           *)
(*                                                                          *)
(* As in Kernel2, one action is one exchange with the card and all that       *)
(* follows from its answer.                                                   *)
EXTENDS CardholderVerification, CardAuthentication, CardExchange

CONSTANTS
    Callers,          \* subset of {"simulator", "library"}
    Amounts,          \* the amounts the user enters
    AmountLimit,      \* 2^32 in the code: what parse::<u32> does not take
    SelectTags,       \* tag stores after SELECT and process_settings
    SettingsTvr,      \* settings.terminal.tvr before the first transaction
    Afls,             \* AFLs of the cards
    CvmLists,         \* their cardholder verification rules (tag 8E)
    GpoResponses, RecordResponses, DdaResponses, AcResponses,
    StatusResponses,  \* to VERIFY, GET CHALLENGE and EXTERNAL AUTHENTICATE
    Contactless,      \* the card is read without contact
    TerminalMethods,  \* settings.terminal.capabilities: "sda", "dda", "cda"
    CryptogramAsked,      \* settings.terminal.cryptogram_type
    CryptogramAskedArqc,  \* settings.terminal.cryptogram_type_arqc
    MaxTransactions   \* bound on the transactions of one connection

ASSUME ContactAssumption ==
    /\ Callers \subseteq {"simulator", "library"}
    /\ Amounts \subseteq Nat /\ AmountLimit \in Nat
    /\ SettingsTvr \subseteq TvrBit /\ MaxTransactions \in Nat \ {0}
    /\ Afls \subseteq Seq(AflEntry) /\ CvmLists \subseteq Seq(CvmRule)
    /\ Contactless \in BOOLEAN /\ TerminalMethods \subseteq {"sda", "dda", "cda"}
    /\ {CryptogramAsked, CryptogramAskedArqc} \subseteq CryptogramType
    /\ \A s \in SelectTags : TagStore(s) /\ ~ParsePanics(s)
    /\ \A r \in GpoResponses \cup RecordResponses \cup DdaResponses \cup AcResponses
                \cup StatusResponses : Response(r)
    /\ \A r \in GpoResponses :
          r.body = "format1" => DOMAIN r.tags \subseteq {TAG_AIP, TAG_AFL}
    /\ \A r \in DdaResponses :
          r.body = "format1"
              => DOMAIN r.tags \subseteq {TAG_SIGNED_DYNAMIC_APPLICATION_DATA}
    /\ \A r \in AcResponses :
          r.body = "format1"
              => DOMAIN r.tags \subseteq {TAG_CRYPTOGRAM_INFO_DATA, "9F36", "9F10",
                                         TAG_APPLICATION_CRYPTOGRAM}

VARIABLES
    phase,       \* the call the caller is at
    caller, txn, amount, afl, cvmList,
    tags,        \* EmvConnection.tags
    given,       \* those of OwnTags whose value is not the terminal's
    tvr,         \* settings.terminal.tvr
    tsi,         \* settings.terminal.tsi
    icc,         \* EmvConnection.icc: capabilities, keys, static data
    issuerAuth,  \* icc.capabilities.issuer_authentication
    cvmRules,    \* icc.cvm_rules
    data,        \* data_authentication of handle_get_processing_options
    cursor,      \* the READ RECORD loop: entry, record, records left
    readFailed,  \* some READ RECORD was skipped
    purchase_amount, \* what the loop over the CVM rules compares
    rule,        \* the CVM rule the loop is at
    verified,    \* the card accepted the VERIFY of the last PIN rule
    analysis,    \* the action analysis' decision, which is only logged
    card,        \* the cryptogram type of the last GENERATE AC
    cdol_list,   \* the CDOL parsed before GET CHALLENGE; {} before and after
    sent,        \* the PDOL and CDOL data the card was sent
    result       \* "none", "successful", "error" or "panic"

setup == <<caller, txn, amount, afl, cvmList>>
contents == <<tags, given>>
files == <<data, cursor, readFailed>>
capabilities == <<issuerAuth, cvmRules>>
verification == <<purchase_amount, rule, verified>>
decision == <<analysis, card, cdol_list, sent>>
vars == <<phase, setup, contents, tvr, tsi, icc, capabilities, files, verification,
          decision, result>>

Goto(next) == phase' = next /\ UNCHANGED result
End(res) == phase' = "done" /\ result' = res

(* An Err: the simulator unwraps it, the library's caller gets it.            *)
Err == End(IF caller = "simulator" THEN "panic" ELSE "error")
Panic == End("panic")

NothingSent == [t \in {"9F38", "8C", "8D"} |-> NoTags]

(* A DOL, and the failures of process_data_object_list and of cutting a value *)
(* to its length, both of which end the process.                              *)
DolPanics(t) == ListDefects \cap ValueOf(tags, t) # {}

(* The TVR and the CVM results are the terminal's own data, but any answer    *)
(* that holds such a tag replaces what is stored (process_tlv).  The variable *)
(* given is no state of the code: it remembers where those values are from.   *)
OwnTags == {"95", "9F34"}
Own(new) == OwnTags \cap DOMAIN new

----------------------------------------------------------------------------
(* The terminal selects an application: SELECT clears the tags only.  The     *)
(* simulator sets the amount now, the library's caller later.                 *)
Prepared(s, n) ==
    IF caller = "simulator" THEN add_tag(s, TAG_AMOUNT_AUTHORISED, AmountValue(n))
    ELSE s

Selected(t) ==
    /\ amount' \in Amounts /\ afl' \in Afls /\ cvmList' \in CvmLists
    /\ \E s \in SelectTags : tags' = Prepared(s, amount') /\ given' = Own(s)
    /\ txn' = t
    /\ data' = <<>> /\ cursor' = <<1, 1, 0>> /\ readFailed' = FALSE
    /\ purchase_amount' = 0 /\ rule' = 1 /\ verified' = FALSE
    /\ analysis' = "none" /\ card' = "none"
    /\ cdol_list' = {} /\ sent' = NothingSent

Init ==
    /\ phase = "gpo" /\ result = "none"
    /\ caller \in Callers /\ txn = 1
    /\ amount \in Amounts /\ afl \in Afls /\ cvmList \in CvmLists
    /\ \E s \in SelectTags : tags = Prepared(s, amount) /\ given = Own(s)
    /\ tvr = SettingsTvr /\ tsi = {} /\ icc = NewIcc
    /\ issuerAuth = FALSE /\ cvmRules = <<>>
    /\ data = <<>> /\ cursor = <<1, 1, 0>> /\ readFailed = FALSE
    /\ purchase_amount = 0 /\ rule = 1 /\ verified = FALSE
    /\ analysis = "none" /\ card = "none"
    /\ cdol_list = {} /\ sent = NothingSent

(* TVR, TSI and the ICC data stay.  The simulator makes one transaction.      *)
NextTransaction ==
    /\ phase = "done" /\ result # "panic" /\ caller = "library"
    /\ txn < MaxTransactions
    /\ phase' = "gpo" /\ result' = "none"
    /\ Selected(txn + 1)
    /\ UNCHANGED <<caller, tvr, tsi, icc, capabilities>>

----------------------------------------------------------------------------
(* handle_get_processing_options: the command and its answer, ... *)

PdolFails ==
    /\ phase = "gpo" /\ DolPanics("9F38") /\ Panic
    /\ UNCHANGED <<setup, contents, tvr, tsi, icc, capabilities, files, verification,
                   decision>>

GetProcessingOptions(r) ==
    LET store == Merge(Merge(tags, Parsed(r)), Extracted(r))
    IN  /\ phase = "gpo" /\ ~DolPanics("9F38")
        /\ sent' = [sent EXCEPT !["9F38"] =
                       get_tag_list_tag_values(tags, ValueOf(tags, "9F38"))]
        /\ \/ Crashes(r) /\ Panic /\ UNCHANGED <<contents, cursor>>
           \/ /\ ~Crashes(r)
              /\ tags' = store /\ given' = given \cup Own(Parsed(r))
              /\ IF ~r.ok THEN Err /\ UNCHANGED cursor
                 ELSE IF r.body \in {"none", "short"} THEN Panic /\ UNCHANGED cursor
                 ELSE IF r.body = "other" THEN Err /\ UNCHANGED cursor
                 ELSE IF ~Holds(store, TAG_AFL) \/ "unaligned" \in ValueOf(store, TAG_AFL)
                 THEN Panic /\ UNCHANGED cursor
                 ELSE /\ Goto("readRecord")
                      /\ cursor' = <<1, 1, IF afl = <<>> THEN 0 ELSE afl[1].oda>>
        /\ UNCHANGED <<setup, tvr, tsi, icc, capabilities, data, readFailed,
                       verification, analysis, card, cdol_list>>

Entry == cursor[1]
Record == cursor[2]
OdaLeft == cursor[3]

(* Mutant: the record after the last one is read as well. *)
ReadRecordPastEnd(r) ==
    /\ phase = "readRecord"
    /\ Entry <= Len(afl) /\ Record <= afl[Entry].records + 1
    /\ ~Crashes(r) /\ r.ok /\ r.body = "template"
    /\ tags' = Merge(tags, Parsed(r)) /\ given' = given \cup Own(Parsed(r))
    /\ data' = IF OdaLeft > 0 THEN Append(data, <<Entry, Record>>) ELSE data
    /\ cursor' = <<Entry, Record + 1, OdaLeft>>
    /\ UNCHANGED <<phase, result, readFailed>>
    /\ UNCHANGED <<setup, tvr, tsi, icc, capabilities, verification, decision>>

(* ... one READ RECORD, which is skipped without a success or without data,   *)
(* and asserted to be a record template otherwise, ...                        *)
ReadRecord(r) ==
    LET read == r.ok /\ r.body # "none"
        authenticated == read /\ OdaLeft > 0
    IN  /\ phase = "readRecord"
        /\ Entry <= Len(afl) /\ Record <= afl[Entry].records
        /\ IF Crashes(r) \/ (read /\ r.body # "template")
           THEN Panic /\ UNCHANGED <<contents, data, cursor, readFailed>>
           ELSE /\ tags' = Merge(tags, Parsed(r)) /\ given' = given \cup Own(Parsed(r))
                /\ data' = IF authenticated THEN Append(data, <<Entry, Record>>)
                                            ELSE data
                /\ cursor' = <<Entry, Record + 1,
                               IF authenticated THEN OdaLeft - 1 ELSE OdaLeft>>
                /\ readFailed' = (readFailed \/ ~read)
                /\ UNCHANGED <<phase, result>>
        /\ UNCHANGED <<setup, tvr, tsi, icc, capabilities, verification, decision>>

(* The AIP, whose first byte lists what the card can do, and its CVM list,    *)
(* whose rules follow those that are already there.                           *)
Capabilities ==
    LET aip == ValueOf(tags, TAG_AIP)
        listed == "cvm" \in aip
    IN  IF \/ ~Holds(tags, TAG_AIP) \/ "empty" \in aip
           \/ listed /\ (~Holds(tags, "8E") \/ "malformed" \in tags["8E"])
        THEN Panic /\ UNCHANGED <<icc, capabilities>>
        ELSE /\ Goto("keys")
             /\ icc' = [icc EXCEPT !.sda = "sda" \in aip, !.dda = "dda" \in aip,
                                   !.cda = "cda" \in aip,
                                   !.data_authentication = data]
             /\ issuerAuth' = ("issuer authentication" \in aip)
             /\ cvmRules' = IF listed THEN cvmRules \o cvmList ELSE cvmRules

(* ... the next AFL entry, or the capabilities after the last one.            *)
NextEntry ==
    /\ phase = "readRecord"
    /\ Entry <= Len(afl) => Record > afl[Entry].records
    /\ IF Entry < Len(afl)
       THEN /\ cursor' = <<Entry + 1, 1, afl[Entry + 1].oda>>
            /\ UNCHANGED <<phase, result, icc, capabilities>>
       ELSE Capabilities /\ UNCHANGED cursor
    /\ UNCHANGED <<setup, contents, tvr, tsi, data, readFailed, verification, decision>>

(* handle_public_keys, whose Err both callers unwrap; the amount tag, which   *)
(* the library's caller sets now; and the amount that                         *)
(* handle_card_verification_methods takes from the tag: the simulator's may   *)
(* have been replaced by the card, also by what is no number of 32 bits.      *)
PublicKeys ==
    LET signed == AreSigned(icc.data_authentication, afl)
        keys == handle_public_keys(tags, icc, txn, signed)
        store == IF caller = "library"
                 THEN add_tag(tags, TAG_AMOUNT_AUTHORISED, AmountValue(amount))
                 ELSE tags
        value == ValueOf(store, TAG_AMOUNT_AUTHORISED)
        parsed == value = {} \/ (IsNumber(value) /\ get_amount(store) < AmountLimit)
    IN  /\ phase = "keys"
        /\ icc' = keys.icc
        /\ IF keys.res = "ok" /\ parsed
           THEN Goto("cvm") /\ tags' = store /\ purchase_amount' = get_amount(store)
           ELSE Panic /\ UNCHANGED <<tags, purchase_amount>>
        /\ UNCHANGED <<setup, given, tvr, tsi, capabilities, files, rule, verified,
                       decision>>

----------------------------------------------------------------------------
(* handle_card_verification_methods: the loop over the rules, ... *)

NotSuccessful == "cardholder_verification_was_not_successful"

(* Mutant: a success after a failed rule leaves the TVR bit set. *)
ConcludeKeepsBit(new, r, success) ==
    /\ tags' = add_tag(Merge(tags, new), "9F34", into_9f34_value(r, success))
    /\ given' = (given \cup Own(new)) \ {"9F34"}
    /\ tvr' = IF success THEN tvr ELSE tvr \cup {NotSuccessful}
    /\ rule' = IF ~success /\ r.condition = "CvmSupported"
               THEN rule + 1 ELSE Len(cvmRules) + 1

(* Mutant: a failed rule is tried again. *)
ConcludeRetries(new, r, success) ==
    /\ tags' = add_tag(Merge(tags, new), "9F34", into_9f34_value(r, success))
    /\ given' = (given \cup Own(new)) \ {"9F34"}
    /\ tvr' = IF success THEN tvr \ {NotSuccessful} ELSE tvr \cup {NotSuccessful}
    /\ rule' = IF ~success /\ r.condition = "CvmSupported"
               THEN rule ELSE Len(cvmRules) + 1

(* The result of a rule, after answers with the tags new; after a failure the *)
(* loop goes on only if the rule's condition is that the terminal supports it.*)
Conclude(new, r, success) ==
    /\ tags' = add_tag(Merge(tags, new), "9F34", into_9f34_value(r, success))
    /\ given' = (given \cup Own(new)) \ {"9F34"}
    /\ tvr' = IF success THEN tvr \ {NotSuccessful} ELSE tvr \cup {NotSuccessful}
    /\ rule' = IF ~success /\ r.condition = "CvmSupported"
               THEN rule + 1 ELSE Len(cvmRules) + 1

AtRule == phase = "cvm" /\ rule <= Len(cvmRules)

Applicable == AtRule /\ ~Skipped(cvmRules[rule], purchase_amount)

PassRule ==
    /\ AtRule
    /\ \/ Skipped(cvmRules[rule], purchase_amount)
       \/ PassedOver(cvmRules[rule], MethodFor(cvmRules[rule]))
          /\ cvmRules[rule].code \notin PinCodes
    /\ rule' = rule + 1
    /\ UNCHANGED <<phase, result, setup, contents, tvr, tsi, icc, capabilities, files,
                   purchase_amount, verified, decision>>

(* ... a rule without a PIN, ...                                              *)
RuleWithoutPin ==
    LET r == cvmRules[rule]
    IN  /\ Applicable /\ r.code \notin PinCodes
        /\ ~PassedOver(r, MethodFor(r))
        /\ Conclude(NoTags, r, MethodFor(r) = "nothing to do")
        /\ UNCHANGED <<phase, result, setup, tsi, icc, capabilities, files,
                       purchase_amount, verified, decision>>

(* ... a rule with a PIN, which the cardholder is asked for before the        *)
(* terminal looks at what it supports: there is none, or it cannot be sent    *)
(* (its digits or the encipherment fail), ...                                 *)
PinIsSent(method) == method \in {"plaintext PIN", "enciphered PIN"}

AtPinRule == Applicable /\ cvmRules[rule].code \in PinCodes

NoPin ==
    /\ AtPinRule
    /\ Err \/ (PinIsSent(MethodFor(cvmRules[rule])) /\ Panic)
    /\ UNCHANGED <<setup, contents, tvr, tsi, icc, capabilities, files, verification,
                   decision>>

(* ... it is sent and verified, an enciphered one after a GET CHALLENGE, ...  *)
VerifyPin(challenge, r) ==
    LET asked == cvmRules[rule]
        enciphered == MethodFor(asked) = "enciphered PIN"
        new == IF enciphered THEN Merge(Parsed(challenge), Parsed(r)) ELSE Parsed(r)
        fails == \/ Crashes(r)
                 \/ enciphered /\ (Crashes(challenge) \/ ~challenge.ok \/ icc.icc_pin_pk = 0)
    IN  /\ AtPinRule /\ PinIsSent(MethodFor(asked))
        /\ IF fails
           THEN Panic /\ UNCHANGED <<contents, tvr, rule, verified>>
           ELSE /\ Conclude(new, asked, r.ok) /\ verified' = r.ok
                /\ UNCHANGED <<phase, result>>
        /\ UNCHANGED <<setup, tsi, icc, capabilities, files, purchase_amount, decision>>

(* Mutant: a PIN the terminal cannot have verified counts. *)
UnsentPinCounts ==
    /\ AtPinRule /\ ~PinIsSent(MethodFor(cvmRules[rule]))
    /\ verified' = FALSE
    /\ Conclude(NoTags, cvmRules[rule], TRUE)
    /\ UNCHANGED <<phase, result, setup, tsi, icc, capabilities, files,
                   purchase_amount, decision>>

(* ... or it is not used, for the terminal can verify none.                   *)
UnsentPin ==
    LET r == cvmRules[rule]
    IN  /\ AtPinRule /\ ~PinIsSent(MethodFor(r))
        /\ verified' = FALSE
        /\ IF PassedOver(r, MethodFor(r))
           THEN rule' = rule + 1 /\ UNCHANGED <<contents, tvr>>
           ELSE Conclude(NoTags, r, FALSE)
        /\ UNCHANGED <<phase, result, setup, tsi, icc, capabilities, files,
                       purchase_amount, decision>>

(* ... and the end of the loop: without a value of tag 9F34, be it the        *)
(* card's, the CVM has not been performed.                                    *)
EndOfRules ==
    /\ phase = "cvm" /\ rule > Len(cvmRules)
    /\ tsi' = tsi \cup {"cardholder_verification_was_performed"}
    /\ UNCHANGED given
    /\ IF Holds(tags, "9F34") THEN UNCHANGED <<tags, tvr>>
       ELSE /\ tags' = add_tag(tags, "9F34", NoCvmPerformed)
            /\ tvr' = tvr \cup {NotSuccessful}
    /\ Goto(IF caller = "library" THEN "oda" ELSE "taa")
    /\ UNCHANGED <<setup, icc, capabilities, files, verification, decision>>

----------------------------------------------------------------------------
(* handle_offline_data_authentication: nothing before a CDA, DDA, or SDA. *)

CdaAgreed == icc.cda /\ "cda" \in TerminalMethods
DdaAgreed == ~CdaAgreed /\ icc.dda /\ "dda" \in TerminalMethods
SdaAgreed == ~CdaAgreed /\ ~DdaAgreed /\ icc.sda /\ "sda" \in TerminalMethods

(* The TVR bit of a method that ended in res; "panic" ends the process.       *)
Authenticated(res, bit) ==
    IF res = "panic" THEN Panic /\ UNCHANGED <<tvr, tsi>>
    ELSE /\ Goto("taa")
         /\ tvr' = IF res = "err" THEN tvr \cup {bit} ELSE tvr
         /\ tsi' = tsi \cup {"offline_data_authentication_was_performed"}

StaticOrNone ==
    /\ phase = "oda" /\ ~DdaAgreed
    /\ Authenticated(IF SdaAgreed
                     THEN handle_signed_static_application_data(tags, icc, txn)
                     ELSE "ok", "sda_failed")
    /\ UNCHANGED <<setup, contents, icc, capabilities, files, verification, decision>>

(* fDDA: the signature came with the answer to GET PROCESSING OPTIONS.        *)
FastDda ==
    LET accepted == Contactless /\ "unknown version" \notin tags["9F69"]
        res == IF accepted THEN DynamicSignature(tags, icc, txn) ELSE "err"
    IN  /\ phase = "oda" /\ DdaAgreed /\ Holds(tags, "9F69")
        /\ Authenticated(res, "dda_failed")
        /\ tags' = IF res = "ok" THEN add_tag(tags, "9F4C", {"from 9F4B"}) ELSE tags
        /\ UNCHANGED <<setup, given, icc, capabilities, files, verification, decision>>

(* DDA: INTERNAL AUTHENTICATE with the DDOL's data, and its answer.           *)
Dda(r) ==
    LET store == Merge(Merge(tags, Parsed(r)), Extracted(r))
        res == CASE Crashes(r) -> "panic"
                 [] ~Crashes(r) /\ (~r.ok \/ r.body = "other") -> "err"
                 [] ~Crashes(r) /\ r.ok /\ r.body \in {"none", "short"} -> "panic"
                 [] ~Crashes(r) /\ r.ok /\ r.body \in {"format1", "template"}
                    -> DynamicSignature(store, icc, txn)
    IN  /\ phase = "oda" /\ DdaAgreed /\ ~Holds(tags, "9F69")
        /\ ~DolPanics("9F49")
        /\ Authenticated(res, "dda_failed")
        /\ tags' = IF res = "ok" THEN add_tag(store, "9F4C", {"from 9F4B"})
                   ELSE IF Crashes(r) THEN tags ELSE store
        /\ given' = IF Crashes(r) THEN given ELSE given \cup Own(Parsed(r))
        /\ UNCHANGED <<setup, icc, capabilities, files, verification, decision>>

DdolFails ==
    /\ phase = "oda" /\ DdaAgreed /\ ~Holds(tags, "9F69") /\ DolPanics("9F49")
    /\ Panic
    /\ UNCHANGED <<setup, contents, tvr, tsi, icc, capabilities, files, verification,
                   decision>>

----------------------------------------------------------------------------
(* handle_terminal_action_analysis (handle_terminal_risk_management before it *)
(* does nothing).  The default of an issuer action code is five bytes 01 in   *)
(* place of all ones: no TVR bit the struct has is among their bits.          *)
ActionCode(t) == ValueOf(tags, t)

(* The terminal's own action codes are zeros.                                 *)
Matches(t) == action_code_matches(tvr, ActionCode(t), {})

Analysis ==
    CASE Matches("9F0E") -> "AAC"
      [] ~Matches("9F0E") /\ Matches("9F0F") -> "ARQC"
      [] ~Matches("9F0E") /\ ~Matches("9F0F") /\ Matches("9F0D") -> "AAC by default"
      [] OTHER -> "TC"

(* Mutant: tag 95 keeps the TVR it was first written with. *)
ActionAnalysisStale ==
    /\ phase = "taa"
    /\ tags' = IF Holds(tags, "95") THEN tags ELSE add_tag(tags, "95", {})
    /\ given' = given \ {"95"}
    /\ Goto("gac1") /\ analysis' = Analysis
    /\ UNCHANGED <<setup, tvr, tsi, icc, capabilities, files, verification, card,
                   cdol_list, sent>>

ActionAnalysis ==
    /\ phase = "taa"
    /\ tags' = add_tag(tags, "95", tvr) /\ given' = given \ {"95"}
    /\ IF \E t \in {"9F0D", "9F0E", "9F0F"} : "too short" \in ActionCode(t)
       THEN Panic /\ UNCHANGED analysis
       ELSE Goto("gac1") /\ analysis' = Analysis
    /\ UNCHANGED <<setup, tvr, tsi, icc, capabilities, files, verification, card,
                   cdol_list, sent>>

----------------------------------------------------------------------------
(* GENERATE AC, the first (gac1) and the second (gac2). *)

Cdol == IF phase = "gac1" THEN "8C" ELSE "8D"
Asked == IF phase = "gac1" THEN CryptogramAsked ELSE CryptogramAskedArqc

AtGenerateAc == phase = "gac1" \/ phase = "gac2"

(* The cryptogram is there already: a contactless card gave it with the       *)
(* processing options.                                                        *)
AlreadyGiven ==
    /\ phase = "gac1" /\ Contactless /\ Holds(tags, TAG_APPLICATION_CRYPTOGRAM)
    /\ cdol_list = {}

NeedsChallenge ==
    cdol_list = {} /\ "9F4C" \in ValueOf(tags, Cdol) /\ ~Holds(tags, "9F4C")

CdolUsable == cdol_list # {} \/ (Holds(tags, Cdol) /\ ~DolPanics(Cdol))

CdolFails ==
    /\ AtGenerateAc /\ ~AlreadyGiven /\ ~CdolUsable /\ Panic
    /\ UNCHANGED <<setup, contents, tvr, tsi, icc, capabilities, files, verification,
                   decision>>

(* GET CHALLENGE for a CDOL that asks for 9F4C.  The list is parsed before    *)
(* it; a challenge that is shorter than the list asks for panics.             *)
GetChallenge(r) ==
    /\ AtGenerateAc /\ ~AlreadyGiven /\ CdolUsable /\ NeedsChallenge
    /\ \/ Panic /\ UNCHANGED <<contents, cdol_list>>
       \/ /\ ~Crashes(r) /\ r.ok
          /\ tags' = add_tag(Merge(tags, Parsed(r)), "9F4C", {"challenge"})
          /\ given' = given \cup Own(Parsed(r))
          /\ cdol_list' = tags[Cdol]
          /\ UNCHANGED <<phase, result>>
    /\ UNCHANGED <<setup, tvr, tsi, icc, capabilities, files, verification, analysis,
                   card, sent>>

(* validate_ac: the card's cryptogram type, "err" or "panic".                 *)
validate_ac(store) ==
    IF Asked = "AAC" THEN "err"
    ELSE IF ~Holds(store, TAG_CRYPTOGRAM_INFO_DATA) THEN "panic"
    ELSE IF CryptogramOf(store) = "AAC" THEN "err"
    ELSE IF ~Holds(store, "9F36") THEN "panic"
    ELSE CryptogramOf(store)

(* The data of the PDOL and the CDOLs that CDA rebuilds from the tags of now  *)
(* are those the card was sent.                                               *)
SameData(store, lists, sentData) ==
    \A t \in lists : sentData[t] = get_tag_list_tag_values(store, ValueOf(store, t))

SentLists == IF phase = "gac1" THEN {"9F38", "8C"} ELSE {"9F38", "8C", "8D"}

(* CDA of a TC or an ARQC.                                                    *)
CdaResult(r, store, sentData) ==
    IF CryptogramOf(store) = "AAC" THEN "ok"
    ELSE handle_application_cryptogram_card_authentication(
             store, icc, txn, SentLists,
             r.body = "template" /\ Holds(r.tags, TAG_SIGNED_DYNAMIC_APPLICATION_DATA),
             SameData(store, SentLists, sentData))

(* send_generate_ac: a cryptogram type, "err" or "panic".                     *)
AcResult(r, store, sentData) ==
    IF Crashes(r) THEN "panic"
    ELSE IF ~r.ok THEN "err"
    ELSE IF r.body \in {"none", "short"} \/ ParsePanics(Extracted(r)) THEN "panic"
    ELSE IF r.body = "other" THEN "err"
    ELSE IF CdaAgreed /\ ~Holds(store, TAG_CRYPTOGRAM_INFO_DATA) THEN "panic"
    ELSE IF CdaAgreed /\ CdaResult(r, store, sentData) # "ok"
    THEN CdaResult(r, store, sentData)
    ELSE validate_ac(store)

(* What the caller makes of a cryptogram: an ARQC goes on to the second       *)
(* GENERATE AC; a TC where an ARQC was asked for is not accepted, nor is      *)
(* anything but a TC the second time.                                         *)
Accept(res, inGpo) ==
    \/ res = "panic" /\ Panic
    \/ res = "err" /\ Err
    \/ res = "ARQC" /\ phase = "gac2" /\ Err
    \/ res = "ARQC" /\ phase = "gac1"
       /\ Goto(IF caller = "library" THEN "issuerAuth" ELSE "gac2")
    \/ res = "TC" /\ IF phase = "gac1" /\ ~inGpo /\ CryptogramAsked = "ARQC"
                     THEN Err ELSE End("successful")

GivenCryptogram ==
    /\ AlreadyGiven
    /\ Accept(validate_ac(tags), TRUE)
    /\ card' = IF Holds(tags, TAG_CRYPTOGRAM_INFO_DATA) THEN CryptogramOf(tags) ELSE card
    /\ UNCHANGED <<setup, contents, tvr, tsi, icc, capabilities, files, verification,
                   analysis, cdol_list, sent>>

GenerateAc(r) ==
    LET list == IF cdol_list = {} THEN tags[Cdol] ELSE cdol_list
        sentData == [sent EXCEPT ![Cdol] = get_tag_list_tag_values(tags, list)]
        answered == ~Crashes(r) /\ ~(r.ok /\ ParsePanics(Extracted(r)))
        store == IF answered
                 THEN Merge(Merge(tags, Parsed(r)), IF r.ok THEN Extracted(r) ELSE NoTags)
                 ELSE tags
        res == AcResult(r, store, sentData)
        signed == CdaAgreed /\ res \in {"TC", "ARQC"}
    IN  /\ AtGenerateAc /\ ~AlreadyGiven /\ CdolUsable /\ ~NeedsChallenge
        /\ sent' = sentData /\ cdol_list' = {}
        /\ Accept(res, FALSE)
        /\ tags' = IF signed THEN add_tag(store, TAG_APPLICATION_CRYPTOGRAM, {"signed"})
                   ELSE store
        /\ given' = IF answered THEN given \cup Own(Parsed(r)) ELSE given
        /\ card' = IF answered /\ r.ok /\ Holds(store, TAG_CRYPTOGRAM_INFO_DATA)
                   THEN CryptogramOf(store) ELSE card
        /\ UNCHANGED <<setup, tvr, tsi, icc, capabilities, files, verification, analysis>>

(* handle_issuer_authentication_data: EXTERNAL AUTHENTICATE with tag 91.      *)
IssuerAuthentication(r) ==
    /\ phase = "issuerAuth"
    /\ IF ~Holds(tags, "91")
       THEN (IF issuerAuth THEN Panic ELSE Goto("gac2")) /\ UNCHANGED <<contents, tvr>>
       ELSE IF Crashes(r) THEN Panic /\ UNCHANGED <<contents, tvr>>
       ELSE /\ Goto("gac2")
            /\ tags' = Merge(tags, Parsed(r)) /\ given' = given \cup Own(Parsed(r))
            /\ tvr' = IF r.ok THEN tvr ELSE tvr \cup {"issuer_authentication_failed"}
    /\ UNCHANGED <<setup, tsi, icc, capabilities, files, verification, decision>>

----------------------------------------------------------------------------
Step ==
    \/ PdolFails
    \/ \E r \in GpoResponses : GetProcessingOptions(r)
    \/ \E r \in RecordResponses : ReadRecord(r)
    \/ NextEntry
    \/ PublicKeys
    \/ PassRule
    \/ RuleWithoutPin
    \/ NoPin
    \/ \E challenge, r \in StatusResponses : VerifyPin(challenge, r)
    \/ UnsentPin
    \/ EndOfRules
    \/ StaticOrNone
    \/ FastDda
    \/ \E r \in DdaResponses : Dda(r)
    \/ DdolFails
    \/ ActionAnalysis
    \/ CdolFails
    \/ \E r \in StatusResponses : GetChallenge(r)
    \/ GivenCryptogram
    \/ \E r \in AcResponses : GenerateAc(r)
    \/ \E r \in StatusResponses : IssuerAuthentication(r)

Terminated ==
    /\ phase = "done"
    /\ result = "panic" \/ caller = "simulator" \/ txn = MaxTransactions
    /\ UNCHANGED vars

Next == Step \/ NextTransaction \/ Terminated

(* Fairness: the program runs on, the cardholder answers or cancels, and the  *)
(* interface answers every APDU or reports an error.                          *)
Spec == Init /\ [][Next]_vars /\ WF_vars(Step)
=============================================================================
