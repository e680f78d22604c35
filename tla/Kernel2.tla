------------------------------- MODULE Kernel2 -------------------------------
(* A contactless transaction of emvpt: handle_contactless_transaction drives  *)
(* the entry point and the Mastercard kernel over an EmvConnection.           *)
(*                                                                          *)
(* The code is sequential; what it does not decide is the card's answer to    *)
(* each APDU.  One action is one exchange with the card together with all the *)
(* handler does with the answer, or one internal phase of the kernel.  The    *)
(* connection (tag store, TVR, TSI, ICC data) outlives the transaction; the   *)
(* kernel object does not.                                                    *)
EXTENDS CvmDetermination, TerminalActionAnalysis, CardAuthentication, CardExchange

CONSTANTS
    Configs,          \* kernel configurations of the terminal
    Amounts,          \* amounts of a transaction
    SelectTags,       \* tag stores after SELECT and process_settings
    SettingsTvr,      \* settings.terminal.tvr before the first transaction
    Afls,             \* AFLs: sequences of [records, oda] entries
    GpoResponses,     \* the card's answers to GET PROCESSING OPTIONS,
    RecordResponses,  \*   to READ RECORD
    AcResponses,      \*   and to GENERATE AC
    TerminalCda,      \* settings.terminal.capabilities.cda
    CardObeys,        \* the card never answers above the requested cryptogram
    MaxTransactions   \* bound on the transactions of one connection

ASSUME ConfigAssumption ==
    /\ Configs \subseteq McAidConfig
    /\ Amounts \subseteq Nat /\ SettingsTvr \subseteq TvrBit
    /\ Afls \subseteq Seq(AflEntry)
    /\ TerminalCda \in BOOLEAN
    /\ CardObeys \in BOOLEAN
    /\ MaxTransactions \in Nat

ASSUME ResponseAssumption ==
    /\ \A s \in SelectTags : TagStore(s) /\ ~ParsePanics(s)
    /\ \A r \in GpoResponses \cup RecordResponses \cup AcResponses : Response(r)
    /\ \A r \in GpoResponses :
          r.body = "format1" => DOMAIN r.tags \subseteq {TAG_AIP, TAG_AFL}

VARIABLES
    phase,      \* where handle_contactless_transaction is
    txn,        \* number of the transaction on this connection
    cfg,        \* the AID's McAidConfig
    amount,     \* the amount the user entered
    afl,        \* the entries of the card's AFL
    tags,       \* EmvConnection.tags
    tvr,        \* settings.terminal.tvr
    odaDone,    \* tsi.offline_data_authentication_was_performed
    icc,        \* EmvConnection.icc
    path,       \* MastercardKernel.transaction_path
    inGpo,      \* MastercardKernel.cryptogram_in_gpo
    data,       \* MastercardKernel.data_authentication
    cursor,     \* the READ RECORD loop: entry, record, oda_records left
    readFailed, \* some READ RECORD of this transaction was skipped
    cvm,        \* cvm_outcome
    requested,  \* taa_decision
    card,       \* the cryptogram type GENERATE AC returned
    acTags,     \* the tags of genac_response_data
    acFormat1,  \* genac_response_data is a format 1 template
    sent,       \* the PDOL and CDOL1 data the card was sent
    result      \* what handle_contactless_transaction returned

conn == <<tags, tvr, odaDone, icc>>
kernel == <<path, inGpo, data, cursor, readFailed, cvm, requested, card,
            acTags, acFormat1, sent>>
setup == <<txn, cfg, amount, afl>>
vars == <<phase, setup, conn, kernel, result>>

----------------------------------------------------------------------------
(* Results: an OutcomeParameterSet, an error string, or a panic. *)

WithoutOutcome(kind, why) ==
    [kind |-> kind, what |-> why, cvm |-> "NoCvm", receipt |-> FALSE]

NoResult == WithoutOutcome("none", "")

Outcome(type, method, receipt) ==
    [kind |-> "outcome", what |-> type, cvm |-> method, receipt |-> receipt]

approved(method) == Outcome("Approved", method, method # "NoCvm")
online_request(method) == Outcome("OnlineRequest", method, TRUE)
declined == Outcome("Declined", "NoCvm", FALSE)
try_another_interface == Outcome("TryAnotherInterface", "NoCvm", FALSE)

(* Mutant: an ARQC is taken for an approval. *)
OutcomeOfEager(type, method) == IF type = "AAC" THEN declined ELSE approved(method)

OutcomeOf(type, method) == CASE type = "TC" -> approved(method)
                             [] type = "ARQC" -> online_request(method)
                             [] type = "AAC" -> declined

End(res) == phase' = "done" /\ result' = res
Fail(why) == End(WithoutOutcome("error", why))
Panic(why) == End(WithoutOutcome("panic", why))
Goto(next) == phase' = next /\ UNCHANGED result

----------------------------------------------------------------------------
(* A DOL the kernel cannot parse, and one whose data it cannot cut to length. *)
Unparsable(t) == "unparsable" \in ValueOf(tags, t)
TooLong(t) == "too long" \in ValueOf(tags, t)

----------------------------------------------------------------------------
(* SELECT clears the tags, the amount is set; the settings (TVR, TSI) and the *)
(* ICC data stay.  The kernel object is new.                                  *)
Prepared(store, n) == add_tag(store, TAG_AMOUNT_AUTHORISED, AmountValue(n))

NothingSent == [pdol |-> NoTags, cdol1 |-> NoTags]

KernelNew ==
    /\ path = "none" /\ inGpo = FALSE /\ data = <<>> /\ cursor = <<1, 1, 0>>
    /\ readFailed = FALSE /\ cvm = "NoCvm" /\ requested = "none"
    /\ card = "none" /\ acTags = NoTags /\ acFormat1 = FALSE
    /\ sent = NothingSent

Init ==
    /\ phase = "selected" /\ txn = 1
    /\ cfg \in Configs /\ amount \in Amounts /\ afl \in Afls
    /\ \E s \in SelectTags : tags = Prepared(s, amount)
    /\ tvr = SettingsTvr /\ odaDone = FALSE /\ icc = NewIcc
    /\ KernelNew
    /\ result = NoResult

NextTransaction ==
    /\ phase = "done" /\ result.kind # "panic" /\ txn < MaxTransactions
    /\ phase' = "selected" /\ txn' = txn + 1
    /\ amount' \in Amounts /\ afl' \in Afls
    /\ \E s \in SelectTags : tags' = Prepared(s, amount')
    /\ path' = "none" /\ inGpo' = FALSE /\ data' = <<>> /\ cursor' = <<1, 1, 0>>
    /\ readFailed' = FALSE /\ cvm' = "NoCvm" /\ requested' = "none"
    /\ card' = "none" /\ acTags' = NoTags /\ acFormat1' = FALSE
    /\ sent' = NothingSent
    /\ result' = NoResult
    /\ UNCHANGED <<cfg, tvr, odaDone, icc>>

(* select_kernel, and the transaction limit check of its caller.  Without a   *)
(* kernel or a configuration for the AID it fails first.                      *)
SelectKernel ==
    /\ phase = "selected"
    /\ \/ Fail("Kernel selection failed") /\ UNCHANGED tags
       \/ /\ tags' = PreprocessedTtq(tags, cfg, get_amount(tags))
          /\ IF PreProcessingResult(cfg, get_amount(tags)).contactless_application_not_allowed
             THEN Fail("Contactless application not allowed")
             ELSE Goto("initiate")
    /\ UNCHANGED <<setup, tvr, odaDone, icc, kernel>>

(* set_kernel_tags. *)
KernelTags ==
    LET caps == IF cvm_required(cfg, get_amount(tags)) THEN {"cvm"} ELSE {"no cvm"}
        versioned == IF cfg.version = {} THEN tags
                     ELSE add_tag(tags, TAG_APPLICATION_VERSION_NUMBER_TERMINAL,
                                  cfg.version)
    IN  add_tag(versioned, TAG_TERMINAL_CAPABILITIES, caps)

(* The first byte of the AIP has the authentication methods; a card without   *)
(* an AIP keeps the capabilities that are there.                              *)
CapabilitiesFrom(store) ==
    IF Holds(store, TAG_AIP)
    THEN [icc EXCEPT !.sda = "sda" \in store[TAG_AIP],
                     !.dda = "dda" \in store[TAG_AIP],
                     !.cda = "cda" \in store[TAG_AIP]]
    ELSE icc

determine_transaction_path(store) ==
    IF /\ Holds(store, TAG_AIP) /\ "byte2" \in store[TAG_AIP]
       /\ "emv mode" \notin store[TAG_AIP]
    THEN "MagStripe" ELSE "MChip"

(* initiate_application up to the GET PROCESSING OPTIONS command. *)
PdolFails ==
    /\ phase = "initiate"
    /\ \/ Unparsable(TAG_PDOL) /\ Fail("Failed to parse PDOL")
       \/ TooLong(TAG_PDOL) /\ ~Unparsable(TAG_PDOL) /\ Panic("PDOL")
    /\ tags' = KernelTags
    /\ UNCHANGED <<setup, tvr, odaDone, icc, kernel>>

(* The command, its answer r, and the rest of initiate_application.           *)
InitiateApplication(r) ==
    LET store == Merge(Merge(KernelTags, Parsed(r)), Extracted(r))
        accepted == r.ok /\ r.body \in {"format1", "template"}
    IN  /\ phase = "initiate" /\ ~Unparsable(TAG_PDOL) /\ ~TooLong(TAG_PDOL)
        /\ sent' = [sent EXCEPT !.pdol = get_tag_list_tag_values(KernelTags,
                                             ValueOf(tags, TAG_PDOL))]
        /\ \/ Crashes(r) /\ Panic("GPO")
              /\ tags' = KernelTags /\ UNCHANGED <<icc, inGpo, path>>
           \/ ~Crashes(r) /\ ~accepted /\ Fail("GPO failed")
              /\ tags' = Merge(KernelTags, Parsed(r))
              /\ UNCHANGED <<icc, inGpo, path>>
           \/ /\ ~Crashes(r) /\ accepted
              /\ tags' = store
              /\ inGpo' = Holds(store, TAG_APPLICATION_CRYPTOGRAM)
              /\ IF Holds(store, TAG_AIP) /\ "empty" \in store[TAG_AIP]
                 THEN Panic("AIP") /\ UNCHANGED <<icc, path>>
                 ELSE /\ Goto("readCardData")
                      /\ icc' = CapabilitiesFrom(store)
                      /\ path' = determine_transaction_path(store)
        /\ UNCHANGED <<setup, tvr, odaDone, data, cursor, readFailed, cvm,
                       requested, card, acTags, acFormat1>>

----------------------------------------------------------------------------
(* Mutant: a missing AFL never fails. *)
ReadCardDataLenient ==
    /\ phase = "readCardData"
    /\ IF Holds(tags, TAG_AFL)
       THEN /\ Goto("readRecord")
            /\ cursor' = <<1, 1, IF afl = <<>> THEN 0 ELSE afl[1].oda>>
       ELSE Goto("process") /\ UNCHANGED cursor
    /\ UNCHANGED <<setup, conn, path, inGpo, data, readFailed, cvm, requested, card,
                   acTags, acFormat1, sent>>

(* read_card_data: the checks before the loop. *)
ReadCardData ==
    /\ phase = "readCardData"
    /\ IF ~Holds(tags, TAG_AFL)
       THEN /\ IF inGpo THEN Goto("process") ELSE Fail("AFL not found")
            /\ UNCHANGED <<data, cursor>>
       ELSE IF "unaligned" \in tags[TAG_AFL]
       THEN Fail("AFL length") /\ UNCHANGED <<data, cursor>>
       ELSE /\ Goto("readRecord")
            /\ data' = <<>>
            /\ cursor' = <<1, 1, IF afl = <<>> THEN 0 ELSE afl[1].oda>>
    /\ UNCHANGED <<setup, conn, path, inGpo, readFailed, cvm, requested, card,
                   acTags, acFormat1, sent>>

(* The static data are what the card's issuer signed. *)
SignedData == AreSigned(icc.data_authentication, afl)

Entry == cursor[1]
Record == cursor[2]
OdaLeft == cursor[3]

(* Mutant: every record is authenticated. *)
ReadRecordAll(r) ==
    LET read == r.ok /\ r.body = "template"
    IN  /\ phase = "readRecord" /\ ~Crashes(r)
        /\ Entry <= Len(afl) /\ Record <= afl[Entry].records
        /\ data' = IF read THEN Append(data, <<Entry, Record>>) ELSE data
        /\ cursor' = [cursor EXCEPT ![2] = @ + 1]
        /\ tags' = Merge(tags, Parsed(r))
        /\ readFailed' = (readFailed \/ ~read)
        /\ UNCHANGED <<phase, result, setup, tvr, odaDone, icc, path, inGpo,
                       cvm, requested, card, acTags, acFormat1, sent>>

(* One READ RECORD.  A record that cannot be read is skipped, and is not      *)
(* counted against the entry's number of authenticated records.               *)
ReadRecord(r) ==
    LET read == r.ok /\ r.body = "template"
        authenticated == read /\ OdaLeft > 0
    IN  /\ phase = "readRecord"
        /\ Entry <= Len(afl) /\ Record <= afl[Entry].records
        /\ IF Crashes(r)
           THEN Panic("READ RECORD") /\ UNCHANGED <<tags, data, cursor, readFailed>>
           ELSE /\ tags' = Merge(tags, Parsed(r))
                /\ data' = IF authenticated THEN Append(data, <<Entry, Record>>)
                                            ELSE data
                /\ cursor' = <<Entry, Record + 1,
                               IF authenticated THEN OdaLeft - 1 ELSE OdaLeft>>
                /\ readFailed' = (readFailed \/ ~read)
                /\ UNCHANGED <<phase, result>>
        /\ UNCHANGED <<setup, tvr, odaDone, icc, path, inGpo, cvm, requested,
                       card, acTags, acFormat1, sent>>

(* Mutants: the AFL is read again from the start when a record was skipped;   *)
(* the count of authenticated records is not reset for an entry.              *)
NextEntryRestarts ==
    /\ phase = "readRecord"
    /\ Entry <= Len(afl) => Record > afl[Entry].records
    /\ IF readFailed /\ afl # <<>>
       THEN /\ cursor' = <<1, 1, afl[1].oda>> /\ data' = <<>>
            /\ UNCHANGED <<phase, icc, result>>
       ELSE /\ icc' = [icc EXCEPT !.data_authentication = data]
            /\ Goto("process") /\ UNCHANGED <<cursor, data>>
    /\ UNCHANGED <<setup, tags, tvr, odaDone, path, inGpo, readFailed, cvm,
                   requested, card, acTags, acFormat1, sent>>

NextEntryCarries ==
    /\ phase = "readRecord"
    /\ Entry <= Len(afl) => Record > afl[Entry].records
    /\ IF Entry < Len(afl)
       THEN cursor' = <<Entry + 1, 1, OdaLeft>> /\ UNCHANGED <<phase, icc, result>>
       ELSE /\ icc' = [icc EXCEPT !.data_authentication = data]
            /\ Goto("process") /\ UNCHANGED cursor
    /\ UNCHANGED <<setup, tags, tvr, odaDone, path, inGpo, data, readFailed, cvm,
                   requested, card, acTags, acFormat1, sent>>

(* The next AFL entry, or the end of the loop.                                *)
NextEntry ==
    /\ phase = "readRecord"
    /\ Entry <= Len(afl) => Record > afl[Entry].records
    /\ IF Entry < Len(afl)
       THEN /\ cursor' = <<Entry + 1, 1, afl[Entry + 1].oda>>
            /\ UNCHANGED <<phase, icc, result>>
       ELSE /\ icc' = [icc EXCEPT !.data_authentication = data]
            /\ Goto("process") /\ UNCHANGED cursor
    /\ UNCHANGED <<setup, tags, tvr, odaDone, path, inGpo, data, readFailed, cvm,
                   requested, card, acTags, acFormat1, sent>>

----------------------------------------------------------------------------
(* validate_card_data: the TVR bits that the card's data raise.  The dates    *)
(* are compared only when the expiry date can be read.                        *)
check_expiry_date ==
    LET expiry == ValueOf(tags, "5F24")
        effective == ValueOf(tags, "5F25")
    IN  IF ~Holds(tags, "5F24") \/ "unreadable" \in expiry THEN {}
        ELSE {b \in {"expired_application", "application_not_yet_effective"} :
                 \/ b = "expired_application" /\ "expired" \in expiry
                 \/ b = "application_not_yet_effective" /\ "future" \in effective}

check_application_version ==
    LET terminal == TAG_APPLICATION_VERSION_NUMBER_TERMINAL
    IN  IF Holds(tags, "9F08") /\ Holds(tags, terminal)
           /\ tags["9F08"] # tags[terminal]
        THEN {"icc_and_terminal_have_different_application_versions"} ELSE {}

MissingData ==
    IF \/ ValueOf(tags, TAG_PAN) = {} \* absent, or all zeros
       \/ ~Holds(tags, TAG_TRACK2_EQUIVALENT)
       \/ ~Holds(tags, TAG_CDOL1)
    THEN {"icc_data_missing"} ELSE {}

(* Mutant: the TSI flag is raised in the TVR. *)
NoOdaMethodTsi == IF icc.sda \/ icc.dda \/ icc.cda THEN {}
                  ELSE {"offline_data_authentication_was_performed"}

NoOdaMethod == IF icc.sda \/ icc.dda \/ icc.cda THEN {}
               ELSE {"offline_data_authentication_was_not_performed"}

ValidatedTvr == tvr \cup MissingData \cup check_expiry_date
                    \cup check_application_version \cup NoOdaMethod

(* Mutant: tag 95 is written with the TVR from before the validation. *)
ValidatedStoreStale == add_tag(tags, "95", tvr)

(* The tag store after the validation, then after the CVM determination.      *)
ValidatedStore == add_tag(tags, "95", ValidatedTvr)

(* Mutant: 9F34 reports no CVM whatever the method. *)
CvmStoreDefault(method) ==
    add_tag(ValidatedStore, "9F34", build_cvm_results("NoCvm"))

CvmStore(method) == add_tag(ValidatedStore, "9F34", build_cvm_results(method))

MagStripe ==
    /\ phase = "process" /\ path = "MagStripe"
    /\ End(try_another_interface)
    /\ UNCHANGED <<setup, conn, kernel>>

(* process_mchip when the GPO answer held a cryptogram                        *)
(* (determine_outcome_from_cryptogram): no action analysis, no CDA.           *)
OutcomeFromGpo ==
    LET method == determine_cvm(ValidatedStore, cfg)
    IN  /\ phase = "process" /\ path = "MChip" /\ inGpo
        /\ IF ~Holds(tags, TAG_CRYPTOGRAM_INFO_DATA)
           THEN /\ Fail("CID not in GPO response")
                /\ UNCHANGED <<tags, tvr, cvm, card>>
           ELSE /\ tvr' = ValidatedTvr
                /\ tags' = CvmStore(method)
                /\ cvm' = method
                /\ card' = CryptogramOf(tags)
                /\ End(OutcomeOf(CryptogramOf(tags), method))
        /\ UNCHANGED <<setup, odaDone, icc, path, inGpo, data, cursor, readFailed,
                       requested, acTags, acFormat1, sent>>

(* Card data validation, CVM determination and terminal action analysis.      *)
PrepareGenerateAc ==
    LET method == determine_cvm(ValidatedStore, cfg)
    IN  /\ phase = "process" /\ path = "MChip" /\ ~inGpo
        /\ tvr' = ValidatedTvr
        /\ tags' = CvmStore(method)
        /\ cvm' = method
        /\ requested' = perform_taa(ValidatedTvr, cfg, tags)
        /\ Goto("generateAc")
        /\ UNCHANGED <<setup, odaDone, icc, path, inGpo, data, cursor, readFailed,
                       card, acTags, acFormat1, sent>>

CdolUsable == /\ Holds(tags, TAG_CDOL1)
              /\ ~Unparsable(TAG_CDOL1) /\ ~TooLong(TAG_CDOL1)

(* send_generate_ac without a usable CDOL1. *)
CdolFails ==
    /\ phase = "generateAc" /\ ~CdolUsable
    /\ IF Holds(tags, TAG_CDOL1) /\ ~Unparsable(TAG_CDOL1)
       THEN Panic("CDOL1") ELSE Fail("CDOL1")
    /\ UNCHANGED <<setup, conn, kernel>>

(* A card that follows EMV: its answer names a cryptogram, and none above the *)
(* one it was asked for.                                                      *)
Obedient(r) ==
    r.ok => \E c \in CryptogramType :
                /\ ValueOf(r.tags, TAG_CRYPTOGRAM_INFO_DATA) = {c}
                /\ CryptogramRank[c] <= CryptogramRank[requested]

(* send_generate_ac: the command, its answer r, and the cryptogram's type.    *)
GenerateAc(r) ==
    LET store == Merge(Merge(tags, Parsed(r)), Extracted(r))
        accepted == r.ok /\ r.body \in {"short", "format1", "template"}
        stored == accepted \/ (r.ok /\ r.body = "other")
    IN  /\ phase = "generateAc" /\ CdolUsable
        /\ CardObeys => Obedient(r)
        /\ sent' = [sent EXCEPT !.cdol1 = get_tag_list_tag_values(tags,
                                              tags[TAG_CDOL1])]
        /\ IF Crashes(r)
           THEN /\ Panic("GENERATE AC")
                /\ UNCHANGED <<tags, card, acTags, acFormat1>>
           ELSE /\ acTags' = IF stored THEN r.tags ELSE acTags
                /\ acFormat1' = (stored /\ r.body \in {"short", "format1"})
                /\ \/ ~accepted /\ Fail("GENERATE AC failed")
                      /\ tags' = Merge(tags, Parsed(r)) /\ UNCHANGED card
                   \/ accepted /\ (r.body = "short" \/ ParsePanics(Extracted(r)))
                      /\ Panic("GENERATE AC format 1") /\ UNCHANGED <<tags, card>>
                   \/ /\ accepted /\ r.body # "short"
                      /\ ~ParsePanics(Extracted(r))
                      /\ tags' = store
                      /\ IF Holds(store, TAG_CRYPTOGRAM_INFO_DATA)
                         THEN card' = CryptogramOf(store) /\ Goto("cda")
                         ELSE Fail("CID not in response") /\ UNCHANGED card
        /\ UNCHANGED <<setup, tvr, odaDone, icc, path, inGpo, data, cursor,
                       readFailed, cvm, requested>>

----------------------------------------------------------------------------
(* CDA after GENERATE AC. *)
CdaAgreed == icc.cda /\ TerminalCda

Keys == IF icc.icc_pk = 0 THEN handle_public_keys(tags, icc, txn, SignedData)
        ELSE [res |-> "ok", icc |-> icc]

(* The PDOL and CDOL1 data rebuilt from the tag store of now.                 *)
SameData ==
    /\ sent.pdol = get_tag_list_tag_values(tags, ValueOf(tags, TAG_PDOL))
    /\ sent.cdol1 = get_tag_list_tag_values(tags, ValueOf(tags, TAG_CDOL1))

(* "skipped": without an ICC key, or with an empty template, nothing is       *)
(* verified.                                                                  *)
Verification ==
    LET inResponse == /\ ~acFormat1
                      /\ Holds(acTags, TAG_SIGNED_DYNAMIC_APPLICATION_DATA)
    IN  IF Keys.icc.icc_pk = 0 \/ (acTags = NoTags /\ ~acFormat1)
        THEN "skipped"
        ELSE handle_application_cryptogram_card_authentication(
                 tags, Keys.icc, txn, {TAG_PDOL, TAG_CDOL1}, inResponse, SameData)

(* No CDA: not agreed, or no signed data from the card. *)
CdaNotDone ==
    /\ phase = "cda"
    /\ \/ ~CdaAgreed /\ UNCHANGED tvr
       \/ /\ CdaAgreed /\ ~Holds(tags, TAG_SIGNED_DYNAMIC_APPLICATION_DATA)
          /\ tvr' = tvr \cup {"offline_data_authentication_was_not_performed"}
    /\ Goto("outcome")
    /\ UNCHANGED <<setup, tags, odaDone, icc, kernel>>

Cda ==
    /\ phase = "cda" /\ CdaAgreed
    /\ Holds(tags, TAG_SIGNED_DYNAMIC_APPLICATION_DATA)
    /\ icc' = Keys.icc
    /\ IF Keys.res = "panic" \/ Verification = "panic"
       THEN /\ Panic(IF Keys.res = "panic" THEN "public keys" ELSE "CDA")
            /\ UNCHANGED <<tags, tvr, odaDone>>
       ELSE /\ tvr' = IF Keys.res = "err" \/ Verification = "err"
                      THEN tvr \cup {"cda_failed"} ELSE tvr
            /\ odaDone' = (odaDone \/ Verification \in {"ok", "err"})
            /\ tags' = IF Verification = "ok"
                       THEN add_tag(tags, TAG_APPLICATION_CRYPTOGRAM, {"signed"})
                       ELSE tags
            /\ IF "cda_failed" \in tvr' /\ card = "TC"
               THEN End(declined) ELSE Goto("outcome")
    /\ UNCHANGED <<setup, kernel>>

(* Mutant: the TVR tag keeps the value from before GENERATE AC. *)
ReportOutcomeStale ==
    /\ phase = "outcome"
    /\ End(OutcomeOf(card, cvm))
    /\ UNCHANGED <<setup, conn, kernel>>

(* The TVR tag with the final state, and the cryptogram's outcome. *)
ReportOutcome ==
    /\ phase = "outcome"
    /\ tags' = add_tag(tags, "95", tvr)
    /\ End(OutcomeOf(card, cvm))
    /\ UNCHANGED <<setup, tvr, odaDone, icc, kernel>>

----------------------------------------------------------------------------
(* A transaction's steps; the next transaction; the end of the process, after *)
(* a panic or the last transaction.                                           *)
Step ==
    \/ SelectKernel
    \/ PdolFails
    \/ \E r \in GpoResponses : InitiateApplication(r)
    \/ ReadCardData
    \/ \E r \in RecordResponses : ReadRecord(r)
    \/ NextEntry
    \/ MagStripe
    \/ OutcomeFromGpo
    \/ PrepareGenerateAc
    \/ CdolFails
    \/ \E r \in AcResponses : GenerateAc(r)
    \/ CdaNotDone
    \/ Cda
    \/ ReportOutcome

Terminated ==
    /\ phase = "done" /\ (result.kind = "panic" \/ txn = MaxTransactions)
    /\ UNCHANGED vars

Next == Step \/ NextTransaction \/ Terminated

(* Fairness: the program runs on, and the interface answers every APDU or     *)
(* reports an error.  Nothing makes the user start another transaction.       *)
Spec == Init /\ [][Next]_vars /\ WF_vars(Step)
=============================================================================
