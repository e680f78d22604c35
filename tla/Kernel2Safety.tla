---------------------------- MODULE Kernel2Safety ----------------------------
(* What a contactless transaction promises.  The statements are about the     *)
(* whole transaction: they relate the outcome to what the card was sent, to   *)
(* what it answered and to the tags the terminal is left with.                *)
EXTENDS Kernel2

Phases == {"selected", "initiate", "readCardData", "readRecord", "process",
           "generateAc", "cda", "outcome", "done"}

(* The steps that end a transaction with an error or a panic.                 *)
Reason ==
    {"Kernel selection failed", "Contactless application not allowed", "PDOL",
     "Failed to parse PDOL", "GPO", "GPO failed", "AIP", "AFL not found",
     "AFL length", "READ RECORD", "CID not in GPO response", "CDOL1",
     "GENERATE AC", "GENERATE AC failed", "GENERATE AC format 1",
     "CID not in response", "public keys", "CDA"}

OutcomeType == {"Approved", "OnlineRequest", "Declined", "TryAnotherInterface"}

Results ==
    [kind : {"outcome"}, what : OutcomeType, cvm : CvmOutcome, receipt : BOOLEAN]
    \cup [kind : {"error", "panic"}, what : Reason, cvm : {"NoCvm"},
          receipt : {FALSE}]
    \cup {NoResult}

(* The types of the connection's and the kernel's state. *)
TypeOK ==
    /\ phase \in Phases
    /\ txn \in Nat /\ cfg \in McAidConfig /\ amount \in Nat
    /\ afl \in Seq(AflEntry)
    /\ TagStore(tags) /\ tvr \subseteq TvrBit /\ odaDone \in BOOLEAN
    /\ icc \in IccData
    /\ path \in {"none", "MChip", "MagStripe"} /\ inGpo \in BOOLEAN
    /\ data \in Seq(Nat \X Nat) /\ cursor \in Nat \X Nat \X Nat
    /\ readFailed \in BOOLEAN
    /\ cvm \in CvmOutcome
    /\ requested \in CryptogramType \cup {"none"}
    /\ card \in CryptogramType \cup {"none"}
    /\ TagStore(acTags) /\ acFormat1 \in BOOLEAN
    /\ sent = [pdol |-> sent.pdol, cdol1 |-> sent.cdol1]
    /\ TagStore(sent.pdol) /\ TagStore(sent.cdol1)
    /\ result \in Results

HasOutcome(type) == phase = "done" /\ result.kind = "outcome" /\ result.what = type

GoesAhead == HasOutcome("Approved") \/ HasOutcome("OnlineRequest")

(* A cryptogram the kernel asked for with GENERATE AC, not one of the GPO.    *)
AfterGenerateAc == card # "none" /\ ~inGpo

----------------------------------------------------------------------------
(* Limits and preconditions of later phases. *)

(* An amount above the contactless limit never gets further than the entry    *)
(* point: the card is not sent GET PROCESSING OPTIONS and nothing is approved *)
(* (select_kernel and the check of handle_contactless_transaction).           *)
LimitRespected ==
    exceeds_transaction_limit(cfg, amount, FALSE)
        => phase \in {"selected", "done"} /\ result.kind # "outcome"

(* When CDA recovers the public keys, read_card_data has stored the static    *)
(* data: handle_public_keys never unwraps an absent icc.data_authentication.  *)
(* The one early return of read_card_data without it is for a cryptogram in   *)
(* the GPO answer, which skips CDA.                                           *)
KeyRecoveryHasStaticData == phase = "cda" => icc.data_authentication # NoData

----------------------------------------------------------------------------
(* The decision. *)

(* The answer to GENERATE AC is stored as any other is: it may replace what   *)
(* the terminal has decided by.  The amount and the action codes it did not:  *)
DecisionKept == {"9F02", "9F0D", "9F0E", "9F0F"} \cap DOMAIN acTags = {}

(* With a card that answers no higher than it is asked, an offline approval   *)
(* means that no TVR bit the terminal reports (but the one CDA raises after   *)
(* the analysis) is in any action code, that the amount in tag 9F02 is within *)
(* the floor limit, and that the AID is not forced online (perform_taa to the *)
(* outcome; a record's 9F02 takes the place of the amount the user entered).  *)
OfflineApprovalJustified ==
    HasOutcome("Approved") /\ ~inGpo /\ DecisionKept =>
        LET judged == tags["95"]
                      \ {"offline_data_authentication_was_not_performed"}
        IN  /\ ~cfg.force_online /\ get_amount(tags) <= cfg.floor_limit
            /\ judged \cap (cfg.tac_denial \cup cfg.tac_online
                            \cup cfg.tac_default) = {}
            /\ \A t \in {"9F0D", "9F0E", "9F0F"} :
                  Holds(tags, t) => judged \cap tags[t] = {}

(* The TVR that the card gets through CDOL1 is the one the action analysis    *)
(* decided on: tag 95 is written between validation and GENERATE AC.          *)
CardSeesJudgedTvr ==
    AfterGenerateAc /\ "95" \in DOMAIN sent.cdol1 /\ DecisionKept
        => requested = perform_taa(sent.cdol1["95"], cfg, tags)

(* A transaction that goes ahead leaves in tag 95 the final TVR, with the     *)
(* bits that CDA raised after GENERATE AC ("Update TVR tag with final state").*)
ReportedTvrIsFinal == GoesAhead => tags["95"] = tvr

(* The CVM of the outcome is the one that tag 9F34 reports to the issuer and, *)
(* if CDOL1 asks for it, the one the card signed; the answer to GENERATE AC   *)
(* replaced neither the report nor what the method follows from.              *)
CvmConsistent ==
    GoesAhead /\ {"9F02", "9F34", TAG_CTQ, TAG_TTQ} \cap DOMAIN acTags = {} =>
        /\ result.cvm = determine_cvm(tags, cfg)
        /\ tags["9F34"] = build_cvm_results(result.cvm)
        /\ ~inGpo /\ "9F34" \in DOMAIN sent.cdol1
              => sent.cdol1["9F34"] = tags["9F34"]

----------------------------------------------------------------------------
(* Card authentication. *)

(* While no READ RECORD of the transaction was skipped, the static data is    *)
(* exactly the records that the AFL gives to authentication, in its order;    *)
(* and no entry ever gives more records than the AFL says.                    *)
StaticDataIsAflData ==
    /\ phase \in {"process", "generateAc", "cda", "outcome"}
       /\ Holds(tags, TAG_AFL) /\ ~readFailed
          => icc.data_authentication # NoData /\ SignedData
    /\ \A e \in 1 .. Len(afl) :
          Cardinality({i \in DOMAIN data : data[i][1] = e}) <= afl[e].oda

(* An offline approval of a card that agreed on CDA, answered GENERATE AC     *)
(* with data, signed them and has a key chain rests on that signature: made   *)
(* with the key of this card, over the same cryptogram type and over the data *)
(* this transaction sent, none of which has changed (state_machine.rs:265).   *)
(* The check is left out for an empty template, whose 9F27 and 9F4B are then  *)
(* those of an earlier answer (state_machine.rs:278).  A TVR that the card    *)
(* had put into its answer is overwritten by the terminal's after the check.  *)
SignedDataUnchanged ==
    /\ \A t \in ValueOf(tags, TAG_PDOL)
             \ ({TAG_APPLICATION_CRYPTOGRAM} \cup ({"95"} \cap DOMAIN acTags)) :
          sent.pdol[t] = ValueOf(tags, t)
    /\ \A t \in ValueOf(tags, TAG_CDOL1) \ {TAG_APPLICATION_CRYPTOGRAM} :
          sent.cdol1[t] = ValueOf(tags, t)

SignedAnswer ==
    /\ CdaAgreed /\ acTags # NoTags
    /\ {"8F", "9F46", "9F47", TAG_SIGNED_DYNAMIC_APPLICATION_DATA}
          \subseteq DOMAIN tags

ApprovalRestsOnSignature ==
    HasOutcome("Approved") /\ ~inGpo /\ SignedAnswer
        => /\ icc.icc_pk = txn /\ odaDone
           /\ "TC" \in tags[TAG_SIGNED_DYNAMIC_APPLICATION_DATA]
           /\ {"wrong hash", "wrong signature"}
                 \cap tags[TAG_SIGNED_DYNAMIC_APPLICATION_DATA] = {}
           /\ SignedDataUnchanged

SdadClean(type) ==
    /\ Holds(tags, TAG_SIGNED_DYNAMIC_APPLICATION_DATA)
    /\ tags[TAG_SIGNED_DYNAMIC_APPLICATION_DATA] = {type}

(* A card whose certificates are good and whose static data are those signed. *)
GenuineChain ==
    /\ {"8F", "90", "9F32", "9F46", "9F47"} \subseteq DOMAIN tags
    /\ tags["90"] = {} /\ tags["9F46"] = {}
    /\ Holds(tags, "9F2D") => tags["9F2D"] = {}
    /\ ValueOf(tags, TAG_PAN) # {} /\ StaticTagsSigned(tags)

(* What is asked for with the PDOL is in no answer and not written by the     *)
(* kernel after GPO, what is asked for with CDOL1 is not in the answer to it. *)
CardTags ==
    UNION {DOMAIN r.tags : r \in GpoResponses \cup RecordResponses \cup AcResponses}
ChangedAfterGpo == CardTags \cup {"95", "9F34"}

ListsKept ==
    /\ ListsUsable(tags, {TAG_PDOL, TAG_CDOL1})
    /\ DOMAIN sent.pdol = ValueOf(tags, TAG_PDOL)
    /\ DOMAIN sent.cdol1 = ValueOf(tags, TAG_CDOL1)
    /\ ValueOf(tags, TAG_PDOL) \cap ChangedAfterGpo = {}
    /\ ValueOf(tags, TAG_CDOL1) \cap DOMAIN acTags = {}

GenuineCard ==
    /\ GenuineChain /\ ListsKept
    /\ Holds(acTags, TAG_SIGNED_DYNAMIC_APPLICATION_DATA) /\ ~acFormat1
    /\ SdadClean(card)

(* No earlier card of the connection has left an ICC key or a CDA failure.    *)
FirstKey == icc.icc_pk = 0 /\ "cda_failed" \notin tvr

(* In any transaction, a card whose certificates and signature are good,      *)
(* whose records were all read and which replaces none of the data its lists  *)
(* ask for passes CDA: the step neither panics nor declines nor raises a TVR  *)
(* bit, and the authentication is noted (state_machine.rs:262-320).  It is    *)
(* stated of a connection on which no earlier card has left an ICC key, which *)
(* would be used for this card (state_machine.rs:268) and end in a panic      *)
(* (lib.rs:1857), nor a CDA failure in the TVR, which would decline this one. *)
GenuineCardAuthenticates ==
    [][phase = "cda" /\ CdaAgreed /\ GenuineCard /\ ~readFailed /\ FirstKey
          => phase' = "outcome" /\ odaDone' /\ UNCHANGED tvr]_vars

----------------------------------------------------------------------------
(* Every transaction ends: with an outcome, an error or a panic. *)
TransactionEnds == phase = "selected" ~> phase = "done"
=============================================================================
