--------------------------- MODULE Kernel2_proofs ---------------------------
(* Proofs about the contactless kernel, for every value of its constants.     *)
(* The inductive invariant is IInv; each action preserves it (one lemma each, *)
(* in the order of a transaction), and the theorems at the end follow.        *)
EXTENDS Kernel2Refinement, CardData_proofs, SequenceTheorems

----------------------------------------------------------------------------
(* The inductive invariant. *)

(* What the tag store holds under 9F27 is a cryptogram type: process_tlv      *)
(* panics on anything else.                                                   *)
CidKnown == ~ParsePanics(tags)

Asking == {"selected", "initiate", "readCardData", "readRecord", "process"}

(* How far the transaction is, in what it has asked and been answered.        *)
Progressed ==
    /\ phase \in Asking => requested = "none" /\ card = "none"
    /\ phase = "generateAc" => requested \in CryptogramType /\ card = "none"
    /\ phase \in {"cda", "outcome"}
          => requested \in CryptogramType /\ card \in CryptogramType
    /\ phase \in {"generateAc", "cda", "outcome"} => ~inGpo
    /\ phase # "done" => result = NoResult
    /\ phase = "done" => result.kind # "none"

(* The kernel leaves read_card_data with the static data, unless the GPO      *)
(* answer held a cryptogram.                                                  *)
StaticDataRead ==
    phase \in {"process", "generateAc", "cda"} /\ ~inGpo
        => icc.data_authentication # NoData

IInv == TypeOK /\ CidKnown /\ Progressed /\ StaticDataRead

----------------------------------------------------------------------------
(* The answers and the results. *)

(* Every answer's tags are stores, those it parses and those it extracts too. *)
LEMMA ResponseType ==
    ASSUME NEW r \in GpoResponses \cup RecordResponses \cup AcResponses
    PROVE  /\ r.ok \in BOOLEAN
           /\ TagStore(r.tags) /\ TagStore(Parsed(r)) /\ TagStore(Extracted(r))
           /\ ~Crashes(r) => ~ParsePanics(Parsed(r))
BY ResponseAssumption, NoTagsType DEF Response, Parsed, Extracted, Crashes

LEMMA FailureType ==
    ASSUME NEW kind \in {"error", "panic"}, NEW why \in Reason
    PROVE  /\ WithoutOutcome(kind, why) \in Results
           /\ WithoutOutcome(kind, why).kind = kind
BY DEF Results, WithoutOutcome

LEMMA OutcomeType_ ==
    ASSUME NEW type \in OutcomeType, NEW method \in CvmOutcome,
           NEW receipt \in BOOLEAN
    PROVE  LET res == Outcome(type, method, receipt)
           IN  /\ res \in Results
               /\ res.kind = "outcome" /\ res.what = type /\ res.cvm = method
BY DEF Outcome, Results

(* The outcome of a cryptogram. *)
LEMMA OutcomeOfType ==
    ASSUME NEW c \in CryptogramType, NEW method \in CvmOutcome
    PROVE  /\ OutcomeOf(c, method) \in Results
           /\ OutcomeOf(c, method).kind = "outcome"
           /\ c = "TC" => OutcomeOf(c, method).what = "Approved"
           /\ c = "ARQC" => OutcomeOf(c, method).what = "OnlineRequest"
           /\ c = "AAC" => OutcomeOf(c, method).what = "Declined"
<1>1. "NoCvm" \in CvmOutcome
  BY DEF CvmOutcome
<1>2. CASE c = "TC"
  BY <1>2, OutcomeType_ DEF OutcomeOf, approved, OutcomeType
<1>3. CASE c = "ARQC"
  BY <1>3, OutcomeType_ DEF OutcomeOf, online_request, OutcomeType
<1>4. CASE c = "AAC"
  BY <1>1, <1>4, OutcomeType_ DEF OutcomeOf, declined, OutcomeType
<1> QED
  BY <1>2, <1>3, <1>4 DEF CryptogramType

----------------------------------------------------------------------------
(* The decisions. *)

LEMMA DetermineCvmType ==
    ASSUME NEW s, NEW conf
    PROVE  determine_cvm(s, conf) \in CvmOutcome
<1>1. \A ctq, ttq : determine_cvm_from_ctq_ttq(ctq, ttq) \in CvmOutcome
  BY DEF determine_cvm_from_ctq_ttq, CvmOutcome
<1>2. \A ttq : TerminalCvm(ttq) \in CvmOutcome
  BY DEF TerminalCvm, CvmOutcome
<1> QED
  BY <1>1, <1>2 DEF determine_cvm, CvmOutcome

LEMMA PerformTaaType ==
    ASSUME NEW bits, NEW conf, NEW s
    PROVE  perform_taa(bits, conf, s) \in CryptogramType
BY DEF perform_taa, CryptogramType

LEMMA ValidatedTvrType ==
    ASSUME tvr \subseteq TvrBit
    PROVE  ValidatedTvr \subseteq TvrBit
BY DEF ValidatedTvr, MissingData, check_expiry_date, check_application_version,
       NoOdaMethod, TvrBit

----------------------------------------------------------------------------
(* The steps. *)

(* The store after SELECT, to which the amount is added. *)
LEMMA PreparedType ==
    ASSUME NEW s \in SelectTags, NEW n
    PROVE  TagStore(Prepared(s, n)) /\ ~ParsePanics(Prepared(s, n))
BY ResponseAssumption, AddTag, AddTagCid DEF Prepared, TAG_AMOUNT_AUTHORISED

(* The amount that is read from it is the one that was entered. *)
LEMMA PreparedAmount ==
    ASSUME NEW s, NEW n \in Nat
    PROVE  get_amount(Prepared(s, n)) = n
BY AddedAmount DEF Prepared

LEMMA InitInvariant ==
    ASSUME Init
    PROVE  IInv
<1> USE DEF Init, KernelNew
<1>1. TagStore(tags) /\ ~ParsePanics(tags)
  BY PreparedType
<1>2. /\ TagStore(acTags) /\ TagStore(sent.pdol) /\ TagStore(sent.cdol1)
      /\ sent = [pdol |-> sent.pdol, cdol1 |-> sent.cdol1]
  BY NoTagsType DEF NothingSent
<1>3. icc \in IccData
  BY DEF NewIcc, IccData
<1>4. result \in Results
  BY DEF Results
<1>5. data \in Seq(Nat \X Nat) /\ cursor \in Nat \X Nat \X Nat
  OBVIOUS
<1>6. TypeOK
  BY <1>1, <1>2, <1>3, <1>4, <1>5, ConfigAssumption
     DEF TypeOK, Phases, CvmOutcome
<1> QED
  BY <1>1, <1>6 DEF IInv, CidKnown, Progressed, Asking, StaticDataRead

LEMMA NextTransactionInvariant ==
    ASSUME IInv, NextTransaction
    PROVE  IInv'
<1> USE DEF NextTransaction
<1>1. TagStore(tags') /\ ~ParsePanics(tags')
  BY PreparedType
<1>2. /\ TagStore(acTags') /\ TagStore(sent'.pdol) /\ TagStore(sent'.cdol1)
      /\ sent' = [pdol |-> sent'.pdol, cdol1 |-> sent'.cdol1]
  BY NoTagsType DEF NothingSent
<1>3. data' \in Seq(Nat \X Nat) /\ cursor' \in Nat \X Nat \X Nat
  OBVIOUS
<1>4. result' \in Results
  BY DEF Results
<1>5. txn' \in Nat /\ amount' \in Nat /\ afl' \in Seq(AflEntry)
  BY ConfigAssumption DEF IInv, TypeOK
<1>6. TypeOK'
  BY <1>1, <1>2, <1>3, <1>4, <1>5 DEF IInv, TypeOK, Phases, CvmOutcome
<1> QED
  BY <1>1, <1>6 DEF IInv, CidKnown, Progressed, Asking, StaticDataRead

(* A failure ends the transaction, which is all the invariant asks of it.     *)
LEMMA FailureEnds ==
    ASSUME NEW why \in Reason, Fail(why) \/ Panic(why)
    PROVE  phase' = "done" /\ result' \in Results /\ result'.kind \in {"error", "panic"}
BY FailureType DEF Fail, Panic, End

(* Before its end a transaction has no result. *)
LEMMA NoResultYet ==
    ASSUME IInv, phase # "done"
    PROVE  result = NoResult /\ result \in Results
BY DEF IInv, TypeOK, Progressed

LEMMA SelectKernelInvariant ==
    ASSUME IInv, SelectKernel
    PROVE  IInv'
<1> USE DEF SelectKernel
<1>1. /\ UNCHANGED <<setup, tvr, odaDone, icc, kernel>>
      /\ phase = "selected"
  OBVIOUS
<1>2. TagStore(tags') /\ ~ParsePanics(tags')
  <2>1. TagStore(tags) /\ ~ParsePanics(tags) /\ TAG_TTQ # "9F27"
    BY DEF IInv, TypeOK, CidKnown, TAG_TTQ
  <2>2. \A v : /\ TagStore(add_tag(tags, TAG_TTQ, v))
                /\ ~ParsePanics(add_tag(tags, TAG_TTQ, v))
    BY <2>1, AddTag, AddTagCid
  <2>3. CASE tags' = tags
    BY <2>1, <2>3
  <2>4. CASE tags' = PreprocessedTtq(tags, cfg, get_amount(tags))
    BY <2>1, <2>2, <2>4 DEF PreprocessedTtq
  <2> QED
    BY <2>3, <2>4
<1>3. /\ phase' \in {"done", "initiate"} /\ result' \in Results
      /\ phase' = "done" => result'.kind # "none"
      /\ phase' # "done" => result' = NoResult
  <2>1. CASE \/ Fail("Kernel selection failed")
             \/ Fail("Contactless application not allowed")
    BY <2>1, FailureEnds DEF Reason
  <2>2. CASE Goto("initiate")
    BY <1>1, <2>2, NoResultYet DEF Goto
  <2> QED
    BY <2>1, <2>2
<1>4. TypeOK'
  BY <1>1, <1>2, <1>3 DEF IInv, TypeOK, Phases, setup, kernel
<1> QED
  BY <1>1, <1>2, <1>3, <1>4
     DEF IInv, CidKnown, Progressed, Asking, StaticDataRead, setup, kernel

LEMMA KernelTagsType ==
    ASSUME ~ParsePanics(tags), TagStore(tags)
    PROVE  TagStore(KernelTags) /\ ~ParsePanics(KernelTags)
BY AddTag, AddTagCid
   DEF KernelTags, TAG_TERMINAL_CAPABILITIES, TAG_APPLICATION_VERSION_NUMBER_TERMINAL

LEMMA PdolFailsInvariant ==
    ASSUME IInv, PdolFails
    PROVE  IInv'
<1> USE DEF PdolFails
<1>1. TagStore(tags') /\ ~ParsePanics(tags')
  BY KernelTagsType DEF IInv, TypeOK, CidKnown
<1>2. phase' = "done" /\ result' \in Results /\ result'.kind # "none"
  BY FailureEnds DEF Reason
<1>3. TypeOK'
  BY <1>1, <1>2 DEF IInv, TypeOK, Phases, setup, kernel
<1> QED
  BY <1>1, <1>2, <1>3
     DEF IInv, CidKnown, Progressed, Asking, StaticDataRead, setup, kernel

LEMMA CapabilitiesType ==
    ASSUME icc \in IccData, NEW store
    PROVE  CapabilitiesFrom(store) \in IccData
<1> DEFINE has(bit) == bit \in store[TAG_AIP]
           read == [icc EXCEPT !.sda = has("sda"), !.dda = has("dda"),
                               !.cda = has("cda")]
<1>1. \A bit : has(bit) \in BOOLEAN
  OBVIOUS
<1>2. read \in IccData
  <2> HIDE DEF has
  <2> QED BY <1>1 DEF IccData
<1> QED
  BY <1>2 DEF CapabilitiesFrom

LEMMA InitiateApplicationInvariant ==
    ASSUME IInv, NEW r \in GpoResponses, InitiateApplication(r)
    PROVE  IInv'
<1> USE DEF InitiateApplication
<1> DEFINE store == Merge(Merge(KernelTags, Parsed(r)), Extracted(r))
<1>1. /\ UNCHANGED <<setup, tvr, odaDone, data, cursor, readFailed, cvm, requested,
                     card, acTags, acFormat1>>
      /\ phase = "initiate"
  OBVIOUS
<1>2. TagStore(KernelTags) /\ ~ParsePanics(KernelTags)
  BY KernelTagsType DEF IInv, TypeOK, CidKnown
<1>3. ~ParsePanics(Extracted(r))
  BY ResponseAssumption, NoTagsType
     DEF Extracted, ParsePanics, Holds, TAG_CRYPTOGRAM_INFO_DATA, TAG_AIP, TAG_AFL
<1>4. /\ TagStore(store) /\ TagStore(Merge(KernelTags, Parsed(r)))
      /\ ~Crashes(r) => /\ ~ParsePanics(Merge(KernelTags, Parsed(r)))
                        /\ ~ParsePanics(store)
  BY <1>2, <1>3, ResponseType, MergeType, MergeCid
<1>5. /\ sent' = [pdol |-> sent'.pdol, cdol1 |-> sent'.cdol1]
      /\ TagStore(sent'.pdol) /\ TagStore(sent'.cdol1)
  BY ListValuesType DEF IInv, TypeOK
<1>6. CapabilitiesFrom(store) \in IccData
      /\ determine_transaction_path(store) \in {"none", "MChip", "MagStripe"}
  BY CapabilitiesType DEF determine_transaction_path, IInv, TypeOK
<1>7. /\ TagStore(tags') /\ ~ParsePanics(tags')
      /\ icc' \in IccData /\ path' \in {"none", "MChip", "MagStripe"}
      /\ inGpo' \in BOOLEAN
  <2>1. /\ TagStore(tags') /\ ~ParsePanics(tags')
        /\ inGpo' = inGpo \/ inGpo' = Holds(store, TAG_APPLICATION_CRYPTOGRAM)
        /\ icc' = icc \/ icc' = CapabilitiesFrom(store)
        /\ path' = path \/ path' = determine_transaction_path(store)
    BY <1>2, <1>4
  <2>2. Holds(store, TAG_APPLICATION_CRYPTOGRAM) \in BOOLEAN
    BY HoldsType
  <2> HIDE DEF store, InitiateApplication
  <2> QED
    BY <1>6, <2>1, <2>2 DEF IInv, TypeOK
<1>8. /\ phase' \in {"done", "readCardData"} /\ result' \in Results
      /\ phase' = "done" => result'.kind # "none"
      /\ phase' # "done" => result' = NoResult
  <2>1. CASE Panic("GPO") \/ Fail("GPO failed") \/ Panic("AIP")
    BY <2>1, FailureEnds DEF Reason
  <2>2. CASE Goto("readCardData")
    BY <1>1, <2>2, NoResultYet DEF Goto
  <2> QED
    BY <2>1, <2>2
<1> HIDE DEF InitiateApplication
<1>9. TypeOK'
  BY <1>1, <1>5, <1>7, <1>8 DEF IInv, TypeOK, Phases, setup
<1> QED
  BY <1>1, <1>7, <1>8, <1>9
     DEF IInv, CidKnown, Progressed, Asking, StaticDataRead, setup

(* The fields of an AFL entry; the first entry of an AFL that has one.         *)
LEMMA AflEntryType ==
    ASSUME IInv
    PROVE  /\ \A i \in 1 .. Len(afl) : afl[i].oda \in Nat /\ afl[i].records \in Nat
           /\ afl # <<>> => 1 \in 1 .. Len(afl)
<1>1. afl \in Seq(AflEntry)
  BY DEF IInv, TypeOK
<1>2. \A i \in 1 .. Len(afl) : afl[i] \in AflEntry
  BY <1>1
<1>3. afl # <<>> => Len(afl) # 0
  BY <1>1, EmptySeq
<1> QED
  BY <1>1, <1>2, <1>3 DEF AflEntry

LEMMA CursorType ==
    ASSUME IInv
    PROVE  Entry \in Nat /\ Record \in Nat /\ OdaLeft \in Nat
BY DEF IInv, TypeOK, Entry, Record, OdaLeft

LEMMA ReadCardDataInvariant ==
    ASSUME IInv, ReadCardData
    PROVE  IInv'
<1> USE DEF ReadCardData
<1>1. /\ UNCHANGED <<setup, conn, path, inGpo, readFailed, cvm, requested, card,
                     acTags, acFormat1, sent>>
      /\ phase = "readCardData"
  OBVIOUS
<1>2. data' \in Seq(Nat \X Nat)
  <2>1. data' = data \/ data' = <<>>
    OBVIOUS
  <2>2. data \in Seq(Nat \X Nat)
    BY DEF IInv, TypeOK
  <2>3. <<>> \in Seq(Nat \X Nat)
    BY EmptySeq
  <2> HIDE DEF ReadCardData
  <2> QED
    BY <2>1, <2>2, <2>3
<1>3. cursor' \in Nat \X Nat \X Nat
  <2> DEFINE first == IF afl = <<>> THEN 0 ELSE afl[1].oda
  <2>1. first \in Nat
    BY AflEntryType
  <2>2. cursor' = cursor \/ cursor' = <<1, 1, first>>
    OBVIOUS
  <2>3. cursor \in Nat \X Nat \X Nat
    BY DEF IInv, TypeOK
  <2> HIDE DEF first, ReadCardData
  <2> QED
    BY <2>1, <2>2, <2>3
<1>4. /\ phase' \in {"done", "readRecord"} \/ (phase' = "process" /\ inGpo)
      /\ result' \in Results
      /\ phase' = "done" => result'.kind # "none"
      /\ phase' # "done" => result' = NoResult
  <2>1. CASE Fail("AFL not found") \/ Fail("AFL length")
    BY <2>1, FailureEnds DEF Reason
  <2>2. CASE Goto("readRecord") \/ (Goto("process") /\ inGpo)
    BY <1>1, <2>2, NoResultYet DEF Goto
  <2> QED
    BY <2>1, <2>2
<1> HIDE DEF ReadCardData
<1>5. TypeOK'
  BY <1>1, <1>2, <1>3, <1>4 DEF IInv, TypeOK, Phases, setup, conn
<1> QED
  BY <1>1, <1>4, <1>5
     DEF IInv, CidKnown, Progressed, Asking, StaticDataRead, setup, conn

LEMMA ReadRecordInvariant ==
    ASSUME IInv, NEW r \in RecordResponses, ReadRecord(r)
    PROVE  IInv'
<1> USE DEF ReadRecord
<1>1. /\ UNCHANGED <<setup, tvr, odaDone, icc, path, inGpo, cvm, requested, card,
                     acTags, acFormat1, sent>>
      /\ phase = "readRecord"
  OBVIOUS
<1>2. TagStore(tags') /\ ~ParsePanics(tags')
  BY ResponseType, MergeType, MergeCid DEF IInv, TypeOK, CidKnown
<1>3. data' \in Seq(Nat \X Nat) /\ cursor' \in Nat \X Nat \X Nat
  <2>1. data \in Seq(Nat \X Nat) /\ cursor \in Nat \X Nat \X Nat
    BY DEF IInv, TypeOK
  <2>2. \/ data' = data /\ cursor' = cursor
        \/ data' = data /\ cursor' = <<Entry, Record + 1, OdaLeft>>
        \/ /\ OdaLeft > 0
           /\ data' = Append(data, <<Entry, Record>>)
           /\ cursor' = <<Entry, Record + 1, OdaLeft - 1>>
    OBVIOUS
  <2> HIDE DEF ReadRecord
  <2>3. <<Entry, Record>> \in Nat \X Nat
    BY CursorType
  <2>4. Append(data, <<Entry, Record>>) \in Seq(Nat \X Nat)
    BY <2>1, <2>3, AppendProperties
  <2>5. data' \in Seq(Nat \X Nat)
    BY <2>1, <2>2, <2>4
  <2>6. cursor' \in Nat \X Nat \X Nat
    BY <2>1, <2>2, CursorType
  <2> QED
    BY <2>5, <2>6
<1>4. readFailed' \in BOOLEAN
  BY DEF IInv, TypeOK
<1>5. /\ phase' \in {"done", "readRecord"} /\ result' \in Results
      /\ phase' = "done" => result'.kind # "none"
      /\ phase' # "done" => result' = NoResult
  <2>1. CASE Panic("READ RECORD")
    BY <2>1, FailureEnds DEF Reason
  <2>2. CASE UNCHANGED <<phase, result>>
    BY <1>1, <2>2, NoResultYet
  <2> QED
    BY <2>1, <2>2
<1> HIDE DEF ReadRecord
<1>6. TypeOK'
  BY <1>1, <1>2, <1>3, <1>4, <1>5 DEF IInv, TypeOK, Phases, setup
<1> QED
  BY <1>1, <1>2, <1>5, <1>6
     DEF IInv, CidKnown, Progressed, Asking, StaticDataRead, setup

LEMMA NextEntryInvariant ==
    ASSUME IInv, NextEntry
    PROVE  IInv'
<1> USE DEF NextEntry
<1>1. /\ UNCHANGED <<setup, tags, tvr, odaDone, path, inGpo, data, readFailed, cvm,
                     requested, card, acTags, acFormat1, sent>>
      /\ phase = "readRecord"
  OBVIOUS
<1>2. CASE Entry < Len(afl)
  <2>1. Entry \in Nat /\ afl[Entry + 1].oda \in Nat
    <3>1. Len(afl) \in Nat
      BY DEF IInv, TypeOK
    <3>2. Entry + 1 \in 1 .. Len(afl)
      BY <1>2, <3>1, CursorType
    <3> QED
      BY <3>2, AflEntryType, CursorType
  <2>2. cursor' \in Nat \X Nat \X Nat /\ UNCHANGED <<phase, icc, result>>
    BY <1>2, <2>1
  <2> HIDE DEF NextEntry
  <2> QED
    BY <1>1, <2>2 DEF IInv, TypeOK, CidKnown, Progressed, Asking, StaticDataRead, setup
<1>3. CASE ~(Entry < Len(afl))
  <2>1. /\ icc' = [icc EXCEPT !.data_authentication = data]
        /\ phase' = "process" /\ UNCHANGED <<result, cursor>>
    BY <1>3 DEF Goto
  <2>2. icc' \in IccData /\ icc'.data_authentication # NoData
    BY <2>1, NoDataAssumption DEF IInv, TypeOK, IccData
  <2> HIDE DEF NextEntry
  <2>3. TypeOK'
    BY <1>1, <2>1, <2>2 DEF IInv, TypeOK, Phases, setup
  <2> QED
    BY <1>1, <2>1, <2>2, <2>3
       DEF IInv, CidKnown, Progressed, Asking, StaticDataRead, setup
<1> QED
  BY <1>2, <1>3
----------------------------------------------------------------------------
(* The store that validation and CVM determination leave. *)
LEMMA CvmStoreType ==
    ASSUME IInv, NEW method
    PROVE  /\ TagStore(CvmStore(method)) /\ ~ParsePanics(CvmStore(method))
           /\ "95" \in DOMAIN CvmStore(method) /\ CvmStore(method)["95"] = ValidatedTvr
<1>1. ~ParsePanics(tags)
  BY DEF IInv, CidKnown
<1>2. /\ ~ParsePanics(ValidatedStore)
      /\ "95" \in DOMAIN ValidatedStore /\ ValidatedStore["95"] = ValidatedTvr
  <2>1. ValidatedStore = add_tag(tags, "95", ValidatedTvr)
    BY DEF ValidatedStore
  <2>2. ~ParsePanics(ValidatedStore)
    BY <1>1, <2>1, AddTagCid
  <2>3. "95" \in DOMAIN ValidatedStore /\ ValidatedStore["95"] = ValidatedTvr
    BY <2>1, AddTagValue
  <2> QED
    BY <2>2, <2>3
<1>3. TagStore(CvmStore(method)) /\ ~ParsePanics(CvmStore(method))
  BY <1>2, AddTag, AddTagCid DEF CvmStore
<1>4. "95" \in DOMAIN CvmStore(method) /\ CvmStore(method)["95"] = ValidatedStore["95"]
  BY <1>2, AddTagOther DEF CvmStore
<1> QED
  BY <1>2, <1>3, <1>4

LEMMA MagStripeInvariant ==
    ASSUME IInv, MagStripe
    PROVE  IInv'
<1> USE DEF MagStripe
<1>1. UNCHANGED <<setup, conn, kernel>> /\ phase' = "done"
  BY DEF End
<1>2. result' \in Results /\ result'.kind = "outcome"
  BY OutcomeType_ DEF End, try_another_interface, OutcomeType, CvmOutcome
<1> QED
  BY <1>1, <1>2
     DEF IInv, TypeOK, Phases, CidKnown, Progressed, Asking, StaticDataRead,
         setup, conn, kernel

LEMMA OutcomeFromGpoInvariant ==
    ASSUME IInv, OutcomeFromGpo
    PROVE  IInv'
<1> USE DEF OutcomeFromGpo
<1> DEFINE method == determine_cvm(ValidatedStore, cfg)
<1>1. UNCHANGED <<setup, odaDone, icc, path, inGpo, data, cursor, readFailed,
                  requested, acTags, acFormat1, sent>> /\ phase = "process"
  OBVIOUS
<1>2. CASE ~Holds(tags, TAG_CRYPTOGRAM_INFO_DATA)
  <2>1. /\ Fail("CID not in GPO response")
        /\ UNCHANGED <<tags, tvr, cvm, card>>
    BY <1>2
  <2>2. phase' = "done" /\ result' \in Results /\ result'.kind # "none"
    BY <2>1, FailureEnds DEF Reason
  <2> HIDE DEF OutcomeFromGpo
  <2> QED
    BY <1>1, <2>1, <2>2
       DEF IInv, TypeOK, Phases, CidKnown, Progressed, Asking, StaticDataRead, setup
<1>3. CASE Holds(tags, TAG_CRYPTOGRAM_INFO_DATA)
  <2>1. /\ tvr' = ValidatedTvr /\ tags' = CvmStore(method) /\ cvm' = method
        /\ card' = CryptogramOf(tags)
        /\ phase' = "done" /\ result' = OutcomeOf(CryptogramOf(tags), method)
    BY <1>3 DEF End
  <2>2. method \in CvmOutcome /\ CryptogramOf(tags) \in CryptogramType
    BY <1>3, DetermineCvmType, CryptogramOfType DEF IInv, CidKnown
  <2> HIDE DEF OutcomeFromGpo, method
  <2>3. result' \in Results /\ result'.kind # "none"
    BY <2>1, <2>2, OutcomeOfType
  <2>4. tvr' \subseteq TvrBit /\ TagStore(tags') /\ ~ParsePanics(tags')
    BY <2>1, CvmStoreType, ValidatedTvrType DEF IInv, TypeOK
  <2> QED
    BY <1>1, <2>1, <2>2, <2>3, <2>4
       DEF IInv, TypeOK, Phases, CidKnown, Progressed, Asking, StaticDataRead, setup
<1> QED
  BY <1>2, <1>3

LEMMA PrepareGenerateAcInvariant ==
    ASSUME IInv, PrepareGenerateAc
    PROVE  IInv'
<1> USE DEF PrepareGenerateAc
<1> DEFINE method == determine_cvm(ValidatedStore, cfg)
<1>1. /\ UNCHANGED <<setup, odaDone, icc, path, inGpo, data, cursor, readFailed,
                     card, acTags, acFormat1, sent, result>>
      /\ phase = "process" /\ ~inGpo /\ phase' = "generateAc"
      /\ tvr' = ValidatedTvr /\ tags' = CvmStore(method) /\ cvm' = method
  BY DEF Goto
<1>2. requested' \in CryptogramType
  BY PerformTaaType
<1>3. method \in CvmOutcome
  BY DetermineCvmType
<1> HIDE DEF PrepareGenerateAc, method
<1>4. tvr' \subseteq TvrBit /\ TagStore(tags') /\ ~ParsePanics(tags')
  BY <1>1, CvmStoreType, ValidatedTvrType DEF IInv, TypeOK
<1> QED
  BY <1>1, <1>2, <1>3, <1>4
     DEF IInv, TypeOK, Phases, CidKnown, Progressed, Asking, StaticDataRead, setup

LEMMA CdolFailsInvariant ==
    ASSUME IInv, CdolFails
    PROVE  IInv'
<1>1. UNCHANGED <<setup, conn, kernel>> /\ phase = "generateAc"
  BY DEF CdolFails
<1>2. phase' = "done" /\ result' \in Results /\ result'.kind # "none"
  BY FailureEnds DEF CdolFails, Reason
<1> QED
  BY <1>1, <1>2
     DEF IInv, TypeOK, Phases, CidKnown, Progressed, Asking, StaticDataRead,
         setup, conn, kernel

LEMMA GenerateAcInvariant ==
    ASSUME IInv, NEW r \in AcResponses, GenerateAc(r)
    PROVE  IInv'
<1> USE DEF GenerateAc
<1> DEFINE store == Merge(Merge(tags, Parsed(r)), Extracted(r))
<1>1. /\ UNCHANGED <<setup, tvr, odaDone, icc, path, inGpo, data, cursor,
                     readFailed, cvm, requested>>
      /\ phase = "generateAc"
  OBVIOUS
<1>2. /\ sent' = [pdol |-> sent'.pdol, cdol1 |-> sent'.cdol1]
      /\ TagStore(sent'.pdol) /\ TagStore(sent'.cdol1)
  BY ListValuesType DEF IInv, TypeOK
<1>3. TagStore(acTags') /\ acFormat1' \in BOOLEAN
  <2>1. TagStore(acTags) /\ TagStore(r.tags) /\ acFormat1 \in BOOLEAN
    BY ResponseType DEF IInv, TypeOK
  <2> QED
    BY <2>1
<1>4. TagStore(tags) /\ ~ParsePanics(tags)
  BY DEF IInv, TypeOK, CidKnown
<1>5. CASE Crashes(r)
  <2>1. /\ Panic("GENERATE AC") /\ UNCHANGED <<tags, card>>
    BY <1>5
  <2>2. phase' = "done" /\ result' \in Results /\ result'.kind # "none"
    BY <2>1, FailureEnds DEF Reason
  <2> HIDE DEF GenerateAc
  <2> QED
    BY <1>1, <1>2, <1>3, <2>1, <2>2
       DEF IInv, TypeOK, Phases, CidKnown, Progressed, Asking, StaticDataRead, setup
<1>6. CASE ~Crashes(r)
  <2>1. TagStore(Merge(tags, Parsed(r))) /\ ~ParsePanics(Merge(tags, Parsed(r)))
    BY <1>4, <1>6, ResponseType, MergeType, MergeCid
  <2>2. CASE /\ Fail("GENERATE AC failed") \/ Panic("GENERATE AC format 1")
             /\ tags' \in {tags, Merge(tags, Parsed(r))} /\ UNCHANGED card
    <3>1. phase' = "done" /\ result' \in Results /\ result'.kind # "none"
      BY <2>2, FailureEnds DEF Reason
    <3>2. TagStore(tags') /\ ~ParsePanics(tags')
      BY <1>4, <2>1, <2>2
    <3> HIDE DEF GenerateAc
    <3> QED
      BY <1>1, <1>2, <1>3, <2>2, <3>1, <3>2
         DEF IInv, TypeOK, Phases, CidKnown, Progressed, Asking, StaticDataRead, setup
  <2>3. CASE /\ ~ParsePanics(Extracted(r)) /\ tags' = store
             /\ IF Holds(store, TAG_CRYPTOGRAM_INFO_DATA)
                THEN card' = CryptogramOf(store) /\ Goto("cda")
                ELSE Fail("CID not in response") /\ UNCHANGED card
    <3> HIDE DEF GenerateAc
    <3>1. TagStore(tags') /\ ~ParsePanics(store)
      BY <2>1, <2>3, MergeType, MergeCid
    <3> HIDE DEF store
    <3>2. CASE card' = CryptogramOf(store) /\ Goto("cda")
               /\ Holds(store, TAG_CRYPTOGRAM_INFO_DATA)
      <4>1. card' \in CryptogramType
        BY <3>1, <3>2, CryptogramOfType
      <4>2. phase' = "cda" /\ UNCHANGED result
        BY <3>2 DEF Goto
      <4> QED
        BY <1>1, <1>2, <1>3, <2>3, <3>1, <4>1, <4>2
           DEF IInv, TypeOK, Phases, CidKnown, Progressed, Asking, StaticDataRead, setup
    <3>3. CASE Fail("CID not in response") /\ UNCHANGED card
      <4>1. phase' = "done" /\ result' \in Results /\ result'.kind # "none"
        BY <3>3, FailureEnds DEF Reason
      <4> QED
        BY <1>1, <1>2, <1>3, <2>3, <3>1, <3>3, <4>1
           DEF IInv, TypeOK, Phases, CidKnown, Progressed, Asking, StaticDataRead, setup
    <3> QED
      BY <2>3, <3>2, <3>3
  <2> QED
    BY <1>6, <2>2, <2>3
<1> QED
  BY <1>5, <1>6
LEMMA CdaNotDoneInvariant ==
    ASSUME IInv, CdaNotDone
    PROVE  IInv'
<1>1. /\ UNCHANGED <<setup, tags, odaDone, icc, kernel, result>>
      /\ phase = "cda" /\ phase' = "outcome"
  BY DEF CdaNotDone, Goto
<1>2. tvr' \subseteq TvrBit
  BY DEF CdaNotDone, IInv, TypeOK, TvrBit
<1> QED
  BY <1>1, <1>2
     DEF IInv, TypeOK, Phases, CidKnown, Progressed, Asking, StaticDataRead,
         setup, kernel

(* The cards' keys after the attempt to recover them.                         *)
LEMMA KeysIcc ==
    ASSUME IInv
    PROVE  /\ Keys.icc \in IccData
           /\ Keys.icc.data_authentication = icc.data_authentication
BY KeysType DEF Keys, IInv, TypeOK

LEMMA CdaInvariant ==
    ASSUME IInv, Cda
    PROVE  IInv'
<1> USE DEF Cda
<1>1. /\ UNCHANGED <<setup, kernel>> /\ phase = "cda"
      /\ icc' = Keys.icc
  OBVIOUS
<1>2. icc' \in IccData
  BY <1>1, KeysIcc
<1>3. CASE Keys.res = "panic" \/ Verification = "panic"
  <2>1. /\ Panic("public keys") \/ Panic("CDA")
        /\ UNCHANGED <<tags, tvr, odaDone>>
    BY <1>3
  <2>2. phase' = "done" /\ result' \in Results /\ result'.kind # "none"
    BY <2>1, FailureEnds DEF Reason
  <2> HIDE DEF Cda
  <2> QED
    BY <1>1, <1>2, <2>1, <2>2
       DEF IInv, TypeOK, Phases, CidKnown, Progressed, Asking, StaticDataRead,
           setup, kernel
<1>4. CASE ~(Keys.res = "panic" \/ Verification = "panic")
  <2>1. tvr' \subseteq TvrBit
    BY <1>4 DEF IInv, TypeOK, TvrBit
  <2>2. odaDone' \in BOOLEAN
    BY <1>4 DEF IInv, TypeOK
  <2>3. TagStore(tags') /\ ~ParsePanics(tags')
    <3>1. \/ tags' = tags
          \/ tags' = add_tag(tags, TAG_APPLICATION_CRYPTOGRAM, {"signed"})
      BY <1>4
    <3>2. TagStore(tags) /\ ~ParsePanics(tags)
          /\ TAG_APPLICATION_CRYPTOGRAM # "9F27"
      BY DEF IInv, TypeOK, CidKnown, TAG_APPLICATION_CRYPTOGRAM
    <3> HIDE DEF Cda
    <3>3. CASE tags' = add_tag(tags, TAG_APPLICATION_CRYPTOGRAM, {"signed"})
      BY <3>2, <3>3, AddTag, AddTagCid
    <3> QED
      BY <3>1, <3>2, <3>3
  <2>4. \/ phase' = "outcome" /\ UNCHANGED result
        \/ phase' = "done" /\ result' = declined
    BY <1>4 DEF Goto, End
  <2>5. declined \in Results /\ declined.kind = "outcome"
    BY OutcomeType_ DEF declined, OutcomeType, CvmOutcome
  <2> HIDE DEF Cda
  <2> QED
    BY <1>1, <1>2, <2>1, <2>2, <2>3, <2>4, <2>5
       DEF IInv, TypeOK, Phases, CidKnown, Progressed, Asking, StaticDataRead,
           setup, kernel
<1> QED
  BY <1>3, <1>4

LEMMA ReportOutcomeInvariant ==
    ASSUME IInv, ReportOutcome
    PROVE  IInv'
<1>1. /\ UNCHANGED <<setup, tvr, odaDone, icc, kernel>> /\ phase = "outcome"
      /\ tags' = add_tag(tags, "95", tvr)
      /\ phase' = "done" /\ result' = OutcomeOf(card, cvm)
  BY DEF ReportOutcome, End
<1>2. result' \in Results /\ result'.kind = "outcome"
  BY <1>1, OutcomeOfType DEF IInv, TypeOK, Progressed
<1>3. TagStore(tags') /\ ~ParsePanics(tags')
  BY <1>1, AddTag, AddTagCid DEF IInv, CidKnown
<1> QED
  BY <1>1, <1>2, <1>3
     DEF IInv, TypeOK, Phases, CidKnown, Progressed, Asking, StaticDataRead,
         setup, kernel

LEMMA StutterInvariant ==
    ASSUME IInv, UNCHANGED vars
    PROVE  IInv'
BY DEF IInv, TypeOK, CidKnown, Progressed, StaticDataRead, vars, setup, conn, kernel

----------------------------------------------------------------------------
(* The invariant is inductive. *)
LEMMA InvariantStep ==
    ASSUME IInv, [Next]_vars
    PROVE  IInv'
<1>1. CASE Step
  <2>1. CASE \E r \in GpoResponses : InitiateApplication(r)
    BY <2>1, InitiateApplicationInvariant
  <2>2. CASE \E r \in RecordResponses : ReadRecord(r)
    BY <2>2, ReadRecordInvariant
  <2>3. CASE \E r \in AcResponses : GenerateAc(r)
    BY <2>3, GenerateAcInvariant
  <2>4. CASE SelectKernel \/ PdolFails \/ ReadCardData \/ NextEntry
    BY <2>4, SelectKernelInvariant, PdolFailsInvariant, ReadCardDataInvariant,
       NextEntryInvariant
  <2>5. CASE MagStripe \/ OutcomeFromGpo \/ PrepareGenerateAc \/ CdolFails
    BY <2>5, MagStripeInvariant, OutcomeFromGpoInvariant,
       PrepareGenerateAcInvariant, CdolFailsInvariant
  <2>6. CASE CdaNotDone \/ Cda \/ ReportOutcome
    BY <2>6, CdaNotDoneInvariant, CdaInvariant, ReportOutcomeInvariant
  <2> QED
    BY <1>1, <2>1, <2>2, <2>3, <2>4, <2>5, <2>6 DEF Step
<1>2. CASE NextTransaction
  BY <1>2, NextTransactionInvariant
<1>3. CASE Terminated \/ UNCHANGED vars
  BY <1>3, StutterInvariant DEF Terminated
<1> QED
  BY <1>1, <1>2, <1>3 DEF Next

THEOREM Invariant == Spec => []IInv
<1>1. Init => IInv
  BY InitInvariant
<1>2. IInv /\ [Next]_vars => IInv'
  BY InvariantStep
<1> QED
  BY <1>1, <1>2, PTL DEF Spec

(* The types of the state, for every set of configurations and answers.       *)
THEOREM TypeCorrect == Spec => []TypeOK
<1>1. IInv => TypeOK
  BY DEF IInv
<1> QED
  BY <1>1, Invariant, PTL

(* Key recovery always finds the static data: read_card_data stored it, or    *)
(* the transaction ended before CDA.                                          *)
THEOREM KeyRecoverySafe == Spec => []KeyRecoveryHasStaticData
<1>1. IInv => KeyRecoveryHasStaticData
  BY DEF IInv, Progressed, StaticDataRead, KeyRecoveryHasStaticData
<1> QED
  BY <1>1, Invariant, PTL
----------------------------------------------------------------------------
(* How a step of a transaction goes on, and how it ends one.                  *)

(* The configuration, the amount and the AFL are those of the whole           *)
(* transaction; only SelectKernel leaves "selected".                          *)
LEMMA StepSetup ==
    ASSUME Step
    PROVE  /\ UNCHANGED <<txn, cfg, amount, afl>> /\ phase # "done"
           /\ phase = "selected" => SelectKernel
BY DEF Step, SelectKernel, PdolFails, InitiateApplication, ReadCardData, ReadRecord,
       NextEntry, MagStripe, OutcomeFromGpo, PrepareGenerateAc, CdolFails, GenerateAc,
       CdaNotDone, Cda, ReportOutcome, setup

Failed == phase = "done" /\ result.kind \in {"error", "panic"}

(* Failures aside, four actions end a transaction.                            *)
LEMMA HowItEnds ==
    ASSUME IInv, Step
    PROVE  \/ phase' # "done" \/ Failed'
           \/ MagStripe \/ OutcomeFromGpo \/ Cda \/ ReportOutcome
<1>1. CASE SelectKernel
  <2>1. \/ Fail("Kernel selection failed")
        \/ Fail("Contactless application not allowed")
        \/ Goto("initiate")
    BY <1>1 DEF SelectKernel
  <2> QED
    BY <2>1, FailureEnds DEF Failed, Reason, Goto
<1>2. CASE PdolFails
  BY <1>2, FailureEnds DEF PdolFails, Failed, Reason
<1>3. ASSUME NEW r \in GpoResponses, InitiateApplication(r)
      PROVE  phase' # "done" \/ Failed'
  <2>1. \/ Panic("GPO") \/ Fail("GPO failed") \/ Panic("AIP")
        \/ Goto("readCardData")
    BY <1>3 DEF InitiateApplication
  <2> QED
    BY <2>1, FailureEnds DEF Failed, Reason, Goto
<1>4. CASE ReadCardData
  <2>1. \/ Fail("AFL not found") \/ Fail("AFL length")
        \/ Goto("process") \/ Goto("readRecord")
    BY <1>4 DEF ReadCardData
  <2> QED
    BY <2>1, FailureEnds DEF Failed, Reason, Goto
<1>5. ASSUME NEW r \in RecordResponses, ReadRecord(r)
      PROVE  phase' # "done" \/ Failed'
  <2>1. phase = "readRecord" /\ (Panic("READ RECORD") \/ UNCHANGED phase)
    BY <1>5 DEF ReadRecord
  <2> QED
    BY <2>1, FailureEnds DEF Failed, Reason
<1>6. CASE NextEntry \/ PrepareGenerateAc \/ CdaNotDone
  BY <1>6 DEF NextEntry, PrepareGenerateAc, CdaNotDone, Goto
<1>7. CASE CdolFails
  BY <1>7, FailureEnds DEF CdolFails, Failed, Reason
<1>8. ASSUME NEW r \in AcResponses, GenerateAc(r)
      PROVE  phase' # "done" \/ Failed'
  <2>1. \/ Panic("GENERATE AC") \/ Fail("GENERATE AC failed")
        \/ Panic("GENERATE AC format 1") \/ Fail("CID not in response")
        \/ Goto("cda")
    BY <1>8 DEF GenerateAc
  <2> QED
    BY <2>1, FailureEnds DEF Failed, Reason, Goto
<1> QED
  BY <1>1, <1>2, <1>3, <1>4, <1>5, <1>6, <1>7, <1>8 DEF Step

----------------------------------------------------------------------------
(* An amount above the limit stops at the entry point, which reads it from    *)
(* the store.                                                                 *)
LimitInv ==
    /\ LimitRespected
    /\ phase = "selected" => get_amount(tags) = amount

LEMMA LimitStep ==
    ASSUME IInv, LimitInv, [Next]_vars
    PROVE  LimitInv'
<1> USE DEF LimitInv, LimitRespected
<1>1. CASE SelectKernel
  <2>1. /\ UNCHANGED <<cfg, amount>> /\ result = NoResult
        /\ phase' # "selected" /\ get_amount(tags) = amount
    BY <1>1, NoResultYet DEF SelectKernel, setup, Goto, Fail, End
  <2>2. CASE exceeds_transaction_limit(cfg, amount, FALSE)
    <3>1. \/ Fail("Kernel selection failed")
          \/ Fail("Contactless application not allowed")
      BY <1>1, <2>2 DEF SelectKernel, PreProcessingResult
    <3> QED
      BY <3>1, FailureEnds DEF Reason
  <2>3. CASE ~exceeds_transaction_limit(cfg, amount, FALSE)
    BY <2>1, <2>3
  <2> QED
    BY <2>2, <2>3
<1>2. CASE Step /\ ~SelectKernel
  <2>1. UNCHANGED <<cfg, amount>> /\ phase \notin {"selected", "done"}
    BY <1>2, StepSetup
  <2>2. phase' # "selected"
    BY <1>2, <2>1
       DEF Step, PdolFails, InitiateApplication, ReadCardData, ReadRecord, NextEntry,
           MagStripe, OutcomeFromGpo, PrepareGenerateAc, CdolFails, GenerateAc,
           CdaNotDone, Cda, ReportOutcome, Goto, Fail, Panic, End
  <2> QED
    BY <2>1, <2>2
<1>3. CASE NextTransaction
  <2>1. amount' \in Nat
    BY <1>3, ConfigAssumption DEF NextTransaction
  <2>2. get_amount(tags') = amount'
    BY <1>3, <2>1, PreparedAmount DEF NextTransaction
  <2> QED
    BY <1>3, <2>2 DEF NextTransaction, NoResult, WithoutOutcome
<1>4. CASE Terminated \/ UNCHANGED vars
  BY <1>4 DEF Terminated, vars, setup, conn
<1> QED
  BY <1>1, <1>2, <1>3, <1>4 DEF Next

(* No amount above the contactless limit reaches the card's kernel, whatever  *)
(* the configurations and the amounts.                                        *)
THEOREM LimitHolds == Spec => []LimitRespected
<1>1. Init => LimitInv
  <2>1. Init => phase = "selected" /\ result = NoResult
    BY DEF Init
  <2>2. NoResult.kind # "outcome"
    BY DEF NoResult, WithoutOutcome
  <2>3. Init => get_amount(tags) = amount
    BY ConfigAssumption, PreparedAmount DEF Init
  <2> QED
    BY <2>1, <2>2, <2>3 DEF LimitInv, LimitRespected
<1>2. IInv /\ LimitInv /\ [Next]_vars => LimitInv'
  BY LimitStep
<1>3. LimitInv => LimitRespected
  BY DEF LimitInv
<1> QED
  BY <1>1, <1>2, <1>3, Invariant, PTL DEF Spec

----------------------------------------------------------------------------
(* The reported TVR is the final one. *)
LEMMA ReportedTvrStep ==
    ASSUME IInv, ReportedTvrIsFinal, [Next]_vars
    PROVE  ReportedTvrIsFinal'
<1> USE DEF ReportedTvrIsFinal, GoesAhead, HasOutcome
<1>1. CASE Step
  <2>1. CASE phase' # "done" \/ Failed'
    BY <2>1 DEF Failed
  <2>2. CASE MagStripe
    BY <2>2 DEF MagStripe, End, try_another_interface, Outcome
  <2>3. CASE OutcomeFromGpo
    <3>1. CASE Holds(tags, TAG_CRYPTOGRAM_INFO_DATA)
      <4>1. tvr' = ValidatedTvr
            /\ tags' = CvmStore(determine_cvm(ValidatedStore, cfg))
        BY <2>3, <3>1 DEF OutcomeFromGpo
      <4> QED
        BY <4>1, CvmStoreType
    <3>2. CASE ~Holds(tags, TAG_CRYPTOGRAM_INFO_DATA)
      <4>1. Fail("CID not in GPO response")
        BY <2>3, <3>2 DEF OutcomeFromGpo
      <4> QED
        BY <4>1, FailureEnds DEF Reason
    <3> QED
      BY <3>1, <3>2
  <2>4. CASE Cda
    <3>1. \/ Panic("public keys") \/ Panic("CDA")
          \/ End(declined) \/ Goto("outcome")
      BY <2>4 DEF Cda
    <3>2. End(declined) => result'.what = "Declined"
      BY DEF End, declined, Outcome
    <3> QED
      BY <3>1, <3>2, FailureEnds DEF Reason, Goto
  <2>5. CASE ReportOutcome
    <3>1. tags' = add_tag(tags, "95", tvr) /\ tvr' = tvr
      BY <2>5 DEF ReportOutcome
    <3> QED
      BY <3>1, AddTagValue
  <2> QED
    BY <1>1, <2>1, <2>2, <2>3, <2>4, <2>5, HowItEnds
<1>2. CASE NextTransaction
  BY <1>2 DEF NextTransaction
<1>3. CASE Terminated \/ UNCHANGED vars
  BY <1>3 DEF Terminated, vars, conn
<1> QED
  BY <1>1, <1>2, <1>3 DEF Next

(* A transaction that goes ahead leaves the final TVR in tag 95, whatever the *)
(* card answered.                                                             *)
THEOREM ReportedTvrHolds == Spec => []ReportedTvrIsFinal
<1>1. Init => ReportedTvrIsFinal
  BY DEF Init, ReportedTvrIsFinal, GoesAhead, HasOutcome
<1>2. IInv /\ ReportedTvrIsFinal /\ [Next]_vars => ReportedTvrIsFinal'
  BY ReportedTvrStep
<1> QED
  BY <1>1, <1>2, Invariant, PTL DEF Spec
----------------------------------------------------------------------------
(* An approval rests on the card's signature. *)

SignatureVerified ==
    /\ icc.icc_pk = txn /\ odaDone
    /\ "TC" \in tags[TAG_SIGNED_DYNAMIC_APPLICATION_DATA]
    /\ {"wrong hash", "wrong signature"}
          \cap tags[TAG_SIGNED_DYNAMIC_APPLICATION_DATA] = {}
    /\ SignedDataUnchanged

(* The TVR in tag 95 unless the card's answer replaced it, and the one that   *)
(* the card was sent, are the terminal's.                                     *)
TvrSent ==
    /\ "95" \notin DOMAIN acTags => Holds(tags, "95") /\ tags["95"] = tvr
    /\ "95" \in DOMAIN sent.cdol1 => sent.cdol1["95"] = tvr

(* What is known between GENERATE AC and the outcome: the TVR is the one sent, *)
(* the stored cryptogram type is the one that will decide, and after CDA a TC *)
(* that goes on has been verified over the list that was answered.            *)
ApprovalInv ==
    /\ ApprovalRestsOnSignature
    /\ txn # 0
    /\ phase = "generateAc" => Holds(tags, "95") /\ tags["95"] = tvr
    /\ phase = "cda" => TvrSent /\ CryptogramOf(tags) = card
    /\ phase = "outcome" /\ card = "TC" /\ SignedAnswer
          => /\ SignatureVerified /\ TvrSent
             /\ DOMAIN sent.cdol1 = ValueOf(tags, TAG_CDOL1)

(* A tag that the new tags do not have stays as it was. *)
LEMMA MergeKeeps ==
    ASSUME NEW a, NEW b, NEW t, t \notin DOMAIN b
    PROVE  /\ Holds(Merge(a, b), t) = Holds(a, t)
           /\ Holds(a, t) => Merge(a, b)[t] = a[t]
           /\ ValueOf(Merge(a, b), t) = ValueOf(a, t)
<1>1. Holds(Merge(a, b), t) <=> Holds(a, t)
  BY MergeType DEF Holds
<1>2. Holds(a, t) => Merge(a, b)[t] = a[t]
  BY MergeOld DEF Holds
<1>3. Holds(Merge(a, b), t) = Holds(a, t)
  BY <1>1, HoldsType
<1> QED
  BY <1>1, <1>2, <1>3 DEF ValueOf

LEMMA AnswerKeeps ==
    ASSUME NEW s, NEW r \in GpoResponses \cup RecordResponses \cup AcResponses,
           NEW t, t \notin DOMAIN r.tags
    PROVE  LET store == Merge(Merge(s, Parsed(r)), Extracted(r))
           IN  /\ ValueOf(Merge(s, Parsed(r)), t) = ValueOf(s, t)
               /\ Holds(store, t) = Holds(s, t)
               /\ Holds(s, t) => store[t] = s[t]
               /\ ValueOf(store, t) = ValueOf(s, t)
<1> DEFINE first == Merge(s, Parsed(r))
<1>1. t \notin DOMAIN Parsed(r) /\ t \notin DOMAIN Extracted(r)
  BY NoTagsType DEF Parsed, Extracted
<1>2. /\ Holds(first, t) = Holds(s, t) /\ (Holds(s, t) => first[t] = s[t])
      /\ ValueOf(first, t) = ValueOf(s, t)
  BY <1>1, MergeKeeps
<1> HIDE DEF first
<1>3. /\ Holds(Merge(first, Extracted(r)), t) = Holds(first, t)
      /\ Holds(first, t) => Merge(first, Extracted(r))[t] = first[t]
      /\ ValueOf(Merge(first, Extracted(r)), t) = ValueOf(first, t)
  BY <1>1, MergeKeeps
<1> QED
  BY <1>2, <1>3 DEF first

(* With the chain's tags there, the key that is found is this card's or one   *)
(* that was there before.                                                     *)
LEMMA KeyFound ==
    ASSUME icc \in IccData, txn \in Nat \ {0},
           {"8F", "9F46", "9F47"} \subseteq DOMAIN tags, Keys.res = "ok"
    PROVE  Keys.icc.icc_pk # 0
<1>1. CASE icc.icc_pk # 0
  BY <1>1 DEF Keys
<1>2. CASE icc.icc_pk = 0
  <2> DEFINE withIssuer == [icc EXCEPT !.issuer_pk = txn]
             withIcc == [withIssuer EXCEPT !.icc_pk = txn, !.icc_pin_pk = txn]
  <2>1. Holds(tags, "8F") /\ Holds(tags, "9F46") /\ Holds(tags, "9F47")
    BY DEF Holds
  <2>2. /\ Keys = handle_public_keys(tags, icc, txn, SignedData)
    BY <1>2 DEF Keys
  <2>3. Keys.icc \in {withIcc, [withIcc EXCEPT !.icc_pin_pk = txn]}
    BY <2>1, <2>2 DEF handle_public_keys
  <2>4. withIcc.icc_pk = txn /\ [withIcc EXCEPT !.icc_pin_pk = txn].icc_pk = txn
    BY DEF IccData
  <2> QED
    BY <2>3, <2>4
<1> QED
  BY <1>1, <1>2

(* A verification that succeeds. *)
LEMMA VerificationOk ==
    ASSUME Verification = "ok", CryptogramOf(tags) = "TC"
    PROVE  /\ Keys.icc.icc_pk = txn
           /\ "TC" \in tags[TAG_SIGNED_DYNAMIC_APPLICATION_DATA]
           /\ {"wrong hash", "wrong signature"}
                 \cap tags[TAG_SIGNED_DYNAMIC_APPLICATION_DATA] = {}
           /\ SameData
<1> DEFINE here == ~acFormat1 /\ Holds(acTags, TAG_SIGNED_DYNAMIC_APPLICATION_DATA)
           i == Keys.icc
           same == SameData
           sdad == tags[TAG_SIGNED_DYNAMIC_APPLICATION_DATA]
<1>1. handle_application_cryptogram_card_authentication(
             tags, i, txn, {TAG_PDOL, TAG_CDOL1}, here, same) = "ok"
  BY DEF Verification
<1> HIDE DEF here, i, same
<1>2. /\ validate_signed_dynamic_application_data(tags, i, txn) = "ok"
      /\ "TC" \in sdad /\ "wrong hash" \notin sdad /\ same
  BY <1>1 DEF handle_application_cryptogram_card_authentication
<1>3. i.icc_pk = txn /\ "wrong signature" \notin sdad
  BY <1>2 DEF validate_signed_dynamic_application_data
<1> QED
  BY <1>2, <1>3 DEF i, same

LEMMA VerificationType ==
    Verification \in {"skipped", "ok", "err", "panic"}
BY DEF Verification, handle_application_cryptogram_card_authentication

(* What is left of the store when a tag is added.                             *)
LEMMA AddedTag ==
    ASSUME NEW t \in {"95", TAG_APPLICATION_CRYPTOGRAM}, NEW v,
           tags' = add_tag(tags, t, v)
    PROVE  /\ \A u \in {"8F", "9F46", "9F47", TAG_SIGNED_DYNAMIC_APPLICATION_DATA} :
                 (u \in DOMAIN tags') = (u \in DOMAIN tags)
           /\ \A u : u # t => /\ ValueOf(tags', u) = ValueOf(tags, u)
                              /\ Holds(tags, u) => Holds(tags', u) /\ tags'[u] = tags[u]
           /\ ValueOf(tags', t) = v
<1> USE DEF TAG_APPLICATION_CRYPTOGRAM
<1>1. DOMAIN tags' = DOMAIN tags \cup {t}
  BY MergeType DEF add_tag
<1>2. \A u : u # t => ValueOf(tags', u) = ValueOf(tags, u)
  BY <1>1, AddTagOther DEF ValueOf, Holds
<1>3. ValueOf(tags', t) = v
  BY AddTagValue DEF ValueOf, Holds
<1>4. \A u : u # t /\ Holds(tags, u) => Holds(tags', u) /\ tags'[u] = tags[u]
  BY <1>1, AddTagOther DEF Holds
<1> QED
  BY <1>1, <1>2, <1>3, <1>4 DEF TAG_SIGNED_DYNAMIC_APPLICATION_DATA

(* The terminal's own TVR in tag 95 leaves what was verified as it is.        *)
LEMMA VerifiedSurvives ==
    ASSUME tags' = add_tag(tags, "95", tvr),
           UNCHANGED <<icc, txn, odaDone, sent, acTags>>
    PROVE  /\ SignedAnswer' = SignedAnswer
           /\ /\ SignedAnswer /\ SignatureVerified /\ TvrSent
              /\ DOMAIN sent.cdol1 = ValueOf(tags, TAG_CDOL1)
              => SignatureVerified'
<1>1. /\ \A u \in {"8F", "9F46", "9F47", TAG_SIGNED_DYNAMIC_APPLICATION_DATA} :
            (u \in DOMAIN tags') = (u \in DOMAIN tags)
      /\ \A u : u # "95" => /\ ValueOf(tags', u) = ValueOf(tags, u)
                            /\ Holds(tags, u) => Holds(tags', u) /\ tags'[u] = tags[u]
      /\ ValueOf(tags', "95") = tvr
  BY AddedTag
<1>2. SignedAnswer' = SignedAnswer
  BY <1>1 DEF SignedAnswer, CdaAgreed
<1>3. ASSUME SignedAnswer, SignatureVerified, TvrSent,
             DOMAIN sent.cdol1 = ValueOf(tags, TAG_CDOL1)
      PROVE  SignatureVerified'
  <2>1. tags'[TAG_SIGNED_DYNAMIC_APPLICATION_DATA]
           = tags[TAG_SIGNED_DYNAMIC_APPLICATION_DATA]
    BY <1>1, <1>3 DEF SignedAnswer, Holds, TAG_SIGNED_DYNAMIC_APPLICATION_DATA
  <2>2. /\ ValueOf(tags', TAG_PDOL) = ValueOf(tags, TAG_PDOL)
        /\ ValueOf(tags', TAG_CDOL1) = ValueOf(tags, TAG_CDOL1)
    BY <1>1 DEF TAG_PDOL, TAG_CDOL1
  <2>3. "95" \notin DOMAIN acTags => ValueOf(tags', "95") = ValueOf(tags, "95")
    BY <1>1, <1>3 DEF TvrSent, ValueOf
  <2>4. "95" \in ValueOf(tags, TAG_CDOL1) => sent.cdol1["95"] = ValueOf(tags', "95")
    BY <1>1, <1>3 DEF TvrSent
  <2>5. SignedDataUnchanged'
    BY <1>1, <1>3, <2>2, <2>3, <2>4 DEF SignatureVerified, SignedDataUnchanged
  <2> QED
    BY <1>3, <2>1, <2>5 DEF SignatureVerified
<1> QED
  BY <1>2, <1>3

LEMMA KeysResult ==
    ASSUME NEW s, NEW i, NEW n, NEW signed
    PROVE  handle_public_keys(s, i, n, signed).res \in {"ok", "err", "panic"}
<1>1. get_issuer_public_key(s) \in {"ok", "err", "panic"}
  <2>1. CASE ~Holds(s, "9F32") \/ ~Holds(s, "90") \/ "unreadable" \in ValueOf(s, "90")
    BY <2>1 DEF get_issuer_public_key, ValueOf
  <2>2. CASE Holds(s, "9F32") /\ Holds(s, "90") /\ "unreadable" \notin ValueOf(s, "90")
    BY <2>2 DEF get_issuer_public_key, ValueOf
  <2> QED
    BY <2>1, <2>2
<1>2. \A c : get_icc_public_key(s, c, signed) \in {"ok", "err", "panic"}
  BY DEF get_icc_public_key
<1> QED
  BY <1>1, <1>2 DEF handle_public_keys

(* Without a failed CDA, a TC that goes on to its outcome is verified.        *)
LEMMA CdaApproves ==
    ASSUME IInv, ApprovalInv, Cda, phase' = "outcome", card' = "TC", SignedAnswer'
    PROVE  /\ SignatureVerified' /\ TvrSent'
           /\ DOMAIN sent'.cdol1 = ValueOf(tags', TAG_CDOL1)
<1>1. /\ phase = "cda" /\ icc' = Keys.icc /\ UNCHANGED <<txn, sent, acTags, card, cfg>>
      /\ ~(Keys.res = "panic" \/ Verification = "panic")
      /\ tvr' = IF Keys.res = "err" \/ Verification = "err"
                THEN tvr \cup {"cda_failed"} ELSE tvr
      /\ odaDone' = (odaDone \/ Verification \in {"ok", "err"})
      /\ tags' = IF Verification = "ok"
                 THEN add_tag(tags, TAG_APPLICATION_CRYPTOGRAM, {"signed"})
                 ELSE tags
      /\ "cda_failed" \notin tvr'
  BY DEF Cda, Panic, End, setup, kernel
<1>types. icc \in IccData /\ txn \in Nat \ {0} /\ card = "TC" /\ CryptogramOf(tags) = "TC"
          /\ TvrSent
  BY <1>1 DEF IInv, TypeOK, ApprovalInv
<1>2. Keys.res # "err" /\ Verification # "err" /\ tvr' = tvr
  BY <1>1
<1>3. Keys.res = "ok"
  <2>1. Keys.res \in {"ok", "err", "panic"}
    BY KeysResult DEF Keys
  <2> QED
    BY <1>1, <1>2, <2>1
<1>4. {"8F", "9F46", "9F47", TAG_SIGNED_DYNAMIC_APPLICATION_DATA} \subseteq DOMAIN tags
      /\ acTags # NoTags
  <2>1. {"8F", "9F46", "9F47", TAG_SIGNED_DYNAMIC_APPLICATION_DATA}
           \subseteq DOMAIN tags' /\ acTags # NoTags
    BY <1>1 DEF SignedAnswer
  <2>2. DOMAIN tags' \subseteq DOMAIN tags \cup {TAG_APPLICATION_CRYPTOGRAM}
    BY <1>1, MergeType DEF add_tag
  <2> QED
    BY <2>1, <2>2 DEF TAG_APPLICATION_CRYPTOGRAM, TAG_SIGNED_DYNAMIC_APPLICATION_DATA
<1>5. Verification = "ok"
  <2>1. Keys.icc.icc_pk # 0
    BY <1>3, <1>4, <1>types, KeyFound
  <2>2. Verification # "skipped"
    <3>1. handle_application_cryptogram_card_authentication(
             tags, Keys.icc, txn, {TAG_PDOL, TAG_CDOL1},
             ~acFormat1 /\ Holds(acTags, TAG_SIGNED_DYNAMIC_APPLICATION_DATA), SameData)
             # "skipped"
      BY DEF handle_application_cryptogram_card_authentication
    <3> QED
      BY <1>4, <2>1, <3>1 DEF Verification
  <2> QED
    BY <1>1, <1>2, <2>2, VerificationType
<1>6. tags' = add_tag(tags, TAG_APPLICATION_CRYPTOGRAM, {"signed"}) /\ odaDone'
  BY <1>1, <1>5
<1>7. /\ Keys.icc.icc_pk = txn
      /\ "TC" \in tags[TAG_SIGNED_DYNAMIC_APPLICATION_DATA]
      /\ {"wrong hash", "wrong signature"}
            \cap tags[TAG_SIGNED_DYNAMIC_APPLICATION_DATA] = {}
      /\ SameData
  BY <1>5, <1>types, VerificationOk
<1>8. /\ \A u : u # TAG_APPLICATION_CRYPTOGRAM => ValueOf(tags', u) = ValueOf(tags, u)
      /\ Holds(tags, "95") => Holds(tags', "95") /\ tags'["95"] = tags["95"]
  BY <1>6, AddedTag DEF TAG_APPLICATION_CRYPTOGRAM
<1>9. tags'[TAG_SIGNED_DYNAMIC_APPLICATION_DATA]
         = tags[TAG_SIGNED_DYNAMIC_APPLICATION_DATA]
  BY <1>4, <1>6, AddTagOther
     DEF TAG_SIGNED_DYNAMIC_APPLICATION_DATA, TAG_APPLICATION_CRYPTOGRAM
<1>10. SignedDataUnchanged'
  <2>1. /\ ValueOf(tags', TAG_PDOL) = ValueOf(tags, TAG_PDOL)
        /\ ValueOf(tags', TAG_CDOL1) = ValueOf(tags, TAG_CDOL1)
    BY <1>8 DEF TAG_PDOL, TAG_CDOL1, TAG_APPLICATION_CRYPTOGRAM
  <2>2. /\ sent.pdol = get_tag_list_tag_values(tags, ValueOf(tags, TAG_PDOL))
        /\ sent.cdol1 = get_tag_list_tag_values(tags, ValueOf(tags, TAG_CDOL1))
        /\ sent' = sent
    BY <1>1, <1>7 DEF SameData
  <2> QED
    BY <1>8, <2>1, <2>2 DEF SignedDataUnchanged, get_tag_list_tag_values
<1>11. TvrSent'
  BY <1>1, <1>2, <1>8, <1>types DEF TvrSent
<1>12. DOMAIN sent'.cdol1 = ValueOf(tags', TAG_CDOL1)
  <2>1. sent.cdol1 = get_tag_list_tag_values(tags, ValueOf(tags, TAG_CDOL1))
    BY <1>7 DEF SameData
  <2>2. DOMAIN sent.cdol1 = ValueOf(tags, TAG_CDOL1)
    BY <2>1 DEF get_tag_list_tag_values
  <2> QED
    BY <1>1, <1>8, <2>2 DEF TAG_CDOL1, TAG_APPLICATION_CRYPTOGRAM
<1> QED
  BY <1>1, <1>2, <1>6, <1>7, <1>9, <1>10, <1>11, <1>12 DEF SignatureVerified

LEMMA ApprovalStep ==
    ASSUME IInv, ApprovalInv, [Next]_vars
    PROVE  ApprovalInv'
<1> USE DEF HasOutcome
<1>txn. txn \in Nat /\ txn # 0
  BY DEF IInv, TypeOK, ApprovalInv
<1>1. CASE NextTransaction
  <2>1. phase' = "selected" /\ txn' # 0
    BY <1>1, <1>txn DEF NextTransaction
  <2> QED
    BY <2>1 DEF ApprovalInv, ApprovalRestsOnSignature
<1>2. CASE Terminated \/ UNCHANGED vars
  BY <1>2 DEF Terminated, vars, setup, conn, kernel, ApprovalInv,
              ApprovalRestsOnSignature, SignatureVerified, SignedAnswer, CdaAgreed,
              SignedDataUnchanged, TvrSent
<1>3. CASE PrepareGenerateAc
  <2>1. /\ phase' = "generateAc" /\ UNCHANGED txn /\ tvr' = ValidatedTvr
        /\ tags' = CvmStore(determine_cvm(ValidatedStore, cfg))
    BY <1>3 DEF PrepareGenerateAc, Goto, setup
  <2> QED
    BY <2>1, <1>txn, CvmStoreType DEF ApprovalInv, ApprovalRestsOnSignature, Holds
<1>4. CASE \E r \in AcResponses : GenerateAc(r)
  <2>1. PICK r \in AcResponses : GenerateAc(r)
    BY <1>4
  <2> DEFINE store == Merge(Merge(tags, Parsed(r)), Extracted(r))
  <2>2. /\ phase = "generateAc" /\ UNCHANGED <<txn, tvr>>
        /\ \/ Panic("GENERATE AC") \/ Fail("GENERATE AC failed")
           \/ Panic("GENERATE AC format 1") \/ Fail("CID not in response")
           \/ /\ Goto("cda") /\ tags' = store /\ card' = CryptogramOf(store)
              /\ acTags' = r.tags
    BY <2>1 DEF GenerateAc, setup
  <2>sent. sent'.cdol1 = get_tag_list_tag_values(tags, tags[TAG_CDOL1])
    <3>1. sent' = [sent EXCEPT !.cdol1 = get_tag_list_tag_values(tags, tags[TAG_CDOL1])]
      BY <2>1 DEF GenerateAc
    <3>2. sent = [pdol |-> sent.pdol, cdol1 |-> sent.cdol1]
      BY DEF IInv, TypeOK
    <3> QED
      BY <3>1, <3>2
  <2>3. /\ "95" \notin DOMAIN r.tags => Holds(store, "95") /\ store["95"] = tvr
        /\ "95" \in DOMAIN sent'.cdol1 => sent'.cdol1["95"] = tvr
    <3>1. Holds(tags, "95") /\ tags["95"] = tvr
      BY <2>2 DEF ApprovalInv
    <3>2. "95" \notin DOMAIN r.tags => Holds(store, "95") /\ store["95"] = tvr
      BY <3>1, AnswerKeeps
    <3>3. "95" \in DOMAIN sent'.cdol1 => sent'.cdol1["95"] = tvr
      BY <2>sent, <3>1 DEF get_tag_list_tag_values, ValueOf
    <3> QED
      BY <3>2, <3>3
  <2> HIDE DEF store
  <2>4. CASE phase' # "cda"
    <3>1. Failed'
      BY <2>2, <2>4, FailureEnds DEF Failed, Reason, Goto
    <3> QED
      BY <3>1, <2>2, <1>txn DEF Failed, ApprovalInv, ApprovalRestsOnSignature
  <2>5. CASE phase' = "cda"
    BY <2>2, <2>3, <2>5, <1>txn, FailureEnds
       DEF Goto, ApprovalInv, ApprovalRestsOnSignature, Reason, TvrSent
  <2> QED
    BY <2>4, <2>5
<1>5. CASE CdaNotDone
  <2>1. /\ phase' = "outcome" /\ UNCHANGED <<txn, tags, icc, acTags, sent, odaDone>>
        /\ ~CdaAgreed \/ ~Holds(tags, TAG_SIGNED_DYNAMIC_APPLICATION_DATA)
    BY <1>5 DEF CdaNotDone, Goto, setup, kernel
  <2>2. ~SignedAnswer'
    BY <2>1 DEF SignedAnswer, CdaAgreed, Holds
  <2> QED
    BY <2>1, <2>2, <1>txn DEF ApprovalInv, ApprovalRestsOnSignature
<1>6. CASE Cda
  <2>1. UNCHANGED txn
        /\ \/ Panic("public keys") \/ Panic("CDA") \/ End(declined) \/ Goto("outcome")
    BY <1>6 DEF Cda, setup
  <2>2. CASE phase' = "outcome"
    BY <1>6, <2>1, <2>2, <1>txn, CdaApproves DEF ApprovalInv, ApprovalRestsOnSignature
  <2>3. CASE phase' # "outcome"
    <3>1. Failed' \/ End(declined)
      BY <2>1, <2>3, FailureEnds DEF Reason, Failed, Goto
    <3>2. phase' = "done" /\ (result'.kind \in {"error", "panic"}
                              \/ result'.what = "Declined")
      BY <3>1 DEF Failed, End, declined, Outcome
    <3> QED
      BY <3>1, <3>2, <2>1, <1>txn DEF ApprovalInv, ApprovalRestsOnSignature
  <2> QED
    BY <2>2, <2>3
<1>7. CASE ReportOutcome
  <2>1. /\ phase = "outcome" /\ phase' = "done" /\ result' = OutcomeOf(card, cvm)
        /\ tags' = add_tag(tags, "95", tvr)
        /\ UNCHANGED <<txn, icc, odaDone, sent, acTags, card>>
    BY <1>7 DEF ReportOutcome, End, setup, kernel
  <2>2. card \in CryptogramType /\ cvm \in CvmOutcome
    BY <2>1 DEF IInv, Progressed, TypeOK
  <2>3. result'.what = "Approved" => card = "TC"
    BY <2>1, <2>2, OutcomeOfType DEF CryptogramType
  <2>4. ASSUME result'.what = "Approved", SignedAnswer'
        PROVE  SignatureVerified'
    <3>1. SignedAnswer' = SignedAnswer
      BY <2>1, VerifiedSurvives
    <3>2. /\ SignatureVerified /\ TvrSent
          /\ DOMAIN sent.cdol1 = ValueOf(tags, TAG_CDOL1)
      BY <2>1, <2>3, <2>4, <3>1 DEF ApprovalInv
    <3> QED
      BY <2>1, <2>4, <3>1, <3>2, VerifiedSurvives
  <2> QED
    BY <2>1, <2>4, <1>txn
       DEF ApprovalInv, ApprovalRestsOnSignature, SignatureVerified
<1>8. CASE OutcomeFromGpo
  <2>1. /\ UNCHANGED <<txn, inGpo>> /\ inGpo /\ phase' = "done"
    BY <1>8 DEF OutcomeFromGpo, Fail, End, setup
  <2> QED
    BY <2>1, <1>txn DEF ApprovalInv, ApprovalRestsOnSignature
<1>9. CASE MagStripe
  BY <1>9, <1>txn DEF MagStripe, End, try_another_interface, Outcome, setup,
                      ApprovalInv, ApprovalRestsOnSignature
<1>10. CASE CdolFails
  <2>1. UNCHANGED txn /\ (Panic("CDOL1") \/ Fail("CDOL1"))
    BY <1>10 DEF CdolFails, setup
  <2> QED
    BY <2>1, <1>txn, FailureEnds DEF Reason, ApprovalInv, ApprovalRestsOnSignature
<1>11. CASE \/ SelectKernel \/ PdolFails \/ ReadCardData \/ NextEntry
            \/ \E r \in GpoResponses : InitiateApplication(r)
            \/ \E r \in RecordResponses : ReadRecord(r)
  <2>1. UNCHANGED txn /\ phase \in {"selected", "initiate", "readCardData", "readRecord"}
    BY <1>11 DEF SelectKernel, PdolFails, InitiateApplication, ReadCardData,
                 ReadRecord, NextEntry, setup
  <2>2. phase' \notin {"generateAc", "cda", "outcome"}
    BY <1>11, <2>1 DEF SelectKernel, PdolFails, InitiateApplication, ReadCardData,
                       ReadRecord, NextEntry, Goto, Fail, Panic, End
  <2>3. phase' # "done" \/ Failed'
    <3>1. Step
      BY <1>11 DEF Step
    <3>2. ~MagStripe /\ ~OutcomeFromGpo /\ ~Cda /\ ~ReportOutcome
      BY <2>1 DEF MagStripe, OutcomeFromGpo, Cda, ReportOutcome
    <3> QED
      BY <3>1, <3>2, HowItEnds
  <2> QED
    BY <2>1, <2>2, <2>3, <1>txn DEF Failed, ApprovalInv, ApprovalRestsOnSignature
<1> QED
  BY <1>1, <1>2, <1>3, <1>4, <1>5, <1>6, <1>7, <1>8, <1>9, <1>10, <1>11
     DEF Next, Step

(* For every card and terminal: an offline approval after a GENERATE AC that  *)
(* the card signed rests on that signature (state_machine.rs:262-312).        *)
THEOREM ApprovalsRestOnSignatures == Spec => []ApprovalRestsOnSignature
<1>1. Init => ApprovalInv
  BY DEF Init, ApprovalInv, ApprovalRestsOnSignature, HasOutcome
<1>2. IInv /\ ApprovalInv /\ [Next]_vars => ApprovalInv'
  BY ApprovalStep
<1>3. ApprovalInv => ApprovalRestsOnSignature
  BY DEF ApprovalInv
<1> QED
  BY <1>1, <1>2, <1>3, Invariant, PTL DEF Spec

----------------------------------------------------------------------------
(* The decision: what the terminal judged by does not change between the      *)
(* action analysis and the outcome.                                           *)

(* What the action analysis reads of the store, and what the cardholder       *)
(* verification reads of it.                                                  *)
AnalysisTags == {"9F02", "9F0D", "9F0E", "9F0F"}
CvmTags == {"9F02", TAG_CTQ, TAG_TTQ}

SameOn(T, s, u) ==
    \A t \in T : Holds(u, t) = Holds(s, t) /\ ValueOf(u, t) = ValueOf(s, t)

LEMMA SameAmount ==
    ASSUME NEW s, NEW u, ValueOf(u, "9F02") = ValueOf(s, "9F02")
    PROVE  get_amount(u) = get_amount(s)
<1> DEFINE Amount(v) == IF IsNumber(v) THEN CHOOSE n \in v : TRUE ELSE 0
<1>1. \A x : get_amount(x) = Amount(ValueOf(x, "9F02"))
  BY DEF get_amount, TAG_AMOUNT_AUTHORISED
<1> HIDE DEF Amount
<1> QED
  BY <1>1

(* Stores that agree on these tags lead to the same cryptogram ...            *)
LEMMA SameAnalysis ==
    ASSUME NEW s, NEW u, SameOn(AnalysisTags, s, u), NEW bits, NEW conf
    PROVE  perform_taa(bits, conf, u) = perform_taa(bits, conf, s)
<1>1. \A t \in AnalysisTags :
        /\ Holds(u, t) = Holds(s, t)
        /\ Holds(s, t) => u[t] = s[t]
  BY DEF SameOn, ValueOf
<1>2. \A t \in {"9F0D", "9F0F"} : IssuerActionCode(u, t) = IssuerActionCode(s, t)
  BY <1>1 DEF IssuerActionCode, AnalysisTags
<1>3. Denied(bits, conf, u) <=> Denied(bits, conf, s)
  <2>1. Holds(u, "9F0E") = Holds(s, "9F0E") /\ (Holds(s, "9F0E") => u["9F0E"] = s["9F0E"])
    BY <1>1 DEF AnalysisTags
  <2> QED
    BY <2>1 DEF Denied
<1>4. GoesOnline(bits, conf, u) <=> GoesOnline(bits, conf, s)
  <2>1. get_amount(u) = get_amount(s)
    BY SameAmount DEF SameOn, AnalysisTags
  <2> QED
    BY <1>2, <2>1 DEF GoesOnline
<1> QED
  BY <1>3, <1>4 DEF perform_taa

(* ... and to the same cardholder verification.                               *)
LEMMA SameCvm ==
    ASSUME NEW s, NEW u, SameOn(CvmTags, s, u), NEW conf
    PROVE  determine_cvm(u, conf) = determine_cvm(s, conf)
<1>1. \A t \in {TAG_CTQ, TAG_TTQ} :
        Holds(u, t) = Holds(s, t) /\ (Holds(s, t) => u[t] = s[t])
  BY DEF SameOn, ValueOf, CvmTags
<1>2. TtqOf(u) = TtqOf(s)
  BY <1>1 DEF TtqOf
<1>3. get_amount(u) = get_amount(s)
  BY SameAmount DEF SameOn, CvmTags
<1> QED
  BY <1>1, <1>2, <1>3 DEF determine_cvm

(* A tag that neither rests on is added.                                      *)
LEMMA AddedKeeps ==
    ASSUME NEW s, NEW t \in {"95", "9F34", TAG_APPLICATION_CRYPTOGRAM}, NEW v
    PROVE  /\ SameOn(AnalysisTags, s, add_tag(s, t, v))
           /\ SameOn(CvmTags, s, add_tag(s, t, v))
<1>1. DOMAIN add_tag(s, t, v) = DOMAIN s \cup {t}
  BY MergeType DEF add_tag
<1>2. \A u \in AnalysisTags \cup CvmTags : u # t
  BY DEF AnalysisTags, CvmTags, TAG_CTQ, TAG_TTQ, TAG_APPLICATION_CRYPTOGRAM
<1>3. \A u \in AnalysisTags \cup CvmTags : Holds(add_tag(s, t, v), u) = Holds(s, u)
  BY <1>1, <1>2 DEF Holds
<1>4. \A u \in AnalysisTags \cup CvmTags : Holds(s, u) => add_tag(s, t, v)[u] = s[u]
  BY <1>2, AddTagOther DEF Holds
<1> QED
  BY <1>3, <1>4 DEF SameOn, ValueOf

(* The answer to GENERATE AC leaves alone what it does not replace.           *)
LEMMA AnswerSame ==
    ASSUME NEW s, NEW r \in AcResponses, NEW T, T \cap DOMAIN r.tags = {}
    PROVE  SameOn(T, s, Merge(Merge(s, Parsed(r)), Extracted(r)))
BY AnswerKeeps DEF SameOn

(* The cryptogram was asked for by this TVR, which the card was sent.         *)
Judged(bits) ==
    /\ DecisionKept => requested = perform_taa(bits, cfg, tags)
    /\ "95" \in DOMAIN sent.cdol1 => sent.cdol1["95"] = bits

(* The method is the one determined, reported and sent.                       *)
CvmKept == {"9F02", "9F34", TAG_CTQ, TAG_TTQ} \cap DOMAIN acTags = {}

CvmDecided ==
    /\ cvm = determine_cvm(tags, cfg)
    /\ Holds(tags, "9F34") /\ tags["9F34"] = build_cvm_results(cvm)

CvmSent == "9F34" \in DOMAIN sent.cdol1 => sent.cdol1["9F34"] = tags["9F34"]

NotPerformed == "offline_data_authentication_was_not_performed"

(* From the action analysis to the outcome: what the answer to GENERATE AC    *)
(* does not replace of the decision stands, what the card was sent is what    *)
(* was decided by, and a TC that goes on has no bit that was not judged but   *)
(* the one for a CDA that was not done.                                       *)
DecisionInv ==
    /\ phase = "generateAc" =>
          /\ requested = perform_taa(tvr, cfg, tags) /\ CvmDecided
          /\ Holds(tags, "95") /\ tags["95"] = tvr
    /\ phase = "cda" => Judged(tvr)
    /\ phase = "outcome" =>
          \E bits : Judged(bits) /\ (card = "TC" => tvr \ {NotPerformed} \subseteq bits)
    /\ phase \in {"cda", "outcome"} /\ CvmKept => CvmDecided /\ CvmSent
    /\ phase \in {"cda", "outcome"} /\ CardObeys /\ card = "TC" => requested = "TC"
    /\ CardSeesJudgedTvr
    /\ CvmConsistent
    /\ CardObeys => OfflineApprovalJustified

(* A transaction that has failed promises nothing about its outcome; before   *)
(* GENERATE AC was answered there is nothing to compare.                      *)
LEMMA DecisionLeft ==
    ASSUME card' = "none",
           phase' \in Asking \/ Failed' \/ (phase' = "done" /\ result'.what = "TryAnotherInterface")
    PROVE  DecisionInv'
BY DEF DecisionInv, CardSeesJudgedTvr, AfterGenerateAc, CvmConsistent, GoesAhead,
       OfflineApprovalJustified, HasOutcome, Failed, Asking

LEMMA SameOnTrans ==
    ASSUME NEW T, NEW a, NEW b, NEW c, SameOn(T, a, b), SameOn(T, b, c)
    PROVE  SameOn(T, a, c)
BY DEF SameOn

LEMMA CvmStoreDecision ==
    ASSUME NEW method
    PROVE  /\ SameOn(AnalysisTags, tags, CvmStore(method))
           /\ SameOn(CvmTags, ValidatedStore, CvmStore(method))
           /\ Holds(CvmStore(method), "95") /\ CvmStore(method)["95"] = ValidatedTvr
           /\ Holds(CvmStore(method), "9F34")
           /\ CvmStore(method)["9F34"] = build_cvm_results(method)
<1>1. SameOn(AnalysisTags, tags, ValidatedStore)
  BY AddedKeeps DEF ValidatedStore
<1>2. /\ SameOn(AnalysisTags, ValidatedStore, CvmStore(method))
      /\ SameOn(CvmTags, ValidatedStore, CvmStore(method))
  BY AddedKeeps DEF CvmStore
<1>3. SameOn(AnalysisTags, tags, CvmStore(method))
  BY <1>1, <1>2, SameOnTrans
<1>4. Holds(ValidatedStore, "95") /\ ValidatedStore["95"] = ValidatedTvr
  BY AddTagValue DEF ValidatedStore, Holds
<1>5. Holds(CvmStore(method), "95") /\ CvmStore(method)["95"] = ValidatedTvr
  BY <1>4, AddTagOther DEF CvmStore, Holds
<1>6. Holds(CvmStore(method), "9F34") /\ CvmStore(method)["9F34"] = build_cvm_results(method)
  BY AddTagValue DEF CvmStore, Holds
<1> QED
  BY <1>2, <1>3, <1>5, <1>6

LEMMA PrepareDecision ==
    ASSUME IInv, PrepareGenerateAc
    PROVE  DecisionInv'
<1> DEFINE method == determine_cvm(ValidatedStore, cfg)
<1>1. /\ phase' = "generateAc" /\ tvr' = ValidatedTvr /\ tags' = CvmStore(method)
      /\ cvm' = method /\ requested' = perform_taa(ValidatedTvr, cfg, tags)
      /\ UNCHANGED <<cfg, card>> /\ card = "none"
  BY DEF PrepareGenerateAc, Goto, setup, IInv, Progressed, Asking
<1>2. /\ perform_taa(ValidatedTvr, cfg, CvmStore(method))
           = perform_taa(ValidatedTvr, cfg, tags)
      /\ determine_cvm(CvmStore(method), cfg) = method
  BY CvmStoreDecision, SameAnalysis, SameCvm
<1>3. /\ Holds(tags', "95") /\ tags'["95"] = ValidatedTvr /\ Holds(tags', "9F34")
      /\ tags'["9F34"] = build_cvm_results(method)
  BY <1>1, CvmStoreDecision
<1> HIDE DEF method
<1>4. requested' = perform_taa(tvr', cfg', tags') /\ CvmDecided'
  BY <1>1, <1>2, <1>3 DEF CvmDecided
<1> QED
  BY <1>1, <1>3, <1>4
     DEF DecisionInv, CardSeesJudgedTvr, AfterGenerateAc, CvmConsistent, GoesAhead,
         OfflineApprovalJustified, HasOutcome

(* An outcome that goes ahead has the method that was determined.             *)
LEMMA OutcomeCvm ==
    ASSUME NEW c \in CryptogramType, NEW method \in CvmOutcome
    PROVE  OutcomeOf(c, method).what \in {"Approved", "OnlineRequest"}
               => OutcomeOf(c, method).cvm = method
BY DEF OutcomeOf, approved, online_request, declined, Outcome, CryptogramType

LEMMA GpoDecision ==
    ASSUME IInv, OutcomeFromGpo
    PROVE  DecisionInv'
<1> DEFINE method == determine_cvm(ValidatedStore, cfg)
<1>1. /\ phase' = "done" /\ inGpo' /\ UNCHANGED cfg
      /\ \/ Fail("CID not in GPO response")
         \/ /\ tags' = CvmStore(method) /\ result' = OutcomeOf(CryptogramOf(tags), method)
            /\ Holds(tags, TAG_CRYPTOGRAM_INFO_DATA)
  BY DEF OutcomeFromGpo, Fail, End, setup
<1>2. CASE Fail("CID not in GPO response")
  <2>1. result'.kind \in {"error", "panic"}
    BY <1>2, FailureEnds DEF Reason
  <2> QED
    BY <1>1, <2>1 DEF DecisionInv, CardSeesJudgedTvr, AfterGenerateAc, CvmConsistent,
                      GoesAhead, OfflineApprovalJustified, HasOutcome
<1>3. CASE /\ tags' = CvmStore(method) /\ result' = OutcomeOf(CryptogramOf(tags), method)
           /\ Holds(tags, TAG_CRYPTOGRAM_INFO_DATA)
  <2>1. determine_cvm(tags', cfg) = method /\ tags'["9F34"] = build_cvm_results(method)
    BY <1>3, CvmStoreDecision, SameCvm
  <2>2. CryptogramOf(tags) \in CryptogramType /\ method \in CvmOutcome
    BY <1>3, CryptogramOfType, DetermineCvmType DEF IInv, CidKnown
  <2>3. result'.what \in {"Approved", "OnlineRequest"} => result'.cvm = method
    <3> HIDE DEF method
    <3> QED
      BY <1>3, <2>2, OutcomeCvm
  <2> HIDE DEF method
  <2> QED
    BY <1>1, <2>1, <2>3
       DEF DecisionInv, CardSeesJudgedTvr, AfterGenerateAc, CvmConsistent,
           GoesAhead, OfflineApprovalJustified, HasOutcome
<1> QED
  BY <1>1, <1>2, <1>3

(* The cryptogram type that an obedient card's accepted answer leaves.        *)
LEMMA ObedientAnswer ==
    ASSUME IInv, NEW r \in AcResponses, phase = "generateAc",
           Obedient(r), r.ok, r.body \in {"format1", "template"}, ~Crashes(r),
           ~ParsePanics(Extracted(r)),
           Holds(Merge(Merge(tags, Parsed(r)), Extracted(r)), TAG_CRYPTOGRAM_INFO_DATA),
           CryptogramOf(Merge(Merge(tags, Parsed(r)), Extracted(r))) = "TC"
    PROVE  requested = "TC"
<1> DEFINE store == Merge(Merge(tags, Parsed(r)), Extracted(r))
<1>0. ~ParsePanics(store)
  BY MergeCid, ResponseType DEF IInv, CidKnown
<1>1. PICK c \in CryptogramType :
         /\ ValueOf(r.tags, TAG_CRYPTOGRAM_INFO_DATA) = {c}
         /\ CryptogramRank[c] <= CryptogramRank[requested]
  BY DEF Obedient
<1>2. TAG_CRYPTOGRAM_INFO_DATA \in DOMAIN r.tags
      /\ r.tags[TAG_CRYPTOGRAM_INFO_DATA] = {c}
  BY <1>1 DEF ValueOf, Holds
<1>3. store[TAG_CRYPTOGRAM_INFO_DATA] = {c}
  <2>1. CASE r.body = "format1"
    <3>1. Extracted(r) = r.tags
      BY <2>1 DEF Extracted
    <3> QED
      BY <1>2, <3>1, MergeNew
  <2>2. CASE r.body = "template"
    <3>1. Parsed(r) = r.tags /\ Extracted(r) = NoTags
      BY <2>2 DEF Parsed, Extracted
    <3>2. Merge(tags, Parsed(r))[TAG_CRYPTOGRAM_INFO_DATA] = {c}
          /\ TAG_CRYPTOGRAM_INFO_DATA \in DOMAIN Merge(tags, Parsed(r))
      <4> HIDE DEF store
      <4>1. Merge(tags, r.tags)[TAG_CRYPTOGRAM_INFO_DATA]
               = r.tags[TAG_CRYPTOGRAM_INFO_DATA]
        BY <1>2, MergeNew
      <4>2. DOMAIN Merge(tags, r.tags) = DOMAIN tags \cup DOMAIN r.tags
        BY MergeType
      <4> QED
        BY <1>2, <3>1, <4>1, <4>2
    <3> QED
      BY <3>1, <3>2, MergeOld, NoTagsType
  <2> QED
    BY <2>1, <2>2
<1> HIDE DEF store
<1>4. {CryptogramOf(store)} = {c}
  BY <1>0, <1>3, CryptogramOfType DEF store
<1>5. c = "TC" /\ requested \in CryptogramType
  BY <1>4 DEF IInv, Progressed, store
<1>6. /\ CryptogramRank["TC"] = 2 /\ CryptogramRank["AAC"] = 0
      /\ CryptogramRank["ARQC"] = 1
  BY DEF CryptogramRank, CryptogramType
<1> QED
  BY <1>1, <1>5, <1>6 DEF CryptogramType

LEMMA GenerateAcDecision ==
    ASSUME IInv, DecisionInv, NEW r \in AcResponses, GenerateAc(r)
    PROVE  DecisionInv'
<1> DEFINE store == Merge(Merge(tags, Parsed(r)), Extracted(r))
<1>1. /\ phase = "generateAc" /\ card = "none"
      /\ UNCHANGED <<cfg, tvr, cvm, requested, inGpo>>
      /\ CardObeys => Obedient(r)
      /\ sent'.cdol1 = get_tag_list_tag_values(tags, tags[TAG_CDOL1])
      /\ \/ /\ \/ Panic("GENERATE AC") \/ Fail("GENERATE AC failed")
               \/ Panic("GENERATE AC format 1") \/ Fail("CID not in response")
            /\ UNCHANGED card
         \/ /\ Goto("cda") /\ tags' = store /\ card' = CryptogramOf(store) /\ r.ok
            /\ acTags' = r.tags /\ r.body \in {"format1", "template"}
            /\ Holds(store, TAG_CRYPTOGRAM_INFO_DATA) /\ ~ParsePanics(Extracted(r))
            /\ ~Crashes(r)
  <2>1. phase = "generateAc"
    BY DEF GenerateAc
  <2>2. card = "none" /\ sent = [pdol |-> sent.pdol, cdol1 |-> sent.cdol1]
    BY <2>1 DEF IInv, Progressed, TypeOK
  <2> QED
    BY <2>1, <2>2 DEF GenerateAc, setup
<1>2. CASE UNCHANGED card /\ phase' # "cda"
  <2>1. Failed'
    BY <1>1, <1>2, FailureEnds DEF Failed, Reason, Goto
  <2> QED
    BY <1>1, <1>2, <2>1, DecisionLeft
<1>3. CASE /\ Goto("cda") /\ tags' = store /\ card' = CryptogramOf(store) /\ r.ok
           /\ acTags' = r.tags /\ r.body \in {"format1", "template"}
           /\ Holds(store, TAG_CRYPTOGRAM_INFO_DATA) /\ ~ParsePanics(Extracted(r))
           /\ ~Crashes(r)
  <2>1. ASSUME CardObeys, card' = "TC"
        PROVE  requested' = "TC"
    BY <1>1, <1>3, <2>1, ObedientAnswer
  <2>2. DecisionKept' => SameOn(AnalysisTags, tags, store)
    BY <1>3, AnswerSame DEF DecisionKept, AnalysisTags
  <2>3. CvmKept' => SameOn(CvmTags \cup {"9F34"}, tags, store)
    BY <1>3, AnswerSame DEF CvmKept, CvmTags
  <2> HIDE DEF store
  <2>4. /\ requested = perform_taa(tvr, cfg, tags) /\ CvmDecided
        /\ Holds(tags, "95") /\ tags["95"] = tvr
    BY <1>1 DEF DecisionInv
  <2>5. phase' = "cda"
    BY <1>3 DEF Goto
  <2>6. Judged(tvr)'
    <3>1. "95" \in DOMAIN sent'.cdol1 => sent'.cdol1["95"] = tvr
      BY <1>1, <2>4 DEF get_tag_list_tag_values, ValueOf
    <3>2. DecisionKept' => perform_taa(tvr, cfg, store) = perform_taa(tvr, cfg, tags)
      BY <2>2, SameAnalysis
    <3> QED
      BY <1>1, <1>3, <2>4, <3>1, <3>2 DEF Judged
  <2>7. ASSUME CvmKept'
        PROVE  CvmDecided' /\ CvmSent'
    <3>1. Holds(store, "9F34") /\ store["9F34"] = tags["9F34"]
      BY <2>3, <2>4, <2>7 DEF SameOn, CvmDecided, ValueOf
    <3>2. SameOn(CvmTags, tags, store)
      BY <2>3, <2>7 DEF SameOn
    <3>3. determine_cvm(store, cfg) = determine_cvm(tags, cfg)
      BY <3>2, SameCvm
    <3>4. CvmDecided'
      BY <1>1, <1>3, <2>4, <3>1, <3>3 DEF CvmDecided
    <3>5. CvmSent'
      BY <1>1, <1>3, <2>4, <3>1
         DEF CvmSent, CvmDecided, get_tag_list_tag_values, ValueOf
    <3> QED
      BY <3>4, <3>5
  <2>8. CardSeesJudgedTvr'
    BY <2>6 DEF CardSeesJudgedTvr, Judged
  <2> QED
    BY <2>1, <2>5, <2>6, <2>7, <2>8
       DEF DecisionInv, CvmConsistent, GoesAhead, OfflineApprovalJustified, HasOutcome
<1> HIDE DEF store
<1> QED
  BY <1>1, <1>2, <1>3, FailureEnds DEF Reason

(* What adding a tag that no decision rests on leaves of them.                *)
LEMMA DecisionAdded ==
    ASSUME NEW t \in {"95", TAG_APPLICATION_CRYPTOGRAM}, NEW v,
           tags' = add_tag(tags, t, v),
           UNCHANGED <<cfg, cvm, requested, sent, acTags>>
    PROVE  /\ \A bits : Judged(bits) => Judged(bits)'
           /\ CvmKept' = CvmKept
           /\ CvmDecided => CvmDecided'
           /\ CvmDecided /\ CvmSent => CvmSent'
           /\ \A bits : perform_taa(bits, cfg, tags') = perform_taa(bits, cfg, tags)
<1>1. SameOn(AnalysisTags, tags, tags') /\ SameOn(CvmTags, tags, tags')
  BY AddedKeeps
<1>2. /\ \A bits : perform_taa(bits, cfg, tags') = perform_taa(bits, cfg, tags)
      /\ determine_cvm(tags', cfg) = determine_cvm(tags, cfg)
  BY <1>1, SameAnalysis, SameCvm
<1>3. Holds(tags, "9F34") => Holds(tags', "9F34") /\ tags'["9F34"] = tags["9F34"]
  BY AddTagOther DEF Holds, TAG_APPLICATION_CRYPTOGRAM
<1>4. \A bits : Judged(bits) => Judged(bits)'
  BY <1>2 DEF Judged, DecisionKept
<1>5. CvmKept' = CvmKept
  BY DEF CvmKept
<1>6. CvmDecided => CvmDecided'
  BY <1>2, <1>3 DEF CvmDecided
<1>7. CvmDecided /\ CvmSent => CvmSent'
  BY <1>3 DEF CvmDecided, CvmSent
<1> QED
  BY <1>2, <1>4, <1>5, <1>6, <1>7

(* Cda and CdaNotDone add no tag of the decision; a TC goes on only without a *)
(* failed CDA.                                                                *)
LEMMA CdaDecision ==
    ASSUME IInv, DecisionInv, Cda \/ CdaNotDone
    PROVE  DecisionInv'
<1>1. /\ phase = "cda" /\ UNCHANGED <<cfg, kernel>>
      /\ tags' = tags \/ tags' = add_tag(tags, TAG_APPLICATION_CRYPTOGRAM, {"signed"})
      /\ \/ /\ \/ Panic("public keys") \/ Panic("CDA")
               \/ End(declined)
         \/ /\ Goto("outcome") /\ tvr' \subseteq tvr \cup {"cda_failed", NotPerformed}
            /\ card = "TC" => tvr' \subseteq tvr \cup {NotPerformed}
  <2>1. CASE CdaNotDone
    BY <2>1 DEF CdaNotDone, setup, NotPerformed
  <2>2. CASE Cda
    BY <2>2 DEF Cda, setup
  <2> QED
    BY <2>1, <2>2
<1>2. Judged(tvr) /\ (CvmKept => CvmDecided /\ CvmSent)
  BY <1>1 DEF DecisionInv
<1>3. /\ \A bits : Judged(bits) => Judged(bits)'
      /\ CvmKept' => CvmDecided' /\ CvmSent'
  <2>1. CASE tags' = tags
    <3>1. UNCHANGED <<cfg, tags, cvm, requested, sent, acTags>>
      BY <1>1, <2>1 DEF kernel
    <3> QED
      BY <1>2, <3>1 DEF Judged, DecisionKept, CvmKept, CvmDecided, CvmSent
  <2>2. CASE tags' = add_tag(tags, TAG_APPLICATION_CRYPTOGRAM, {"signed"})
    <3>1. UNCHANGED <<cfg, cvm, requested, sent, acTags>>
      BY <1>1 DEF kernel
    <3> QED
      BY <1>2, <2>2, <3>1, DecisionAdded
  <2> QED
    BY <1>1, <2>1, <2>2
<1>4. PICK judged : judged = tvr /\ Judged(judged)'
  BY <1>2, <1>3
<1>5. CardSeesJudgedTvr'
  BY <1>4 DEF CardSeesJudgedTvr, Judged
<1>6. CASE phase' = "done"
  <2>1. result'.kind \in {"error", "panic"} \/ result'.what = "Declined"
    <3>1. Panic("public keys") \/ Panic("CDA") \/ End(declined)
      BY <1>1, <1>6 DEF Goto
    <3>2. End(declined) => result'.what = "Declined"
      BY DEF End, declined, Outcome
    <3> QED
      BY <3>1, <3>2, FailureEnds DEF Reason
  <2> QED
    BY <1>5, <1>6, <2>1
       DEF DecisionInv, CvmConsistent, GoesAhead, OfflineApprovalJustified, HasOutcome
<1>7. CASE phase' = "outcome"
  <2>1. card' = card
    BY <1>1 DEF kernel
  <2>2. \E bits : Judged(bits)' /\ (card' = "TC" => tvr' \ {NotPerformed} \subseteq bits)
    <3>1. card = "TC" => tvr' \subseteq tvr \cup {NotPerformed}
      BY <1>1, <1>7, FailureEnds DEF Reason, End
    <3>2. Judged(judged)' /\ (card' = "TC" => tvr' \ {NotPerformed} \subseteq judged)
      BY <1>4, <2>1, <3>1
    <3> QED
      BY <3>2
  <2>3. CardObeys /\ card' = "TC" => requested' = "TC"
    BY <1>1 DEF DecisionInv, kernel
  <2> QED
    BY <1>3, <1>5, <1>7, <2>2, <2>3
       DEF DecisionInv, CvmConsistent, GoesAhead, OfflineApprovalJustified, HasOutcome
<1> QED
  BY <1>1, <1>6, <1>7, FailureEnds DEF Reason, End, Goto

(* A TC that was asked for is justified by what the analysis judged.          *)
LEMMA ApprovalJudged ==
    ASSUME IInv, NEW bits, NEW s, perform_taa(bits, cfg, s) = "TC"
    PROVE  /\ ~cfg.force_online /\ get_amount(s) <= cfg.floor_limit
           /\ bits \cap (cfg.tac_denial \cup cfg.tac_online \cup cfg.tac_default) = {}
           /\ \A t \in {"9F0D", "9F0E", "9F0F"} : Holds(s, t) => bits \cap s[t] = {}
<1>1. ~cfg.force_online /\ ~Denied(bits, cfg, s) /\ ~GoesOnline(bits, cfg, s)
  BY DEF perform_taa
<1>2. cfg \in McAidConfig /\ get_amount(s) \in Nat
  BY AmountType DEF IInv, TypeOK
<1>3. get_amount(s) <= cfg.floor_limit
  BY <1>1, <1>2 DEF GoesOnline, floor_limit_exceeded, McAidConfig
<1>4. bits \cap (cfg.tac_denial \cup cfg.tac_online \cup cfg.tac_default) = {}
  BY <1>1 DEF Denied, GoesOnline, bitwise_match
<1>5. \A t \in {"9F0D", "9F0E", "9F0F"} : Holds(s, t) => bits \cap s[t] = {}
  BY <1>1 DEF Denied, GoesOnline, bitwise_match, IssuerActionCode
<1> QED
  BY <1>1, <1>3, <1>4, <1>5

LEMMA ReportDecision ==
    ASSUME IInv, DecisionInv, ReportOutcome
    PROVE  DecisionInv'
<1>1. /\ phase = "outcome" /\ phase' = "done" /\ result' = OutcomeOf(card, cvm)
      /\ tags' = add_tag(tags, "95", tvr)
      /\ UNCHANGED <<cfg, tvr, card, cvm, requested, sent, acTags, inGpo>>
  BY DEF ReportOutcome, End, setup, kernel
<1>2. /\ card \in CryptogramType /\ cvm \in CvmOutcome
      /\ CvmKept => CvmDecided /\ CvmSent
      /\ CardObeys /\ card = "TC" => requested = "TC"
  BY <1>1 DEF DecisionInv, IInv, Progressed, TypeOK
<1>3. PICK bits : Judged(bits) /\ (card = "TC" => tvr \ {NotPerformed} \subseteq bits)
  BY <1>1 DEF DecisionInv
<1>4. /\ Judged(bits)' /\ CvmKept' = CvmKept
      /\ CvmDecided => CvmDecided'
      /\ CvmDecided /\ CvmSent => CvmSent'
  BY <1>1, <1>3, DecisionAdded
<1>5. CardSeesJudgedTvr'
  BY <1>4 DEF CardSeesJudgedTvr, Judged
<1>6. CvmConsistent'
  <2>1. result'.what \in {"Approved", "OnlineRequest"} => result'.cvm = cvm
    BY <1>1, <1>2, OutcomeCvm
  <2>2. CvmKept' => CvmDecided' /\ CvmSent'
    BY <1>2, <1>4
  <2> QED
    BY <1>1, <2>1, <2>2
       DEF CvmConsistent, GoesAhead, HasOutcome, CvmKept, CvmDecided, CvmSent
<1>7. ASSUME CardObeys, HasOutcome("Approved")', DecisionKept'
      PROVE  OfflineApprovalJustified'
  <2>1. card = "TC"
    BY <1>1, <1>2, <1>7, OutcomeOfType DEF HasOutcome, CryptogramType
  <2>2. perform_taa(bits, cfg, tags') = "TC"
    BY <1>1, <1>2, <1>4, <1>7, <2>1 DEF Judged
  <2> DEFINE judged == tags'["95"] \ {NotPerformed}
  <2>3. judged \subseteq bits
    BY <1>1, <1>3, <2>1, AddTagValue
  <2>4. /\ ~cfg.force_online /\ get_amount(tags') <= cfg.floor_limit
        /\ judged \cap (cfg.tac_denial \cup cfg.tac_online \cup cfg.tac_default) = {}
        /\ \A t \in {"9F0D", "9F0E", "9F0F"} : Holds(tags', t) => judged \cap tags'[t] = {}
    <3> HIDE DEF judged
    <3>1. /\ ~cfg.force_online /\ get_amount(tags') <= cfg.floor_limit
          /\ bits \cap (cfg.tac_denial \cup cfg.tac_online \cup cfg.tac_default) = {}
          /\ \A t \in {"9F0D", "9F0E", "9F0F"} : Holds(tags', t) => bits \cap tags'[t] = {}
      BY <2>2, ApprovalJudged
    <3> QED
      BY <2>3, <3>1
  <2> QED
    BY <1>1, <2>4 DEF OfflineApprovalJustified, NotPerformed
<1> QED
  BY <1>1, <1>5, <1>6, <1>7 DEF DecisionInv, OfflineApprovalJustified, HasOutcome

LEMMA DecisionStep ==
    ASSUME IInv, DecisionInv, [Next]_vars
    PROVE  DecisionInv'
<1>1. CASE NextTransaction
  BY <1>1, DecisionLeft DEF NextTransaction, Asking
<1>2. CASE Terminated \/ UNCHANGED vars
  BY <1>2 DEF Terminated, vars, setup, conn, kernel, DecisionInv, Judged, DecisionKept,
              CvmKept, CvmDecided, CvmSent, CardSeesJudgedTvr, AfterGenerateAc,
              CvmConsistent, GoesAhead, OfflineApprovalJustified, HasOutcome
<1>3. CASE PrepareGenerateAc \/ OutcomeFromGpo
  BY <1>3, PrepareDecision, GpoDecision
<1>4. CASE \E r \in AcResponses : GenerateAc(r)
  BY <1>4, GenerateAcDecision
<1>5. CASE Cda \/ CdaNotDone
  BY <1>5, CdaDecision
<1>6. CASE ReportOutcome
  BY <1>6, ReportDecision
<1>7. CASE MagStripe
  BY <1>7, DecisionLeft
     DEF MagStripe, End, try_another_interface, Outcome, kernel, IInv, Progressed, Asking
<1>8. CASE CdolFails
  <2>1. card' = "none" /\ (Panic("CDOL1") \/ Fail("CDOL1"))
    BY <1>8 DEF CdolFails, kernel, IInv, Progressed
  <2> QED
    BY <2>1, FailureEnds, DecisionLeft DEF Failed, Reason
<1>9. CASE \/ SelectKernel \/ PdolFails \/ ReadCardData \/ NextEntry
           \/ \E r \in GpoResponses : InitiateApplication(r)
           \/ \E r \in RecordResponses : ReadRecord(r)
  <2>1. /\ phase \in {"selected", "initiate", "readCardData", "readRecord"}
        /\ UNCHANGED card
    BY <1>9 DEF SelectKernel, PdolFails, InitiateApplication, ReadCardData,
                ReadRecord, NextEntry, kernel
  <2>2. card' = "none"
    BY <2>1 DEF IInv, Progressed, Asking
  <2>3. phase' \in Asking \cup {"done"}
    BY <1>9, <2>1 DEF SelectKernel, PdolFails, InitiateApplication, ReadCardData,
                      ReadRecord, NextEntry, Goto, Fail, Panic, End, Asking
  <2>4. phase' # "done" \/ Failed'
    <3>1. Step
      BY <1>9 DEF Step
    <3>2. ~MagStripe /\ ~OutcomeFromGpo /\ ~Cda /\ ~ReportOutcome
      BY <2>1 DEF MagStripe, OutcomeFromGpo, Cda, ReportOutcome
    <3> QED
      BY <3>1, <3>2, HowItEnds
  <2> QED
    BY <2>2, <2>3, <2>4, DecisionLeft
<1> QED
  BY <1>1, <1>2, <1>3, <1>4, <1>5, <1>6, <1>7, <1>8, <1>9 DEF Next, Step

(* The invariant of the decision, for all values of the constants.            *)
THEOREM Decisions == Spec => []DecisionInv
<1>1. Init => DecisionInv
  BY DEF Init, KernelNew, DecisionInv, CardSeesJudgedTvr, AfterGenerateAc, CvmConsistent,
         GoesAhead, OfflineApprovalJustified, HasOutcome
<1>2. IInv /\ DecisionInv /\ [Next]_vars => DecisionInv'
  BY DecisionStep
<1> QED
  BY <1>1, <1>2, Invariant, PTL DEF Spec

(* For every card and every configuration the card is sent the TVR that the   *)
(* terminal judged by (state_machine.rs:154 and 258, taa.rs).                 *)
THEOREM SentTvrIsJudged == Spec => []CardSeesJudgedTvr
<1>1. DecisionInv => CardSeesJudgedTvr
  BY DEF DecisionInv
<1> QED
  BY <1>1, Decisions, PTL

(* The verification that is reported to the issuer, the one the card signs    *)
(* and the one of the outcome are the same (cvm.rs, state_machine.rs:253).    *)
THEOREM OutcomeCvmIsReported == Spec => []CvmConsistent
<1>1. DecisionInv => CvmConsistent
  BY DEF DecisionInv
<1> QED
  BY <1>1, Decisions, PTL

(* With a card that answers no higher than it is asked, every approval is one *)
(* that the action codes and the floor limit allow (taa.rs:26-120).           *)
THEOREM ApprovalsAreJustified ==
    ASSUME CardObeys PROVE Spec => []OfflineApprovalJustified
<1>1. DecisionInv => OfflineApprovalJustified
  BY CardObeys DEF DecisionInv
<1> QED
  BY <1>1, Decisions, PTL

----------------------------------------------------------------------------
(* The static data. *)

BeforeReading == {"selected", "initiate", "readCardData"}
AfterReading == {"process", "generateAc", "cda", "outcome"}

(* What has been read for the static data: nothing before the loop; in it,    *)
(* the records up to the cursor; after it, what icc keeps.  Only a            *)
(* transaction with a cryptogram in the GPO answer gets past it without.      *)
CountRespected ==
    \A x \in DOMAIN afl : Cardinality(OfEntry(data, x)) <= afl[x].oda

Collecting ==
    /\ InOrder(data, afl, Entry, Record) /\ WithinCount(data, afl, Entry, OdaLeft)
    /\ ~readFailed => Complete(data, afl, Entry, Record, OdaLeft)

Collected ==
    \/ phase = "process" /\ inGpo /\ ~Holds(tags, TAG_AFL)
    \/ /\ icc.data_authentication = data
       /\ ~readFailed => AreSigned(data, afl)

StaticDataInv ==
    /\ CountRespected
    /\ phase \in BeforeReading => data = <<>> /\ ~readFailed
    /\ phase = "readRecord" => Collecting
    /\ phase \in AfterReading => Collected

LEMMA NothingCollected ==
    ASSUME IInv, data = <<>>
    PROVE  CountRespected
<1>1. afl \in Seq(AflEntry)
  BY DEF IInv, TypeOK
<1>2. ASSUME NEW x \in DOMAIN afl
      PROVE  Cardinality(OfEntry(data, x)) <= afl[x].oda
  <2>1. OfEntry(data, x) = {}
    BY DEF OfEntry
  <2>2. afl[x].oda \in Nat
    BY <1>1, AflFields
  <2>3. Cardinality(OfEntry(data, x)) = 0
    BY <2>1, FS_EmptySet
  <2> QED
    BY <2>2, <2>3
<1> QED
  BY <1>2 DEF CountRespected

LEMMA ReadCardDataStatic ==
    ASSUME IInv, StaticDataInv, ReadCardData
    PROVE  StaticDataInv'
<1>1. /\ UNCHANGED <<afl, tags, inGpo, readFailed>> /\ phase = "readCardData"
      /\ \/ Fail("AFL not found") /\ UNCHANGED data
         \/ Fail("AFL length") /\ UNCHANGED data
         \/ Goto("process") /\ inGpo /\ ~Holds(tags, TAG_AFL) /\ UNCHANGED data
         \/ /\ Goto("readRecord") /\ data' = <<>>
            /\ cursor' = <<1, 1, IF afl = <<>> THEN 0 ELSE afl[1].oda>>
  BY DEF ReadCardData, setup, conn
<1>2. data = <<>> /\ data' = <<>> /\ ~readFailed'
  BY <1>1 DEF StaticDataInv, BeforeReading
<1>3. CountRespected'
  BY <1>1, <1>2 DEF CountRespected, StaticDataInv
<1>4. CASE Goto("readRecord")
  <2>1. cursor' = <<1, 1, IF afl = <<>> THEN 0 ELSE afl[1].oda>> /\ phase' = "readRecord"
    BY <1>1, <1>4 DEF Goto, Fail, End
  <2>2. afl' = afl /\ afl \in Seq(AflEntry)
    BY <1>1 DEF IInv, TypeOK
  <2>3. Collecting'
    BY <1>2, <2>1, <2>2, CollectNone DEF Collecting, Entry, Record, OdaLeft
  <2> QED
    BY <1>3, <2>1, <2>3 DEF StaticDataInv, BeforeReading, AfterReading
<1>5. CASE ~Goto("readRecord")
  <2>1. phase' = "done" \/ (phase' = "process" /\ Collected')
    BY <1>1, <1>5, FailureEnds DEF Goto, Reason, Collected
  <2> QED
    BY <1>3, <2>1 DEF StaticDataInv, BeforeReading, AfterReading
<1> QED
  BY <1>4, <1>5

LEMMA ReadRecordStatic ==
    ASSUME IInv, StaticDataInv, NEW r \in RecordResponses, ReadRecord(r)
    PROVE  StaticDataInv'
<1> DEFINE read == r.ok /\ r.body = "template"
<1>1. /\ afl' = afl /\ phase = "readRecord" /\ Entry <= Len(afl)
      /\ Record <= afl[Entry].records
      /\ \/ Panic("READ RECORD") /\ UNCHANGED data
         \/ /\ UNCHANGED phase /\ readFailed' = (readFailed \/ ~read)
            /\ data' = IF read /\ OdaLeft > 0
                       THEN Append(data, <<Entry, Record>>) ELSE data
            /\ cursor' = <<Entry, Record + 1,
                           IF read /\ OdaLeft > 0 THEN OdaLeft - 1 ELSE OdaLeft>>
  BY DEF ReadRecord, setup
<1>bool. readFailed \in BOOLEAN /\ read \in BOOLEAN
  BY ResponseType DEF IInv, TypeOK
<1> HIDE DEF read
<1>2. /\ afl \in Seq(AflEntry) /\ OdaLeft \in Nat
      /\ InOrder(data, afl, Entry, Record) /\ WithinCount(data, afl, Entry, OdaLeft)
      /\ ~readFailed => Complete(data, afl, Entry, Record, OdaLeft)
  BY <1>1, CursorType DEF StaticDataInv, Collecting, IInv, TypeOK
<1>3. Entry \in DOMAIN afl
  <2>1. DOMAIN afl = 1 .. Len(afl) /\ Len(afl) \in Nat
    BY <1>2, AflFields
  <2>2. Entry \in Nat \ {0}
    BY <1>2 DEF InOrder
  <2>3. Entry <= Len(afl)
    BY <1>1
  <2> QED
    BY <2>1, <2>2, <2>3
<1>4. CASE Panic("READ RECORD") /\ UNCHANGED data
  BY <1>1, <1>4, FailureEnds
     DEF Reason, StaticDataInv, CountRespected, BeforeReading, AfterReading
<1>5. CASE UNCHANGED phase /\ ~(Panic("READ RECORD") /\ UNCHANGED data)
  <2>1. CASE read /\ OdaLeft > 0
    <3>1. /\ data' = Append(data, <<Entry, Record>>)
          /\ Entry' = Entry /\ Record' = Record + 1 /\ OdaLeft' = OdaLeft - 1
          /\ readFailed' = readFailed
      <4>1. cursor' = <<Entry, Record + 1, OdaLeft - 1>>
        BY <1>1, <1>5, <2>1
      <4>2. Entry' = Entry /\ Record' = Record + 1 /\ OdaLeft' = OdaLeft - 1
        BY <4>1 DEF Entry, Record, OdaLeft
      <4> QED
        BY <1>1, <1>5, <1>bool, <2>1, <4>2
    <3>2. /\ InOrder(data', afl, Entry', Record')
          /\ WithinCount(data', afl, Entry', OdaLeft')
          /\ ~readFailed' => Complete(data', afl, Entry', Record', OdaLeft')
      BY <1>1, <1>2, <1>3, <2>1, <3>1, CollectRecord
    <3> QED
      BY <1>1, <1>5, <3>2
         DEF StaticDataInv, Collecting, WithinCount, CountRespected, BeforeReading,
             AfterReading
  <2>2. CASE ~(read /\ OdaLeft > 0)
    <3>1. /\ data' = data /\ Entry' = Entry /\ Record' = Record + 1
          /\ OdaLeft' = OdaLeft
          /\ ~readFailed' => ~readFailed /\ OdaLeft = 0
      <4>1. cursor' = <<Entry, Record + 1, OdaLeft>>
        BY <1>1, <1>5, <2>2
      <4>2. Entry' = Entry /\ Record' = Record + 1 /\ OdaLeft' = OdaLeft
        BY <4>1 DEF Entry, Record, OdaLeft
      <4>3. ~readFailed' => ~readFailed /\ OdaLeft = 0
        <5>1. readFailed' = (readFailed \/ ~read)
          BY <1>1, <1>5
        <5>2. ~(OdaLeft > 0) => OdaLeft = 0
          BY <1>2
        <5> QED
          BY <2>2, <5>1, <5>2, Zenon
      <4> QED
        BY <1>1, <1>5, <2>2, <4>2, <4>3
    <3>2. /\ InOrder(data, afl, Entry, Record + 1)
          /\ ~readFailed' => Complete(data, afl, Entry, Record + 1, OdaLeft)
      BY <1>1, <1>2, <1>3, <3>1, CollectPast
    <3>3. Collecting'
      BY <1>1, <1>2, <3>1, <3>2 DEF Collecting
    <3> QED
      BY <1>1, <1>5, <3>1, <3>3
         DEF StaticDataInv, CountRespected, BeforeReading, AfterReading
  <2> QED
    BY <2>1, <2>2
<1> QED
  BY <1>1, <1>4, <1>5

LEMMA NextEntryStatic ==
    ASSUME IInv, StaticDataInv, NextEntry
    PROVE  StaticDataInv'
<1>1. /\ UNCHANGED <<afl, data, readFailed, tags, inGpo>> /\ phase = "readRecord"
      /\ Entry <= Len(afl) => Record > afl[Entry].records
  BY DEF NextEntry, setup
<1>2. /\ afl \in Seq(AflEntry) /\ icc \in IccData /\ CountRespected'
      /\ InOrder(data, afl, Entry, Record) /\ WithinCount(data, afl, Entry, OdaLeft)
      /\ ~readFailed => Complete(data, afl, Entry, Record, OdaLeft)
  BY <1>1 DEF StaticDataInv, Collecting, CountRespected, IInv, TypeOK
<1>3. Entry \in DOMAIN afl => Entry <= Len(afl)
  BY <1>2, AflFields
<1>4. CASE Entry < Len(afl)
  <2>1. cursor' = <<Entry + 1, 1, afl[Entry + 1].oda>> /\ UNCHANGED phase
    BY <1>4 DEF NextEntry
  <2>2. Entry \in DOMAIN afl
    BY <1>2, <1>4, AflFields DEF InOrder
  <2>3. Entry' = Entry + 1 /\ Record' = 1 /\ OdaLeft' = afl[Entry + 1].oda
    BY <2>1 DEF Entry, Record, OdaLeft
  <2>4. /\ InOrder(data, afl, Entry + 1, 1)
        /\ WithinCount(data, afl, Entry + 1, afl[Entry + 1].oda)
        /\ ~readFailed => Complete(data, afl, Entry + 1, 1, afl[Entry + 1].oda)
    BY <1>1, <1>2, <1>3, <1>4, <2>2, CollectEntry
  <2>5. Collecting'
    BY <1>1, <2>3, <2>4 DEF Collecting
  <2> QED
    BY <1>1, <1>2, <2>1, <2>5 DEF StaticDataInv, BeforeReading, AfterReading
<1>5. CASE ~(Entry < Len(afl))
  <2>1. icc' = [icc EXCEPT !.data_authentication = data] /\ phase' = "process"
    BY <1>5 DEF NextEntry, Goto
  <2>2. icc'.data_authentication = data
    BY <1>2, <2>1 DEF IccData
  <2>3. ~readFailed => AreSigned(data, afl)
    BY <1>1, <1>2, <1>3, <1>5, CollectAll
  <2> QED
    BY <1>1, <1>2, <2>1, <2>2, <2>3
       DEF StaticDataInv, Collected, BeforeReading, AfterReading
<1> QED
  BY <1>4, <1>5

LEMMA StaticDataStep ==
    ASSUME IInv, StaticDataInv, [Next]_vars
    PROVE  StaticDataInv'
<1>1. CASE NextTransaction
  <2>1. data' = <<>> /\ ~readFailed' /\ phase' = "selected"
    BY <1>1 DEF NextTransaction
  <2>2. IInv'
    BY <1>1, NextTransactionInvariant
  <2>3. CountRespected'
    <3>1. afl' \in Seq(AflEntry)
      BY <2>2 DEF IInv, TypeOK
    <3>2. ASSUME NEW x \in DOMAIN afl'
          PROVE  Cardinality(OfEntry(data', x)) <= afl'[x].oda
      <4>1. OfEntry(data', x) = {}
        BY <2>1 DEF OfEntry
      <4>2. afl'[x].oda \in Nat
        BY <3>1, AflFields
      <4>3. Cardinality(OfEntry(data', x)) = 0
        BY <4>1, FS_EmptySet
      <4> QED
        BY <4>2, <4>3
    <3> QED
      BY <3>2 DEF CountRespected
  <2> QED
    BY <2>1, <2>3 DEF StaticDataInv, BeforeReading, AfterReading
<1>2. CASE Terminated \/ UNCHANGED vars
  BY <1>2 DEF Terminated, vars, setup, conn, kernel, StaticDataInv, CountRespected,
              Collecting, Collected, Entry, Record, OdaLeft, BeforeReading, AfterReading
<1>3. CASE SelectKernel \/ PdolFails \/ \E r \in GpoResponses : InitiateApplication(r)
  <2>1. /\ UNCHANGED <<afl, data, readFailed>>
        /\ phase \in BeforeReading /\ phase' \in BeforeReading \cup {"done"}
    BY <1>3 DEF SelectKernel, PdolFails, InitiateApplication, setup, kernel, Fail, Panic,
                End, Goto, BeforeReading
  <2> QED
    BY <2>1 DEF StaticDataInv, CountRespected, BeforeReading, AfterReading
<1>4. CASE ReadCardData
  BY <1>4, ReadCardDataStatic
<1>5. CASE \E r \in RecordResponses : ReadRecord(r)
  BY <1>5, ReadRecordStatic
<1>6. CASE NextEntry
  BY <1>6, NextEntryStatic
<1>7. CASE MagStripe \/ OutcomeFromGpo \/ CdolFails \/ ReportOutcome
  <2>1. UNCHANGED <<afl, data>> /\ phase' = "done"
    BY <1>7 DEF MagStripe, OutcomeFromGpo, CdolFails, ReportOutcome, setup, kernel,
                Fail, Panic, End
  <2> QED
    BY <2>1 DEF StaticDataInv, CountRespected, BeforeReading, AfterReading
<1>8. CASE \/ PrepareGenerateAc \/ \E r \in AcResponses : GenerateAc(r)
           \/ CdaNotDone \/ Cda
  <2>1. /\ UNCHANGED <<afl, data, readFailed, inGpo>> /\ ~inGpo
        /\ phase \in AfterReading
        /\ phase' \in AfterReading \cup {"done"}
    BY <1>8 DEF PrepareGenerateAc, GenerateAc, CdaNotDone, Cda, setup, kernel, Fail,
                Panic, End, Goto, AfterReading, IInv, Progressed
  <2>2. icc'.data_authentication = icc.data_authentication
    <3>1. icc' = icc \/ icc' = Keys.icc
      BY <1>8 DEF PrepareGenerateAc, GenerateAc, CdaNotDone, Cda
    <3> QED
      BY <3>1, KeysIcc
  <2> QED
    BY <2>1, <2>2 DEF StaticDataInv, CountRespected, Collected, BeforeReading, AfterReading
<1> QED
  BY <1>1, <1>2, <1>3, <1>4, <1>5, <1>6, <1>7, <1>8 DEF Next, Step

LEMMA StaticDataInvariant == Spec => [](IInv /\ StaticDataInv)
<1>1. Init => StaticDataInv
  <2> SUFFICES ASSUME Init PROVE StaticDataInv
    OBVIOUS
  <2>1. data = <<>> /\ ~readFailed /\ phase = "selected"
    BY DEF Init, KernelNew
  <2>2. CountRespected
    BY <2>1, InitInvariant, NothingCollected
  <2> QED
    BY <2>1, <2>2 DEF StaticDataInv, BeforeReading, AfterReading
<1>2. IInv /\ StaticDataInv /\ [Next]_vars => (IInv /\ StaticDataInv)'
  BY InvariantStep, StaticDataStep
<1> QED
  BY <1>1, <1>2, InitInvariant, PTL DEF Spec

(* Whatever AFL a card gives and whichever records it refuses, no entry gives *)
(* more records than it says, and when none was refused the static data are   *)
(* exactly the records the issuer signed, in their order (read_card_data).    *)
THEOREM StaticDataHolds == Spec => []StaticDataIsAflData
<1>1. IInv /\ StaticDataInv => StaticDataIsAflData
  <2> SUFFICES ASSUME IInv, StaticDataInv PROVE StaticDataIsAflData
    OBVIOUS
  <2>1. data \in Seq(Nat \X Nat) /\ DOMAIN afl = 1 .. Len(afl)
    BY AflFields DEF IInv, TypeOK
  <2>2. \A e \in 1 .. Len(afl) :
           Cardinality({i \in DOMAIN data : data[i][1] = e}) <= afl[e].oda
    BY <2>1 DEF StaticDataInv, CountRespected, OfEntry
  <2>3. ASSUME phase \in AfterReading, Holds(tags, TAG_AFL), ~readFailed
        PROVE  icc.data_authentication # NoData /\ SignedData
    BY <2>1, <2>3, NoDataAssumption DEF StaticDataInv, Collected, SignedData
  <2> QED
    BY <2>2, <2>3 DEF StaticDataIsAflData, AfterReading
<1> QED
  BY <1>1, StaticDataInvariant, PTL

----------------------------------------------------------------------------
(* A genuine card. *)

(* From GET PROCESSING OPTIONS to CDA the data that the PDOL asked for is     *)
(* what the store still holds, and from GENERATE AC that of CDOL1.            *)
WithPdolSent == {"readCardData", "readRecord", "process", "generateAc", "cda"}

SentData ==
    /\ phase \in WithPdolSent =>
          \A t \in DOMAIN sent.pdol \ ChangedAfterGpo : sent.pdol[t] = ValueOf(tags, t)
    /\ phase = "cda" =>
          \A t \in DOMAIN sent.cdol1 \ DOMAIN acTags : sent.cdol1[t] = ValueOf(tags, t)

(* The tags that no answer of the card replaces. *)
LEMMA CardTagsOf ==
    ASSUME NEW r \in GpoResponses \cup RecordResponses \cup AcResponses,
           NEW t, t \notin ChangedAfterGpo
    PROVE  t \notin DOMAIN r.tags
BY DEF ChangedAfterGpo, CardTags

LEMMA AddKeeps ==
    ASSUME NEW s, NEW tag, NEW value, NEW t, t # tag
    PROVE  ValueOf(add_tag(s, tag, value), t) = ValueOf(s, t)
<1>1. t \notin DOMAIN [u \in {tag} |-> value]
  OBVIOUS
<1> QED
  BY <1>1, MergeKeeps DEF add_tag

(* The lists' data, rebuilt before CDA, is what was sent. *)
LEMMA SameWhenKept ==
    ASSUME IInv, SentData, phase = "cda", ListsKept
    PROVE  SameData
<1>1. /\ sent.pdol = [t \in DOMAIN sent.pdol |-> sent.pdol[t]]
      /\ sent.cdol1 = [t \in DOMAIN sent.cdol1 |-> sent.cdol1[t]]
  BY DEF IInv, TypeOK, TagStore
<1>2. \A t \in DOMAIN sent.pdol : sent.pdol[t] = ValueOf(tags, t)
  BY DEF ListsKept, SentData, WithPdolSent
<1>3. \A t \in DOMAIN sent.cdol1 : sent.cdol1[t] = ValueOf(tags, t)
  BY DEF ListsKept, SentData
<1>4. sent.pdol = get_tag_list_tag_values(tags, ValueOf(tags, TAG_PDOL))
  BY <1>1, <1>2 DEF ListsKept, get_tag_list_tag_values
<1>5. sent.cdol1 = get_tag_list_tag_values(tags, ValueOf(tags, TAG_CDOL1))
  BY <1>1, <1>3 DEF ListsKept, get_tag_list_tag_values
<1> QED
  BY <1>4, <1>5 DEF SameData

(* A chain without defects, over the records that were signed, gives the key. *)
LEMMA GenuineKeys ==
    ASSUME IInv, GenuineChain, icc.icc_pk = 0,
           icc.data_authentication # NoData, SignedData
    PROVE  Keys.res = "ok" /\ Keys.icc.icc_pk = txn
<1>1. Keys = handle_public_keys(tags, icc, txn, SignedData)
  BY DEF Keys
<1>2. /\ \A t \in {"8F", "90", "9F32", "9F46", "9F47"} : Holds(tags, t)
      /\ tags["90"] = {} /\ tags["9F46"] = {}
      /\ Holds(tags, "9F2D") => tags["9F2D"] = {}
  BY DEF GenuineChain, Holds
<1>3. Holds(tags, TAG_PAN) /\ tags[TAG_PAN] # {}
  BY DEF GenuineChain, ValueOf
<1>4. get_issuer_public_key(tags) = "ok"
  BY <1>2, <1>3 DEF get_issuer_public_key, ValueOf
<1>5. /\ get_icc_public_key(tags, "9F46", SignedData) = "ok"
      /\ Holds(tags, "9F2D") => get_icc_public_key(tags, "9F2D", SignedData) = "ok"
  BY <1>2 DEF get_icc_public_key, GenuineChain
<1> DEFINE withIssuer == [icc EXCEPT !.issuer_pk = txn]
           withIcc == [withIssuer EXCEPT !.icc_pk = txn, !.icc_pin_pk = txn]
           withPin == [withIcc EXCEPT !.icc_pin_pk = txn]
<1>6. Keys.res = "ok" /\ Keys.icc \in {withIcc, withPin}
  BY <1>1, <1>2, <1>4, <1>5 DEF handle_public_keys
<1>7. withIcc.icc_pk = txn /\ withPin.icc_pk = txn
  BY DEF IInv, TypeOK, IccData
<1> QED
  BY <1>6, <1>7

LEMMA GenuineVerification ==
    ASSUME GenuineCard, SameData, CryptogramOf(tags) = card,
           card \in CryptogramType,
           Keys.icc.icc_pk = txn, txn # 0
    PROVE  Verification = "ok"
<1> DEFINE here == ~acFormat1 /\ Holds(acTags, TAG_SIGNED_DYNAMIC_APPLICATION_DATA)
           i == Keys.icc
           same == SameData
           lists == {TAG_PDOL, TAG_CDOL1}
           sdad == tags[TAG_SIGNED_DYNAMIC_APPLICATION_DATA]
           verified == handle_application_cryptogram_card_authentication(
                           tags, i, txn, lists, here, same)
<1>1. here /\ acTags # NoTags
  BY NoTagsType DEF GenuineCard, Holds
<1>2. sdad = {card} /\ Holds(tags, TAG_SIGNED_DYNAMIC_APPLICATION_DATA)
  BY DEF GenuineCard, SdadClean
<1>3. {"unreadable", "wrong signature", "wrong hash"} \cap sdad = {}
  BY <1>2 DEF CryptogramType
<1>4. Verification = verified
  <2>1. ~(Keys.icc.icc_pk = 0 \/ (acTags = NoTags /\ ~acFormat1))
    BY <1>1
  <2> QED
    BY <2>1, Zenon DEF Verification
<1>5. ListsUsable(tags, lists)
  BY DEF GenuineCard, ListsKept
<1> HIDE DEF i, here, same, lists
<1>6. i.icc_pk = txn /\ here /\ same
  BY <1>1 DEF i, same
<1>7. validate_signed_dynamic_application_data(tags, i, txn) = "ok"
  BY <1>2, <1>3, <1>6 DEF validate_signed_dynamic_application_data
<1>8. verified = "ok"
  <2>1. card \in sdad /\ "wrong hash" \notin sdad
    BY <1>2, <1>3
  <2> HIDE DEF sdad
  <2> QED
    BY <1>5, <1>6, <1>7, <2>1
       DEF handle_application_cryptogram_card_authentication, sdad
<1> QED
  BY <1>4, <1>8

(* The data sent with the PDOL and CDOL1 stays in the store until CDA.        *)
LEMMA SentDataStep ==
    ASSUME IInv, SentData, [Next]_vars
    PROVE  SentData'
<1> DEFINE PdolKept == \A t \in DOMAIN sent'.pdol \ ChangedAfterGpo :
                          sent'.pdol[t] = ValueOf(tags', t)
<1>change. ChangedAfterGpo' = ChangedAfterGpo
  BY DEF ChangedAfterGpo, CardTags
<1>1. CASE NextTransaction \/ SelectKernel \/ PdolFails \/ MagStripe \/ OutcomeFromGpo
           \/ CdolFails \/ CdaNotDone \/ Cda \/ ReportOutcome
  <2>1. phase' \in {"selected", "initiate", "outcome", "done"}
    BY <1>1 DEF NextTransaction, SelectKernel, PdolFails, MagStripe, OutcomeFromGpo,
                CdolFails, CdaNotDone, Cda, ReportOutcome, Goto, Fail, Panic, End
  <2> QED
    BY <2>1 DEF SentData, WithPdolSent
<1>2. CASE Terminated \/ UNCHANGED vars
  BY <1>2, <1>change DEF Terminated, vars, conn, kernel, SentData, WithPdolSent
<1>3. CASE ReadCardData \/ NextEntry
  <2>1. UNCHANGED <<tags, sent>> /\ phase \in WithPdolSent /\ phase' # "cda"
    BY <1>3 DEF ReadCardData, NextEntry, conn, WithPdolSent, Goto, Fail, Panic, End
  <2> QED
    BY <2>1, <1>change DEF SentData
<1>4. ASSUME NEW r \in GpoResponses, InitiateApplication(r)
      PROVE  SentData'
  <2> DEFINE dol == ValueOf(tags, TAG_PDOL)
             store == Merge(Merge(KernelTags, Parsed(r)), Extracted(r))
  <2>1. /\ sent' = [sent EXCEPT !.pdol = get_tag_list_tag_values(KernelTags, dol)]
        /\ \/ Panic("GPO") \/ Fail("GPO failed") \/ Panic("AIP")
           \/ Goto("readCardData") /\ tags' = store
    BY <1>4 DEF InitiateApplication
  <2>2. sent'.pdol = get_tag_list_tag_values(KernelTags, dol)
    BY <2>1 DEF IInv, TypeOK
  <2>3. ASSUME Goto("readCardData"), tags' = store
        PROVE  PdolKept
    <3> SUFFICES ASSUME NEW t \in DOMAIN sent'.pdol \ ChangedAfterGpo
                 PROVE  sent'.pdol[t] = ValueOf(tags', t)
      OBVIOUS
    <3>1. sent'.pdol[t] = ValueOf(KernelTags, t)
      BY <2>2 DEF get_tag_list_tag_values
    <3>2. t \notin DOMAIN r.tags
      BY CardTagsOf
    <3>3. ValueOf(store, t) = ValueOf(KernelTags, t)
      BY <3>2, AnswerKeeps
    <3> QED
      BY <2>3, <3>1, <3>3
  <2>4. phase' = "done" \/ (phase' = "readCardData" /\ PdolKept)
    BY <2>1, <2>3, FailureEnds DEF Reason, Goto
  <2> QED
    BY <2>4, <1>change DEF SentData, WithPdolSent
<1>5. ASSUME NEW r \in RecordResponses, ReadRecord(r)
      PROVE  SentData'
  <2>1. /\ phase = "readRecord" /\ UNCHANGED sent
        /\ Panic("READ RECORD") \/ (UNCHANGED phase /\ tags' = Merge(tags, Parsed(r)))
    BY <1>5 DEF ReadRecord
  <2>2. ASSUME tags' = Merge(tags, Parsed(r))
        PROVE  PdolKept
    <3> SUFFICES ASSUME NEW t \in DOMAIN sent.pdol \ ChangedAfterGpo
                 PROVE  sent.pdol[t] = ValueOf(tags', t)
      BY <2>1
    <3>1. ValueOf(tags', t) = ValueOf(tags, t)
      BY <2>2, CardTagsOf, AnswerKeeps
    <3> QED
      BY <2>1, <3>1 DEF SentData, WithPdolSent
  <2>3. phase' = "done" \/ (phase' = "readRecord" /\ PdolKept)
    BY <2>1, <2>2, FailureEnds DEF Reason
  <2> QED
    BY <2>3, <1>change DEF SentData, WithPdolSent
<1>6. CASE PrepareGenerateAc
  <2> DEFINE method == determine_cvm(ValidatedStore, cfg)
  <2>1. /\ phase = "process" /\ phase' = "generateAc" /\ UNCHANGED sent
        /\ tags' = CvmStore(method)
    BY <1>6 DEF PrepareGenerateAc, Goto
  <2>2. ASSUME NEW t \in DOMAIN sent.pdol \ ChangedAfterGpo
        PROVE  sent.pdol[t] = ValueOf(tags', t)
    <3>1. t # "95" /\ t # "9F34"
      BY DEF ChangedAfterGpo
    <3>2. ValueOf(ValidatedStore, t) = ValueOf(tags, t)
      BY <3>1, AddKeeps DEF ValidatedStore
    <3>3. ValueOf(CvmStore(method), t) = ValueOf(ValidatedStore, t)
      BY <3>1, AddKeeps DEF CvmStore
    <3> QED
      BY <2>1, <3>2, <3>3 DEF SentData, WithPdolSent
  <2> QED
    BY <2>1, <2>2, <1>change DEF SentData
<1>7. ASSUME NEW r \in AcResponses, GenerateAc(r)
      PROVE  SentData'
  <2> DEFINE store == Merge(Merge(tags, Parsed(r)), Extracted(r))
             stored == \/ r.ok /\ r.body \in {"short", "format1", "template"}
                       \/ r.ok /\ r.body = "other"
  <2>1. /\ phase = "generateAc"
        /\ sent' = [sent EXCEPT !.cdol1 = get_tag_list_tag_values(tags, tags[TAG_CDOL1])]
        /\ \/ Panic("GENERATE AC") \/ Fail("GENERATE AC failed")
           \/ Panic("GENERATE AC format 1") \/ Fail("CID not in response")
           \/ Goto("cda") /\ tags' = store /\ acTags' = r.tags
    <3>1. \/ Panic("GENERATE AC") \/ Fail("GENERATE AC failed")
          \/ Panic("GENERATE AC format 1") \/ Fail("CID not in response")
          \/ /\ Goto("cda") /\ tags' = store /\ stored
             /\ acTags' = IF stored THEN r.tags ELSE acTags
      BY <1>7 DEF GenerateAc
    <3> HIDE DEF stored, store
    <3> QED
      BY <1>7, <3>1 DEF GenerateAc
  <2>2. /\ sent'.cdol1 = get_tag_list_tag_values(tags, tags[TAG_CDOL1])
        /\ sent'.pdol = sent.pdol
    BY <2>1 DEF IInv, TypeOK
  <2>3. ASSUME tags' = store, acTags' = r.tags
        PROVE  /\ PdolKept
               /\ \A t \in DOMAIN sent'.cdol1 \ DOMAIN acTags' :
                     sent'.cdol1[t] = ValueOf(tags', t)
    <3>1. ASSUME NEW t \in DOMAIN sent'.pdol \ ChangedAfterGpo
          PROVE  sent'.pdol[t] = ValueOf(tags', t)
      <4>1. ValueOf(tags', t) = ValueOf(tags, t)
        BY <2>3, CardTagsOf, AnswerKeeps
      <4> QED
        BY <2>1, <2>2, <4>1 DEF SentData, WithPdolSent
    <3>2. ASSUME NEW t \in DOMAIN sent'.cdol1 \ DOMAIN acTags'
          PROVE  sent'.cdol1[t] = ValueOf(tags', t)
      <4>1. ValueOf(tags', t) = ValueOf(tags, t)
        BY <2>3, AnswerKeeps
      <4> QED
        BY <2>2, <4>1 DEF get_tag_list_tag_values
    <3> QED
      BY <3>1, <3>2
  <2>4. CASE Goto("cda") /\ tags' = store /\ acTags' = r.tags
    BY <2>3, <2>4, <1>change DEF SentData, Goto
  <2>5. CASE \/ Panic("GENERATE AC") \/ Fail("GENERATE AC failed")
             \/ Panic("GENERATE AC format 1") \/ Fail("CID not in response")
    BY <2>5, FailureEnds DEF Reason, SentData, WithPdolSent
  <2> QED
    BY <2>1, <2>4, <2>5
<1> QED
  BY <1>1, <1>2, <1>3, <1>4, <1>5, <1>6, <1>7 DEF Next, Step

(* CDA of a genuine card: the key is found and the signature verified.        *)
LEMMA GenuineCda ==
    ASSUME IInv, ApprovalInv, StaticDataInv, SentData, Cda,
           GenuineCard, ~readFailed, FirstKey
    PROVE  phase' = "outcome" /\ odaDone' /\ UNCHANGED tvr
<1>1. phase = "cda" /\ ~inGpo /\ card \in CryptogramType /\ CryptogramOf(tags) = card
  BY DEF Cda, IInv, Progressed, ApprovalInv
<1>2. icc.data_authentication # NoData /\ SignedData
  BY <1>1 DEF IInv, StaticDataRead, StaticDataInv, Collected, AfterReading, SignedData
<1>3. icc.icc_pk = 0 /\ "cda_failed" \notin tvr /\ txn # 0
  BY DEF FirstKey, ApprovalInv
<1>4. Keys.res = "ok" /\ Keys.icc.icc_pk = txn
  BY <1>2, <1>3, GenuineKeys DEF GenuineCard
<1>5. SameData
  BY <1>1, SameWhenKept DEF GenuineCard
<1>6. Verification = "ok"
  BY <1>1, <1>3, <1>4, <1>5, GenuineVerification
<1>7. /\ tvr' = tvr /\ odaDone'
      /\ IF "cda_failed" \in tvr' /\ card = "TC"
         THEN End(declined) ELSE Goto("outcome")
  BY <1>4, <1>6 DEF Cda
<1> QED
  BY <1>3, <1>7 DEF Goto

(* Of the steps only Cda starts at "cda" when the card agreed and signed.     *)
LEMMA GenuineStep ==
    ASSUME IInv, ApprovalInv, StaticDataInv, SentData, [Next]_vars
    PROVE  [phase = "cda" /\ CdaAgreed /\ GenuineCard /\ ~readFailed /\ FirstKey
              => phase' = "outcome" /\ odaDone' /\ UNCHANGED tvr]_vars
<1> SUFFICES ASSUME Next, phase = "cda", CdaAgreed, GenuineCard, ~readFailed, FirstKey
             PROVE  phase' = "outcome" /\ odaDone' /\ UNCHANGED tvr
  OBVIOUS
<1>1. Holds(tags, TAG_SIGNED_DYNAMIC_APPLICATION_DATA)
  BY DEF GenuineCard, SdadClean
<1>2. ~CdaNotDone
  BY <1>1 DEF CdaNotDone
<1>3. Cda
  BY <1>2 DEF Next, Step, Terminated, NextTransaction, SelectKernel, PdolFails,
              InitiateApplication, ReadCardData, ReadRecord, NextEntry, MagStripe,
              OutcomeFromGpo, PrepareGenerateAc, CdolFails, GenerateAc, ReportOutcome
<1> QED
  BY <1>3, GenuineCda

(* In every transaction of a connection on which no earlier card has left its *)
(* key or a failed CDA, whatever the AFL, the lists and the configuration: a  *)
(* card with a good key chain and a good signature, whose records were all    *)
(* read and which replaces none of the data its lists ask for, passes CDA. No *)
(* unwrap of the verification panics, it is not declined and no TVR bit is    *)
(* raised (state_machine.rs:262-320).                                         *)
THEOREM GenuineCardsPass == Spec => GenuineCardAuthenticates
<1> DEFINE All == IInv /\ ApprovalInv /\ StaticDataInv /\ SentData
<1>1. Init => ApprovalInv /\ SentData
  BY DEF Init, ApprovalInv, ApprovalRestsOnSignature, HasOutcome, SentData, WithPdolSent
<1>2. IInv /\ ApprovalInv /\ [Next]_vars => ApprovalInv'
  BY ApprovalStep
<1>3. IInv /\ SentData /\ [Next]_vars => SentData'
  BY SentDataStep
<1>4. All /\ [Next]_vars
        => [phase = "cda" /\ CdaAgreed /\ GenuineCard /\ ~readFailed /\ FirstKey
              => phase' = "outcome" /\ odaDone' /\ UNCHANGED tvr]_vars
  BY GenuineStep
<1> QED
  BY <1>1, <1>2, <1>3, <1>4, StaticDataInvariant, PTL
     DEF Spec, GenuineCardAuthenticates

----------------------------------------------------------------------------
(* The refinement: every step of the kernel is a step of the abstract payment *)
(* of PaymentOutcome or leaves it as it is.  (That it also makes the payment's *)
(* progress is a liveness property, which TLC checks.)                        *)

(* Two ways for a step to be abstract: nothing the payment shows changes ...  *)
LEMMA Hidden ==
    ASSUME IInv, phase # "done", phase' # "done", UNCHANGED <<requested, card, result>>
    PROVE  UNCHANGED Payment!vars
BY DEF Payment!vars, Stage, VerdictOf

(* ... or the transaction fails.                                              *)
LEMMA GivesUp ==
    ASSUME IInv, phase # "done", Failed', UNCHANGED <<requested, card>>
    PROVE  Payment!Next
<1>1. Stage' = "closed" /\ Stage # "closed"
  BY DEF Stage, Failed
<1>2. VerdictOf(result)' \in {"failed", "crashed"}
  BY DEF VerdictOf, Failed
<1> QED
  BY <1>1, <1>2 DEF Payment!Next, Payment!Progress, Payment!GiveUp

(* The verdict of a cryptogram's outcome is one it bears out. *)
LEMMA OutcomeBorneOut ==
    ASSUME NEW c \in CryptogramType, NEW method \in CvmOutcome
    PROVE  /\ VerdictOf(OutcomeOf(c, method)) \in Payment!BorneOutBy(c)
           /\ VerdictOf(OutcomeOf(c, method)) \in Payment!Verdict
BY OutcomeOfType
   DEF VerdictOf, Payment!BorneOutBy, Payment!Verdict, CryptogramType

LEMMA InitRefines ==
    ASSUME Init
    PROVE  Payment!Init
BY DEF Init, KernelNew, Payment!Init, Stage, VerdictOf, NoResult, WithoutOutcome

LEMMA PrepareGenerateAcRefines ==
    ASSUME IInv, PrepareGenerateAc
    PROVE  Payment!Next
<1>1. /\ requested = "none" /\ card = "none" /\ phase = "process"
  BY DEF PrepareGenerateAc, IInv, Progressed, Asking
<1>2. /\ requested' \in CryptogramType /\ phase' = "generateAc"
      /\ UNCHANGED <<card, result>>
  BY PerformTaaType DEF PrepareGenerateAc, Goto
<1>3. Stage = "open" /\ Stage' = "asked"
  BY <1>1, <1>2 DEF Stage, CryptogramType
<1>4. Payment!Ask(requested')
  BY <1>2, <1>3 DEF Payment!Ask, VerdictOf
<1> QED
  BY <1>2, <1>4
     DEF Payment!Next, Payment!Progress, Payment!Cryptogram, CryptogramType

(* The stored 9F27 is the one of an obedient card's answer.                   *)
LEMMA AnswerObeys ==
    ASSUME IInv, NEW r \in AcResponses, GenerateAc(r), phase' = "cda", CardObeys
    PROVE  CryptogramRank[card'] <= CryptogramRank[requested]
<1> DEFINE cid == TAG_CRYPTOGRAM_INFO_DATA
           store == Merge(Merge(tags, Parsed(r)), Extracted(r))
<1>1. /\ r.ok /\ r.body \in {"format1", "template"} /\ Obedient(r)
      /\ card' = CryptogramOf(store)
  BY DEF GenerateAc, Fail, Panic, End, Goto
<1>2. PICK c \in CryptogramType :
         /\ ValueOf(r.tags, cid) = {c}
         /\ CryptogramRank[c] <= CryptogramRank[requested]
  BY <1>1 DEF Obedient
<1>3. cid \in DOMAIN r.tags /\ r.tags[cid] = {c}
  BY <1>2 DEF ValueOf, Holds
<1>4. store[cid] = {c}
  <2>1. CASE r.body = "format1"
    <3>1. Extracted(r) = r.tags
      BY <2>1 DEF Extracted
    <3> QED
      BY <1>3, <3>1, MergeNew
  <2>2. CASE r.body = "template"
    <3>1. Parsed(r) = r.tags /\ Extracted(r) = NoTags
      BY <2>2 DEF Parsed, Extracted
    <3>2. cid \in DOMAIN Merge(tags, Parsed(r)) /\ Merge(tags, Parsed(r))[cid] = {c}
      <4>1. cid \in DOMAIN Parsed(r) /\ Parsed(r)[cid] = {c}
        BY <1>3, <3>1
      <4> HIDE DEF cid
      <4>2. Merge(tags, Parsed(r))[cid] = {c}
        BY <4>1, MergeNew
      <4> QED
        BY <4>1, <4>2, MergeType
    <3> QED
      BY <3>1, <3>2, MergeOld, NoTagsType
  <2> QED
    BY <1>1, <2>1, <2>2
<1>5. CryptogramOf(store) = c
  BY <1>4 DEF CryptogramOf
<1> QED
  BY <1>1, <1>2, <1>5

LEMMA GenerateAcRefines ==
    ASSUME IInv, NEW r \in AcResponses, GenerateAc(r)
    PROVE  Payment!Next
<1>1. /\ phase = "generateAc" /\ requested \in CryptogramType /\ card = "none"
      /\ requested' = requested
  BY DEF GenerateAc, IInv, Progressed
<1>2. \/ (Panic("GENERATE AC") \/ Fail("GENERATE AC failed")
          \/ Panic("GENERATE AC format 1") \/ Fail("CID not in response"))
         /\ card' = card
      \/ Goto("cda")
  BY DEF GenerateAc
<1>3. CASE Goto("cda")
  <2>1. phase' = "cda" /\ result' = result
    BY <1>3 DEF Goto
  <2>2. card' \in CryptogramType
    BY <2>1, GenerateAcInvariant DEF IInv, Progressed
  <2>3. Stage = "asked" /\ Stage' = "answered"
    BY <1>1, <2>1, <2>2 DEF Stage, CryptogramType
  <2>4. CardObeys => CryptogramRank[card'] <= CryptogramRank[requested]
    BY <2>1, AnswerObeys
  <2>5. Payment!Rank = CryptogramRank
    BY DEF Payment!Rank, Payment!Cryptogram, CryptogramRank, CryptogramType
  <2>6. Payment!Answer(card')
    BY <1>1, <2>1, <2>3, <2>4, <2>5 DEF Payment!Answer, VerdictOf
  <2> QED
    BY <2>2, <2>6
       DEF Payment!Next, Payment!Progress, Payment!Cryptogram, CryptogramType
<1>4. CASE ~Goto("cda")
  <2>1. Failed' /\ card' = card
    BY <1>2, <1>4, FailureEnds DEF Failed, Reason
  <2> QED
    BY <1>1, <2>1, GivesUp
<1> QED
  BY <1>3, <1>4

LEMMA OutcomeFromGpoRefines ==
    ASSUME IInv, OutcomeFromGpo
    PROVE  Payment!Next
<1>1. phase = "process" /\ requested = "none" /\ card = "none" /\ requested' = requested
  BY DEF OutcomeFromGpo, IInv, Progressed, Asking
<1>2. CASE ~Holds(tags, TAG_CRYPTOGRAM_INFO_DATA)
  <2>1. Fail("CID not in GPO response") /\ card' = card
    BY <1>2 DEF OutcomeFromGpo
  <2> QED
    BY <1>1, <2>1, FailureEnds, GivesUp DEF Failed, Reason
<1>3. CASE Holds(tags, TAG_CRYPTOGRAM_INFO_DATA)
  <2> DEFINE method == determine_cvm(ValidatedStore, cfg)
  <2>1. /\ card' = CryptogramOf(tags) /\ phase' = "done"
        /\ result' = OutcomeOf(card', method)
    BY <1>3 DEF OutcomeFromGpo, End
  <2>2. method \in CvmOutcome /\ card' \in CryptogramType
    BY <1>3, <2>1, DetermineCvmType, CryptogramOfType DEF IInv, CidKnown
  <2> HIDE DEF method
  <2>3. Stage = "open" /\ Stage' = "closed"
    BY <1>1, <2>1 DEF Stage
  <2>4. /\ VerdictOf(result)' \in Payment!BorneOutBy(card')
        /\ VerdictOf(result)' \in Payment!Verdict
    BY <2>1, <2>2, OutcomeBorneOut
  <2>5. Payment!Unasked(card', VerdictOf(result)')
    BY <1>1, <2>3, <2>4 DEF Payment!Unasked
  <2> QED
    BY <2>2, <2>4, <2>5
       DEF Payment!Next, Payment!Progress, Payment!Cryptogram, CryptogramType
<1> QED
  BY <1>2, <1>3

LEMMA ReportOutcomeRefines ==
    ASSUME IInv, ReportOutcome
    PROVE  Payment!Next
<1>1. /\ phase = "outcome" /\ card \in CryptogramType /\ cvm \in CvmOutcome
      /\ phase' = "done" /\ result' = OutcomeOf(card, cvm)
      /\ UNCHANGED <<requested, card>>
  BY DEF ReportOutcome, End, kernel, IInv, TypeOK, Progressed
<1>2. Stage = "answered" /\ Stage' = "closed"
  BY <1>1 DEF Stage, CryptogramType
<1>3. /\ VerdictOf(result)' \in Payment!BorneOutBy(card)
      /\ VerdictOf(result)' \in Payment!Verdict
  BY <1>1, OutcomeBorneOut
<1>4. Payment!Conclude(VerdictOf(result)')
  BY <1>1, <1>2, <1>3 DEF Payment!Conclude
<1> QED
  BY <1>3, <1>4 DEF Payment!Next, Payment!Progress

LEMMA CdaRefines ==
    ASSUME IInv, Cda
    PROVE  Payment!Next \/ UNCHANGED Payment!vars
<1>1. /\ phase = "cda" /\ card \in CryptogramType /\ UNCHANGED <<requested, card>>
  BY DEF Cda, kernel, IInv, Progressed
<1>2. \/ Panic("public keys") \/ Panic("CDA")
      \/ End(declined) /\ card = "TC"
      \/ Goto("outcome")
  BY DEF Cda
<1>3. CASE Panic("public keys") \/ Panic("CDA")
  BY <1>1, <1>3, FailureEnds, GivesUp DEF Failed, Reason
<1>4. CASE End(declined) /\ card = "TC"
  <2>1. Stage = "answered" /\ Stage' = "closed"
    BY <1>1, <1>4 DEF Stage, End
  <2>2. VerdictOf(result)' = "declined"
    BY <1>4 DEF End, VerdictOf, declined, Outcome
  <2>3. Payment!Conclude("declined")
    BY <1>1, <1>4, <2>1, <2>2 DEF Payment!Conclude, Payment!BorneOutBy
  <2> QED
    BY <2>3 DEF Payment!Next, Payment!Progress, Payment!Verdict
<1>5. CASE Goto("outcome")
  BY <1>1, <1>5, Hidden DEF Goto
<1> QED
  BY <1>2, <1>3, <1>4, <1>5

(* Only a panic is a crash. *)
LEMMA CrashIsPanic ==
    ASSUME NEW res \in Results, res.kind # "panic"
    PROVE  VerdictOf(res) # "crashed"
<1> DEFINE Outcomes == [kind : {"outcome"}, what : OutcomeType, cvm : CvmOutcome,
                        receipt : BOOLEAN]
           Failures == [kind : {"error", "panic"}, what : Reason, cvm : {"NoCvm"},
                        receipt : {FALSE}]
<1>1. res \in Outcomes \/ res \in Failures \/ res = NoResult
  BY DEF Results
<1>2. CASE res \in Outcomes
  <2>1. res.kind = "outcome" /\ res.what \in OutcomeType
    BY <1>2
  <2> QED
    BY <2>1 DEF VerdictOf, OutcomeType
<1>3. CASE res \in Failures
  <2>1. res.kind = "error"
    BY <1>3
  <2> QED
    BY <2>1 DEF VerdictOf
<1>4. CASE res = NoResult
  BY <1>4 DEF VerdictOf, NoResult, WithoutOutcome
<1> QED
  BY <1>1, <1>2, <1>3, <1>4

LEMMA NextTransactionRefines ==
    ASSUME IInv, NextTransaction
    PROVE  Payment!Next
<1>1. phase = "done" /\ result.kind # "panic" /\ result \in Results
  BY DEF NextTransaction, IInv, TypeOK
<1>2. Stage = "closed" /\ VerdictOf(result) # "crashed"
  BY <1>1, CrashIsPanic DEF Stage
<1>3. phase' = "selected" /\ requested' = "none" /\ card' = "none" /\ result' = NoResult
  BY DEF NextTransaction
<1>4. Stage' = "open" /\ VerdictOf(result)' = "none"
  BY <1>3 DEF Stage, VerdictOf, NoResult, WithoutOutcome
<1> QED
  BY <1>2, <1>3, <1>4 DEF Payment!Next, Payment!Reopen, Payment!Init
(* What the payment shows of a step with no request, answer or verdict.       *)
LEMMA OtherStepRefines ==
    ASSUME IInv, Step,
           UNCHANGED <<requested, card>>,
           \/ phase' # "done" /\ UNCHANGED result
           \/ Failed'
    PROVE  Payment!Next \/ UNCHANGED Payment!vars
BY Hidden, GivesUp, StepSetup

(* The actions that neither ask, nor get an answer, nor end with an outcome.  *)
LEMMA QuietStep ==
    ASSUME IInv,
           \/ SelectKernel \/ PdolFails \/ ReadCardData \/ NextEntry \/ CdolFails
           \/ CdaNotDone
           \/ \E r \in GpoResponses : InitiateApplication(r)
           \/ \E r \in RecordResponses : ReadRecord(r)
    PROVE  /\ UNCHANGED <<requested, card>>
           /\ (phase' # "done" /\ UNCHANGED result) \/ Failed'
<1>1. CASE SelectKernel
  <2>1. \/ Fail("Kernel selection failed")
        \/ Fail("Contactless application not allowed") \/ Goto("initiate")
    BY <1>1 DEF SelectKernel
  <2>2. UNCHANGED <<requested, card>>
    BY <1>1 DEF SelectKernel, kernel
  <2> QED
    BY <2>1, <2>2, FailureEnds DEF Failed, Reason, Goto
<1>2. CASE PdolFails \/ CdolFails
  <2>1. UNCHANGED <<requested, card>>
    BY <1>2 DEF PdolFails, CdolFails, kernel
  <2>2. \/ Fail("Failed to parse PDOL") \/ Panic("PDOL")
        \/ Fail("CDOL1") \/ Panic("CDOL1")
    BY <1>2 DEF PdolFails, CdolFails
  <2> QED
    BY <2>1, <2>2, FailureEnds DEF Failed, Reason
<1>3. CASE ReadCardData
  <2>1. \/ Fail("AFL not found") \/ Fail("AFL length")
        \/ Goto("process") \/ Goto("readRecord")
    BY <1>3 DEF ReadCardData
  <2>2. UNCHANGED <<requested, card>>
    BY <1>3 DEF ReadCardData
  <2> QED
    BY <2>1, <2>2, FailureEnds DEF Failed, Reason, Goto
<1>4. CASE NextEntry \/ CdaNotDone
  BY <1>4 DEF NextEntry, CdaNotDone, Goto, kernel
<1>5. ASSUME NEW r \in GpoResponses, InitiateApplication(r)
      PROVE  /\ UNCHANGED <<requested, card>>
             /\ (phase' # "done" /\ UNCHANGED result) \/ Failed'
  <2>1. \/ Panic("GPO") \/ Fail("GPO failed") \/ Panic("AIP")
        \/ Goto("readCardData")
    BY <1>5 DEF InitiateApplication
  <2>2. UNCHANGED <<requested, card>>
    BY <1>5 DEF InitiateApplication
  <2> QED
    BY <2>1, <2>2, FailureEnds DEF Failed, Reason, Goto
<1>6. ASSUME NEW r \in RecordResponses, ReadRecord(r)
      PROVE  /\ UNCHANGED <<requested, card>>
             /\ (phase' # "done" /\ UNCHANGED result) \/ Failed'
  <2>1. phase = "readRecord"
        /\ (Panic("READ RECORD") \/ UNCHANGED <<phase, result>>)
    BY <1>6 DEF ReadRecord
  <2>2. UNCHANGED <<requested, card>>
    BY <1>6 DEF ReadRecord
  <2> QED
    BY <2>1, <2>2, FailureEnds DEF Failed, Reason
<1> QED
  BY <1>1, <1>2, <1>3, <1>4, <1>5, <1>6

LEMMA MagStripeRefines ==
    ASSUME IInv, MagStripe
    PROVE  Payment!Next
<1>1. /\ phase = "process" /\ requested = "none" /\ card = "none"
      /\ phase' = "done" /\ result' = try_another_interface
      /\ UNCHANGED <<requested, card>>
  BY DEF MagStripe, End, kernel, IInv, Progressed, Asking
<1>2. Stage = "open" /\ Stage' = "closed"
  BY <1>1 DEF Stage
<1>3. VerdictOf(result)' = "other interface"
  BY <1>1 DEF VerdictOf, try_another_interface, Outcome
<1>4. Payment!GiveUp("other interface")
  BY <1>1, <1>2, <1>3 DEF Payment!GiveUp
<1> QED
  BY <1>4 DEF Payment!Next, Payment!Progress

LEMMA NextRefines ==
    ASSUME IInv, [Next]_vars
    PROVE  [Payment!Next]_Payment!vars
<1>1. CASE Step
  <2>1. CASE \/ SelectKernel \/ PdolFails \/ ReadCardData \/ NextEntry \/ CdolFails
             \/ CdaNotDone
             \/ \E r \in GpoResponses : InitiateApplication(r)
             \/ \E r \in RecordResponses : ReadRecord(r)
    BY <1>1, <2>1, QuietStep, OtherStepRefines
  <2>2. CASE MagStripe \/ OutcomeFromGpo \/ PrepareGenerateAc
    BY <2>2, MagStripeRefines, OutcomeFromGpoRefines, PrepareGenerateAcRefines
  <2>3. CASE \E r \in AcResponses : GenerateAc(r)
    BY <2>3, GenerateAcRefines
  <2>4. CASE Cda \/ ReportOutcome
    BY <2>4, CdaRefines, ReportOutcomeRefines
  <2> QED
    BY <1>1, <2>1, <2>2, <2>3, <2>4 DEF Step
<1>2. CASE NextTransaction
  BY <1>2, NextTransactionRefines
<1>3. CASE Terminated \/ UNCHANGED vars
  BY <1>3 DEF Terminated, vars, kernel, Payment!vars, Stage, VerdictOf
<1> QED
  BY <1>1, <1>2, <1>3 DEF Next

(* Every behaviour of the kernel, with its state mapped, is a behaviour of    *)
(* the abstract payment: one request, one answer no higher (if cards obey),   *)
(* one verdict that the answer bears out.                                     *)
THEOREM Refinement == Spec => Payment!Init /\ [][Payment!Next]_Payment!vars
<1>1. Init => Payment!Init
  BY InitRefines
<1>2. IInv /\ [Next]_vars => [Payment!Next]_Payment!vars
  BY NextRefines
<1> QED
  BY <1>1, <1>2, Invariant, PTL DEF Spec
Proved == INSTANCE PaymentOutcome_proofs
          WITH stage <- Stage, asked <- requested, cryptogram <- card,
               verdict <- VerdictOf(result), CardsObey <- CardObeys

(* An approval is of a TC and an online request of an ARQC; with cards that   *)
(* obey, of a cryptogram that the action analysis asked for.                  *)
THEOREM VerdictSafe == Spec => []VerdictIsBorneOut
<1> USE DEF Payment!vars, Proved!vars
<1>1. Payment!Init => Proved!Consistent
  BY Proved!ConsistentInit DEF Payment!Init, Proved!Init
<1>2. Proved!Consistent /\ [Payment!Next]_Payment!vars => Proved!Consistent'
  <2>1. Payment!Next => Proved!Next
    BY DEF Payment!Next, Payment!Progress, Payment!Ask, Payment!Answer,
           Payment!Conclude, Payment!Unasked, Payment!GiveUp, Payment!Reopen,
           Payment!Init, Payment!BorneOutBy, Payment!Verdict, Payment!Rank,
           Payment!Cryptogram,
           Proved!Next, Proved!Progress, Proved!Ask, Proved!Answer,
           Proved!Conclude, Proved!Unasked, Proved!GiveUp, Proved!Reopen,
           Proved!Init, Proved!BorneOutBy, Proved!Verdict, Proved!Rank,
           Proved!Cryptogram
  <2> QED
    BY <2>1, Proved!ConsistentStep
<1>3. Proved!Consistent => VerdictIsBorneOut
  BY DEF Proved!Consistent, Proved!VerdictBorneOut, VerdictIsBorneOut,
         Payment!VerdictBorneOut
<1> QED
  BY <1>1, <1>2, <1>3, Refinement, PTL
=============================================================================
