------------------------ MODULE ContactPurchase_proofs ------------------------
(* For every card, terminal and number of transactions of the contact flow:   *)
(* the types of its state, what the keys in use were recovered from, and what *)
(* a successful purchase rests on.                                            *)
EXTENDS ContactSafety, CardData_proofs, SequenceTheorems

----------------------------------------------------------------------------
(* The type invariant, by parts: each part's variables are touched by few of  *)
(* the steps.                                                                 *)

Ends ==
    /\ phase \in Phase /\ (phase = "done") = (result # "none")
    /\ result \in {"none", "successful", "error", "panic"}

Chosen ==
    /\ caller \in Callers /\ txn \in 1 .. MaxTransactions
    /\ amount \in Amounts /\ afl \in Afls /\ cvmList \in CvmLists

Stored ==
    /\ TagStore(tags) /\ ~ParsePanics(tags)
    /\ card \in CryptogramType \cup {"none"}

Found ==
    /\ tvr \subseteq TvrBit /\ issuerAuth \in BOOLEAN /\ verified \in BOOLEAN
    /\ purchase_amount \in {0} \cup 0 .. AmountLimit - 1

Lists ==
    /\ cvmRules \in Seq(CvmRule) /\ rule \in 1 .. Len(cvmRules) + 1
    /\ sent = [l \in {"9F38", "8C", "8D"} |-> sent[l]]

(* The records that were read are records of the AFL.                         *)
Reading ==
    /\ cursor \in (Nat \ {0}) \X Nat \X Nat /\ readFailed \in BOOLEAN
    /\ data \in Seq(Nat \X Nat)
    /\ \A i \in DOMAIN data :
          data[i][1] \in DOMAIN afl /\ data[i][2] <= afl[data[i][1]].records

(* What is remembered of the origin of the terminal's own data.               *)
Origins == given \subseteq Own(tags)

TypeInv ==
    /\ Ends /\ Chosen /\ Stored /\ Origins /\ Found /\ Lists /\ Reading
    /\ icc \in IccData

----------------------------------------------------------------------------
(* The end. *)

LEMMA EndTypes ==
    ASSUME NEW res \in {"successful", "error", "panic"}, End(res)
    PROVE  Ends'
BY DEF End, Ends, Phase

LEMMA GotoTypes ==
    ASSUME Ends, phase # "done", NEW next \in Phase \ {"done"}, Goto(next)
    PROVE  Ends'
BY DEF Goto, Ends

LEMMA ErrTypes == ASSUME Err \/ Panic PROVE Ends'
BY EndTypes DEF Err, Panic

LEMMA AcceptTypes ==
    ASSUME Ends, AtGenerateAc, NEW res, NEW inGpo, Accept(res, inGpo)
    PROVE  Ends'
<1>1. phase # "done"
  BY DEF AtGenerateAc
<1>2. \/ Panic \/ Err \/ Goto("issuerAuth") \/ Goto("gac2") \/ End("successful")
  BY DEF Accept
<1> QED
  BY <1>1, <1>2, ErrTypes, EndTypes, GotoTypes DEF Phase

LEMMA StepEnds ==
    ASSUME Ends, [Next]_vars
    PROVE  Ends'
<1>1. CASE PdolFails \/ DdolFails \/ CdolFails
  BY <1>1, ErrTypes DEF PdolFails, DdolFails, CdolFails
<1>2. CASE \E r \in GpoResponses : GetProcessingOptions(r)
  <2>1. PICK r \in GpoResponses : GetProcessingOptions(r)
    BY <1>2
  <2>2. phase # "done" /\ (Panic \/ Err \/ Goto("readRecord"))
    BY <2>1 DEF GetProcessingOptions
  <2> QED
    BY <2>2, ErrTypes, GotoTypes DEF Phase
<1>3. CASE \/ \E r \in RecordResponses : ReadRecord(r)
           \/ PassRule \/ RuleWithoutPin
           \/ NoPin
           \/ \E challenge, r \in StatusResponses : VerifyPin(challenge, r)
           \/ UnsentPin
           \/ \E r \in StatusResponses : GetChallenge(r)
  <2>1. Panic \/ Err \/ UNCHANGED <<phase, result>>
    BY <1>3 DEF ReadRecord, PassRule, RuleWithoutPin, NoPin, VerifyPin, UnsentPin,
            GetChallenge
  <2> QED
    BY <2>1, ErrTypes DEF Ends
<1>4. CASE NextEntry
  <2>1. phase # "done" /\ (Panic \/ Goto("keys") \/ UNCHANGED <<phase, result>>)
    BY <1>4 DEF NextEntry, Capabilities
  <2> QED
    BY <2>1, ErrTypes, GotoTypes DEF Ends, Phase
<1>5. CASE \/ PublicKeys \/ EndOfRules \/ ActionAnalysis
           \/ \E r \in StatusResponses : IssuerAuthentication(r)
  <2>1. /\ phase # "done"
        /\ \/ Panic \/ Goto("cvm") \/ Goto("oda") \/ Goto("taa") \/ Goto("gac1")
           \/ Goto("gac2")
    BY <1>5 DEF PublicKeys, EndOfRules, ActionAnalysis, IssuerAuthentication
  <2> QED
    BY <2>1, ErrTypes, GotoTypes DEF Phase
<1>6. CASE StaticOrNone \/ FastDda \/ \E r \in DdaResponses : Dda(r)
  <2>1. phase # "done" /\ \E res, bit : Authenticated(res, bit)
    BY <1>6 DEF StaticOrNone, FastDda, Dda
  <2>2. Panic \/ Goto("taa")
    BY <2>1 DEF Authenticated
  <2> QED
    BY <2>1, <2>2, ErrTypes, GotoTypes DEF Phase
<1>7. CASE GivenCryptogram
  <2>1. AtGenerateAc /\ Accept(validate_ac(tags), TRUE)
    BY <1>7 DEF GivenCryptogram, AlreadyGiven, AtGenerateAc
  <2> QED
    BY <2>1, AcceptTypes
<1>8. CASE \E r \in AcResponses : GenerateAc(r)
  <2>1. AtGenerateAc /\ \E res : Accept(res, FALSE)
    BY <1>8 DEF GenerateAc
  <2> QED
    BY <2>1, AcceptTypes
<1>9. CASE NextTransaction
  BY <1>9 DEF NextTransaction, Ends, Phase
<1>10. CASE Terminated \/ UNCHANGED vars
  BY <1>10 DEF Terminated, vars, Ends
<1> QED
  BY <1>1, <1>2, <1>3, <1>4, <1>5, <1>6, <1>7, <1>8, <1>9, <1>10 DEF Next, Step
----------------------------------------------------------------------------
(* The transaction is chosen at its beginning only. *)

LEMMA StepChosen ==
    ASSUME Chosen, [Next]_vars
    PROVE  Chosen'
<1>1. CASE NextTransaction
  <2>1. txn + 1 \in 1 .. MaxTransactions
    BY <1>1, ContactAssumption DEF NextTransaction, Chosen
  <2> QED
    BY <1>1, <2>1 DEF NextTransaction, Selected, Chosen
<1>2. CASE Step
  <2>1. UNCHANGED setup
    BY <1>2 DEF Step, PdolFails, GetProcessingOptions, ReadRecord, NextEntry,
            PublicKeys, PassRule, RuleWithoutPin, NoPin, VerifyPin, UnsentPin,
            EndOfRules, StaticOrNone, FastDda, Dda, DdolFails, ActionAnalysis,
            CdolFails, GetChallenge, GivenCryptogram, GenerateAc,
            IssuerAuthentication
  <2> QED
    BY <2>1 DEF setup, Chosen
<1>3. CASE Terminated \/ UNCHANGED vars
  BY <1>3 DEF Terminated, vars, setup, Chosen
<1> QED
  BY <1>1, <1>2, <1>3 DEF Next

(* The TVR, by the steps that change it. *)
LEMMA StepFound ==
    ASSUME Found, [Next]_vars
    PROVE  Found'
<1> USE DEF Found
<1>bits. {NotSuccessful, "sda_failed", "dda_failed", "issuer_authentication_failed"}
            \subseteq TvrBit
  BY DEF NotSuccessful, TvrBit
<1>1. CASE NextTransaction
  BY <1>1 DEF NextTransaction, Selected, capabilities
<1>2. CASE Step
  <2>1. verified' \in BOOLEAN
    <3>1. CASE \E challenge, r \in StatusResponses : VerifyPin(challenge, r)
      <4>1. PICK challenge, r \in StatusResponses : VerifyPin(challenge, r)
        BY <3>1
      <4>2. r.ok \in BOOLEAN
        BY ContactAssumption DEF Response
      <4>3. UNCHANGED verified \/ verified' = r.ok
        BY <4>1 DEF VerifyPin
      <4> QED
        BY <4>2, <4>3
    <3>2. CASE ~\E challenge, r \in StatusResponses : VerifyPin(challenge, r)
      BY <1>2, <3>2
         DEF Step, PdolFails, GetProcessingOptions, ReadRecord, NextEntry,
             PublicKeys, PassRule, RuleWithoutPin, NoPin, UnsentPin, EndOfRules,
             StaticOrNone, FastDda, Dda, DdolFails, ActionAnalysis, CdolFails,
             GetChallenge, GivenCryptogram, GenerateAc, IssuerAuthentication,
             verification
    <3> QED
      BY <3>1, <3>2
  <2>2. issuerAuth' \in BOOLEAN
    <3>1. CASE NextEntry
      <4>1. \/ UNCHANGED issuerAuth
            \/ issuerAuth' = ("issuer authentication" \in ValueOf(tags, TAG_AIP))
        BY <3>1 DEF NextEntry, Capabilities, capabilities
      <4>2. ("issuer authentication" \in ValueOf(tags, TAG_AIP)) \in BOOLEAN
        OBVIOUS
      <4> QED
        BY <4>1, <4>2
    <3>2. CASE ~NextEntry
      BY <1>2, <3>2
         DEF Step, PdolFails, GetProcessingOptions, ReadRecord, PublicKeys,
             PassRule, RuleWithoutPin, NoPin, VerifyPin, UnsentPin, EndOfRules,
             StaticOrNone, FastDda, Dda, DdolFails, ActionAnalysis, CdolFails,
             GetChallenge, GivenCryptogram, GenerateAc, IssuerAuthentication,
             capabilities
    <3> QED
      BY <3>1, <3>2
  <2>3. \/ UNCHANGED tvr \/ tvr' = tvr \cup {NotSuccessful}
        \/ tvr' = tvr \ {NotSuccessful}
        \/ tvr' = tvr \cup {"sda_failed"} \/ tvr' = tvr \cup {"dda_failed"}
        \/ tvr' = tvr \cup {"issuer_authentication_failed"}
    BY <1>2 DEF Step, PdolFails, GetProcessingOptions, ReadRecord, NextEntry,
            PublicKeys, PassRule, RuleWithoutPin, NoPin, VerifyPin, UnsentPin,
            Conclude, EndOfRules, StaticOrNone, FastDda, Dda, Authenticated,
            DdolFails, ActionAnalysis, CdolFails, GetChallenge, GivenCryptogram,
            GenerateAc, IssuerAuthentication
  <2>4. purchase_amount' \in {0} \cup 0 .. AmountLimit - 1
    <3>1. CASE PublicKeys
      <4>1. PICK store :
              \/ UNCHANGED purchase_amount
              \/ /\ purchase_amount' = get_amount(store)
                 /\ \/ ValueOf(store, TAG_AMOUNT_AUTHORISED) = {}
                    \/ get_amount(store) < AmountLimit
        BY <3>1 DEF PublicKeys
      <4>2. ValueOf(store, TAG_AMOUNT_AUTHORISED) = {} => get_amount(store) = 0
        BY DEF get_amount, IsNumber
      <4>3. get_amount(store) \in Nat /\ AmountLimit \in Nat
        BY AmountType, ContactAssumption
      <4> QED
        BY <4>1, <4>2, <4>3
    <3>2. CASE ~PublicKeys
      BY <1>2, <3>2
         DEF Step, PdolFails, GetProcessingOptions, ReadRecord, NextEntry, PassRule,
             RuleWithoutPin, NoPin, VerifyPin, UnsentPin, EndOfRules, StaticOrNone,
             FastDda, Dda, DdolFails, ActionAnalysis, CdolFails, GetChallenge,
             GivenCryptogram, GenerateAc, IssuerAuthentication, verification
    <3> QED
      BY <3>1, <3>2
  <2> QED
    BY <2>1, <2>2, <2>3, <2>4, <1>bits
<1>3. CASE Terminated \/ UNCHANGED vars
  BY <1>3 DEF Terminated, vars, capabilities, verification
<1> QED
  BY <1>1, <1>2, <1>3 DEF Next

(* The loop over the rules, and the data that were sent. *)
LEMMA StepLists ==
    ASSUME Lists, Chosen, [Next]_vars
    PROVE  Lists'
<1>list. cvmList \in Seq(CvmRule)
  BY ContactAssumption DEF Chosen
<1>rules. cvmRules \in Seq(CvmRule) /\ rule \in 1 .. Len(cvmRules) + 1
          /\ Len(cvmRules) \in Nat
  BY LenProperties DEF Lists
<1>1. CASE NextTransaction
  <2>1. /\ UNCHANGED cvmRules /\ rule' = 1 /\ sent' = NothingSent
    BY <1>1 DEF NextTransaction, Selected, capabilities
  <2> QED
    BY <2>1, <1>rules DEF Lists, NothingSent
<1>2. CASE Step
  <2>1. \/ UNCHANGED <<cvmRules, rule>>
        \/ UNCHANGED rule /\ cvmRules' = cvmRules \o cvmList
        \/ UNCHANGED cvmRules /\ AtRule /\ rule' = rule + 1
        \/ UNCHANGED cvmRules /\ rule' = Len(cvmRules) + 1
    BY <1>2 DEF Step, PdolFails, GetProcessingOptions, ReadRecord, NextEntry,
            Capabilities, PublicKeys, PassRule, RuleWithoutPin, NoPin, VerifyPin,
            UnsentPin, Conclude, AtPinRule, Applicable, EndOfRules, StaticOrNone,
            FastDda, Dda, DdolFails, ActionAnalysis, CdolFails, GetChallenge,
            GivenCryptogram, GenerateAc, IssuerAuthentication, capabilities,
            verification
  <2>2. cvmRules' \in Seq(CvmRule) /\ rule' \in 1 .. Len(cvmRules') + 1
    <3>1. /\ cvmRules \o cvmList \in Seq(CvmRule)
          /\ Len(cvmRules \o cvmList) = Len(cvmRules) + Len(cvmList)
          /\ Len(cvmList) \in Nat
      BY <1>list, <1>rules, ConcatProperties, LenProperties
    <3>2. CASE UNCHANGED <<cvmRules, rule>>
      BY <3>2, <1>rules
    <3>3. CASE UNCHANGED rule /\ cvmRules' = cvmRules \o cvmList
      BY <3>1, <3>3, <1>rules
    <3>4. CASE UNCHANGED cvmRules /\ AtRule /\ rule' = rule + 1
      BY <3>4, <1>rules DEF AtRule
    <3>5. CASE UNCHANGED cvmRules /\ rule' = Len(cvmRules) + 1
      BY <3>5, <1>rules
    <3> QED
      BY <2>1, <3>2, <3>3, <3>4, <3>5
  <2>3. UNCHANGED sent \/ \E l, v : sent' = [sent EXCEPT ![l] = v]
    BY <1>2 DEF Step, PdolFails, GetProcessingOptions, ReadRecord, NextEntry,
            PublicKeys, PassRule, RuleWithoutPin, NoPin, VerifyPin, UnsentPin,
            EndOfRules, StaticOrNone, FastDda, Dda, DdolFails, ActionAnalysis,
            CdolFails, GetChallenge, GivenCryptogram, GenerateAc,
            IssuerAuthentication, decision
  <2>4. sent' = [l \in {"9F38", "8C", "8D"} |-> sent'[l]]
    BY <2>3 DEF Lists
  <2> QED
    BY <2>2, <2>4 DEF Lists
<1>3. CASE Terminated \/ UNCHANGED vars
  BY <1>3 DEF Terminated, vars, capabilities, verification, decision, Lists
<1> QED
  BY <1>1, <1>2, <1>3 DEF Next

(* The loop over the records.                                                 *)
LEMMA StepReading ==
    ASSUME Reading, Chosen, [Next]_vars
    PROVE  Reading'
<1>afl. afl \in Seq(AflEntry) /\ Len(afl) \in Nat /\ DOMAIN afl = 1 .. Len(afl)
        /\ \A i \in 1 .. Len(afl) : afl[i].oda \in Nat /\ afl[i].records \in Nat
  <2>1. afl \in Seq(AflEntry)
    BY ContactAssumption DEF Chosen
  <2>2. \A i \in 1 .. Len(afl) : afl[i] \in AflEntry
    BY <2>1
  <2> QED
    BY <2>1, <2>2, LenProperties DEF AflEntry
<1>cursor. Entry \in Nat \ {0} /\ Record \in Nat /\ OdaLeft \in Nat
  BY DEF Reading, Entry, Record, OdaLeft
<1>first. afl # <<>> => 1 \in 1 .. Len(afl)
  <2>1. afl # <<>> => Len(afl) # 0
    BY <1>afl, EmptySeq
  <2> QED
    BY <2>1, <1>afl
<1>1. CASE NextTransaction
  <2>1. data' = <<>> /\ cursor' = <<1, 1, 0>> /\ readFailed' = FALSE
    BY <1>1 DEF NextTransaction, Selected
  <2>2. data' \in Seq(Nat \X Nat) /\ DOMAIN data' = {}
    BY <2>1, EmptySeq, LenProperties
  <2>3. cursor' \in (Nat \ {0}) \X Nat \X Nat
    BY <2>1
  <2>4. readFailed' \in BOOLEAN
    BY <2>1
  <2> QED
    BY <2>2, <2>3, <2>4 DEF Reading
<1>2. CASE \E r \in GpoResponses : GetProcessingOptions(r)
  <2>1. /\ UNCHANGED <<data, readFailed, afl>>
        /\ \/ UNCHANGED cursor
           \/ cursor' = <<1, 1, IF afl = <<>> THEN 0 ELSE afl[1].oda>>
    BY <1>2 DEF GetProcessingOptions, setup
  <2>2. (IF afl = <<>> THEN 0 ELSE afl[1].oda) \in Nat
    BY <1>afl, <1>first
  <2>3. cursor' \in (Nat \ {0}) \X Nat \X Nat
    BY <2>1, <2>2 DEF Reading
  <2> QED
    BY <2>1, <2>3 DEF Reading
<1>3. CASE \E r \in RecordResponses : ReadRecord(r)
  <2>1. PICK r \in RecordResponses : ReadRecord(r)
    BY <1>3
  <2> DEFINE authenticated == (r.ok /\ r.body # "none") /\ OdaLeft > 0
  <2>2. UNCHANGED afl /\ Entry <= Len(afl) /\ Record <= afl[Entry].records
    BY <2>1 DEF ReadRecord, setup
  <2>3. readFailed' \in BOOLEAN
    <3>1. r.ok \in BOOLEAN
      BY ContactAssumption DEF Response
    <3>2. readFailed' = readFailed \/ readFailed' = (readFailed \/ ~(r.ok /\ r.body # "none"))
      BY <2>1 DEF ReadRecord
    <3> QED
      BY <3>1, <3>2 DEF Reading
  <2>4. \/ UNCHANGED <<data, cursor>>
        \/ /\ data' \in {data, Append(data, <<Entry, Record>>)}
           /\ cursor' \in {<<Entry, Record + 1, OdaLeft>>,
                           <<Entry, Record + 1, IF authenticated THEN OdaLeft - 1
                                                ELSE OdaLeft>>}
    BY <2>1 DEF ReadRecord
  <2>5. (IF authenticated THEN OdaLeft - 1 ELSE OdaLeft) \in Nat
    BY <1>cursor
  <2>6. cursor' \in (Nat \ {0}) \X Nat \X Nat
    <3> HIDE DEF authenticated
    <3> QED
      BY <2>4, <2>5, <1>cursor DEF Reading
  <2>7. data' \in Seq(Nat \X Nat)
        /\ \A i \in DOMAIN data' :
              data'[i][1] \in DOMAIN afl /\ data'[i][2] <= afl[data'[i][1]].records
    <3>1. <<Entry, Record>> \in Nat \X Nat /\ Entry \in DOMAIN afl
      BY <1>cursor, <1>afl, <2>2
    <3> DEFINE more == Append(data, <<Entry, Record>>)
    <3>2. /\ more \in Seq(Nat \X Nat) /\ DOMAIN more = 1 .. Len(data) + 1
          /\ \A i \in 1 .. Len(data) : more[i] = data[i]
          /\ more[Len(data) + 1] = <<Entry, Record>>
          /\ Len(data) \in Nat /\ DOMAIN data = 1 .. Len(data)
      BY <3>1, AppendProperties, LenProperties DEF Reading
    <3> HIDE DEF more
    <3>3. \A i \in DOMAIN more :
             more[i][1] \in DOMAIN afl /\ more[i][2] <= afl[more[i][1]].records
      <4> TAKE i \in DOMAIN more
      <4>1. CASE i \in 1 .. Len(data)
        BY <4>1, <3>2 DEF Reading
      <4>2. CASE i = Len(data) + 1
        BY <4>2, <3>1, <3>2, <2>2
      <4> QED
        BY <4>1, <4>2, <3>2
    <3>4. data' \in {data, more}
      BY <2>4 DEF more
    <3> QED
      BY <3>2, <3>3, <3>4 DEF Reading
  <2> QED
    BY <2>2, <2>3, <2>6, <2>7 DEF Reading
<1>4. CASE NextEntry
  <2>1. /\ UNCHANGED <<data, readFailed, afl>>
        /\ \/ UNCHANGED cursor
           \/ Entry < Len(afl) /\ cursor' = <<Entry + 1, 1, afl[Entry + 1].oda>>
    BY <1>4 DEF NextEntry, setup
  <2>2. Entry < Len(afl) => afl[Entry + 1].oda \in Nat /\ Entry + 1 \in Nat \ {0}
    BY <1>afl, <1>cursor
  <2>3. cursor' \in (Nat \ {0}) \X Nat \X Nat
    BY <2>1, <2>2 DEF Reading
  <2> QED
    BY <2>1, <2>3 DEF Reading
<1>5. CASE \/ PdolFails \/ PublicKeys \/ PassRule \/ RuleWithoutPin
           \/ NoPin
           \/ \E challenge, r \in StatusResponses : VerifyPin(challenge, r)
           \/ UnsentPin
           \/ EndOfRules \/ StaticOrNone \/ FastDda
           \/ \E r \in DdaResponses : Dda(r)
           \/ DdolFails \/ ActionAnalysis \/ CdolFails
           \/ \E r \in StatusResponses : GetChallenge(r)
           \/ GivenCryptogram \/ \E r \in AcResponses : GenerateAc(r)
           \/ \E r \in StatusResponses : IssuerAuthentication(r)
           \/ Terminated \/ UNCHANGED vars
  <2>1. UNCHANGED <<files, afl>>
    BY <1>5 DEF PdolFails, PublicKeys, PassRule, RuleWithoutPin, NoPin, VerifyPin,
            UnsentPin, EndOfRules, StaticOrNone, FastDda, Dda, DdolFails,
            ActionAnalysis, CdolFails, GetChallenge, GivenCryptogram, GenerateAc,
            IssuerAuthentication, Terminated, vars, setup
  <2> QED
    BY <2>1 DEF files, Reading
<1> QED
  BY <1>1, <1>2, <1>3, <1>4, <1>5 DEF Next, Step
----------------------------------------------------------------------------
(* The tag store. *)

LEMMA AnswerTypes ==
    ASSUME NEW r \in GpoResponses \cup RecordResponses \cup DdaResponses
                     \cup AcResponses \cup StatusResponses
    PROVE  /\ TagStore(Parsed(r)) /\ TagStore(Extracted(r))
           /\ ~Crashes(r) => ~ParsePanics(Parsed(r))
BY ContactAssumption, NoTagsType DEF Response, Parsed, Extracted, Crashes

(* Format 1 answers to these two commands hold no cryptogram type.            *)
LEMMA ExtractedTypes ==
    ASSUME NEW r \in GpoResponses \cup DdaResponses
    PROVE  ~ParsePanics(Extracted(r))
<1>1. r.body = "format1" => TAG_CRYPTOGRAM_INFO_DATA \notin DOMAIN r.tags
  BY ContactAssumption
     DEF TAG_CRYPTOGRAM_INFO_DATA, TAG_AIP, TAG_AFL,
         TAG_SIGNED_DYNAMIC_APPLICATION_DATA
<1> QED
  BY <1>1, NoTagsType DEF Extracted, ParsePanics, Holds

LEMMA MergeStored ==
    ASSUME NEW s, ~ParsePanics(s), NEW new, ~ParsePanics(new)
    PROVE  TagStore(Merge(s, new)) /\ ~ParsePanics(Merge(s, new))
BY MergeType, MergeCid

LEMMA AddStored ==
    ASSUME NEW s, ~ParsePanics(s), NEW t, NEW v, t # "9F27"
    PROVE  TagStore(add_tag(s, t, v)) /\ ~ParsePanics(add_tag(s, t, v))
BY AddTag, AddTagCid

(* The store after a GENERATE AC, before the signed cryptogram is added.      *)
AcStore(r) ==
    IF ~Crashes(r) /\ ~(r.ok /\ ParsePanics(Extracted(r)))
    THEN Merge(Merge(tags, Parsed(r)), IF r.ok THEN Extracted(r) ELSE NoTags)
    ELSE tags

LEMMA AcStoreTypes ==
    ASSUME Stored, NEW r \in AcResponses
    PROVE  TagStore(AcStore(r)) /\ ~ParsePanics(AcStore(r))
<1>1. CASE ~Crashes(r) /\ ~(r.ok /\ ParsePanics(Extracted(r)))
  <2>1. ~ParsePanics(Parsed(r))
    BY <1>1, AnswerTypes
  <2> DEFINE rest == IF r.ok THEN Extracted(r) ELSE NoTags
  <2>2. ~ParsePanics(rest)
    BY <1>1, NoTagsType
  <2>3. ~ParsePanics(Merge(tags, Parsed(r)))
    BY <2>1, MergeStored DEF Stored
  <2>4. AcStore(r) = Merge(Merge(tags, Parsed(r)), rest)
    BY <1>1 DEF AcStore
  <2> HIDE DEF rest
  <2> QED
    BY <2>2, <2>3, <2>4, MergeStored
<1>2. CASE ~(~Crashes(r) /\ ~(r.ok /\ ParsePanics(Extracted(r))))
  BY <1>2 DEF AcStore, Stored
<1> QED
  BY <1>1, <1>2

LEMMA GenerateAcStores ==
    ASSUME NEW r \in AcResponses, GenerateAc(r)
    PROVE  /\ \/ tags' = AcStore(r)
              \/ tags' = add_tag(AcStore(r), TAG_APPLICATION_CRYPTOGRAM, {"signed"})
           /\ \/ UNCHANGED card
              \/ /\ Holds(AcStore(r), TAG_CRYPTOGRAM_INFO_DATA)
                 /\ card' = CryptogramOf(AcStore(r))
BY DEF GenerateAc, AcStore

LEMMA StepStored ==
    ASSUME Stored, [Next]_vars
    PROVE  Stored'
<1>now. TagStore(tags) /\ ~ParsePanics(tags) /\ card \in CryptogramType \cup {"none"}
  BY DEF Stored
<1>1. CASE NextTransaction
  <2>1. PICK s \in SelectTags :
          tags' = Prepared(s, amount')
    BY <1>1 DEF NextTransaction, Selected
  <2>2. TagStore(tags') /\ ~ParsePanics(tags')
    <3>1. TagStore(s) /\ ~ParsePanics(s)
      BY ContactAssumption
    <3>2. tags' = s \/ \E v : tags' = add_tag(s, TAG_AMOUNT_AUTHORISED, v)
      BY <1>1, <2>1 DEF Prepared, NextTransaction
    <3> QED
      BY <3>1, <3>2, AddStored DEF TAG_AMOUNT_AUTHORISED
  <2> QED
    BY <1>1, <2>2 DEF NextTransaction, Selected, Stored
<1>2. CASE \E r \in GpoResponses : GetProcessingOptions(r)
  <2>1. PICK r \in GpoResponses : GetProcessingOptions(r)
    BY <1>2
  <2>2. UNCHANGED card /\ (~Crashes(r) \/ UNCHANGED tags)
        /\ tags' \in {tags, Merge(Merge(tags, Parsed(r)), Extracted(r))}
    BY <2>1 DEF GetProcessingOptions, contents
  <2>3. ~Crashes(r) => /\ TagStore(Merge(Merge(tags, Parsed(r)), Extracted(r)))
                       /\ ~ParsePanics(Merge(Merge(tags, Parsed(r)), Extracted(r)))
    BY <1>now, AnswerTypes, ExtractedTypes, MergeStored
  <2> QED
    BY <1>now, <2>2, <2>3 DEF Stored
<1>3. CASE \E r \in RecordResponses : ReadRecord(r)
  <2>1. PICK r \in RecordResponses : ReadRecord(r)
    BY <1>3
  <2>2. UNCHANGED card /\ (~Crashes(r) \/ UNCHANGED tags)
        /\ tags' \in {tags, Merge(tags, Parsed(r))}
    BY <2>1 DEF ReadRecord, contents, decision
  <2>3. ~Crashes(r) => /\ TagStore(Merge(tags, Parsed(r)))
                       /\ ~ParsePanics(Merge(tags, Parsed(r)))
    BY <1>now, AnswerTypes, MergeStored
  <2> QED
    BY <1>now, <2>2, <2>3 DEF Stored
<1>4. CASE \E r \in DdaResponses : Dda(r)
  <2>1. PICK r \in DdaResponses : Dda(r)
    BY <1>4
  <2> DEFINE store == Merge(Merge(tags, Parsed(r)), Extracted(r))
  <2>2. Crashes(r) => UNCHANGED tags
    BY <2>1 DEF Dda
  <2>3. tags' \in {tags, store, add_tag(store, "9F4C", {"from 9F4B"})}
        /\ UNCHANGED card
    BY <2>1 DEF Dda, decision
  <2>4. ~Crashes(r) => TagStore(store) /\ ~ParsePanics(store)
    BY <1>now, AnswerTypes, ExtractedTypes, MergeStored
  <2> HIDE DEF store
  <2>5. ~Crashes(r) => TagStore(tags') /\ ~ParsePanics(tags')
    BY <1>now, <2>3, <2>4, AddStored
  <2> QED
    BY <1>now, <2>2, <2>3, <2>5 DEF Stored
<1>5. CASE \E r \in AcResponses : GenerateAc(r)
  <2>1. PICK r \in AcResponses : GenerateAc(r)
    BY <1>5
  <2>2. TagStore(AcStore(r)) /\ ~ParsePanics(AcStore(r))
    BY AcStoreTypes
  <2>3. TagStore(tags') /\ ~ParsePanics(tags')
    BY <2>1, <2>2, GenerateAcStores, AddStored DEF TAG_APPLICATION_CRYPTOGRAM
  <2>4. card' \in CryptogramType \cup {"none"}
    BY <1>now, <2>1, <2>2, GenerateAcStores, CryptogramOfType
  <2> QED
    BY <2>3, <2>4 DEF Stored
<1>6. CASE GivenCryptogram
  BY <1>6, <1>now, CryptogramOfType DEF GivenCryptogram, contents, Stored
<1>7. CASE \E challenge, r \in StatusResponses : VerifyPin(challenge, r)
  <2>1. PICK challenge, r \in StatusResponses : VerifyPin(challenge, r)
    BY <1>7
  <2> DEFINE asked == cvmRules[rule]
             enciphered == MethodFor(asked) = "enciphered PIN"
             new == IF enciphered THEN Merge(Parsed(challenge), Parsed(r)) ELSE Parsed(r)
  <2>2. /\ UNCHANGED card
        /\ \/ UNCHANGED tags
           \/ /\ ~Crashes(r) /\ (enciphered => ~Crashes(challenge))
              /\ \E v : tags' = add_tag(Merge(tags, new), "9F34", v)
    BY <2>1 DEF VerifyPin, Conclude, contents, decision
  <2>3. ~Crashes(r) /\ (enciphered => ~Crashes(challenge)) => ~ParsePanics(new)
    BY AnswerTypes, MergeStored
  <2> HIDE DEF new
  <2>4. CASE UNCHANGED tags
    BY <1>now, <2>2, <2>4 DEF Stored
  <2>5. CASE tags' # tags
    <3>1. ~ParsePanics(Merge(tags, new))
      BY <1>now, <2>2, <2>3, <2>5, MergeStored
    <3> QED
      BY <1>now, <2>2, <2>5, <3>1, AddStored DEF Stored
  <2> QED
    BY <2>4, <2>5
<1>8. CASE \E r \in StatusResponses : GetChallenge(r)
  <2>1. PICK r \in StatusResponses : GetChallenge(r)
    BY <1>8
  <2>2. /\ UNCHANGED card
        /\ \/ UNCHANGED tags
           \/ /\ ~Crashes(r)
              /\ tags' = add_tag(Merge(tags, Parsed(r)), "9F4C", {"challenge"})
    BY <2>1 DEF GetChallenge, contents
  <2>3. ~Crashes(r) => ~ParsePanics(Merge(tags, Parsed(r)))
    BY <1>now, AnswerTypes, MergeStored
  <2> QED
    BY <1>now, <2>2, <2>3, AddStored DEF Stored
<1>9. CASE \E r \in StatusResponses : IssuerAuthentication(r)
  <2>1. PICK r \in StatusResponses : IssuerAuthentication(r)
    BY <1>9
  <2>2. /\ UNCHANGED card
        /\ UNCHANGED tags \/ (~Crashes(r) /\ tags' = Merge(tags, Parsed(r)))
    BY <2>1 DEF IssuerAuthentication, contents, decision
  <2> QED
    BY <1>now, <2>2, AnswerTypes, MergeStored DEF Stored
<1>10. CASE RuleWithoutPin \/ UnsentPin
  <2>1. /\ UNCHANGED card
        /\ UNCHANGED tags \/ \E v : tags' = add_tag(Merge(tags, NoTags), "9F34", v)
    BY <1>10 DEF RuleWithoutPin, UnsentPin, Conclude, contents, decision
  <2>2. ~ParsePanics(Merge(tags, NoTags))
    BY <1>now, NoTagsType, MergeStored
  <2> QED
    BY <1>now, <2>1, <2>2, AddStored DEF Stored
<1>11. CASE \/ PdolFails \/ NextEntry \/ PublicKeys \/ PassRule \/ NoPin
            \/ EndOfRules \/ StaticOrNone \/ FastDda \/ DdolFails
            \/ ActionAnalysis \/ CdolFails \/ Terminated \/ UNCHANGED vars
  <2>1. UNCHANGED card
    BY <1>11 DEF PdolFails, NextEntry, PublicKeys, PassRule, NoPin, EndOfRules,
            StaticOrNone, FastDda, DdolFails, ActionAnalysis, CdolFails,
            Terminated, vars, decision
  <2>2. UNCHANGED tags \/ \E t, v : t # "9F27" /\ tags' = add_tag(tags, t, v)
    BY <1>11 DEF PdolFails, NextEntry, PublicKeys, PassRule, NoPin, EndOfRules,
            StaticOrNone, FastDda, DdolFails, ActionAnalysis, CdolFails,
            Terminated, vars, contents, TAG_AMOUNT_AUTHORISED
  <2> QED
    BY <1>now, <2>1, <2>2, AddStored DEF Stored
<1> QED
  BY <1>1, <1>2, <1>3, <1>4, <1>5, <1>6, <1>7, <1>8, <1>9, <1>10, <1>11
     DEF Next, Step

LEMMA OwnMerge ==
    ASSUME NEW a, NEW b
    PROVE  Own(Merge(a, b)) = Own(a) \cup Own(b)
<1>1. DOMAIN Merge(a, b) = DOMAIN a \cup DOMAIN b
  BY MergeType
<1> QED
  BY <1>1 DEF Own

LEMMA OwnAdd ==
    ASSUME NEW s, NEW t, NEW v
    PROVE  Own(s) \subseteq Own(add_tag(s, t, v))
BY OwnMerge DEF add_tag

(* A store that has taken an answer holds what the answer has.                *)
LEMMA OwnAnswer ==
    ASSUME NEW s, NEW new, NEW more, NEW g, g \subseteq Own(s)
    PROVE  /\ g \cup Own(new) \subseteq Own(Merge(s, new))
           /\ g \cup Own(new) \subseteq Own(Merge(Merge(s, new), more))
BY OwnMerge

LEMMA StepOrigins ==
    ASSUME Origins, [Next]_vars
    PROVE  Origins'
<1>now. given \subseteq Own(tags)
  BY DEF Origins
<1>1. CASE NextTransaction
  <2>1. PICK s \in SelectTags :
          tags' = Prepared(s, amount') /\ given' = Own(s)
    BY <1>1 DEF NextTransaction, Selected
  <2> DEFINE with == add_tag(s, TAG_AMOUNT_AUTHORISED, AmountValue(amount'))
  <2>2. Own(s) \subseteq Own(with)
    BY OwnAdd
  <2>3. tags' = s \/ tags' = with
    BY <1>1, <2>1 DEF Prepared, NextTransaction
  <2> HIDE DEF with
  <2>4. Own(s) \subseteq Own(tags')
    BY <2>2, <2>3
  <2> QED
    BY <2>1, <2>4 DEF Origins
<1>2. CASE \E r \in GpoResponses : GetProcessingOptions(r)
  <2>1. PICK r \in GpoResponses : GetProcessingOptions(r)
    BY <1>2
  <2>2. \/ UNCHANGED <<tags, given>>
        \/ /\ tags' = Merge(Merge(tags, Parsed(r)), Extracted(r))
           /\ given' = given \cup Own(Parsed(r))
    BY <2>1 DEF GetProcessingOptions, contents
  <2> QED
    BY <1>now, <2>2, OwnAnswer DEF Origins
<1>3. CASE \E r \in RecordResponses : ReadRecord(r)
  <2>1. PICK r \in RecordResponses : ReadRecord(r)
    BY <1>3
  <2>2. \/ UNCHANGED <<tags, given>>
        \/ tags' = Merge(tags, Parsed(r)) /\ given' = given \cup Own(Parsed(r))
    BY <2>1 DEF ReadRecord, contents
  <2> QED
    BY <1>now, <2>2, OwnAnswer DEF Origins
<1>4. CASE \E r \in DdaResponses : Dda(r)
  <2>1. PICK r \in DdaResponses : Dda(r)
    BY <1>4
  <2> DEFINE store == Merge(Merge(tags, Parsed(r)), Extracted(r))
             with == add_tag(store, "9F4C", {"from 9F4B"})
             now == given \cup Own(Parsed(r))
  <2>2. \/ given' = given /\ tags' \in {tags, with}
        \/ given' = now /\ tags' \in {store, with}
    BY <2>1 DEF Dda
  <2>3. now \subseteq Own(store) /\ given \subseteq now
    BY <1>now, OwnAnswer
  <2>4. Own(store) \subseteq Own(with)
    BY OwnAdd
  <2> HIDE DEF store, with, now
  <2> QED
    BY <1>now, <2>2, <2>3, <2>4 DEF Origins
<1>5. CASE \E r \in AcResponses : GenerateAc(r)
  <2>1. PICK r \in AcResponses : GenerateAc(r)
    BY <1>5
  <2> DEFINE answered == ~Crashes(r) /\ ~(r.ok /\ ParsePanics(Extracted(r)))
             store == IF answered
                      THEN Merge(Merge(tags, Parsed(r)),
                                 IF r.ok THEN Extracted(r) ELSE NoTags)
                      ELSE tags
             with == add_tag(store, TAG_APPLICATION_CRYPTOGRAM, {"signed"})
             now == IF answered THEN given \cup Own(Parsed(r)) ELSE given
  <2>2. given' = now /\ tags' \in {store, with}
    BY <2>1 DEF GenerateAc
  <2>3. now \subseteq Own(store)
    <3>1. CASE answered
      BY <1>now, <3>1, OwnAnswer
    <3>2. CASE ~answered
      BY <1>now, <3>2
    <3> QED
      BY <3>1, <3>2
  <2>4. Own(store) \subseteq Own(with)
    BY OwnAdd
  <2> HIDE DEF store, with, now
  <2> QED
    BY <2>2, <2>3, <2>4 DEF Origins
<1>6. CASE \E challenge, r \in StatusResponses : VerifyPin(challenge, r)
  <2>1. PICK challenge, r \in StatusResponses : VerifyPin(challenge, r)
    BY <1>6
  <2>2. \/ UNCHANGED <<tags, given>>
        \/ \E new, v : /\ tags' = add_tag(Merge(tags, new), "9F34", v)
                       /\ given' = (given \cup Own(new)) \ {"9F34"}
    BY <2>1 DEF VerifyPin, Conclude, contents
  <2> QED
    BY <1>now, <2>2, OwnMerge, OwnAdd DEF Origins
<1>7. CASE \E r \in StatusResponses : GetChallenge(r)
  <2>1. PICK r \in StatusResponses : GetChallenge(r)
    BY <1>7
  <2>2. \/ UNCHANGED <<tags, given>>
        \/ /\ tags' = add_tag(Merge(tags, Parsed(r)), "9F4C", {"challenge"})
           /\ given' = given \cup Own(Parsed(r))
    BY <2>1 DEF GetChallenge, contents
  <2> QED
    BY <1>now, <2>2, OwnMerge, OwnAdd DEF Origins
<1>8. CASE \E r \in StatusResponses : IssuerAuthentication(r)
  <2>1. PICK r \in StatusResponses : IssuerAuthentication(r)
    BY <1>8
  <2>2. \/ UNCHANGED <<tags, given>>
        \/ tags' = Merge(tags, Parsed(r)) /\ given' = given \cup Own(Parsed(r))
    BY <2>1 DEF IssuerAuthentication, contents
  <2> QED
    BY <1>now, <2>2, OwnAnswer DEF Origins
<1>9. CASE RuleWithoutPin \/ UnsentPin
  <2>1. \/ UNCHANGED <<tags, given>>
        \/ \E new, v : /\ tags' = add_tag(Merge(tags, new), "9F34", v)
                       /\ given' = (given \cup Own(new)) \ {"9F34"}
    BY <1>9 DEF RuleWithoutPin, UnsentPin, Conclude, contents
  <2> QED
    BY <1>now, <2>1, OwnMerge, OwnAdd DEF Origins
<1>10. CASE \/ PdolFails \/ NextEntry \/ PublicKeys \/ PassRule \/ NoPin
            \/ EndOfRules \/ StaticOrNone \/ FastDda \/ DdolFails
            \/ ActionAnalysis \/ CdolFails \/ GivenCryptogram \/ Terminated
            \/ UNCHANGED vars
  <2>1. given' \subseteq given
    BY <1>10 DEF PdolFails, NextEntry, PublicKeys, PassRule, NoPin, EndOfRules,
            StaticOrNone, FastDda, DdolFails, ActionAnalysis, CdolFails,
            GivenCryptogram, Terminated, vars, contents
  <2>2. UNCHANGED tags \/ \E t, v : tags' = add_tag(tags, t, v)
    BY <1>10 DEF PdolFails, NextEntry, PublicKeys, PassRule, NoPin, EndOfRules,
            StaticOrNone, FastDda, DdolFails, ActionAnalysis, CdolFails,
            GivenCryptogram, Terminated, vars, contents
  <2>3. Own(tags) \subseteq Own(tags')
    BY <2>2, OwnAdd
  <2> QED
    BY <1>now, <2>1, <2>3 DEF Origins
<1> QED
  BY <1>1, <1>2, <1>3, <1>4, <1>5, <1>6, <1>7, <1>8, <1>9, <1>10 DEF Next, Step

(* The data about the card. *)
LEMMA StepIcc ==
    ASSUME TypeInv, [Next]_vars
    PROVE  (icc \in IccData)'
<1>1. CASE NextEntry
  <2> DEFINE aip == ValueOf(tags, TAG_AIP)
             new == [icc EXCEPT !.sda = "sda" \in aip, !.dda = "dda" \in aip,
                                !.cda = "cda" \in aip, !.data_authentication = data]
  <2>1. icc' = icc \/ icc' = new
    BY <1>1 DEF NextEntry, Capabilities
  <2>2. new \in IccData
    <3>1. /\ ("sda" \in aip) \in BOOLEAN /\ ("dda" \in aip) \in BOOLEAN
          /\ ("cda" \in aip) \in BOOLEAN
      OBVIOUS
    <3> HIDE DEF aip
    <3> QED
      BY <3>1 DEF TypeInv, Reading, IccData
  <2> HIDE DEF new
  <2> QED
    BY <2>1, <2>2 DEF TypeInv
<1>2. CASE PublicKeys
  <2>1. icc' = handle_public_keys(tags, icc, txn,
                  AreSigned(icc.data_authentication, afl)).icc
    BY <1>2 DEF PublicKeys
  <2>2. txn \in Nat
    BY ContactAssumption DEF TypeInv, Chosen
  <2> QED
    BY <2>1, <2>2, KeysType DEF TypeInv
<1>3. CASE \/ PdolFails \/ \E r \in GpoResponses : GetProcessingOptions(r)
           \/ \E r \in RecordResponses : ReadRecord(r)
           \/ PassRule \/ RuleWithoutPin
           \/ NoPin
           \/ \E challenge, r \in StatusResponses : VerifyPin(challenge, r)
           \/ UnsentPin
           \/ EndOfRules \/ StaticOrNone \/ FastDda
           \/ \E r \in DdaResponses : Dda(r)
           \/ DdolFails \/ ActionAnalysis \/ CdolFails
           \/ \E r \in StatusResponses : GetChallenge(r)
           \/ GivenCryptogram \/ \E r \in AcResponses : GenerateAc(r)
           \/ \E r \in StatusResponses : IssuerAuthentication(r)
           \/ NextTransaction \/ Terminated
           \/ UNCHANGED vars
  <2>1. UNCHANGED icc
    BY <1>3 DEF PdolFails, GetProcessingOptions, ReadRecord, PassRule,
            RuleWithoutPin, NoPin, VerifyPin, UnsentPin, EndOfRules, StaticOrNone,
            FastDda, Dda, DdolFails, ActionAnalysis, CdolFails, GetChallenge,
            GivenCryptogram, GenerateAc, IssuerAuthentication, NextTransaction,
            Terminated, vars
  <2> QED
    BY <2>1 DEF TypeInv
<1> QED
  BY <1>1, <1>2, <1>3 DEF Next, Step

LEMMA InitTypes == Init => TypeInv
<1> SUFFICES ASSUME Init PROVE TypeInv
  OBVIOUS
<1> USE DEF Init
<1>1. Stored /\ Origins
  <2>1. PICK s \in SelectTags :
          tags = Prepared(s, amount) /\ given = Own(s)
    OBVIOUS
  <2>2. TagStore(s) /\ ~ParsePanics(s)
    BY ContactAssumption
  <2>3. tags = s \/ \E v : tags = add_tag(s, TAG_AMOUNT_AUTHORISED, v)
    BY <2>1 DEF Prepared
  <2>4. Stored
    BY <2>2, <2>3, AddStored DEF Stored, TAG_AMOUNT_AUTHORISED
  <2>5. Own(s) \subseteq Own(tags)
    BY <2>3, OwnAdd
  <2> QED
    BY <2>1, <2>4, <2>5 DEF Origins
<1>2. Chosen
  BY ContactAssumption DEF Chosen
<1>3. Reading
  <2>1. data \in Seq(Nat \X Nat) /\ DOMAIN data = {}
    BY EmptySeq, LenProperties
  <2>2. cursor \in (Nat \ {0}) \X Nat \X Nat
    OBVIOUS
  <2>3. readFailed \in BOOLEAN
    OBVIOUS
  <2> QED
    BY <2>1, <2>2, <2>3 DEF Reading
<1>4. Lists
  <2>1. cvmRules \in Seq(CvmRule) /\ Len(cvmRules) = 0
    BY EmptySeq
  <2> QED
    BY <2>1 DEF Lists, NothingSent
<1>5. icc \in IccData
  BY DEF NewIcc, IccData
<1> QED
  BY <1>1, <1>2, <1>3, <1>4, <1>5, ContactAssumption DEF TypeInv, Ends, Phase, Found

LEMMA StepTypes == TypeInv /\ [Next]_vars => TypeInv'
BY StepEnds, StepChosen, StepStored, StepOrigins, StepFound, StepLists, StepReading,
   StepIcc DEF TypeInv

LEMMA TypeInvariant == Spec => []TypeInv
BY InitTypes, StepTypes, PTL DEF Spec

(* The state of a contact connection keeps its shape: a result exists only at *)
(* the end, the records given to authentication are records of the AFL, and   *)
(* the loop over the rules stays within them (lib.rs:1598-1745, 2990-3115).   *)
THEOREM ContactTypes == Spec => []ContactTypeOK
<1>1. TypeInv => ContactTypeOK
  BY DEF TypeInv, Ends, Chosen, Stored, Origins, Found, Lists, Reading,
         ContactTypeOK
<1> QED
  BY <1>1, TypeInvariant, PTL
----------------------------------------------------------------------------
(* The keys in use. *)

(* A key of the ICC is recovered only over what the issuer signed.            *)
LEMMA KeysRest ==
    ASSUME NEW s, NEW i \in IccData, NEW n \in Nat, NEW signed
    PROVE  LET new == handle_public_keys(s, i, n, signed).icc
           IN  \/ new.icc_pk = i.icc_pk /\ new.icc_pin_pk = i.icc_pin_pk
               \/ /\ new.icc_pk \in {i.icc_pk, n} /\ new.icc_pin_pk \in {i.icc_pin_pk, n}
                  /\ signed
<1> DEFINE withIssuer == [i EXCEPT !.issuer_pk = n]
           withIcc == [withIssuer EXCEPT !.icc_pk = n, !.icc_pin_pk = n]
           new == handle_public_keys(s, i, n, signed).icc
           rests == signed
<1>1. \A certificate : get_icc_public_key(s, certificate, signed) = "ok" => rests
  BY DEF get_icc_public_key
<1>2. \/ new \in {i, withIssuer}
      \/ rests /\ new \in {withIcc, [withIssuer EXCEPT !.icc_pin_pk = n],
                           [withIcc EXCEPT !.icc_pin_pk = n]}
  <2> HIDE DEF rests
  <2> QED
    BY <1>1 DEF handle_public_keys
<1>3. /\ withIssuer.icc_pk = i.icc_pk /\ withIssuer.icc_pin_pk = i.icc_pin_pk
      /\ withIcc.icc_pk = n /\ withIcc.icc_pin_pk = n
      /\ [withIssuer EXCEPT !.icc_pin_pk = n].icc_pk = i.icc_pk
      /\ [withIssuer EXCEPT !.icc_pin_pk = n].icc_pin_pk = n
      /\ [withIcc EXCEPT !.icc_pin_pk = n].icc_pk = n
      /\ [withIcc EXCEPT !.icc_pin_pk = n].icc_pin_pk = n
  BY DEF IccData
<1> HIDE DEF withIssuer, withIcc, new, rests
<1>4. \/ new.icc_pk = i.icc_pk /\ new.icc_pin_pk = i.icc_pin_pk
      \/ /\ new.icc_pk \in {i.icc_pk, n} /\ new.icc_pin_pk \in {i.icc_pin_pk, n}
         /\ rests
  BY <1>2, <1>3
<1> QED
  BY <1>4 DEF new, rests

BeforeKeys == {"gpo", "readRecord", "keys"}

(* Until its keys are recovered, no key is this card's; the static data they  *)
(* are recovered over are those that were read for it.                        *)
KeyInv ==
    /\ icc.icc_pk <= txn /\ icc.icc_pin_pk <= txn
    /\ phase \in BeforeKeys => txn \notin {icc.icc_pk, icc.icc_pin_pk}
    /\ phase = "keys" => icc.data_authentication = data
    /\ txn \in {icc.icc_pk, icc.icc_pin_pk} => AreSigned(data, afl)

LEMMA StepKeys ==
    ASSUME TypeInv, KeyInv, [Next]_vars
    PROVE  KeyInv'
<1>types. txn \in Nat /\ icc \in IccData /\ icc.icc_pk \in Nat /\ icc.icc_pin_pk \in Nat
  BY ContactAssumption DEF TypeInv, Chosen, IccData
<1>1. CASE NextTransaction
  <2>1. UNCHANGED icc /\ txn' = txn + 1 /\ phase' = "gpo"
    BY <1>1 DEF NextTransaction, Selected
  <2> QED
    BY <2>1, <1>types DEF KeyInv
<1>2. CASE \E r \in GpoResponses : GetProcessingOptions(r)
  <2>1. /\ phase = "gpo" /\ phase' \in {"readRecord", "done"}
        /\ UNCHANGED <<icc, txn, data, afl>>
    BY <1>2 DEF GetProcessingOptions, Goto, Err, Panic, End, setup
  <2> QED
    BY <2>1 DEF KeyInv, BeforeKeys
<1>3. CASE \E r \in RecordResponses : ReadRecord(r)
  <2>1. /\ phase = "readRecord" /\ phase' \in {"readRecord", "done"}
        /\ UNCHANGED <<icc, txn>>
    BY <1>3 DEF ReadRecord, Panic, End, setup
  <2> QED
    BY <2>1 DEF KeyInv, BeforeKeys
<1>4. CASE NextEntry
  <2>1. phase = "readRecord" /\ UNCHANGED <<txn, data>>
    BY <1>4 DEF NextEntry, setup
  <2> DEFINE can(what) == what \in ValueOf(tags, TAG_AIP)
  <2>2. \/ UNCHANGED icc /\ phase' \in {"readRecord", "done"}
        \/ /\ phase' = "keys"
           /\ icc' = [icc EXCEPT !.sda = can("sda"), !.dda = can("dda"),
                                 !.cda = can("cda"), !.data_authentication = data]
    BY <1>4, <2>1 DEF NextEntry, Capabilities, Goto, Panic, End
  <2>3. /\ icc'.icc_pk = icc.icc_pk /\ icc'.icc_pin_pk = icc.icc_pin_pk
        /\ phase' = "keys" => icc'.data_authentication = data
    BY <2>2, <1>types DEF IccData
  <2> QED
    BY <2>1, <2>2, <2>3 DEF KeyInv, BeforeKeys
<1>5. CASE PublicKeys
  <2>1. /\ phase = "keys" /\ phase' \in {"cvm", "done"}
        /\ UNCHANGED <<txn, data, afl>>
        /\ icc' = handle_public_keys(tags, icc, txn,
                  AreSigned(icc.data_authentication, afl)).icc
    BY <1>5 DEF PublicKeys, Goto, Panic, End, setup, files
  <2>2. \/ icc'.icc_pk = icc.icc_pk /\ icc'.icc_pin_pk = icc.icc_pin_pk
        \/ /\ icc'.icc_pk \in {icc.icc_pk, txn} /\ icc'.icc_pin_pk \in {icc.icc_pin_pk, txn}
           /\ AreSigned(icc.data_authentication, afl)
    BY <2>1, <1>types, KeysRest
  <2> QED
    BY <2>1, <2>2, <1>types DEF KeyInv, BeforeKeys
<1>6. CASE \/ PdolFails \/ PassRule \/ RuleWithoutPin
           \/ NoPin
           \/ \E challenge, r \in StatusResponses : VerifyPin(challenge, r)
           \/ UnsentPin
           \/ EndOfRules \/ StaticOrNone \/ FastDda
           \/ \E r \in DdaResponses : Dda(r)
           \/ DdolFails \/ ActionAnalysis \/ CdolFails
           \/ \E r \in StatusResponses : GetChallenge(r)
           \/ GivenCryptogram \/ \E r \in AcResponses : GenerateAc(r)
           \/ \E r \in StatusResponses : IssuerAuthentication(r)
           \/ Terminated \/ UNCHANGED vars
  <2>1. UNCHANGED <<icc, txn, data, afl>>
    BY <1>6 DEF PdolFails, PassRule, RuleWithoutPin, NoPin, VerifyPin, UnsentPin,
            EndOfRules, StaticOrNone, FastDda, Dda, DdolFails, ActionAnalysis,
            CdolFails, GetChallenge, GivenCryptogram, GenerateAc,
            IssuerAuthentication, Terminated, vars, setup, files
  <2>2. phase' = phase \/ phase' \notin BeforeKeys
    BY <1>6 DEF PdolFails, PassRule, RuleWithoutPin, NoPin, VerifyPin, UnsentPin,
            EndOfRules, StaticOrNone, FastDda, Dda, Authenticated, DdolFails,
            ActionAnalysis, CdolFails, GetChallenge, GivenCryptogram, GenerateAc,
            Accept, IssuerAuthentication, Terminated, vars, Goto, Err, Panic, End,
            BeforeKeys
  <2> QED
    BY <2>1, <2>2 DEF KeyInv, BeforeKeys
<1> QED
  BY <1>1, <1>2, <1>3, <1>4, <1>5, <1>6 DEF Next, Step

LEMMA KeyInvariant == Spec => [](TypeInv /\ KeyInv)
<1>1. Init => KeyInv
  <2> SUFFICES ASSUME Init PROVE KeyInv
    OBVIOUS
  <2>1. txn = 1 /\ icc.icc_pk = 0 /\ icc.icc_pin_pk = 0 /\ phase = "gpo"
    BY DEF Init, NewIcc
  <2> QED
    BY <2>1 DEF KeyInv
<1>2. TypeInv /\ KeyInv /\ [Next]_vars => (TypeInv /\ KeyInv)'
  BY StepTypes, StepKeys
<1> QED
  BY <1>1, <1>2, InitTypes, PTL DEF Spec

(* Whatever cards one connection meets, a key of the card it talks to was     *)
(* recovered over exactly the records that card's issuer signed, and a key of *)
(* an earlier card never passes for it (lib.rs:1655-1680 and 2456-2510).      *)
THEOREM KeysOverSignedRecords == Spec => []KeyRestsOnRecords
<1>1. TypeInv /\ KeyInv => KeyRestsOnRecords
  BY DEF KeyInv, KeyRestsOnRecords
<1> QED
  BY <1>1, KeyInvariant, PTL
----------------------------------------------------------------------------
(* What a successful purchase rests on. *)

(* Data of the first GENERATE AC are sent by that command only.               *)
PurchaseInv ==
    /\ PurchaseRestsOnSignature
    /\ phase \notin {"issuerAuth", "gac2", "done"} => sent["8C"] = NoTags

(* Only a cryptogram makes a purchase successful.                             *)
LEMMA SuccessByCryptogram ==
    ASSUME Ends, [Next]_vars, result' = "successful"
    PROVE  \/ GivenCryptogram \/ \E r \in AcResponses : GenerateAc(r)
           \/ UNCHANGED vars
<1>1. CASE Step
  <2>1. phase # "done"
    BY <1>1 DEF Step, PdolFails, GetProcessingOptions, ReadRecord, NextEntry,
            PublicKeys, PassRule, RuleWithoutPin, NoPin, VerifyPin, UnsentPin,
            AtPinRule, Applicable, AtRule, EndOfRules, StaticOrNone, FastDda, Dda,
            DdolFails, ActionAnalysis, CdolFails, GetChallenge, AtGenerateAc,
            GivenCryptogram, AlreadyGiven, GenerateAc, IssuerAuthentication
  <2>2. result = "none"
    BY <2>1 DEF Ends
  <2>3. \/ GivenCryptogram \/ \E r \in AcResponses : GenerateAc(r)
        \/ result' \in {"none", "error", "panic"}
    BY <1>1, <2>2 DEF Step, PdolFails, GetProcessingOptions, ReadRecord,
            NextEntry, Capabilities, PublicKeys, PassRule, RuleWithoutPin, NoPin,
            VerifyPin, UnsentPin, EndOfRules, StaticOrNone, FastDda, Dda,
            Authenticated, DdolFails, ActionAnalysis, CdolFails, GetChallenge,
            IssuerAuthentication, Goto, Err, Panic, End
  <2> QED
    BY <2>3
<1>2. CASE NextTransaction \/ Terminated \/ UNCHANGED vars
  BY <1>2 DEF NextTransaction, Terminated
<1> QED
  BY <1>1, <1>2 DEF Next

(* A caller that ends successfully has accepted a TC.                         *)
LEMMA AcceptsTc ==
    ASSUME Ends, AtGenerateAc, NEW res, NEW inGpo, Accept(res, inGpo),
           result' = "successful"
    PROVE  res = "TC"
BY DEF Ends, AtGenerateAc, Accept, Goto, Err, Panic, End

LEMMA ValidTc ==
    ASSUME NEW s, ~ParsePanics(s), validate_ac(s) = "TC"
    PROVE  /\ Holds(s, TAG_CRYPTOGRAM_INFO_DATA) /\ CryptogramOf(s) = "TC"
           /\ s[TAG_CRYPTOGRAM_INFO_DATA] = {"TC"}
<1>1. Holds(s, TAG_CRYPTOGRAM_INFO_DATA) /\ CryptogramOf(s) = "TC"
  BY DEF validate_ac
<1> QED
  BY <1>1, CryptogramOfType

(* CDA ends well only on a signature of this card over this cryptogram and    *)
(* the data it was sent.                                                      *)
LEMMA CdaOk ==
    ASSUME NEW r, NEW s, NEW sentData, CryptogramOf(s) = "TC",
           CdaResult(r, s, sentData) = "ok"
    PROVE  /\ icc.icc_pk = txn /\ Holds(s, TAG_SIGNED_DYNAMIC_APPLICATION_DATA)
           /\ "TC" \in s[TAG_SIGNED_DYNAMIC_APPLICATION_DATA]
           /\ {"wrong hash", "wrong signature"}
                 \cap s[TAG_SIGNED_DYNAMIC_APPLICATION_DATA] = {}
           /\ sentData["9F38"] = get_tag_list_tag_values(s, ValueOf(s, "9F38"))
<1> DEFINE here == r.body = "template"
                   /\ Holds(r.tags, TAG_SIGNED_DYNAMIC_APPLICATION_DATA)
           same == SameData(s, SentLists, sentData)
           sdad == s[TAG_SIGNED_DYNAMIC_APPLICATION_DATA]
<1>1. handle_application_cryptogram_card_authentication(
            s, icc, txn, SentLists, here, same) = "ok"
  BY DEF CdaResult
<1> HIDE DEF here, same
<1>2. /\ validate_signed_dynamic_application_data(s, icc, txn) = "ok"
      /\ CryptogramOf(s) \in sdad /\ "wrong hash" \notin sdad /\ same
  BY <1>1 DEF handle_application_cryptogram_card_authentication
<1>3. /\ icc.icc_pk = txn /\ "wrong signature" \notin sdad
      /\ Holds(s, TAG_SIGNED_DYNAMIC_APPLICATION_DATA)
  BY <1>2 DEF validate_signed_dynamic_application_data
<1>4. sentData["9F38"] = get_tag_list_tag_values(s, ValueOf(s, "9F38"))
  BY <1>2 DEF same, SameData, SentLists
<1> QED
  BY <1>2, <1>3, <1>4

LEMMA CdaResultType ==
    ASSUME NEW r, NEW s, NEW sentData
    PROVE  CdaResult(r, s, sentData) \in {"ok", "err", "panic"}
BY DEF CdaResult, handle_application_cryptogram_card_authentication

(* What a TC from send_generate_ac has passed.                                *)
LEMMA AcResultTc ==
    ASSUME NEW r, NEW s, NEW sentData, AcResult(r, s, sentData) = "TC"
    PROVE  /\ ~Crashes(r) /\ r.ok /\ ~ParsePanics(Extracted(r))
           /\ validate_ac(s) = "TC"
           /\ CdaAgreed => CdaResult(r, s, sentData) = "ok"
BY CdaResultType DEF AcResult

LEMMA SuccessOfGenerateAc ==
    ASSUME TypeInv, NEW r \in AcResponses, GenerateAc(r), result' = "successful"
    PROVE  PurchaseRestsOnSignature'
<1> DEFINE list == IF cdol_list = {} THEN tags[Cdol] ELSE cdol_list
           sentData == [sent EXCEPT ![Cdol] = get_tag_list_tag_values(tags, list)]
           res == AcResult(r, AcStore(r), sentData)
           s == AcStore(r)
<1>1. /\ AtGenerateAc /\ Accept(res, FALSE) /\ sent' = sentData
      /\ tags' = IF CdaAgreed /\ res \in {"TC", "ARQC"}
                 THEN add_tag(s, TAG_APPLICATION_CRYPTOGRAM, {"signed"}) ELSE s
      /\ UNCHANGED <<txn, icc>>
      /\ card' = IF (~Crashes(r) /\ ~(r.ok /\ ParsePanics(Extracted(r)))) /\ r.ok
                    /\ Holds(s, TAG_CRYPTOGRAM_INFO_DATA)
                 THEN CryptogramOf(s) ELSE card
  BY DEF GenerateAc, AcStore, setup
<1> HIDE DEF list, s, sentData, res
<1>2. res = "TC"
  BY <1>1, AcceptsTc DEF TypeInv
<1>3. /\ ~Crashes(r) /\ r.ok /\ ~ParsePanics(Extracted(r))
      /\ validate_ac(s) = "TC"
      /\ CdaAgreed => CdaResult(r, s, sentData) = "ok"
  BY <1>2, AcResultTc DEF res, s
<1>4. ~ParsePanics(s)
  BY AcStoreTypes DEF TypeInv, s
<1>5. /\ Holds(s, TAG_CRYPTOGRAM_INFO_DATA) /\ CryptogramOf(s) = "TC"
      /\ s[TAG_CRYPTOGRAM_INFO_DATA] = {"TC"}
  BY <1>3, <1>4, ValidTc
<1>6. card' = "TC"
  BY <1>1, <1>3, <1>5
<1>7. CASE ~CdaAgreed
  <2>1. tags' = s /\ ~CdaAgreed'
    BY <1>1, <1>7 DEF CdaAgreed
  <2> QED
    BY <2>1, <1>5, <1>6 DEF PurchaseRestsOnSignature
<1>8. CASE CdaAgreed
  <2>1. tags' = add_tag(s, TAG_APPLICATION_CRYPTOGRAM, {"signed"})
    BY <1>1, <1>2, <1>8
  <2>2. /\ tags'[TAG_APPLICATION_CRYPTOGRAM] = {"signed"}
        /\ \A t : t # TAG_APPLICATION_CRYPTOGRAM => ValueOf(tags', t) = ValueOf(s, t)
        /\ \A t \in {TAG_CRYPTOGRAM_INFO_DATA, TAG_SIGNED_DYNAMIC_APPLICATION_DATA} :
              tags'[t] = s[t]
    <3>1. tags'[TAG_APPLICATION_CRYPTOGRAM] = {"signed"}
      BY <2>1, AddTagValue
    <3>2. \A t : t # TAG_APPLICATION_CRYPTOGRAM => ValueOf(tags', t) = ValueOf(s, t)
      BY <2>1 DEF add_tag, Merge, ValueOf, Holds
    <3>3. {TAG_CRYPTOGRAM_INFO_DATA, TAG_SIGNED_DYNAMIC_APPLICATION_DATA}
             \subseteq DOMAIN s
      BY <1>3, <1>5, <1>8, CdaOk DEF Holds
    <3> QED
      BY <2>1, <3>1, <3>2, <3>3, AddTagOther
         DEF TAG_APPLICATION_CRYPTOGRAM, TAG_CRYPTOGRAM_INFO_DATA,
             TAG_SIGNED_DYNAMIC_APPLICATION_DATA
  <2>3. /\ icc.icc_pk = txn
        /\ "TC" \in s[TAG_SIGNED_DYNAMIC_APPLICATION_DATA]
        /\ {"wrong hash", "wrong signature"}
              \cap s[TAG_SIGNED_DYNAMIC_APPLICATION_DATA] = {}
        /\ sentData["9F38"] = get_tag_list_tag_values(s, ValueOf(s, "9F38"))
    BY <1>3, <1>5, <1>8, CdaOk
  <2>4. /\ tags'[TAG_CRYPTOGRAM_INFO_DATA] = s[TAG_CRYPTOGRAM_INFO_DATA]
        /\ tags'[TAG_SIGNED_DYNAMIC_APPLICATION_DATA]
              = s[TAG_SIGNED_DYNAMIC_APPLICATION_DATA]
        /\ ValueOf(tags', "9F38") = ValueOf(s, "9F38")
    BY <2>2 DEF TAG_APPLICATION_CRYPTOGRAM, TAG_CRYPTOGRAM_INFO_DATA,
                TAG_SIGNED_DYNAMIC_APPLICATION_DATA
  <2>5. \A t \in ValueOf(tags', "9F38") \ {TAG_APPLICATION_CRYPTOGRAM} :
           sent'["9F38"][t] = ValueOf(tags', t)
    BY <1>1, <2>2, <2>3, <2>4 DEF get_tag_list_tag_values
  <2>6. icc'.icc_pk = txn'
    BY <1>1, <2>3
  <2> QED
    BY <2>2, <2>3, <2>4, <2>5, <2>6, <1>5, <1>6 DEF PurchaseRestsOnSignature
<1> QED
  BY <1>7, <1>8

LEMMA StepPurchase ==
    ASSUME TypeInv, PurchaseInv, [Next]_vars
    PROVE  PurchaseInv'
<1>1. PurchaseRestsOnSignature'
  <2>1. CASE result' # "successful"
    BY <2>1 DEF PurchaseRestsOnSignature
  <2>2. CASE result' = "successful" /\ GivenCryptogram
    <3>1. /\ phase = "gac1" /\ Accept(validate_ac(tags), TRUE) /\ AtGenerateAc
          /\ UNCHANGED <<tags, sent>>
          /\ card' = IF Holds(tags, TAG_CRYPTOGRAM_INFO_DATA) THEN CryptogramOf(tags)
                     ELSE card
      BY <2>2 DEF GivenCryptogram, AlreadyGiven, AtGenerateAc, contents
    <3>2. validate_ac(tags) = "TC"
      BY <2>2, <3>1, AcceptsTc DEF TypeInv
    <3>3. tags[TAG_CRYPTOGRAM_INFO_DATA] = {"TC"} /\ card' = "TC"
      BY <3>1, <3>2, ValidTc DEF TypeInv, Stored
    <3>4. sent["8C"] = NoTags
      BY <3>1 DEF PurchaseInv
    <3> QED
      BY <3>1, <3>3, <3>4 DEF PurchaseRestsOnSignature
  <2>3. CASE result' = "successful" /\ \E r \in AcResponses : GenerateAc(r)
    BY <2>3, SuccessOfGenerateAc
  <2>4. CASE result' = "successful" /\ UNCHANGED vars
    BY <2>4 DEF vars, setup, contents, decision, PurchaseInv,
            PurchaseRestsOnSignature, CdaAgreed
  <2> QED
    BY <2>1, <2>2, <2>3, <2>4, SuccessByCryptogram DEF TypeInv
<1>2. (phase \notin {"issuerAuth", "gac2", "done"} => sent["8C"] = NoTags)'
  <2>1. CASE NextTransaction
    BY <2>1 DEF NextTransaction, Selected, NothingSent
  <2>2. CASE \E r \in GpoResponses : GetProcessingOptions(r)
    <3>1. phase = "gpo" /\ \E v : sent' = [sent EXCEPT !["9F38"] = v]
      BY <2>2 DEF GetProcessingOptions
    <3>2. sent'["8C"] = sent["8C"]
      BY <3>1 DEF TypeInv, Lists
    <3> QED
      BY <3>1, <3>2 DEF PurchaseInv
  <2>3. CASE \E r \in AcResponses : GenerateAc(r)
    <3>1. AtGenerateAc /\ \E res : Accept(res, FALSE)
      BY <2>3 DEF GenerateAc
    <3> QED
      BY <3>1 DEF Accept, Goto, Err, Panic, End
  <2>4. CASE \/ PdolFails \/ NextEntry \/ \E r \in RecordResponses : ReadRecord(r)
             \/ PublicKeys \/ PassRule \/ RuleWithoutPin
             \/ NoPin
             \/ \E challenge, r \in StatusResponses : VerifyPin(challenge, r)
             \/ UnsentPin
             \/ EndOfRules \/ StaticOrNone \/ FastDda
             \/ \E r \in DdaResponses : Dda(r)
             \/ DdolFails \/ ActionAnalysis \/ CdolFails
             \/ \E r \in StatusResponses : GetChallenge(r)
             \/ GivenCryptogram
             \/ \E r \in StatusResponses : IssuerAuthentication(r)
             \/ Terminated
             \/ UNCHANGED vars
    <3>1. UNCHANGED sent
      BY <2>4 DEF PdolFails, ReadRecord, NextEntry, PublicKeys, PassRule,
              RuleWithoutPin, NoPin, VerifyPin, UnsentPin, EndOfRules,
              StaticOrNone, FastDda, Dda, DdolFails, ActionAnalysis, CdolFails,
              GetChallenge, GivenCryptogram, IssuerAuthentication, Terminated,
              vars, decision
    <3>2. \/ phase' = phase \/ phase \notin {"issuerAuth", "gac2", "done"}
          \/ phase' \in {"issuerAuth", "gac2", "done"}
      BY <2>4 DEF PdolFails, ReadRecord, NextEntry, PublicKeys, PassRule,
              RuleWithoutPin, NoPin, VerifyPin, UnsentPin, AtPinRule, Applicable,
              AtRule, EndOfRules, StaticOrNone, FastDda, Dda, DdolFails,
              ActionAnalysis, CdolFails, GetChallenge, GivenCryptogram,
              AlreadyGiven, IssuerAuthentication, Goto, Panic, End, Terminated,
              vars
    <3> QED
      BY <3>1, <3>2 DEF PurchaseInv
  <2> QED
    BY <2>1, <2>2, <2>3, <2>4 DEF Next, Step
<1> QED
  BY <1>1, <1>2 DEF PurchaseInv

(* For every card and terminal: a successful purchase has a TC, and if both   *)
(* agreed on CDA and a GENERATE AC was sent, this card's signature over that  *)
(* TC and over the data it was sent (lib.rs:1985-2100).                       *)
THEOREM PurchasesRestOnSignatures == Spec => []PurchaseRestsOnSignature
<1>1. Init => PurchaseInv
  BY DEF Init, NothingSent, PurchaseInv, PurchaseRestsOnSignature
<1>2. TypeInv /\ PurchaseInv /\ [Next]_vars => (TypeInv /\ PurchaseInv)'
  BY StepTypes, StepPurchase
<1>3. TypeInv /\ PurchaseInv => PurchaseRestsOnSignature
  BY DEF PurchaseInv
<1> QED
  BY <1>1, <1>2, <1>3, InitTypes, PTL DEF Spec
=============================================================================
