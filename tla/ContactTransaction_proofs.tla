---------------------- MODULE ContactTransaction_proofs ----------------------
(* For every card and every number of transactions, of the values of tags     *)
(* 9F34 and 95 that are the terminal's own: the two reports of the cardholder *)
(* verification, tag 9F34 and the TVR bit, agree whenever the card or the     *)
(* action analysis can read them; a PIN that is reported as successful is one *)
(* that the card accepted in this transaction; the rule that is reported is   *)
(* one that applies; and the TVR that the card is sent with a GENERATE AC is  *)
(* the terminal's.                                                            *)
EXTENDS ContactSafety, CardData_proofs

BeforeRules == {"gpo", "readRecord", "keys"}
AfterRules == {"oda", "taa", "gac1", "issuerAuth", "gac2"}

Agree == ("failed" \in tags["9F34"]) = (NotSuccessful \in tvr)

(* The rules the loop walks over have codes, which are never the word for a   *)
(* failure.                                                                   *)
Rules == cvmRules \in Seq(CvmRule) /\ rule \in Nat \ {0}

(* Before the loop tag 9F34 can only be the card's, after it the tag is there *)
(* in any case; what the terminal wrote into it agrees with the TVR.          *)
CvmInv ==
    /\ Rules
    /\ amount \in Nat /\ cvmList \in CvmLists
    /\ phase \in BeforeRules => ~Reported
    /\ phase \in AfterRules => Holds(tags, "9F34")
    /\ phase \in {"cvm"} \cup AfterRules /\ Reported => Agree

----------------------------------------------------------------------------
(* What becomes of the terminal's own data. *)

(* A tag keeps its value and its origin, or it has a value of the card's.     *)
Left(t, new, g, old, h) ==
    \/ /\ Holds(new, t) <=> Holds(old, t)
       /\ Holds(old, t) => new[t] = old[t]
       /\ t \in g <=> t \in h
    \/ Holds(new, t) /\ t \in g

LEMMA LeftSame == ASSUME NEW t, NEW s, NEW g PROVE Left(t, s, g, s, g)
BY DEF Left

(* A store that is merged with others does not lose a tag.                    *)
LEMMA LeftAbsent ==
    ASSUME NEW t, NEW s, NEW new, NEW g, NEW old, NEW h,
           t \notin DOMAIN new, Left(t, s, g, old, h)
    PROVE  Left(t, Merge(s, new), g, old, h)
<1>1. Holds(Merge(s, new), t) <=> Holds(s, t)
  BY MergeType DEF Holds
<1>2. Holds(s, t) => Merge(s, new)[t] = s[t]
  BY DEF Merge, Holds
<1> QED
  BY <1>1, <1>2 DEF Left

LEMMA LeftAdd ==
    ASSUME NEW t, NEW s, NEW u, NEW v, NEW g, NEW old, NEW h,
           u # t, Left(t, s, g, old, h)
    PROVE  Left(t, add_tag(s, u, v), g, old, h)
<1>1. t \notin DOMAIN [w \in {u} |-> v]
  OBVIOUS
<1> QED
  BY <1>1, LeftAbsent DEF add_tag

(* Whatever an answer holds of them counts as the card's.                     *)
LEMMA LeftMerge ==
    ASSUME NEW t \in OwnTags, NEW s, NEW new, NEW g
    PROVE  Left(t, Merge(s, new), g \cup Own(new), s, g)
<1>1. CASE t \in DOMAIN new
  BY <1>1, MergeType DEF Left, Holds, Own
<1>2. CASE t \notin DOMAIN new
  <2>1. t \in g \cup Own(new) <=> t \in g
    BY <1>2 DEF Own
  <2>2. Holds(Merge(s, new), t) <=> Holds(s, t)
    BY <1>2, MergeType DEF Holds
  <2>3. Holds(s, t) => Merge(s, new)[t] = s[t]
    BY <1>2 DEF Merge, Holds
  <2> QED
    BY <2>1, <2>2, <2>3 DEF Left
<1> QED
  BY <1>1, <1>2

(* A format 1 answer has none of them.                                        *)
LEMMA ExtractedOwn ==
    ASSUME NEW r \in GpoResponses \cup DdaResponses \cup AcResponses,
           NEW t \in OwnTags
    PROVE  t \notin DOMAIN Extracted(r) /\ t \notin DOMAIN NoTags
<1>1. t \notin DOMAIN NoTags
  BY NoTagsType
<1>2. r.body = "format1" => t \notin DOMAIN r.tags
  BY ContactAssumption
     DEF OwnTags, TAG_AIP, TAG_AFL, TAG_SIGNED_DYNAMIC_APPLICATION_DATA,
         TAG_CRYPTOGRAM_INFO_DATA, TAG_APPLICATION_CRYPTOGRAM
<1> QED
  BY <1>1, <1>2 DEF Extracted

LEMMA LeftAnswer ==
    ASSUME NEW r \in GpoResponses \cup DdaResponses \cup AcResponses,
           NEW t \in OwnTags, NEW s, NEW g
    PROVE  /\ Left(t, Merge(Merge(s, Parsed(r)), Extracted(r)), g \cup Own(Parsed(r)), s, g)
           /\ Left(t, Merge(Merge(s, Parsed(r)), NoTags), g \cup Own(Parsed(r)), s, g)
BY LeftMerge, LeftAbsent, ExtractedOwn

(* The store after SELECT.                                                    *)
LEMMA PreparedOwn ==
    ASSUME NEW s, NEW n
    PROVE  Holds(Prepared(s, n), "9F34") => "9F34" \in Own(s)
<1>1. Holds(add_tag(s, TAG_AMOUNT_AUTHORISED, AmountValue(n)), "9F34")
         => "9F34" \in DOMAIN s
  BY DEF add_tag, Merge, Holds, TAG_AMOUNT_AUTHORISED
<1> QED
  BY <1>1 DEF Prepared, Own, OwnTags, Holds

(* A GENERATE AC and the commands around it leave both tags.                  *)
LEMMA CommandLeaves ==
    ASSUME NEW t \in OwnTags,
           \/ CdolFails \/ GivenCryptogram
           \/ \E r \in StatusResponses : GetChallenge(r) \/ IssuerAuthentication(r)
           \/ \E r \in AcResponses : GenerateAc(r)
    PROVE  Left(t, tags', given', tags, given)
<1> USE DEF contents
<1>1. CASE CdolFails \/ GivenCryptogram
  BY <1>1, LeftSame DEF CdolFails, GivenCryptogram
<1>2. ASSUME NEW r, GetChallenge(r) PROVE Left(t, tags', given', tags, given)
  <2>1. t # "9F4C"
    BY DEF OwnTags
  <2> DEFINE store == Merge(tags, Parsed(r))
             g == given \cup Own(Parsed(r))
  <2>2. Left(t, store, g, tags, given)
    BY LeftMerge
  <2>3. Left(t, add_tag(store, "9F4C", {"challenge"}), g, tags, given)
    BY <2>1, <2>2, LeftAdd
  <2> QED
    BY <1>2, <2>3, LeftSame DEF GetChallenge
<1>3. ASSUME NEW r, IssuerAuthentication(r) PROVE Left(t, tags', given', tags, given)
  BY <1>3, LeftSame, LeftMerge DEF IssuerAuthentication
<1>4. ASSUME NEW r \in AcResponses, GenerateAc(r)
      PROVE  Left(t, tags', given', tags, given)
  <2> DEFINE answered == ~Crashes(r) /\ ~(r.ok /\ ParsePanics(Extracted(r)))
             store == IF answered
                      THEN Merge(Merge(tags, Parsed(r)),
                                 IF r.ok THEN Extracted(r) ELSE NoTags)
                      ELSE tags
  <2>1. \/ tags' = store
        \/ tags' = add_tag(store, TAG_APPLICATION_CRYPTOGRAM, {"signed"})
    BY <1>4 DEF GenerateAc
  <2>2. given' = IF answered THEN given \cup Own(Parsed(r)) ELSE given
    BY <1>4 DEF GenerateAc
  <2>3. Left(t, store, given', tags, given)
    BY <2>2, LeftAnswer, LeftSame
  <2>4. t # TAG_APPLICATION_CRYPTOGRAM
    BY DEF OwnTags, TAG_APPLICATION_CRYPTOGRAM
  <2> HIDE DEF store
  <2>5. Left(t, add_tag(store, TAG_APPLICATION_CRYPTOGRAM, {"signed"}), given', tags, given)
    BY <2>3, <2>4, LeftAdd
  <2> QED
    BY <2>1, <2>3, <2>5
<1> QED
  BY <1>1, <1>2, <1>3, <1>4

----------------------------------------------------------------------------
(* The shapes of the steps. *)

(* Where a step outside the loop over the rules may go.                       *)
Onward(p, q) ==
    \/ q = p \/ q = "done"
    \/ <<p, q>> \in {<<"gpo", "readRecord">>, <<"readRecord", "keys">>, <<"keys", "cvm">>,
                     <<"oda", "taa">>, <<"taa", "gac1">>}
    \/ {p, q} \subseteq {"gac1", "issuerAuth", "gac2"}

(* A step that leaves the reports, and what they rest on, alone.              *)
Quiet ==
    /\ Onward(phase, phase') /\ Left("9F34", tags', given', tags, given)
    /\ phase \in {"cvm", "oda", "taa"} /\ phase' = phase => UNCHANGED contents
    /\ (NotSuccessful \in tvr') = (NotSuccessful \in tvr)
    /\ UNCHANGED <<setup, rule, verified>>
    /\ purchase_amount' \in Nat \cup {purchase_amount}
    /\ phase # "keys" => UNCHANGED purchase_amount
    /\ phase = "keys" /\ phase' = "cvm" /\ caller = "library" => purchase_amount' = amount
    /\ \/ UNCHANGED cvmRules
       \/ /\ phase = "readRecord" /\ phase' = "keys"
          /\ cvmRules' = cvmRules \o cvmList

(* The loop passes over a rule: its condition is not met or the terminal does *)
(* not support it.                                                            *)
Passes ==
    /\ AtRule /\ rule' = rule + 1
    /\ \/ Skipped(cvmRules[rule], purchase_amount)
       \/ cvmRules[rule].condition = "CvmSupported"
    /\ UNCHANGED <<phase, setup, contents, tvr, cvmRules, purchase_amount>>

(* It comes to a result of a rule.                                            *)
Concludes ==
    /\ AtRule /\ ~Skipped(cvmRules[rule], purchase_amount)
    /\ \E success \in BOOLEAN :
          /\ \E new : Conclude(new, cvmRules[rule], success)
          /\ success /\ cvmRules[rule].code \in PinCodes => verified'
    /\ UNCHANGED <<phase, setup, cvmRules, purchase_amount>>

(* Offline data authentication raises a bit of its own.                       *)
LEMMA AuthenticatedKeeps ==
    ASSUME NEW res, NEW bit, bit # NotSuccessful, phase = "oda",
           Authenticated(res, bit)
    PROVE  /\ Onward(phase, phase') /\ phase' # phase
           /\ (NotSuccessful \in tvr') = (NotSuccessful \in tvr)
<1>1. Onward(phase, phase') /\ phase' # phase
  BY DEF Authenticated, Panic, End, Goto, Onward
<1>2. tvr' = tvr \/ tvr' = tvr \cup {bit}
  BY DEF Authenticated
<1> QED
  BY <1>1, <1>2

LEMMA AcceptOnward ==
    ASSUME NEW res, NEW inGpo, AtGenerateAc, Accept(res, inGpo)
    PROVE  Onward(phase, phase')
BY DEF AtGenerateAc, Accept, Panic, Err, End, Goto, Onward

(* The steps before the loop. *)
LEMMA EarlyQuiet ==
    ASSUME amount \in Nat,
           \/ PdolFails
           \/ \E r \in GpoResponses : GetProcessingOptions(r)
           \/ \E r \in RecordResponses : ReadRecord(r)
           \/ NextEntry \/ PublicKeys
    PROVE  Quiet
<1> USE DEF contents, files, capabilities, verification, decision
<1>own. "9F34" \in OwnTags
  BY DEF OwnTags
<1>1. CASE PdolFails
  BY <1>1, LeftSame DEF Quiet, PdolFails, Panic, End, Onward
<1>2. CASE \E r \in GpoResponses : GetProcessingOptions(r)
  <2>1. PICK r \in GpoResponses : GetProcessingOptions(r)
    BY <1>2
  <2>2. Left("9F34", tags', given', tags, given)
    BY <2>1, <1>own, LeftSame, LeftAnswer DEF GetProcessingOptions
  <2>3. Onward(phase, phase') /\ phase = "gpo"
    BY <2>1 DEF GetProcessingOptions, Err, Panic, End, Goto, Onward
  <2> QED
    BY <2>1, <2>2, <2>3 DEF Quiet, GetProcessingOptions
<1>3. CASE \E r \in RecordResponses : ReadRecord(r)
  <2>1. PICK r \in RecordResponses : ReadRecord(r)
    BY <1>3
  <2>2. Left("9F34", tags', given', tags, given)
    BY <2>1, <1>own, LeftSame, LeftMerge DEF ReadRecord
  <2>3. Onward(phase, phase') /\ phase = "readRecord"
    BY <2>1 DEF ReadRecord, Panic, End, Onward
  <2> QED
    BY <2>1, <2>2, <2>3 DEF Quiet, ReadRecord
<1>4. CASE NextEntry
  <2>1. \/ UNCHANGED cvmRules
        \/ phase' = "keys" /\ cvmRules' = cvmRules \o cvmList
    BY <1>4 DEF NextEntry, Capabilities, Goto
  <2>2. Onward(phase, phase') /\ phase = "readRecord"
    BY <1>4 DEF NextEntry, Capabilities, Panic, End, Goto, Onward
  <2> QED
    BY <1>4, <2>1, <2>2, LeftSame DEF Quiet, NextEntry
<1>5. CASE PublicKeys
  <2> DEFINE store == IF caller = "library"
                      THEN add_tag(tags, TAG_AMOUNT_AUTHORISED, AmountValue(amount))
                      ELSE tags
  <2>1. /\ tags' \in {store, tags} /\ purchase_amount' \in {get_amount(store), purchase_amount}
        /\ phase' = "cvm" => purchase_amount' = get_amount(store)
    BY <1>5 DEF PublicKeys, Panic, End
  <2>2. phase = "keys" /\ Onward(phase, phase')
    BY <1>5 DEF PublicKeys, Panic, End, Goto, Onward
  <2>3. Left("9F34", add_tag(tags, TAG_AMOUNT_AUTHORISED, AmountValue(amount)), given,
             tags, given)
    BY LeftAdd, LeftSame DEF TAG_AMOUNT_AUTHORISED
  <2>4. Left("9F34", store, given, tags, given)
    BY <2>3, LeftSame
  <2>5. get_amount(store) \in Nat /\ (caller = "library" => get_amount(store) = amount)
    BY AmountType, AddedAmount
  <2> HIDE DEF store
  <2>6. UNCHANGED <<setup, rule, verified, tvr, given, cvmRules>>
    BY <1>5 DEF PublicKeys
  <2>7. Left("9F34", tags', given', tags, given)
    BY <2>1, <2>4, <2>6, LeftSame
  <2>8. /\ purchase_amount' \in Nat \cup {purchase_amount}
        /\ phase' = "cvm" /\ caller = "library" => purchase_amount' = amount
    BY <2>1, <2>5
  <2> QED
    BY <2>2, <2>6, <2>7, <2>8 DEF Quiet
<1> QED
  BY <1>1, <1>2, <1>3, <1>4, <1>5

(* The steps after it. *)
LEMMA LateQuiet ==
    ASSUME \/ StaticOrNone \/ FastDda
           \/ \E r \in DdaResponses : Dda(r)
           \/ DdolFails \/ ActionAnalysis \/ CdolFails
           \/ \E r \in StatusResponses : GetChallenge(r)
           \/ GivenCryptogram
           \/ \E r \in AcResponses : GenerateAc(r)
           \/ \E r \in StatusResponses : IssuerAuthentication(r)
    PROVE  Quiet
<1> USE DEF contents, files, capabilities, verification, decision
<1>own. "9F34" \in OwnTags
  BY DEF OwnTags
<1>rest. UNCHANGED <<setup, rule, verified, purchase_amount, cvmRules>>
  BY DEF StaticOrNone, FastDda, Dda, DdolFails, ActionAnalysis, CdolFails,
         GetChallenge, GivenCryptogram, GenerateAc, IssuerAuthentication
<1>10. CASE StaticOrNone
  <2>1. UNCHANGED <<tags, given>> /\ phase = "oda"
    BY <1>10 DEF StaticOrNone
  <2>2. PICK res : Authenticated(res, "sda_failed")
    BY <1>10 DEF StaticOrNone
  <2> QED
    BY <2>1, <2>2, <1>rest, AuthenticatedKeeps, LeftSame DEF Quiet, NotSuccessful
<1>11. CASE FastDda
  <2>1. phase = "oda" /\ given' = given
        /\ tags' \in {tags, add_tag(tags, "9F4C", {"from 9F4B"})}
    BY <1>11 DEF FastDda
  <2>2. PICK res : Authenticated(res, "dda_failed")
    BY <1>11 DEF FastDda
  <2>3. Left("9F34", add_tag(tags, "9F4C", {"from 9F4B"}), given, tags, given)
    BY LeftSame, LeftAdd
  <2>4. Left("9F34", tags', given', tags, given)
    BY <2>1, <2>3, LeftSame
  <2> QED
    BY <2>1, <2>2, <2>4, <1>rest, AuthenticatedKeeps DEF Quiet, NotSuccessful
<1>12. CASE \E r \in DdaResponses : Dda(r)
  <2>1. PICK r \in DdaResponses : Dda(r)
    BY <1>12
  <2>2. PICK res : Authenticated(res, "dda_failed")
    BY <2>1 DEF Dda
  <2> DEFINE store == Merge(Merge(tags, Parsed(r)), Extracted(r))
             g == given \cup Own(Parsed(r))
  <2>3. \/ UNCHANGED <<tags, given>>
        \/ given' = g /\ tags' \in {store, add_tag(store, "9F4C", {"from 9F4B"})}
    BY <2>1 DEF Dda
  <2>4. Left("9F34", store, g, tags, given)
    BY <1>own, LeftAnswer
  <2>5. Left("9F34", add_tag(store, "9F4C", {"from 9F4B"}), g, tags, given)
    BY <2>4, LeftAdd
  <2>6. Left("9F34", tags', given', tags, given)
    <3> HIDE DEF store, g
    <3> QED
      BY <2>3, <2>4, <2>5, LeftSame
  <2>7. phase = "oda"
    BY <2>1 DEF Dda
  <2> QED
    BY <2>2, <2>6, <2>7, <1>rest, AuthenticatedKeeps DEF Quiet, NotSuccessful
<1>13. CASE DdolFails
  BY <1>13, <1>rest, LeftSame DEF Quiet, DdolFails, Panic, End, Onward
<1>14. CASE ActionAnalysis
  <2>1. Left("9F34", add_tag(tags, "95", tvr), given, tags, given)
    BY LeftSame, LeftAdd
  <2>2. Left("9F34", tags', given', tags, given)
    BY <1>14, <2>1 DEF ActionAnalysis, Left
  <2>3. Onward(phase, phase') /\ phase' # phase
    BY <1>14 DEF ActionAnalysis, Panic, End, Goto, Onward
  <2> QED
    BY <1>14, <2>2, <2>3, <1>rest DEF Quiet, ActionAnalysis
<1>15. CASE \/ CdolFails \/ GivenCryptogram
            \/ \E r \in StatusResponses : GetChallenge(r) \/ IssuerAuthentication(r)
            \/ \E r \in AcResponses : GenerateAc(r)
  <2>1. Left("9F34", tags', given', tags, given)
    BY <1>15, <1>own, CommandLeaves
  <2>2. phase \in {"gac1", "issuerAuth", "gac2"}
    BY <1>15 DEF CdolFails, GivenCryptogram, AlreadyGiven, GetChallenge,
                 IssuerAuthentication, GenerateAc, AtGenerateAc
  <2>3. Onward(phase, phase')
    <3>1. CASE CdolFails
      BY <3>1 DEF CdolFails, Panic, End, Onward
    <3>2. CASE GivenCryptogram
      BY <3>2, AcceptOnward DEF GivenCryptogram, AlreadyGiven, AtGenerateAc
    <3>3. ASSUME NEW r, GetChallenge(r) PROVE Onward(phase, phase')
      BY <3>3 DEF GetChallenge, Panic, End, Onward
    <3>4. ASSUME NEW r, IssuerAuthentication(r) PROVE Onward(phase, phase')
      BY <3>4 DEF IssuerAuthentication, Panic, End, Goto, Onward
    <3>5. ASSUME NEW r, GenerateAc(r) PROVE Onward(phase, phase')
      <4>1. PICK res : Accept(res, FALSE) /\ AtGenerateAc
        BY <3>5 DEF GenerateAc
      <4> QED
        BY <4>1, AcceptOnward
    <3> QED
      BY <1>15, <3>1, <3>2, <3>3, <3>4, <3>5
  <2>4. (NotSuccessful \in tvr') = (NotSuccessful \in tvr)
    <3>1. ASSUME NEW r, IssuerAuthentication(r)
          PROVE  tvr' = tvr \/ tvr' = tvr \cup {"issuer_authentication_failed"}
      BY <3>1 DEF IssuerAuthentication
    <3>2. ASSUME NEW r, GetChallenge(r) \/ GenerateAc(r) PROVE tvr' = tvr
      BY <3>2 DEF GetChallenge, GenerateAc
    <3>3. CdolFails \/ GivenCryptogram => tvr' = tvr
      BY DEF CdolFails, GivenCryptogram
    <3>4. tvr' = tvr \/ tvr' = tvr \cup {"issuer_authentication_failed"}
      BY <1>15, <3>1, <3>2, <3>3
    <3> QED
      BY <3>4 DEF NotSuccessful
  <2> QED
    BY <2>1, <2>2, <2>3, <2>4, <1>rest DEF Quiet
<1>16. CASE \/ \E r \in StatusResponses : GetChallenge(r)
            \/ \E r \in StatusResponses : IssuerAuthentication(r)
  <2>1. \E r \in StatusResponses : GetChallenge(r) \/ IssuerAuthentication(r)
    BY <1>16
  <2> QED
    BY <2>1, <1>15
<1> QED
  BY <1>10, <1>11, <1>12, <1>13, <1>14, <1>15, <1>16

(* The steps of the loop.                                                     *)
LEMMA RuleShapes ==
    ASSUME Rules,
           \/ PassRule \/ RuleWithoutPin \/ NoPin
           \/ \E challenge, r \in StatusResponses : VerifyPin(challenge, r)
           \/ UnsentPin
    PROVE  Quiet \/ Passes \/ Concludes
<1> USE DEF contents, files, capabilities, verification, decision
<1>1. CASE PassRule
  BY <1>1 DEF PassRule, PassedOver, Passes
<1>2. CASE RuleWithoutPin
  <2>1. Conclude(NoTags, cvmRules[rule], MethodFor(cvmRules[rule]) = "nothing to do")
    BY <1>2 DEF RuleWithoutPin
  <2>2. PICK success \in BOOLEAN : Conclude(NoTags, cvmRules[rule], success)
    BY <2>1
  <2> QED
    BY <1>2, <2>2 DEF RuleWithoutPin, Applicable, Concludes
<1>3. CASE NoPin
  BY <1>3, LeftSame
     DEF NoPin, AtPinRule, Applicable, AtRule, Err, Panic, End, Quiet, Onward
<1>4. CASE \E challenge, r \in StatusResponses : VerifyPin(challenge, r)
  <2>1. PICK challenge, r \in StatusResponses : VerifyPin(challenge, r)
    BY <1>4
  <2>2. AtRule /\ ~Skipped(cvmRules[rule], purchase_amount) /\ phase = "cvm"
        /\ UNCHANGED <<setup, cvmRules, purchase_amount>>
    BY <2>1 DEF VerifyPin, AtPinRule, Applicable, AtRule
  <2>3. CASE Panic /\ UNCHANGED <<contents, tvr, rule, verified>>
    BY <2>2, <2>3, LeftSame DEF Panic, End, Quiet, Onward
  <2>4. CASE /\ \E new : Conclude(new, cvmRules[rule], r.ok)
             /\ verified' = r.ok /\ UNCHANGED phase
    <3>1. r.ok \in BOOLEAN
      BY ContactAssumption DEF Response
    <3> QED
      BY <2>2, <2>4, <3>1 DEF Concludes
  <2> QED
    BY <2>1, <2>3, <2>4 DEF VerifyPin
<1>5. CASE UnsentPin
  <2>1. AtRule /\ ~Skipped(cvmRules[rule], purchase_amount)
        /\ UNCHANGED <<phase, setup, cvmRules, purchase_amount>>
    BY <1>5 DEF UnsentPin, AtPinRule, Applicable
  <2>2. \/ /\ PassedOver(cvmRules[rule], MethodFor(cvmRules[rule]))
           /\ rule' = rule + 1 /\ UNCHANGED <<contents, tvr>>
        \/ Conclude(NoTags, cvmRules[rule], FALSE)
    BY <1>5 DEF UnsentPin
  <2> QED
    BY <2>1, <2>2 DEF PassedOver, Passes, Concludes
<1> QED
  BY <1>1, <1>2, <1>3, <1>4, <1>5

(* Every step has one of these shapes.                                        *)
LEMMA Shapes ==
    ASSUME CvmInv, [Next]_vars
    PROVE  Quiet \/ Passes \/ Concludes \/ EndOfRules \/ NextTransaction
<1>1. Rules /\ amount \in Nat
  BY DEF CvmInv
<1>2. CASE Terminated \/ UNCHANGED vars
  <2>1. UNCHANGED <<phase, setup, contents, tvr, capabilities, verification>>
    BY <1>2 DEF Terminated, vars
  <2> QED
    BY <2>1, LeftSame DEF Quiet, contents, capabilities, verification, Onward
<1>3. CASE Step
  BY <1>1, <1>3, EarlyQuiet, LateQuiet, RuleShapes DEF Step
<1> QED
  BY <1>2, <1>3 DEF Next

----------------------------------------------------------------------------
(* The reports of a rule. *)

(* 9F34 says "failed" exactly for a rule without success.                     *)
LEMMA ReportedResult ==
    ASSUME NEW r \in CvmRule, NEW success \in BOOLEAN
    PROVE  ("failed" \in into_9f34_value(r, success)) = ~success
<1>1. r.code # "failed"
  BY DEF CvmRule, CvmCode
<1> QED
  BY <1>1 DEF into_9f34_value

LEMMA ConcludeReports ==
    ASSUME NEW new, NEW r \in CvmRule, NEW success \in BOOLEAN, Rules,
           Conclude(new, r, success)
    PROVE  /\ Reported' /\ tags'["9F34"] = into_9f34_value(r, success)
           /\ Agree' /\ rule' \in Nat \ {0}
<1>1. /\ Holds(tags', "9F34") /\ "9F34" \notin given'
      /\ tags'["9F34"] = into_9f34_value(r, success)
  BY AddTagValue DEF Conclude, Holds
<1>2. (NotSuccessful \in tvr') = ~success
  BY DEF Conclude
<1>3. rule' \in Nat \ {0}
  <2>1. Len(cvmRules) \in Nat
    BY DEF Rules
  <2> QED
    BY <2>1 DEF Conclude, Rules
<1>4. Agree'
  BY <1>1, <1>2, ReportedResult DEF Agree
<1> QED
  BY <1>1, <1>3, <1>4 DEF Reported, Holds

LEMMA CurrentRule ==
    ASSUME Rules, AtRule
    PROVE  /\ cvmRules[rule] \in CvmRule /\ rule \in DOMAIN cvmRules /\ phase = "cvm"
           /\ rule \in Nat \ {0} /\ Len(cvmRules) \in Nat /\ rule <= Len(cvmRules)
BY DEF Rules, AtRule

(* What a step that leaves the reports alone says afterwards, it said before. *)
LEMMA QuietReported ==
    ASSUME Quiet, Reported'
    PROVE  Reported /\ tags'["9F34"] = tags["9F34"]
BY DEF Quiet, Left, Reported, Holds

(* The end of the loop: a result stays; without any the CVM has failed, and   *)
(* 9F34 says so, too.                                                         *)
LEMMA EndReports ==
    ASSUME EndOfRules
    PROVE  /\ phase = "cvm" /\ rule > Len(cvmRules) /\ given' = given
           /\ phase' = (IF caller = "library" THEN "oda" ELSE "taa")
           /\ UNCHANGED <<setup, cvmRules, rule, verified, purchase_amount>>
           /\ Holds(tags', "9F34")
           /\ \/ Holds(tags, "9F34") /\ UNCHANGED <<tags, tvr>>
              \/ /\ ~Holds(tags, "9F34") /\ tags'["9F34"] = NoCvmPerformed
                 /\ NotSuccessful \in tvr'
<1> USE DEF contents, files, capabilities, verification, decision
<1>1. CASE Holds(tags, "9F34")
  BY <1>1 DEF EndOfRules, Goto
<1>2. CASE ~Holds(tags, "9F34")
  <2>1. tags' = add_tag(tags, "9F34", NoCvmPerformed) /\ NotSuccessful \in tvr'
    BY <1>2 DEF EndOfRules
  <2>2. Holds(tags', "9F34") /\ tags'["9F34"] = NoCvmPerformed
    BY <2>1, AddTagValue DEF Holds
  <2> QED
    BY <1>2, <2>1, <2>2 DEF EndOfRules, Goto
<1> QED
  BY <1>1, <1>2

LEMMA NextReports ==
    ASSUME NextTransaction
    PROVE  /\ phase' = "gpo" /\ UNCHANGED <<caller, cvmRules>> /\ txn' = txn + 1
           /\ rule' = 1 /\ purchase_amount' = 0 /\ ~Reported'
           /\ amount' \in Amounts /\ cvmList' \in CvmLists
<1>1. PICK s \in SelectTags : tags' = Prepared(s, amount') /\ given' = Own(s)
  BY DEF NextTransaction, Selected
<1>2. ~(Holds(tags', "9F34") /\ "9F34" \notin given')
  BY <1>1, PreparedOwn
<1> QED
  BY <1>2 DEF NextTransaction, Selected, capabilities, Reported, Holds

----------------------------------------------------------------------------
LEMMA InitCvm == Init => CvmInv
<1> SUFFICES ASSUME Init PROVE CvmInv
  OBVIOUS
<1>1. PICK s \in SelectTags : tags = Prepared(s, amount) /\ given = Own(s)
  BY DEF Init
<1>2. ~Reported
  BY <1>1, PreparedOwn DEF Reported
<1>3. Rules /\ amount \in Nat
  BY ContactAssumption DEF Rules, Init
<1> QED
  BY <1>2, <1>3 DEF Init, CvmInv, BeforeRules, AfterRules

(* Every step keeps it: the loop's own steps make the reports agree, all      *)
(* others leave them alone.                                                   *)
LEMMA StepCvm == CvmInv /\ [Next]_vars => CvmInv'
<1> SUFFICES ASSUME CvmInv, [Next]_vars PROVE CvmInv'
  OBVIOUS
<1> USE DEF setup, contents
<1>rules. Rules /\ amount \in Nat /\ cvmList \in CvmLists
  BY DEF CvmInv
<1>1. CASE Quiet
  <2>1. Reported' => Reported /\ (Agree' <=> Agree)
    <3>1. ASSUME Reported' PROVE Reported /\ tags'["9F34"] = tags["9F34"]
      BY <1>1, <3>1, QuietReported
    <3> QED
      BY <1>1, <3>1 DEF Quiet, Agree
  <2>2. Holds(tags, "9F34") => Holds(tags', "9F34")
    BY <1>1 DEF Quiet, Left
  <2>3. /\ phase' \in BeforeRules => phase \in BeforeRules
        /\ phase' \in AfterRules => phase \in AfterRules
        /\ phase' = "cvm" => phase \in {"keys", "cvm"}
    BY <1>1 DEF Quiet, Onward, BeforeRules, AfterRules
  <2>4. Rules'
    <3>1. cvmList \in Seq(CvmRule)
      BY <1>rules, ContactAssumption
    <3>2. cvmRules \in Seq(CvmRule) /\ cvmRules \o cvmList \in Seq(CvmRule)
      BY <1>rules, <3>1 DEF Rules
    <3> QED
      BY <1>1, <1>rules, <3>2 DEF Quiet, Rules
  <2>5. Holds(tags', "9F34") <=> Holds(tags, "9F34")'
    BY DEF Holds
  <2>6. UNCHANGED <<amount, cvmList>>
    BY <1>1 DEF Quiet
  <2> QED
    BY <1>rules, <2>1, <2>2, <2>3, <2>4, <2>5, <2>6 DEF CvmInv, BeforeRules
<1>2. CASE Passes
  <2>1. phase = "cvm" /\ UNCHANGED <<phase, amount, cvmList, cvmRules, tags, given, tvr>>
    BY <1>2 DEF Passes, AtRule
  <2>2. (Reported' <=> Reported) /\ (Agree' <=> Agree)
    BY <2>1 DEF Reported, Agree, Holds
  <2>3. Rules'
    BY <1>2, <2>1, <1>rules DEF Passes, Rules
  <2> QED
    BY <1>rules, <2>1, <2>2, <2>3 DEF CvmInv, BeforeRules, AfterRules
<1>3. CASE Concludes
  <2> PICK success \in BOOLEAN : \E new : Conclude(new, cvmRules[rule], success)
    BY <1>3 DEF Concludes
  <2>1. PICK new : Conclude(new, cvmRules[rule], success)
    OBVIOUS
  <2>2. AtRule /\ UNCHANGED <<phase, amount, cvmList, cvmRules>>
    BY <1>3 DEF Concludes
  <2>3. phase = "cvm" /\ Reported' /\ Agree' /\ rule' \in Nat \ {0}
    BY <1>rules, <2>1, <2>2, CurrentRule, ConcludeReports
  <2> QED
    BY <1>rules, <2>2, <2>3 DEF CvmInv, Rules, BeforeRules, AfterRules
<1>4. CASE EndOfRules
  <2>1. phase' \in AfterRules /\ Holds(tags', "9F34")
        /\ UNCHANGED <<amount, cvmList, cvmRules, rule>>
    BY <1>4, EndReports DEF AfterRules
  <2>2. Reported' => Agree'
    <3>1. CASE Holds(tags, "9F34") /\ UNCHANGED <<tags, tvr>>
      BY <1>4, <3>1, EndReports DEF CvmInv, Reported, Agree
    <3>2. CASE tags'["9F34"] = NoCvmPerformed /\ NotSuccessful \in tvr'
      BY <3>2 DEF Agree, NoCvmPerformed
    <3> QED
      BY <1>4, <3>1, <3>2, EndReports
  <2> QED
    BY <1>rules, <2>1, <2>2 DEF CvmInv, Rules, BeforeRules, AfterRules, Holds
<1>5. CASE NextTransaction
  <2>1. /\ phase' = "gpo" /\ cvmRules' = cvmRules /\ amount' \in Nat
        /\ cvmList' \in CvmLists /\ rule' = 1 /\ ~Reported'
    BY <1>5, NextReports, ContactAssumption
  <2> QED
    BY <2>1, <1>rules DEF CvmInv, Rules, BeforeRules, AfterRules
<1> QED
  BY <1>1, <1>2, <1>3, <1>4, <1>5, Shapes

LEMMA CvmInvariant == Spec => []CvmInv
BY InitCvm, StepCvm, PTL DEF Spec

(* After the cardholder verification of every transaction the two reports     *)
(* that the card and the action analysis get of it agree: tag 9F34, when it   *)
(* has the terminal's value and not one of the card's, and the TVR bit        *)
(* (lib.rs:2990-3115).  The tag is there in any case.                         *)
THEOREM CvmReported == Spec => []CvmReportsAgree
<1>1. CvmInv => CvmReportsAgree
  BY DEF CvmInv, CvmReportsAgree, AfterCvm, AfterRules, Agree
<1> QED
  BY <1>1, CvmInvariant, PTL

----------------------------------------------------------------------------
(* A PIN that is reported as successful. *)

PinReported == "successful" \in tags["9F34"] /\ PinCodes \cap tags["9F34"] # {}

(* Once it is reported the loop is over: no later rule and no later PIN can   *)
(* take the place of the one the card accepted.                               *)
PinInv ==
    phase \in {"cvm"} \cup AfterRules /\ Reported /\ PinReported =>
        verified /\ (phase = "cvm" => rule > Len(cvmRules))

(* A rule's result says "successful" of a PIN only after its success.         *)
LEMMA ConcludePin ==
    ASSUME NEW new, NEW r \in CvmRule, NEW success \in BOOLEAN, Rules,
           Conclude(new, r, success), UNCHANGED cvmRules, PinReported'
    PROVE  success /\ r.code \in PinCodes /\ rule' > Len(cvmRules')
<1>1. tags'["9F34"] = into_9f34_value(r, success)
  BY ConcludeReports
<1>2. r.code \in CvmCode
  BY DEF CvmRule
<1>3. success
  BY <1>1, <1>2 DEF PinReported, into_9f34_value, CvmCode
<1>4. r.code \in PinCodes
  BY <1>1 DEF PinReported, into_9f34_value, PinCodes
<1>5. Len(cvmRules) \in Nat
  BY DEF Rules
<1> QED
  BY <1>3, <1>4, <1>5 DEF Conclude

LEMMA StepPin == CvmInv /\ PinInv /\ [Next]_vars => PinInv'
<1> SUFFICES ASSUME CvmInv, PinInv, [Next]_vars PROVE PinInv'
  OBVIOUS
<1>rules. Rules
  BY DEF CvmInv
<1>open. ASSUME AtRule, Reported PROVE ~PinReported
  <2>1. Len(cvmRules) \in Nat /\ rule \in Nat /\ rule <= Len(cvmRules) /\ phase = "cvm"
    BY <1>rules, <1>open, CurrentRule
  <2> QED
    BY <1>open, <2>1 DEF PinInv
<1>1. CASE Quiet
  <2> SUFFICES ASSUME phase' \in {"cvm"} \cup AfterRules, Reported', PinReported'
               PROVE  verified' /\ (phase' = "cvm" => rule' > Len(cvmRules'))
    BY DEF PinInv, Reported, Holds
  <2>1. Reported /\ tags'["9F34"] = tags["9F34"]
    BY <1>1, QuietReported
  <2>2. phase \notin BeforeRules
    BY <2>1 DEF CvmInv
  <2>3. /\ phase \in {"cvm"} \cup AfterRules /\ (phase' = "cvm" => phase = "cvm")
        /\ UNCHANGED <<rule, verified, cvmRules>>
    BY <1>1, <2>2 DEF Quiet, Onward, BeforeRules, AfterRules
  <2>4. verified /\ (phase = "cvm" => rule > Len(cvmRules))
    BY <2>1, <2>3 DEF PinInv, PinReported
  <2> QED
    BY <2>3, <2>4
<1>2. CASE Passes
  <2>1. UNCHANGED <<tags, given>> /\ AtRule
    BY <1>2 DEF Passes, contents
  <2> QED
    BY <2>1, <1>open DEF PinInv, PinReported, Reported, Holds
<1>3. CASE Concludes
  <2> PICK success \in BOOLEAN :
         /\ \E new : Conclude(new, cvmRules[rule], success)
         /\ success /\ cvmRules[rule].code \in PinCodes => verified'
    BY <1>3 DEF Concludes
  <2>1. PICK new : Conclude(new, cvmRules[rule], success)
    OBVIOUS
  <2>2. AtRule /\ UNCHANGED cvmRules
    BY <1>3 DEF Concludes
  <2>3. PinReported' => verified' /\ rule' > Len(cvmRules')
    BY <1>rules, <2>1, <2>2, CurrentRule, ConcludePin
  <2> QED
    BY <2>3 DEF PinInv
<1>4. CASE EndOfRules
  <2>1. CASE Holds(tags, "9F34") /\ UNCHANGED tags
    <3>1. phase = "cvm" /\ phase' # "cvm" /\ UNCHANGED <<tags, given, verified>>
      BY <1>4, <2>1, EndReports
    <3> QED
      BY <3>1 DEF PinInv, PinReported, Reported, Holds
  <2>2. CASE tags'["9F34"] = NoCvmPerformed
    <3>1. ~PinReported'
      BY <2>2 DEF PinReported, NoCvmPerformed
    <3> QED
      BY <3>1 DEF PinInv
  <2> QED
    BY <1>4, <2>1, <2>2, EndReports
<1>5. CASE NextTransaction
  BY <1>5, NextReports DEF PinInv
<1> QED
  BY <1>1, <1>2, <1>3, <1>4, <1>5, Shapes

(* The terminal reports no PIN method as successful in a 9F34 of its own      *)
(* unless the card accepted the PIN that the cardholder gave last in this     *)
(* transaction (lib.rs:3045-3101).                                            *)
THEOREM PinReported9f34 == Spec => []PinReportRestsOnVerify
<1>1. Init => PinInv
  BY DEF Init, PinInv, AfterRules
<1>2. CvmInv /\ PinInv => PinReportRestsOnVerify
  BY DEF CvmInv, PinInv, PinReportRestsOnVerify, AfterCvm, AfterRules, PinReported
<1> QED
  BY <1>1, <1>2, CvmInvariant, StepPin, PTL DEF Spec

----------------------------------------------------------------------------
(* The rule that is reported. *)

MayPassOver(i) == Meets(cvmRules[i]) => cvmRules[i].condition = "CvmSupported"

AllBefore(i) == \A j \in 1 .. i - 1 : MayPassOver(j)

NonePerformed == \A i \in DOMAIN cvmRules : MayPassOver(i)

Applies(i) ==
    cvmRules[i].code \in tags["9F34"] /\ Meets(cvmRules[i]) /\ AllBefore(i)

SomeApplies == \E i \in DOMAIN cvmRules : Applies(i)

AfterLoop == phase = (IF caller = "library" THEN "oda" ELSE "taa")

(* Up to the rule the loop is at, none that had to be performed was passed    *)
(* over; a report in 9F34 is that of a rule which the loop came to.           *)
RuleInv ==
    /\ purchase_amount \in Nat
    /\ phase = "oda" => caller = "library"
    /\ phase \in BeforeRules => rule = 1
    /\ phase = "cvm" =>
          /\ rule <= Len(cvmRules) \/ ~Reported => AllBefore(rule)
          /\ Reported => SomeApplies
    /\ phase \in AfterRules /\ Reported =>
          \/ tags["9F34"] = NoCvmPerformed /\ NonePerformed
          \/ SomeApplies
    /\ AfterLoop /\ ~Reported => NonePerformed

(* The rules are the first card's own; the amount is the one the library's    *)
(* user entered.                                                              *)
RulesInv ==
    /\ txn \in Nat \ {0}
    /\ phase \in BeforeRules \cup {"cvm", "done"} \cup AfterRules
    /\ txn = 1 =>
          /\ phase \in {"gpo", "readRecord"} => cvmRules = <<>>
          /\ phase # "done" => cvmRules \in {<<>>, cvmList}
    /\ caller = "library" /\ phase \in {"cvm"} \cup AfterRules => purchase_amount = amount

(* Nothing these statements look at changes: neither does what they say.      *)
LEMMA ReportStays ==
    ASSUME UNCHANGED <<purchase_amount, cvmRules>>
    PROVE  /\ \A i : MayPassOver(i)' = MayPassOver(i)
           /\ \A i : AllBefore(i)' = AllBefore(i)
           /\ NonePerformed' = NonePerformed
           /\ tags'["9F34"] = tags["9F34"] => SomeApplies' = SomeApplies
BY DEF MayPassOver, AllBefore, NonePerformed, SomeApplies, Applies, Meets

(* A rule that is not skipped is one whose condition the amount meets.        *)
LEMMA SkippedOrMet ==
    ASSUME NEW r \in CvmRule, purchase_amount \in Nat
    PROVE  Skipped(r, purchase_amount) <=> ~Meets(r)
<1>1. r.condition \in CvmConditionCode /\ r.amount_x \in Nat /\ r.amount_y \in Nat
  BY DEF CvmRule
<1>2. CASE r.condition \in {"Always", "CvmSupported", "NotCashNorPurchaseWithCashback"}
  BY <1>2 DEF Skipped, Meets
<1>3. CASE r.condition \in {"UnattendedCash", "ManualCash", "PurchaseWithCashback"}
  BY <1>3 DEF Skipped, Meets
<1>4. CASE r.condition = "IccCurrencyUnderX"
  <2>1. Meets(r) <=> purchase_amount < r.amount_x
    BY <1>4 DEF Meets
  <2>2. Skipped(r, purchase_amount) <=> purchase_amount >= r.amount_x
    BY <1>4 DEF Skipped
  <2> QED
    BY <1>1, <2>1, <2>2
<1>5. CASE r.condition = "IccCurrencyOverX"
  <2>1. Meets(r) <=> purchase_amount > r.amount_x
    BY <1>5 DEF Meets
  <2>2. Skipped(r, purchase_amount) <=> purchase_amount <= r.amount_x
    BY <1>5 DEF Skipped
  <2> QED
    BY <1>1, <2>1, <2>2
<1>6. CASE r.condition = "IccCurrencyUnderY"
  <2>1. Meets(r) <=> purchase_amount < r.amount_y
    BY <1>6 DEF Meets
  <2>2. Skipped(r, purchase_amount) <=> purchase_amount >= r.amount_y
    BY <1>6 DEF Skipped
  <2> QED
    BY <1>1, <2>1, <2>2
<1>7. CASE r.condition = "IccCurrencyOverY"
  <2>1. Meets(r) <=> purchase_amount > r.amount_y
    BY <1>7 DEF Meets
  <2>2. Skipped(r, purchase_amount) <=> purchase_amount <= r.amount_y
    BY <1>7 DEF Skipped
  <2> QED
    BY <1>1, <2>1, <2>2
<1> QED
  BY <1>1, <1>2, <1>3, <1>4, <1>5, <1>6, <1>7 DEF CvmConditionCode

LEMMA NextRule ==
    ASSUME NEW i \in Nat \ {0}, AllBefore(i), MayPassOver(i)
    PROVE  AllBefore(i + 1)
<1>1. 1 .. (i + 1) - 1 = (1 .. i - 1) \cup {i}
  OBVIOUS
<1> QED
  BY <1>1 DEF AllBefore

LEMMA InLoop ==
    ASSUME CvmInv, RuleInv, AtRule
    PROVE  /\ cvmRules[rule] \in CvmRule /\ rule \in DOMAIN cvmRules /\ phase = "cvm"
           /\ rule \in Nat \ {0} /\ Len(cvmRules) \in Nat /\ AllBefore(rule)
           /\ rule <= Len(cvmRules)
           /\ Skipped(cvmRules[rule], purchase_amount) <=> ~Meets(cvmRules[rule])
<1>1. /\ rule \in Nat \ {0} /\ Len(cvmRules) \in Nat /\ phase = "cvm"
      /\ cvmRules[rule] \in CvmRule /\ rule \in DOMAIN cvmRules /\ rule <= Len(cvmRules)
  BY CurrentRule DEF CvmInv
<1>2. AllBefore(rule)
  BY <1>1 DEF RuleInv
<1>3. Skipped(cvmRules[rule], purchase_amount) <=> ~Meets(cvmRules[rule])
  BY <1>1, SkippedOrMet DEF RuleInv
<1> QED
  BY <1>1, <1>2, <1>3

LEMMA QuietRule ==
    ASSUME CvmInv, RuleInv, Quiet
    PROVE  RuleInv'
<1>1. Reported' => Reported /\ tags'["9F34"] = tags["9F34"]
  BY QuietReported
<1>2. /\ rule' = rule /\ caller' = caller /\ Onward(phase, phase')
      /\ purchase_amount' \in Nat
      /\ phase # "keys" => UNCHANGED purchase_amount
      /\ phase # "readRecord" => UNCHANGED cvmRules
      /\ phase \in {"cvm", "oda", "taa"} /\ phase' = phase => UNCHANGED <<tags, given>>
  BY DEF Quiet, RuleInv, setup, contents
<1>3. CASE phase' \in BeforeRules \cup {"done"}
  <2>1. phase' \in BeforeRules => phase \in BeforeRules
    BY <1>2 DEF Onward, BeforeRules
  <2>2. phase' \notin AfterRules \cup {"cvm"} /\ ~AfterLoop'
    BY <1>3 DEF BeforeRules, AfterRules, AfterLoop
  <2> QED
    BY <1>2, <2>1, <2>2 DEF RuleInv, AfterRules
<1>4. CASE phase' = "cvm" /\ phase = "keys"
  <2>1. ~Reported /\ rule = 1
    BY <1>4 DEF CvmInv, RuleInv, BeforeRules
  <2>2. AllBefore(rule)'
    BY <1>2, <2>1 DEF AllBefore
  <2>3. ~Reported' /\ ~AfterLoop'
    BY <1>1, <1>4, <2>1 DEF AfterLoop
  <2> QED
    BY <1>2, <1>4, <2>2, <2>3 DEF RuleInv, BeforeRules, AfterRules
<1>5. CASE phase' = "cvm" /\ phase = "cvm"
  <2>1. UNCHANGED <<purchase_amount, cvmRules, tags, given>>
    BY <1>2, <1>5
  <2>2. (Reported' <=> Reported) /\ ~AfterLoop'
    BY <1>5, <2>1 DEF Reported, Holds, AfterLoop
  <2> QED
    BY <1>2, <1>5, <2>1, <2>2, ReportStays DEF RuleInv, BeforeRules, AfterRules
<1>6. CASE phase' \in AfterRules
  <2>1. phase \in AfterRules /\ UNCHANGED <<purchase_amount, cvmRules>>
        /\ (phase' = "oda" => phase = "oda")
    BY <1>2, <1>6 DEF Onward, AfterRules
  <2>2. Reported' => \/ tags'["9F34"] = NoCvmPerformed /\ NonePerformed'
                     \/ SomeApplies'
    BY <1>1, <2>1, ReportStays DEF RuleInv
  <2>3. ASSUME AfterLoop', ~Reported' PROVE NonePerformed'
    <3>1. phase' \in {"oda", "taa"} /\ phase' = phase
      BY <1>2, <2>1, <2>3 DEF AfterLoop, Onward, AfterRules, RuleInv
    <3>2. AfterLoop /\ ~Reported
      BY <1>2, <2>3, <3>1 DEF AfterLoop, Reported, Holds
    <3> QED
      BY <2>1, <3>2, ReportStays DEF RuleInv
  <2>4. phase' = "oda" => caller' = "library"
    BY <1>2, <2>1 DEF RuleInv
  <2>5. phase' # "cvm" /\ phase' \notin BeforeRules
    BY <1>6 DEF AfterRules, BeforeRules
  <2> QED
    BY <1>2, <2>2, <2>3, <2>4, <2>5 DEF RuleInv
<1>7. CASE phase' \notin BeforeRules \cup {"cvm", "done"} \cup AfterRules
  <2>1. ~AfterLoop' /\ phase' # "oda"
    BY <1>7 DEF AfterLoop, AfterRules
  <2> QED
    BY <1>2, <1>7, <2>1 DEF RuleInv
<1>8. phase' = "cvm" => phase \in {"keys", "cvm"}
  BY <1>2 DEF Onward
<1> QED
  BY <1>3, <1>4, <1>5, <1>6, <1>7, <1>8

LEMMA ConcludeRule ==
    ASSUME CvmInv, RuleInv, Concludes
    PROVE  RuleInv'
<1> PICK success \in BOOLEAN : \E new : Conclude(new, cvmRules[rule], success)
  BY DEF Concludes
<1>pick. PICK new : Conclude(new, cvmRules[rule], success)
  OBVIOUS
<1>0. AtRule /\ UNCHANGED <<phase, caller, cvmRules, purchase_amount>>
  BY DEF Concludes, setup
<1>loop. /\ cvmRules[rule] \in CvmRule /\ rule \in DOMAIN cvmRules /\ phase = "cvm"
         /\ rule \in Nat \ {0} /\ Len(cvmRules) \in Nat /\ AllBefore(rule)
         /\ Meets(cvmRules[rule])
  BY <1>0, InLoop DEF Concludes
<1>1. Reported' /\ cvmRules[rule].code \in tags'["9F34"]
  <2>1. Reported' /\ tags'["9F34"] = into_9f34_value(cvmRules[rule], success)
    BY <1>pick, <1>loop, ConcludeReports DEF CvmInv
  <2> QED
    BY <2>1 DEF into_9f34_value
<1>2. SomeApplies'
  <2>1. \E i \in DOMAIN cvmRules :
           cvmRules[i].code \in tags'["9F34"] /\ Meets(cvmRules[i]) /\ AllBefore(i)
    BY <1>1, <1>loop
  <2> QED
    BY <1>0, <2>1 DEF SomeApplies, Applies, AllBefore, MayPassOver, Meets
<1>3. rule' <= Len(cvmRules') => \A j \in 1 .. rule' - 1 : MayPassOver(j)
  <2>1. CASE rule' = rule + 1 /\ cvmRules[rule].condition = "CvmSupported"
    <3>1. AllBefore(rule + 1)
      BY <2>1, <1>loop, NextRule DEF MayPassOver
    <3> QED
      BY <2>1, <3>1 DEF AllBefore
  <2>2. CASE rule' = Len(cvmRules) + 1
    BY <1>0, <2>2, <1>loop
  <2> QED
    BY <1>pick, <2>1, <2>2 DEF Conclude
<1>4. rule' <= Len(cvmRules') => AllBefore(rule)'
  BY <1>0, <1>3 DEF AllBefore, MayPassOver, Meets
<1>5. phase' = "cvm" /\ ~AfterLoop' /\ purchase_amount' \in Nat
  BY <1>0, <1>loop DEF AfterLoop, RuleInv
<1> QED
  BY <1>1, <1>2, <1>4, <1>5 DEF RuleInv, BeforeRules, AfterRules

LEMMA StepRule == CvmInv /\ RuleInv /\ [Next]_vars => RuleInv'
<1> SUFFICES ASSUME CvmInv, RuleInv, [Next]_vars PROVE RuleInv'
  OBVIOUS
<1>1. CASE NextTransaction
  <2>1. phase' = "gpo" /\ rule' = 1 /\ purchase_amount' = 0
    BY <1>1, NextReports
  <2> QED
    BY <2>1 DEF RuleInv, BeforeRules, AfterRules, AfterLoop
<1>2. CASE Passes
  <2>1. /\ AtRule /\ rule' = rule + 1
        /\ UNCHANGED <<phase, cvmRules, purchase_amount, tags, given>>
        /\ \/ Skipped(cvmRules[rule], purchase_amount)
           \/ cvmRules[rule].condition = "CvmSupported"
    BY <1>2 DEF Passes, contents
  <2>2. AllBefore(rule)'
    <3>1. MayPassOver(rule)
      BY <2>1, InLoop DEF MayPassOver
    <3>2. AllBefore(rule + 1)
      BY <2>1, <3>1, InLoop, NextRule
    <3> QED
      BY <2>1, <3>2 DEF AllBefore, MayPassOver, Meets
  <2>3. (SomeApplies' <=> SomeApplies) /\ (Reported' <=> Reported)
    BY <2>1, ReportStays DEF Reported, Holds, SomeApplies
  <2>4. phase = "cvm" /\ phase' = "cvm" /\ ~AfterLoop'
    BY <2>1 DEF AtRule, AfterLoop
  <2>5. purchase_amount' \in Nat
    BY <2>1 DEF RuleInv
  <2> QED
    BY <2>2, <2>3, <2>4, <2>5 DEF RuleInv, BeforeRules, AfterRules
<1>3. CASE EndOfRules
  <2>1. /\ phase = "cvm" /\ rule > Len(cvmRules) /\ given' = given
        /\ phase' = (IF caller = "library" THEN "oda" ELSE "taa")
        /\ UNCHANGED <<caller, cvmRules, purchase_amount>>
        /\ \/ Holds(tags, "9F34") /\ UNCHANGED tags
           \/ ~Holds(tags, "9F34") /\ tags'["9F34"] = NoCvmPerformed
    BY <1>3, EndReports DEF setup
  <2>2. ~Reported => NonePerformed'
    <3>1. rule \in Nat /\ Len(cvmRules) \in Nat /\ DOMAIN cvmRules = 1 .. Len(cvmRules)
      BY DEF CvmInv, Rules
    <3>2. AllBefore(rule) => NonePerformed
      BY <2>1, <3>1 DEF AllBefore, NonePerformed
    <3> QED
      BY <2>1, <3>2, ReportStays DEF RuleInv
  <2>3. Reported => Reported' /\ SomeApplies'
    <3>1. Reported => UNCHANGED <<tags, given>> /\ SomeApplies
      BY <2>1 DEF Reported, RuleInv
    <3> QED
      BY <2>1, <3>1, ReportStays DEF Reported, Holds
  <2>4. ~Reported => (Reported' => tags'["9F34"] = NoCvmPerformed)
    BY <2>1 DEF Reported, Holds
  <2>5. /\ phase' \in {"oda", "taa"} /\ (phase' = "oda" => caller' = "library")
        /\ purchase_amount' \in Nat
    BY <2>1 DEF RuleInv
  <2> QED
    BY <2>2, <2>3, <2>4, <2>5 DEF RuleInv, BeforeRules, AfterRules
<1> QED
  BY <1>1, <1>2, <1>3, QuietRule, ConcludeRule, Shapes

LEMMA StepRules == CvmInv /\ RulesInv /\ [Next]_vars => RulesInv'
<1> SUFFICES ASSUME CvmInv, RulesInv, [Next]_vars PROVE RulesInv'
  OBVIOUS
<1>list. cvmList \in Seq(CvmRule)
  BY ContactAssumption DEF CvmInv
<1>1. CASE NextTransaction
  <2>1. phase' = "gpo" /\ txn' = txn + 1
    BY <1>1, NextReports
  <2> QED
    BY <2>1 DEF RulesInv, BeforeRules, AfterRules
<1>2. CASE Quiet
  <2>1. Onward(phase, phase') /\ UNCHANGED <<caller, txn, amount, cvmList>>
    BY <1>2 DEF Quiet, setup
  <2>2. phase' \in BeforeRules \cup {"cvm", "done"} \cup AfterRules
    BY <2>1 DEF RulesInv, Onward, BeforeRules, AfterRules
  <2>3. caller' = "library" /\ phase' \in {"cvm"} \cup AfterRules
        => purchase_amount' = amount'
    <3>1. CASE phase = "keys"
      <4>1. phase' \in {"keys", "cvm", "done"}
        BY <2>1, <3>1 DEF Onward
      <4> QED
        BY <1>2, <2>1, <3>1, <4>1 DEF Quiet, AfterRules
    <3>2. CASE phase # "keys"
      <4>1. phase' \in {"cvm"} \cup AfterRules => phase \in {"cvm"} \cup AfterRules
        BY <2>1, <3>2 DEF Onward, AfterRules
      <4> QED
        BY <1>2, <2>1, <3>2, <4>1 DEF Quiet, RulesInv
    <3> QED
      BY <3>1, <3>2
  <2>4. ASSUME txn = 1
        PROVE  /\ phase' \in {"gpo", "readRecord"} => cvmRules' = <<>>
               /\ phase' # "done" => cvmRules' \in {<<>>, cvmList}
    <3>1. phase' \in {"gpo", "readRecord"} => phase \in {"gpo", "readRecord"}
      BY <2>1 DEF Onward
    <3>2. phase' # "done" => phase # "done"
      BY <2>1 DEF Onward
    <3>3. phase = "readRecord" => cvmRules \o cvmList = cvmList
      BY <1>list, <2>4 DEF RulesInv
    <3> QED
      BY <1>2, <2>4, <3>1, <3>2, <3>3 DEF Quiet, RulesInv
  <2> QED
    BY <2>1, <2>2, <2>3, <2>4 DEF RulesInv
<1>3. CASE Passes \/ Concludes
  <2>1. UNCHANGED <<phase, setup, cvmRules, purchase_amount>>
    BY <1>3 DEF Passes, Concludes
  <2> QED
    BY <2>1 DEF RulesInv, setup
<1>4. CASE EndOfRules
  <2>1. /\ phase = "cvm" /\ phase' \in {"oda", "taa"}
        /\ UNCHANGED <<caller, txn, amount, cvmList, cvmRules, purchase_amount>>
    BY <1>4, EndReports DEF setup
  <2> QED
    BY <2>1 DEF RulesInv, BeforeRules, AfterRules
<1> QED
  BY <1>1, <1>2, <1>3, <1>4, Shapes

(* In every transaction the rule that the terminal reports is one it has      *)
(* whose condition the amount meets, and no rule before it that had to be     *)
(* performed was passed over, for every list of rules and every amount        *)
(* (lib.rs:3001-3032, 3094-3101).  On a connection's first transaction the    *)
(* rules are the card's own; later ones' follow those of the cards before     *)
(* (lib.rs:1738).  The amount is the one in tag 9F02, which for the library   *)
(* is the one its user entered.                                               *)
THEOREM ReportedRules == Spec => []ReportedRuleApplies
<1>1. Init => RuleInv /\ RulesInv
  BY DEF Init, RuleInv, RulesInv, BeforeRules, AfterRules, AfterLoop
<1>2. CvmInv /\ RuleInv /\ RulesInv => ReportedRuleApplies
  BY DEF RuleInv, RulesInv, ReportedRuleApplies, AfterCvm, AfterRules, SomeApplies,
         Applies, NonePerformed, AllBefore, MayPassOver, AfterLoop
<1> QED
  BY <1>1, <1>2, CvmInvariant, StepRule, StepRules, PTL DEF Spec

----------------------------------------------------------------------------
(* The TVR that the card is sent with a GENERATE AC.                          *)

Generating == {"gac1", "issuerAuth", "gac2"}

(* From the action analysis on tag 95 is the terminal's TVR, unless an answer *)
(* of the card has a tag 95.                                                  *)
TvrInv ==
    /\ sent = [l \in {"9F38", "8C", "8D"} |-> sent[l]]
    /\ phase \in Generating /\ "95" \notin given
          => Holds(tags, "95") /\ tags["95"] \ LateBits = tvr \ LateBits

(* A step of its own sends the data of a CDOL, and with it this TVR.          *)
SendsTvr ==
    \A dol \in {"8C", "8D"} :
       sent'[dol] # sent[dol] /\ "95" \in DOMAIN sent'[dol] /\ "95" \notin given
           => sent'[dol]["95"] \ LateBits = tvr \ LateBits

(* The data of a list are the values of the tags it names.                    *)
LEMMA SentTvr ==
    ASSUME NEW dol, "95" \in DOMAIN get_tag_list_tag_values(tags, dol), Holds(tags, "95")
    PROVE  get_tag_list_tag_values(tags, dol)["95"] = tags["95"]
BY DEF get_tag_list_tag_values, ValueOf

(* Before the action analysis no CDOL data are sent. *)
LEMMA EarlyTvr ==
    ASSUME TvrInv,
           \/ PdolFails
           \/ \E r \in GpoResponses : GetProcessingOptions(r)
           \/ \E r \in RecordResponses : ReadRecord(r)
           \/ NextEntry \/ PublicKeys \/ PassRule \/ RuleWithoutPin \/ NoPin
           \/ \E challenge, r \in StatusResponses : VerifyPin(challenge, r)
           \/ UnsentPin \/ EndOfRules \/ StaticOrNone \/ FastDda
           \/ \E r \in DdaResponses : Dda(r)
           \/ DdolFails
    PROVE  TvrInv' /\ SendsTvr
<1> USE DEF decision
<1>1. phase \in {"gpo", "readRecord", "keys", "cvm", "oda"}
  BY DEF PdolFails, GetProcessingOptions, ReadRecord, NextEntry, PublicKeys, PassRule,
         RuleWithoutPin, NoPin, VerifyPin, UnsentPin, EndOfRules, StaticOrNone, FastDda,
         Dda, DdolFails, AtPinRule, Applicable, AtRule
<1>2. phase' \notin Generating
  <2>1. phase' \in {phase, "readRecord", "keys", "cvm", "oda", "taa", "done"}
    BY DEF PdolFails, GetProcessingOptions, ReadRecord, NextEntry, Capabilities,
           PublicKeys, PassRule, RuleWithoutPin, NoPin, VerifyPin, UnsentPin, EndOfRules,
           StaticOrNone, FastDda, Dda, DdolFails, Authenticated, Panic, Err, End, Goto
  <2> QED
    BY <1>1, <2>1 DEF Generating
<1>3. \/ UNCHANGED sent
      \/ \E values : sent' = [sent EXCEPT !["9F38"] = values]
  BY DEF PdolFails, GetProcessingOptions, ReadRecord, NextEntry, PublicKeys, PassRule,
         RuleWithoutPin, NoPin, VerifyPin, UnsentPin, EndOfRules, StaticOrNone, FastDda,
         Dda, DdolFails
<1>4. /\ sent' = [l \in {"9F38", "8C", "8D"} |-> sent'[l]]
      /\ sent'["8C"] = sent["8C"] /\ sent'["8D"] = sent["8D"]
  BY <1>3 DEF TvrInv
<1> QED
  BY <1>2, <1>4 DEF TvrInv, SendsTvr

LEMMA WritesTvr ==
    ASSUME TvrInv, ActionAnalysis
    PROVE  TvrInv' /\ SendsTvr
<1>1. UNCHANGED <<sent, tvr>>
  BY DEF ActionAnalysis
<1>2. Holds(tags', "95") /\ tags'["95"] = tvr
  BY AddTagValue DEF ActionAnalysis, Holds
<1> QED
  BY <1>1, <1>2 DEF TvrInv, SendsTvr, Holds

(* The commands from then on leave tag 95 or put the card's into its place;   *)
(* only the issuer authentication still changes the TVR.                      *)
LEMMA LateTvr ==
    ASSUME TvrInv, phase \in Generating, tvr' \ LateBits = tvr \ LateBits,
           Left("95", tags', given', tags, given)
    PROVE  "95" \notin given'
              => Holds(tags', "95") /\ tags'["95"] \ LateBits = tvr' \ LateBits
BY DEF TvrInv, Left

LEMMA CommandTvr ==
    ASSUME TvrInv,
           \/ CdolFails \/ GivenCryptogram
           \/ \E r \in StatusResponses : GetChallenge(r) \/ IssuerAuthentication(r)
    PROVE  TvrInv' /\ SendsTvr
<1> USE DEF decision
<1>1. phase \in Generating /\ UNCHANGED sent
  BY DEF CdolFails, GivenCryptogram, GetChallenge, IssuerAuthentication,
         AlreadyGiven, AtGenerateAc, Generating
<1>2. tvr' \ LateBits = tvr \ LateBits
  <2>1. ASSUME NEW r, IssuerAuthentication(r)
        PROVE  tvr' = tvr \/ tvr' = tvr \cup LateBits
    BY <2>1 DEF IssuerAuthentication, LateBits
  <2>2. ASSUME NEW r, GetChallenge(r) PROVE tvr' = tvr
    BY <2>2 DEF GetChallenge
  <2>3. CdolFails \/ GivenCryptogram => tvr' = tvr
    BY DEF CdolFails, GivenCryptogram
  <2>4. tvr' = tvr \/ tvr' = tvr \cup LateBits
    BY <2>1, <2>2, <2>3
  <2> QED
    BY <2>4
<1>3. Left("95", tags', given', tags, given)
  BY CommandLeaves DEF OwnTags
<1> QED
  BY <1>1, <1>2, <1>3, LateTvr DEF TvrInv, SendsTvr, Holds

LEMMA SendsCdol ==
    ASSUME TvrInv, NEW r \in AcResponses, GenerateAc(r)
    PROVE  TvrInv' /\ SendsTvr
<1>1. phase \in Generating /\ UNCHANGED tvr
  BY DEF GenerateAc, AtGenerateAc, Generating
<1>2. Left("95", tags', given', tags, given)
  BY CommandLeaves DEF OwnTags
<1>3. Cdol \in {"8C", "8D"}
  BY DEF Cdol
<1>4. PICK list : sent' = [sent EXCEPT ![Cdol] = get_tag_list_tag_values(tags, list)]
  BY DEF GenerateAc
<1> DEFINE values == get_tag_list_tag_values(tags, list)
<1>5. "95" \in DOMAIN values /\ "95" \notin given
      => values["95"] \ LateBits = tvr \ LateBits
  BY <1>1, SentTvr DEF TvrInv
<1> HIDE DEF values
<1>6. /\ sent' = [l \in {"9F38", "8C", "8D"} |-> sent'[l]]
      /\ \A l \in {"8C", "8D"} : sent'[l] = IF l = Cdol THEN values ELSE sent[l]
  BY <1>3, <1>4 DEF TvrInv, values
<1>7. SendsTvr
  BY <1>5, <1>6 DEF SendsTvr
<1> QED
  BY <1>1, <1>2, <1>6, <1>7, LateTvr DEF TvrInv, Holds

LEMMA StepTvr == TvrInv /\ [Next]_vars => TvrInv' /\ [SendsTvr]_vars
<1> SUFFICES ASSUME TvrInv, [Next]_vars PROVE TvrInv' /\ SendsTvr
  OBVIOUS
<1>1. CASE NextTransaction
  <2>1. sent' = NothingSent /\ phase' = "gpo"
    BY <1>1 DEF NextTransaction, Selected
  <2>2. \A dol \in {"8C", "8D"} : DOMAIN sent'[dol] = {}
    BY <2>1, NoTagsType DEF NothingSent
  <2> QED
    BY <2>1, <2>2 DEF TvrInv, SendsTvr, NothingSent, Generating
<1>2. CASE Terminated \/ UNCHANGED vars
  <2>1. UNCHANGED <<phase, tags, given, tvr, sent>>
    BY <1>2 DEF Terminated, vars, decision, contents
  <2> QED
    BY <2>1 DEF TvrInv, SendsTvr, Holds
<1>3. CASE Step
  <2>1. CASE \/ \E r \in StatusResponses : GetChallenge(r)
             \/ \E r \in StatusResponses : IssuerAuthentication(r)
    BY <2>1, CommandTvr
  <2> QED
    BY <1>3, <2>1, EarlyTvr, WritesTvr, CommandTvr, SendsCdol DEF Step
<1> QED
  BY <1>1, <1>2, <1>3 DEF Next

(* What the card decides on is what the terminal found: the TVR in the data   *)
(* of each GENERATE AC is the terminal's (lib.rs:3147), but for the failure   *)
(* of an issuer authentication, which comes after tag 95 was written          *)
(* (lib.rs:3258), and unless the card has answered with a tag 95 since then.  *)
THEOREM SentTvrIsTerminals == Spec => CardSeesTvr
<1>1. Init => TvrInv
  BY DEF Init, TvrInv, NothingSent, Generating
<1>2. TvrInv /\ [Next]_vars => TvrInv' /\ [SendsTvr]_vars
  BY StepTvr
<1> QED
  BY <1>1, <1>2, PTL DEF Spec, CardSeesTvr, SendsTvr
=============================================================================
