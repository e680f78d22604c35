# A verification of emvpt

emvpt is a payment terminal library (`src/emvpt`) and a terminal simulator
(`src/terminalsimulator`) in Rust. A terminal reads a payment card through a sequence of
APDU exchanges, checks the card and its holder, decides, and asks the card for a
cryptogram. This directory holds TLA+ modules of that behaviour, the TLC
configurations that check them on small instances, and proofs of the main
results for all instances, checked by TLAPS.

    tlasany M.tla                       # parse a module
    tlc -config X.cfg MCKernel2.tla     # a contactless run
    tlc -config X.cfg MCContact.tla     # a contact run
    tlc -config Exchange.cfg MCExchange.tla
    tlc -config Simulator.cfg MCSimulator.tla
    tlapm M_proofs.tla                  # check proofs

`PROJECT.json` lists the runs, maps every definition to the lines it models, and lists
hazards, findings, mutants and theorems.

## 1. The system

Paths are relative to `src/emvpt/src` unless they say otherwise.

| Component | State | Operations | Interacts with |
|---|---|---|---|
| Tag store and TLV (`lib.rs` 1173-1228, 1485-1596) | `EmvConnection.tags` | `add_tag`, `process_tag_as_tlv`, `get_tag_value`, `process_tlv`; SELECT clears it | everything reads and writes it |
| APDU exchange (`lib.rs` 1253-1351) | none | `send_apdu`, with the 61xx and 6Cxx loop; stores the tags of every answer it can parse | card interface, tag store |
| Application selection (`lib.rs` 2127-2303) | the chosen application | PSE and PPSE directories, SELECT | callbacks, APDU exchange |
| Entry point (`contactless/entry_point.rs`, `kernel2/config.rs`) | the AID's configuration | `select_kernel`, limits, `find_mc_config` | kernel |
| Mastercard kernel (`kernel2/state_machine.rs`) | `MastercardKernel`, per transaction | initiate, read, validate, CVM, action analysis, GENERATE AC, CDA, outcome | all of the above |
| CVM and action analysis (`kernel2/cvm.rs`, `taa.rs`) | none | `determine_cvm`, `build_cvm_results`, `perform_taa` | kernel |
| Keys and card authentication (`lib.rs` 1844-1959, 2456-2976) | `icc`: keys, static data, capabilities | `handle_public_keys`, SDA, DDA, fDDA, CDA | both flows |
| Contact transaction (`lib.rs` 1598-2125, 2978-3262) | TVR, TSI, `icc.cvm_rules` | GPO and records, cardholder verification, ODA, action analysis, 1st and 2nd GENERATE AC, issuer authentication | simulator (`src/terminalsimulator/src/main.rs` 255-412) or a caller of the library |
| Data object lists, BCD, PIN blocks (`lib.rs` 958-1109, 1760-1783, `bcdutil`) | none | conversions | all commands |
| Terminal simulator (`src/terminalsimulator/src/main.rs`) | the amount, the arguments | reader loop, amount entry, `process_settings`, dispatch to a kernel or the contact flow | user, reader, all of the above |

The program is sequential. What makes it hard is everything it does not decide:

- **the card** chooses the AFL, the records, their tags, and the shape and status of each
  answer; it may repeat a tag and so override a stored value;
- **a partial failure** in the middle of a transaction: some errors are returned, some are
  noted in the TVR, many are unwrapped and end the process;
- **stale state**: the connection (TVR, TSI, keys, static data, CVM rules) outlives a
  transaction, only the tags are cleared; data sent to the card are rebuilt later from a
  store that has changed since;
- **order**: the TVR in the settings and tag 95, which the card signs, are two copies that are
  synchronised at particular points.

What makes each component correct: the card is told what the terminal really found; an
approval rests on a cryptogram and, where agreed, on a signature by this card over what
this card was sent; the limits hold; no step is skipped; a command says what was meant and is
performed once; the candidates are the card's applications; every transaction ends.

## 2. The modules

| Module | Models | Notes |
|---|---|---|
| `EmvData` | tag names, TVR bits, cryptogram types, the tag store | a tag's value is the set of facts the code tells apart; absent = not in the DOMAIN |
| `CardExchange` | an answer and what the terminal makes of it; the AFL | "lost" interface, status, format 1 / template / other, too short, no data |
| `EntryPoint` | `select_kernel`, `McAidConfig` and its limits | |
| `CvmDetermination` | `determine_cvm`, `build_cvm_results` | |
| `TerminalActionAnalysis` | `perform_taa` | |
| `CardAuthentication` | key chain, SDA, DDA signature, CDA | certificates by their defects; a key is named by the transaction whose card it belongs to |
| `Kernel2` | `handle_contactless_transaction` and the whole Mastercard kernel | state machine; EXTENDS the modules above |
| `Kernel2Safety`, `Kernel2Claims` | its properties; statements of the comments the code does not keep | |
| `PaymentOutcome` | **abstract specification**: ask once, be answered once, one verdict that the cryptogram bears out | |
| `Kernel2Refinement` | the mapping of `Kernel2` to `PaymentOutcome` | checked as the property `ImplementsPayment` |
| `CardholderVerification` | codes, conditions and results of the contact CVM list | |
| `ContactTransaction` | the contact flow of both callers | state machine |
| `ContactSafety`, `ContactClaims` | its properties; statements of a comment and of the tag dictionary that the code does not keep | |
| `AtomicExchange` | **abstract specification**: a command is performed once, its whole reply comes back and is parsed once | what the transaction modules take an exchange for |
| `ApduExchange` | `send_apdu`, one action per transmission, and the card at the other end | the code's loop is `Receive`; the card obeys the protocol or answers anything |
| `Conversions`, `DataObjectLists` | BCD, PIN block, TVR bytes; parsing and answering a DOL | here values are bytes |
| `CardCommands` | the commands of five handlers, composed with `ApduExchange` | and what the card reads in them |
| `ApplicationSelection` | PSE and PPSE, the directory's records, candidates, choice, SELECT | through the tag store |
| `TerminalSimulator` | the simulator up to a kernel or the contact flow, composed with `ApplicationSelection` | its end is the `Init` of `Kernel2` or `ContactTransaction` |
| `MCKernel2`, `MCContact`, `MCExchange`, `MCSimulator` | the small instances | |
| `*_proofs` | TLAPS proofs | |

**Granularity.** One action is one exchange with the card together with everything the
handler does with the answer, or one internal phase. `phase` is the call the driver is
at; actions are named after the functions they model (`InitiateApplication`, `ReadRecord`,
`GenerateAc`, `EndOfRules`, ...). `ApduExchange` takes one of these exchanges apart: there an action
is one transmission. The answers come from constant sets, so the card is
unconstrained within them. An `unwrap`, index or `assert` that fails is a "panic" result,
after which nothing runs. Operators named in a comment "Mutant: ..." are wrong versions of
the definition that follows; each property is broken by at least one of them.

**The two contact callers.** The simulator unwraps every call, makes one transaction
and leaves out offline data and issuer authentication. The library's caller follows the
purchase of `lib.rs`'s test (`test_purchase_transaction`), which makes all the calls,
sets the amount after GET PROCESSING OPTIONS and returns errors. Two assertions of
that test belong to its one card and are left out (that the first GENERATE AC gives an
ARQC, and that issuer authentication succeeded); the model lets it go on to further
transactions on the connection.

**What a card may answer.** `process_tlv` stores every tag of every answer, so any answer (to VERIFY,
GET CHALLENGE and EXTERNAL AUTHENTICATE as well) may replace any stored value, the terminal's own 9F02, 95
and 9F34, the action codes, CTQ, TTQ and the lists included. `ContactTransaction` has one variable that is no
state of the code: `given` names those of 95 and 9F34 whose value is a card's, so that a property can say
which reports are the terminal's. The TVR begins as the settings have it (`SettingsTvr`; the shipped
`src/terminalsimulator/config/settings.yaml:34` sets `transaction_exceeds_floor_limit`).

**Values.** The value of 9F02 is a set: one number, or several for bytes that are not the digits of a number
(`get_amount` takes those for 0, the contact flow's `parse::<u32>` panics on them and on what reaches
`AmountLimit`, 2^32 in the code). "altered" marks a tag that the 9F4A list names and whose value is
not the one the issuer signed. "unparsable" and "too long" mark lists that cannot be read or that ask for more
bytes than a value has.

**Assumptions about data**, all named (`ConfigAssumption`, `ResponseAssumption`,
`ContactAssumption`, `NoDataAssumption`, `PinAssumption`, `ExchangeAssumption`,
`CommandAssumption`, `SelectionAssumption`, `SimulatorAssumption`): a format 1 answer
has the tags of that format only; PINs and amounts are digit strings (a PIN that is none, and a failed
encipherment, are a panic that `NoPin` may choose); 9F37 and 5F2A come from the
settings; no AFL entry ends at record 255 (there the `u8` loop bound overflows). A request to
the card is one whose data convert (a PIN or an amount of at most twelve digits; a data object list that
parses, with no object of length 0 and with 9F02 and 95 in their EMV lengths): for others the code panics
before it makes a command, or the list asks for something else than what `CommandReachesCard` is about. A key
of another card opens a signature to bytes without the expected format.

## 3. The runs

| Run | Question | Instance |
|---|---|---|
| `kernel2_flow` | Does every path through the kernel keep types, limit, TVR report and the abstract payment, over two transactions? Does each end? | every shape of each answer, AFLs with none, one and two entries, a second card on the connection |
| `kernel2_taa` | Is the verdict the one the action codes ask for? | codes that match, do not match and are absent; amounts below, at and above the limits; cards that answer no higher than asked, some of which replace the amount, the TVR, the CVM results, an action code or the CTQ |
| `kernel2_cda` | Does an approval rest on this card's signature, and is a good card accepted? | every defect of chain and signature, a 9F4A list, lists replaced by others and by unreadable ones; unreadable records; two cards on the connection |
| `contact_cvm` | Do tag 9F34 and the TVR report the verification that took place? | five lists of up to three rules, amounts 1-3 around X = Y = 2, PIN cancelled, lost, refused, accepted; a card's own 9F34 after SELECT, in a record and in the answer to VERIFY; two cards |
| `contact_ac` | What is the card told, and what does a successful purchase rest on? | both callers, every answer shape, SDA, DDA, fDDA, CDA, both GENERATE ACs, a PDOL with a tag set after it was sent, answers that replace the amount, the TVR, a list or a signed tag; two transactions |
| `exchange` | Is every command performed once, with the meaning it was built with, and does its whole reply come back? | PINs of 4, 5 and 12 digits, four DOLs and none, all divisions and length corrections of replies of 0 to 7 bytes with a greatest length of 3, two commands; cards that answer anything |
| `simulator` | Are the candidates the card's, is the store a transaction starts with right, is every directory left? | records with none to two of five kinds of template, up to three templates and three records; amounts of 1, 2, 12 and 13 digits |
| `claim_*` | five statements of comments, of an error text and of the tag dictionary that the code does not keep (section 5) | smallest instance that shows it |

**Properties** (each is stated in its module with its reason):
`LimitRespected`, `KeyRecoveryHasStaticData`, `ReportedTvrIsFinal`,
`ApprovalRestsOnSignature`, `OfflineApprovalJustified`, `CardSeesJudgedTvr`, `CvmConsistent`,
`VerdictIsBorneOut`, `StaticDataIsAflData`, `GenuineCardAuthenticates` and `TransactionEnds`
for the kernel; `CvmReportsAgree`, `PinReportRestsOnVerify`, `ReportedRuleApplies`,
`CardSeesTvr`, `PurchaseRestsOnSignature`, `KeyRestsOnRecords` and `PurchaseEnds` for the
contact flow (`CardSeesTvr` and the kernel's `GenuineCardAuthenticates` are action properties); `CommandReachesCard` and `ImplementsAtomicExchange` for the exchange;
`CandidatesAreListed`, `HandOver` and `SelectionEnds` for selection and simulator; one type
invariant for each.

Some of them say what they leave out. `GenuineCardAuthenticates` holds in any transaction, on a connection
where no earlier card left an ICC key or a CDA failure: with an old key the code panics on the genuine
card's signature (`state_machine.rs:268`, `lib.rs:1857`), with an old failure it declines. `CvmReportsAgree`, `PinReportRestsOnVerify` and
`ReportedRuleApplies` speak of what the terminal wrote into 9F34; a 9F34 of the card's own is taken as it is
(`lib.rs:3104`), which `claim_cvm_results` shows. `ReportedRuleApplies` is stated of the rules the terminal has, which
for a later card begin with those of the earlier ones (`lib.rs:1738`). `CardSeesJudgedTvr`, `CvmConsistent` and
`OfflineApprovalJustified` compare with the store of the end, so they are stated where the answer to GENERATE AC replaced none
of the tags they follow from.

**Why the bounds are enough.** State left over from a transaction is read by the next one
only, so two transactions (`MaxTransactions = 2`) show it, a stale key, a sticky TVR bit
or appended rules included. An AFL entry's counter interacts with the next record and the
next entry, so two entries with up to two records show it. Limits are compared with
one amount, so amounts below, at and above suffice. Every field the code branches on has
each of its values in some answer. A length byte has a greatest value (255), beyond which 00 stands for
"more": replies below, at, one above and two rounds above it are told apart with a greatest value
of 3 as with 255. The directory loop ends at record 254; it neither counts nor keeps anything else
about records, so a last record of 3 reaches the same end. PINs of an even and of an odd number
of digits and of the full length are the cases of the padding.

**Fairness.** For the transactions `WF_vars(Step)` only: the process keeps running, the interface answers each
APDU or reports an error (its `Err` ends the program), and the cardholder enters a PIN or
cancels. Nothing makes the user start another transaction: `NextTransaction` is not in
`Step`. The loops over AFL entries, records and rules are finite by what they count, which
`TransactionEnds` and `PurchaseEnds` check. `CommandSpec` has `WF(Exchanges)`: the interface answers
every transmission or fails; with a card that answers 61xx for ever no more is promised, which is
why `AtomicExchange` is fair only to obeying cards. The simulator has `WF(Run)`: once a card is
in the reader the program goes on, and a cardholder who is asked to choose answers; nobody has to
insert a card. Deadlock is checked in every passing run;
`Terminated` is the intended end.

## 4. What is proved

For all values of the constants (any configurations, amounts, answers, AFLs, directories, requests,
replies and number of transactions), under the named assumptions:

| Theorem | Statement |
|---|---|
| `Invariant` (`Kernel2_proofs`) | `Spec => []IInv` |
| `TypeCorrect` | `Spec => []TypeOK` |
| `KeyRecoverySafe` | the static data key recovery unwraps is always there |
| `LimitHolds` | no amount above the limit goes past the entry point |
| `ReportedTvrHolds` | approvals and online requests leave the final TVR in tag 95 |
| `VerdictHolds` (`PaymentOutcome_proofs`) | the abstract verdict is borne out by the cryptogram |
| `Refinement` (`Kernel2_proofs`) | the kernel implements the abstract payment's safety part |
| `VerdictSafe` | hence `VerdictIsBorneOut` holds of the kernel |
| `ApprovalsRestOnSignatures` | `Spec => []ApprovalRestsOnSignature` |
| `SentTvrIsJudged`, `OutcomeCvmIsReported` | `CardSeesJudgedTvr`, `CvmConsistent` |
| `ApprovalsAreJustified` | with an obeying card, `OfflineApprovalJustified` |
| `StaticDataHolds` | `Spec => []StaticDataIsAflData` |
| `GenuineCardsPass` | `Spec => GenuineCardAuthenticates`, a property of the CDA step, in every transaction |
| `CvmReported` (`ContactTransaction_proofs`) | `Spec => []CvmReportsAgree`: of what the terminal reports |
| `PinReported9f34`, `ReportedRules` | `PinReportRestsOnVerify`, `ReportedRuleApplies`: of what the terminal reports |
| `SentTvrIsTerminals` | `Spec => CardSeesTvr`, a property of every step that sends a TVR |
| `ContactTypes` (`ContactPurchase_proofs`) | `Spec => []ContactTypeOK` |
| `KeysOverSignedRecords`, `PurchasesRestOnSignatures` | `KeyRestsOnRecords`, `PurchaseRestsOnSignature` |
| `AtomicApdu` (`CardCommands_proofs`) | `send_apdu` implements the atomic exchange's safety part |
| `AtomicCommands` | so do the handlers' commands through it |
| `ExchangeTypes`, `CommandsReachTheCard` | `CommandSpec => []ExchangeTypeOK`, `[]CommandReachesCard` |
| `SelectionTypes`, `CandidatesAreTheCards`, `HandOverHolds` (`TerminalSimulator_proofs`) | `SelectionTypeOK`, `CandidatesAreListed`, `HandOver` |
| `AmountKept`, `TvrKept`, `PinKept` (`Conversions_proofs`) | amounts, the TVR and PINs are read back from their bytes as they were |

**The kernel's invariant.** `IInv == TypeOK /\ CidKnown /\ Progressed /\ StaticDataRead`. None
of the properties is inductive by itself: that the outcome has a known cryptogram type
needs `CidKnown` (a 9F27 in the store is one of three values, because storing any other
panics); that "cda" finds static data needs `StaticDataRead` (the loop over the AFL has
stored them in every later phase) and `Progressed` (a cryptogram of the GPO answer, for
which the loop is left out, never gets to "cda"). Each action has a step; the refinement
proof maps each action to a step of the abstract payment or to a stutter under `IInv`.

More invariants rest on it. `LimitInv` adds that the amount the entry point reads from 9F02 is the one the
user entered. `ApprovalInv` carries the signature from CDA to the outcome: the
connection's key may be an earlier card's, so what is kept is that a TC which reaches "outcome"
was verified under a key of this transaction, and that the tags written afterwards (9F26, 95)
are not among those that were signed or were so with the same value (`TvrSent`: a 95 in the card's answer
does not change the TVR that was sent). `DecisionInv` carries the
decision past the answer to GENERATE AC, which may replace what it was made from: the TVR that was sent is the
one judged, and the requested cryptogram and the CVM follow from the store as it is unless the answer has one of the
tags they depend on (`Judged` under `DecisionKept`, `CvmDecided` under `CvmKept`); a TC that goes on has no bit
more than was judged but "not performed".

`StaticDataInv` is the loop over the AFL. While it reads, what is gathered are records of the entries
and places before the loop's, in their order, no entry giving more than its count (`Collecting`), and, if
nothing was skipped, all of them; when it ends this is the data the issuer signed
(`Collected`). Positions in the gathered data are counted by `Cardinality`, so the proof has lemmas on how
one more record changes that count (`CardData_proofs`). `SentData` is the other side of `ApprovalInv`: for a card
whose certificates and signature have no defect, what the card signed is what the terminal hashes, because the values
sent for the PDOL and CDOL1 are still those in the store when CDA reads them; a genuine card's lists ask for no
tag that is stored again later (`ListsKept`, a hypothesis of the property that the instance `kernel2_cda` satisfies).
With it `GenuineCardAuthenticates` is a fact about the one step of CDA: where no key or failure of an earlier card is
left (`FirstKey`), the chain is recovered over `Collected` static data, the signature is good under it, and
the step goes on with the TVR unchanged.

**The contact invariants.** Those about the reports look at each step by its shape only: it stores answers outside the
loop (`Quiet`: a report keeps its value and its origin or becomes the card's, `Left`), passes over a rule (`Passes`), comes to the
result of one (`Concludes`), or is the loop's end or the next transaction. `CvmInv` strengthens `CvmReportsAgree` by what holds
before and inside the loop: before it no report is the terminal's; once a rule has put one into 9F34, it agrees with
the TVR bit, and the rules have codes that are not taken for "failed". `PinInv` is the same for `verified`. `RuleInv`
adds that no rule before the loop's place that had to be performed was passed over, and that a report is
that of a rule the loop came to; `RulesInv` whose the rules and the amount are. `TvrInv` keeps tag 95 equal to the TVR from the action
analysis on, unless an answer has a 95. The others build on `TypeInv` (`ContactPurchase_proofs`), in which `Origins` says that
only stored tags have an origin. `KeyInv` says that until its keys are recovered no key is this
card's, and that they are recovered over the records that were read; a recovery that finds other
records than the issuer signed gives no key. `PurchaseInv` adds that the data of the first GENERATE AC
were sent by that command only; the rest is one step, because in the contact flow the verification
is part of the action that makes a purchase successful.

**The exchange.** While an obeying card hands out its reply, what the terminal gathered and what the card
has pending are together the reply, and GET RESPONSE is sent exactly after a command was performed
(`ExchangeInv`); so each transmission maps to a step of `AtomicExchange` or a stutter.
`CommandInv` adds whose command it is: everything sent but a GET RESPONSE is the handler's command with,
at most, another last byte (`Derived`), and an obeying card asks for another length only of a command that
has one. What is left is pure: for each of the five handlers, that command still says what was asked for
whatever its last byte became (`CommandUnderstood`). For a data object list this is an argument over the sums of
lengths: the values stand one after another where the list says (`FieldsFound`), each with its own value
(`ObjectValueIs`), and the amount, the TVR and the PIN block convert back (`AmountKept`, `TvrKept`,
`PinKept`). The last byte of a PIN block is a filler, which is why 6Cxx does not spoil a VERIFY.

**The selection and the simulator.** `SimulatorInv == SelectionTypeOK /\ ListInv /\ HandOverInv`. `ListInv` says that the
candidates are, in the card's order and with their own label and priority, the usable ones of the templates
the card told so far (`Matches`), that a contactless directory gives one template at most (`OneTemplate`), and that
nothing of an earlier card's is in the lists when the next directory is selected (`Fresh`). `HandOverInv` follows the
store of the chosen application through the settings (`Prepared`); it rests on `AmountKept`.

**Recursive definitions.** `FlattenSeq`, the sums of lengths and the positions of a list's objects are
recursive functions. Where a proof needs induction over them it is over the set of the numbers for which the
claim holds (`Induction` in `CardCommands_proofs`, from the least element of its complement): a fact about a set, which takes no
operator as its parameter.

**Model-checked only.** Every invariant of the passing runs is a theorem. TLC alone checks liveness
(`TransactionEnds`, `PurchaseEnds`, `SelectionEnds`, and the fairness parts of `ImplementsPayment` and
`ImplementsAtomicExchange`), which is out of the prover's reach, and shows the violations of the `claim_*` runs.

## 5. What the checks found

| Run | Statement in the repository | What the code does |
|---|---|---|
| `claim_bad_signature` | "CDA failure on TC -> must decline" (`state_machine.rs:304`) | the signature check's `Err` is unwrapped at `lib.rs:1857`: a panic |
| `claim_online_cryptogram` | "CDA failure on ARQC -> continue (issuer authenticates online)" (`:310`) | 9F26 is stored only when CDA succeeds: nothing to authenticate |
| `claim_cid_from_answer` | "CID (9F27) not in response" (`:406`) | an older 9F27 in the store hides it |
| `claim_cvm_results` | 9F34 has "source: 'Terminal'" (`config/emv_tags.yaml:434`) | the end of the rule loop takes any stored 9F34, a record's too, for the result of a rule (`lib.rs:3104`) |
| `claim_action_code` | absent Issuer Action Code - Online: "all bits set to 1" (`lib.rs:3160`) | `vec![1; tvr_len]` (`:3175`): bits that are no TVR field |

Seen while modelling and stated by no property: an unknown 9F27 panics while it is printed
(`lib.rs` 1493), so the kernel's own handling of it (`state_machine.rs` 409) is never
reached; the comment of `determine_cvm` (`cvm.rs` 98) and its code treat the boundary
amount differently; SDA cannot succeed (21 bytes against 20); `fail_if_unsuccessful` of a CVM rule is
parsed and never consulted; the simulator's branch for a declined cryptogram is
unreachable, as a decline is an `Err` it unwraps. Without a CA key index a signed answer is
neither verified nor reported, and an empty GENERATE AC template leaves the signature unchecked while
9F27 and 9F4B are those of an earlier answer; `ApprovalRestsOnSignature` is stated for the other cards. A PDOL that names 9F26 is answered before the tag changes, so that tag is left out of what
must be unchanged.

In the exchange: after 6Cxx the original command is sent again, even when the card had already performed it
and handed out a part (61xx, then 6Cxx): a card that does so performs it twice, which is why the promise is
for obeying cards. 6Cxx overwrites the last byte also of commands without Le: the plaintext
VERIFY survives, its last byte being a filler, and GET PROCESSING OPTIONS without a PDOL does not. A data
object shorter than its value gets the value's first bytes, also for numbers (a TODO in the code).
In selection: of a contactless directory only the first template is listed. In the simulator: the default tags of the
settings replace what the card's SELECT answer said (`lib.rs:2349-2352`), but the generated values (9A, 9F37 and the like) only fill
absent tags, so a card whose SELECT answer has a 9F37 that the settings lack provides its own unpredictable number.
The early decline after a failed CDA (`state_machine.rs:308`) leaves tag 95 as it was before the failure; no text
says what a declined transaction reports, and `ReportedTvrIsFinal` is about those that go ahead.

## 6. Not modelled

- RSA, SHA-1 and certificate dates (certificates have defects instead);
- the text of messages, UI parameters, removal timeouts, logging (a label that is not UTF-8 panics
  while it is logged), the tag dictionary, the TLV grammar, which a library parses;
- the encipherment of a PIN (its GET CHALLENGE and VERIFY are one action over the answers to both);
- `preprocess()` of the entry point and `perform_oda` of `kernel2/oda.rs`: no caller;
- the reader, the command line, PIN and amount entry: I/O.

## 7. Plan

The most important behaviour (the approval of a contactless payment) came first; all steps are done.

1. `Kernel2` and its parts; properties; three runs.
2. `PaymentOutcome`, the refinement, and their proofs.
3. `ContactTransaction` with cardholder verification, SDA and DDA; two runs.
4. Its safety invariants proved (`ContactTransaction_proofs`, `ContactPurchase_proofs`).
5. `ApduExchange`: `send_apdu` as a loop, refining the atomic exchange; the refinement's safety part
   proved. `Conversions`, `DataObjectLists` and `CardCommands`: the bytes of the commands. One run.
6. `ApplicationSelection` and `TerminalSimulator`: from the amount to a transaction's `Init`. One run.
7. The kernel's remaining invariants proved (`ApprovalInv`, `DecisionInv`).
8. The invariants that speak of sequences and bytes proved: static data and genuine cards, the commands,
   selection and hand-over (`StaticDataInv`, `SentData`, `CommandInv`, `SimulatorInv`).
9. Cards that answer with the terminal's own tags: the reports and their origin (`given`, `claim_cvm_results`); a
   genuine second card (`kernel2_cda` over two transactions).

What could follow: an abstract payment with two cryptograms implemented by `ContactTransaction`; the state of a
library caller that mixes contact and contactless transactions on one connection.
