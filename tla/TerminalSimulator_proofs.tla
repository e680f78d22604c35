----------------------- MODULE TerminalSimulator_proofs -----------------------
(* Proofs about the selection of an application and the simulator around it,  *)
(* for every directory and every answer of a card.  SimulatorInv is inductive: *)
(* each action preserves it (one lemma each, in the order of a run).          *)
EXTENDS TerminalSimulator, Conversions_proofs

----------------------------------------------------------------------------
(* The inductive invariant. *)

(* What the directory can say of an application. *)
Told == {t.tags : t \in Templates}
Values ==
    {{"UNKNOWN"}, {"01"}} \cup UNION {{T[x] : x \in DOMAIN T} : T \in Told}
Candidate == [aid : Values, label : Values, priority : Values]

Phase ==
    {"amount", "connect", "pse", "records", "templates", "listed",
     "select", "settings", "dispatch", "ended"}

(* Before the directory is read nothing of it is there, and nothing is chosen *)
(* before the list is complete.                                               *)
Fresh ==
    /\ phase \in {"amount", "connect", "pse"} =>
          listed = <<>> /\ applications = <<>> /\ templates = <<>>
    /\ phase \in {"amount", "connect", "pse", "records", "templates", "listed"} =>
          application = NoApplication
    /\ phase \in {"select", "settings", "dispatch"} => application # NoApplication

(* A contactless card has no records, and one template is looked into at most. *)
OneTemplate ==
    contactless =>
        /\ phase # "records" /\ Len(applications) <= 1
        /\ phase = "templates" /\ templates # <<>> => listed = <<>> /\ applications = <<>>

(* The first part of CandidatesAreListed, of any two lists. *)
Matches(apps, told) ==
    \E template \in [DOMAIN apps -> DOMAIN told] :
        /\ \A i, j \in DOMAIN apps : i < j => template[i] < template[j]
        /\ {template[i] : i \in DOMAIN apps} = {k \in DOMAIN told : Usable(told[k])}
        /\ \A i \in DOMAIN apps : Describes(apps[i], told[template[i]])

Chosen ==
    application # NoApplication =>
        \E i \in DOMAIN applications : application = applications[i]

ListInv ==
    /\ contactless \in BOOLEAN
    /\ listed \in Seq(Told) /\ applications \in Seq(Candidate)
    /\ Fresh /\ OneTemplate /\ Matches(applications, listed) /\ Chosen

(* What HandOver says of the transaction once the terminal's tags are set. *)
Prepared ==
    /\ application # NoApplication
    /\ DOMAIN tags = DOMAIN fci \cup TerminalTags
    /\ \A t \in DOMAIN fci \ (DOMAIN DefaultTags \cup {"9F02"}) : tags[t] = fci[t]
    /\ LET digits == bcd_to_ascii(tags["9F02"])
       IN  /\ Len(digits) = 12
           /\ SubSeq(digits, 13 - Len(amount), 12) = amount
           /\ \A i \in 1 .. 12 - Len(amount) : digits[i] = 0

(* The tags are the answer's when the settings are read, and the amount is a  *)
(* number from the moment it is entered.                                      *)
HandOverInv ==
    /\ phase \notin {"amount", "ended"} => amount \in Seq(Digits)
    /\ phase = "settings" =>
          TagStore(fci) /\ TagStore(tags) /\ DOMAIN tags = DOMAIN fci
          /\ \A t \in DOMAIN fci : tags[t] = fci[t]
    /\ phase = "dispatch" \/ result \in {"contact", "contactless"} => Prepared

SimulatorInv == SelectionTypeOK /\ ListInv /\ HandOverInv

Rest == <<interactive, args>>

----------------------------------------------------------------------------
(* Templates and answers. *)

LEMMA Bounds == LastRecord \in Nat \ {0} /\ MaxListed \in Nat
BY SelectionAssumption

LEMMA TemplateType ==
    ASSUME NEW t \in Templates
    PROVE  t.constructed \in BOOLEAN /\ TagStore(t.tags) /\ t.tags \in Told
BY SelectionAssumption DEF Told

LEMMA AnswerType ==
    ASSUME NEW a \in PseAnswers \cup RecordAnswers
    PROVE  /\ a.body \in {"lost", "none", "other", "short", "template"}
           /\ TagStore(a.tags)
           /\ a.templates \in Seq(Templates) /\ Len(a.templates) <= MaxListed
BY SelectionAssumption DEF DirectoryAnswer

LEMMA MergeStore ==
    ASSUME NEW store, NEW new
    PROVE  TagStore(Merge(store, new))
BY DEF TagStore, Merge

LEMMA StoredType ==
    ASSUME NEW store, NEW a
    PROVE  TagStore(Stored(store, a))
BY DEF TagStore, Stored

LEMMA EmptyStore == TagStore(NoTags)
BY DEF TagStore, NoTags

(* A cleared store holds what is read into it, and nothing else.              *)
LEMMA ReadAlone ==
    ASSUME NEW store, NEW new, TagStore(new)
    PROVE  Merge(Cleared(store), new) = new
BY DEF Cleared, NoTags, Merge, TagStore

(* A candidate and what it is a candidate from.                               *)
LEMMA CandidateOfTemplate ==
    ASSUME NEW T \in Told, Holds(T, "4F"), contactless \in BOOLEAN
    PROVE  IF Usable(T)
           THEN \E c \in Candidate : Candidates(T) = <<c>> /\ Describes(c, T)
           ELSE Candidates(T) = <<>>
<1> DEFINE c == [aid |-> T["4F"],
                 label |-> IF Holds(T, "50") THEN T["50"] ELSE {"UNKNOWN"},
                 priority |-> IF Holds(T, "87") THEN T["87"] ELSE {"01"}]
<1>1. \A x \in DOMAIN T : T[x] \in Values
  <2> TAKE x \in DOMAIN T
  <2>1. T[x] \in {T[y] : y \in DOMAIN T}
    OBVIOUS
  <2>2. {T[y] : y \in DOMAIN T} \in {{S[y] : y \in DOMAIN S} : S \in Told}
    OBVIOUS
  <2> QED
    BY <2>1, <2>2 DEF Values
<1>2. {"UNKNOWN"} \in Values /\ {"01"} \in Values
  BY DEF Values
<1>3. c \in Candidate
  BY <1>1, <1>2 DEF Candidate, Holds
<1>4. ASSUME Usable(T)
      PROVE  Describes(c, T)
  <2>1. /\ c.aid = T["4F"]
        /\ c.label = IF Holds(T, "50") THEN T["50"] ELSE {"UNKNOWN"}
    OBVIOUS
  <2>2. CASE Holds(T, "87")
    BY <2>1, <2>2 DEF Describes
  <2>3. CASE ~Holds(T, "87") /\ contactless
    BY <2>1, <2>3 DEF Describes
  <2> QED
    BY <1>4, <2>2, <2>3 DEF Usable
<1>5. Candidates(T) = IF Usable(T) THEN <<c>> ELSE <<>>
  BY DEF Candidates, Usable
<1> HIDE DEF c
<1> QED
  BY <1>3, <1>4, <1>5

----------------------------------------------------------------------------
(* Lists of candidates. *)

LEMMA Nothing == Len(<<>>) = 0 /\ \A S : <<>> \in Seq(S)
OBVIOUS

LEMMA MatchesNothing == Matches(<<>>, <<>>)
<1> DEFINE template == [i \in DOMAIN <<>> |-> i]
<1>1. DOMAIN <<>> = {}
  OBVIOUS
<1>2. template \in [DOMAIN <<>> -> DOMAIN <<>>]
  BY <1>1
<1>3. /\ \A i, j \in DOMAIN <<>> : i < j => template[i] < template[j]
      /\ {template[i] : i \in DOMAIN <<>>} = {k \in DOMAIN <<>> : Usable(<<>>[k])}
      /\ \A i \in DOMAIN <<>> : Describes(<<>>[i], <<>>[template[i]])
  BY <1>1
<1> QED
  BY <1>2, <1>3 DEF Matches

(* A template that is of no use is passed over.                               *)
LEMMA MatchesUseless ==
    ASSUME NEW told \in Seq(Told), NEW apps \in Seq(Candidate), NEW T \in Told,
           Matches(apps, told), ~Usable(T)
    PROVE  Matches(apps, Append(told, T))
<1> DEFINE after == Append(told, T)
<1>1. PICK template \in [DOMAIN apps -> DOMAIN told] :
         /\ \A i, j \in DOMAIN apps : i < j => template[i] < template[j]
         /\ {template[i] : i \in DOMAIN apps} = {k \in DOMAIN told : Usable(told[k])}
         /\ \A i \in DOMAIN apps : Describes(apps[i], told[template[i]])
  BY DEF Matches
<1>2. /\ DOMAIN told \subseteq DOMAIN after
      /\ \A k \in DOMAIN told : after[k] = told[k]
      /\ \A k \in DOMAIN after \ DOMAIN told : after[k] = T
  OBVIOUS
<1> HIDE DEF after
<1>3. template \in [DOMAIN apps -> DOMAIN after]
  BY <1>2
<1>4. {k \in DOMAIN after : Usable(after[k])} = {k \in DOMAIN told : Usable(told[k])}
  <2>1. \A k \in DOMAIN after : Usable(after[k]) <=> k \in DOMAIN told /\ Usable(told[k])
    BY <1>2
  <2> QED
    BY <1>2, <2>1
<1>5. \A i \in DOMAIN apps : Describes(apps[i], after[template[i]])
  BY <1>1, <1>2
<1>6. Matches(apps, after)
  BY <1>1, <1>3, <1>4, <1>5 DEF Matches
<1> QED
  BY <1>6 DEF after

(* A template that is of use gives the last candidate.                        *)
LEMMA MatchesUsable ==
    ASSUME NEW told \in Seq(Told), NEW apps \in Seq(Candidate), NEW T \in Told,
           NEW c \in Candidate, Matches(apps, told), Usable(T), Describes(c, T)
    PROVE  Matches(Append(apps, c), Append(told, T))
<1> DEFINE after == Append(told, T)
           more == Append(apps, c)
           n == Len(apps) + 1
           m == Len(told) + 1
<1>1. PICK template \in [DOMAIN apps -> DOMAIN told] :
         /\ \A i, j \in DOMAIN apps : i < j => template[i] < template[j]
         /\ {template[i] : i \in DOMAIN apps} = {k \in DOMAIN told : Usable(told[k])}
         /\ \A i \in DOMAIN apps : Describes(apps[i], told[template[i]])
  BY DEF Matches
<1>2. /\ DOMAIN told = 1 .. m - 1 /\ DOMAIN after = 1 .. m
      /\ \A k \in DOMAIN told : after[k] = told[k]
      /\ after[m] = T /\ m \in Nat \ {0} /\ m \notin DOMAIN told
  OBVIOUS
<1>3. /\ DOMAIN apps = 1 .. n - 1 /\ DOMAIN more = 1 .. n
      /\ \A i \in DOMAIN apps : more[i] = apps[i]
      /\ more[n] = c /\ n \in Nat \ {0} /\ n \notin DOMAIN apps
  OBVIOUS
<1> HIDE DEF after, more, n, m
<1> DEFINE longer == [i \in 1 .. n |-> IF i = n THEN m ELSE template[i]]
<1>4. /\ longer[n] = m
      /\ \A i \in DOMAIN apps : longer[i] = template[i] /\ template[i] \in DOMAIN told
  BY <1>3
<1>5. longer \in [DOMAIN more -> DOMAIN after]
  BY <1>2, <1>3
<1>6. \A i \in DOMAIN more : i \in DOMAIN apps \/ i = n
  BY <1>3
<1>7. \A k \in DOMAIN after : k \in DOMAIN told \/ k = m
  BY <1>2
<1>8. DOMAIN apps \subseteq DOMAIN more /\ DOMAIN told \subseteq DOMAIN after
      /\ n \in DOMAIN more /\ m \in DOMAIN after
  BY <1>2, <1>3
<1> HIDE DEF longer
<1>9. ASSUME NEW i \in DOMAIN more, NEW j \in DOMAIN more, i < j
      PROVE  longer[i] < longer[j]
  <2>1. i \in DOMAIN apps
    BY <1>3, <1>9
  <2>2. CASE j \in DOMAIN apps
    <3>1. template[i] < template[j]
      BY <1>1, <1>9, <2>1, <2>2
    <3>2. longer[i] = template[i] /\ longer[j] = template[j]
      BY <1>4, <2>1, <2>2
    <3> QED
      BY <3>1, <3>2
  <2>3. CASE j = n
    <3>1. longer[i] \in 1 .. m - 1 /\ longer[j] = m
      BY <1>2, <1>4, <2>1, <2>3
    <3> QED
      BY <1>2, <3>1
  <2> QED
    BY <1>6, <2>2, <2>3
<1>10. {longer[i] : i \in DOMAIN more} = {k \in DOMAIN after : Usable(after[k])}
  <2>1. ASSUME NEW i \in DOMAIN more
        PROVE  longer[i] \in DOMAIN after /\ Usable(after[longer[i]])
    <3>1. CASE i \in DOMAIN apps
      <4>1. template[i] \in {k \in DOMAIN told : Usable(told[k])}
        BY <1>1, <3>1
      <4> QED
        BY <1>2, <1>4, <1>8, <3>1, <4>1
    <3>2. CASE i = n
      BY <1>2, <1>4, <1>8, <3>2
    <3> QED
      BY <1>6, <3>1, <3>2
  <2>2. ASSUME NEW k \in DOMAIN after, Usable(after[k])
        PROVE  \E i \in DOMAIN more : longer[i] = k
    <3>1. CASE k \in DOMAIN told
      <4>1. k \in {template[i] : i \in DOMAIN apps}
        BY <1>1, <1>2, <2>2, <3>1
      <4>2. PICK i \in DOMAIN apps : template[i] = k
        BY <4>1
      <4> QED
        BY <1>4, <1>8, <4>2
    <3>2. CASE k = m
      BY <1>4, <1>8, <3>2
    <3> QED
      BY <1>7, <3>1, <3>2
  <2> QED
    BY <2>1, <2>2
<1>11. \A i \in DOMAIN more : Describes(more[i], after[longer[i]])
  <2> TAKE i \in DOMAIN more
  <2>1. CASE i \in DOMAIN apps
    BY <1>1, <1>2, <1>3, <1>4, <2>1
  <2>2. CASE i = n
    BY <1>2, <1>3, <1>4, <2>2
  <2> QED
    BY <1>6, <2>1, <2>2
<1>12. Matches(more, after)
  BY <1>5, <1>9, <1>10, <1>11 DEF Matches
<1> QED
  BY <1>12 DEF more, after

----------------------------------------------------------------------------
(* Parts of the invariant that a step leaves alone. *)

LEMMA MatchesSame ==
    ASSUME Matches(applications, listed), UNCHANGED <<contactless, listed, applications>>
    PROVE  Matches(applications, listed)'
BY DEF Matches, Usable, Describes

LEMMA ListsSame ==
    ASSUME ListInv, UNCHANGED <<contactless, listed, applications>>,
           Fresh', OneTemplate', Chosen'
    PROVE  ListInv'
BY MatchesSame DEF ListInv

LEMMA NotHandedOver ==
    ASSUME HandOverInv, phase \notin {"amount", "ended"}, UNCHANGED amount,
           phase' \notin {"settings", "dispatch"}, result' \notin {"contact", "contactless"}
    PROVE  HandOverInv'
BY DEF HandOverInv

----------------------------------------------------------------------------
(* The first state, the amount and the card. *)

LEMMA InitSimulator == Init => SimulatorInv
<1> SUFFICES ASSUME Init PROVE SimulatorInv
  OBVIOUS
<1> USE DEF Init, SelectionInit
<1>1. LastRecord \in Nat \ {0} /\ MaxListed \in Nat
  BY Bounds
<1>2. SelectionTypeOK
  BY <1>1, EmptyStore DEF SelectionTypeOK
<1>3. Matches(applications, listed)
  BY MatchesNothing
<1>4. ListInv
  <2>1. Fresh /\ Chosen
    BY DEF Fresh, Chosen
  <2>2. OneTemplate
    BY DEF OneTemplate
  <2>3. listed = <<>> /\ applications = <<>> /\ contactless = FALSE
    OBVIOUS
  <2>4. listed \in Seq(Told) /\ applications \in Seq(Candidate)
    BY ONLY <2>3, Nothing
  <2> QED
    BY <1>3, <2>1, <2>2, <2>3, <2>4 DEF ListInv
<1>5. HandOverInv
  BY DEF HandOverInv
<1> QED
  BY <1>2, <1>4, <1>5 DEF SimulatorInv

LEMMA AmountStep ==
    ASSUME SimulatorInv, NEW entry \in Entries \cup {<< 1 >>}, AmountEntry(entry)
    PROVE  SimulatorInv'
<1> USE DEF SimulatorInv, AmountEntry, Goto, Ends, directory
<1>1. SelectionTypeOK'
  BY DEF SelectionTypeOK
<1>2. ListInv'
  <2>1. Fresh' /\ OneTemplate' /\ Chosen'
    BY DEF ListInv, Fresh, OneTemplate, Chosen
  <2> QED
    BY <2>1, ListsSame
<1>3. HandOverInv'
  <2>1. entry \in Seq(Nat)
    BY SimulatorAssumption
  <2>2. phase' = "connect" => entry \in Seq(Digits)
    BY <2>1 DEF SelectionTypeOK
  <2>3. phase' \in {"connect", "ended"} /\ result' \notin {"contact", "contactless"}
    BY DEF SelectionTypeOK
  <2> QED
    BY <2>2, <2>3 DEF HandOverInv
<1> QED
  BY <1>1, <1>2, <1>3

LEMMA ConnectStep ==
    ASSUME SimulatorInv,
           ReaderFails \/ CardNotFound
           \/ \E reader \in [contactless : BOOLEAN] : CardFound(reader)
    PROVE  SimulatorInv'
<1> USE DEF SimulatorInv, ReaderFails, CardNotFound, CardFound, Goto, Ends, directory
<1>1. SelectionTypeOK'
  BY DEF SelectionTypeOK
<1>2. ListInv'
  <2>1. listed' = <<>> /\ applications' = <<>> /\ templates' = <<>>
        /\ application' = NoApplication /\ phase' \in {"pse", "ended"}
    BY DEF ListInv, Fresh
  <2>2. Matches(applications, listed)'
    <3>1. Matches(<<>>, <<>>)'
      BY MatchesNothing, PTL
    <3> QED
      BY <2>1, <3>1
  <2>3. contactless' \in BOOLEAN
    BY DEF ListInv
  <2>4. Fresh' /\ Chosen'
    BY <2>1 DEF Fresh, Chosen
  <2>5. OneTemplate'
    <3>1. Len(applications') <= 1
      <4>1. Len(applications') = 0
        BY ONLY <2>1, Nothing
      <4> QED
        BY ONLY <4>1
    <3>2. phase' \notin {"records", "templates"}
      BY <2>1
    <3> QED
      BY <3>1, <3>2 DEF OneTemplate
  <2> QED
    BY <2>1, <2>2, <2>3, <2>4, <2>5 DEF ListInv
<1>3. HandOverInv'
  BY NotHandedOver DEF SelectionTypeOK
<1> QED
  BY <1>1, <1>2, <1>3

----------------------------------------------------------------------------
(* The directory. *)

LEMMA PseStep ==
    ASSUME SimulatorInv, NEW a \in PseAnswers, SelectPse(a), UNCHANGED <<args, amount>>
    PROVE  SimulatorInv'
<1> USE DEF SimulatorInv
<1>1. /\ phase = "pse" /\ phase' \in {"templates", "records", "ended"}
      /\ phase' = "ended" => result' \in {"panic", "Err"}
      /\ phase' # "ended" => result' = result
      /\ phase' = "templates" <=> phase' \notin {"ended", "records"}
      /\ templates' = a.templates \/ templates' = templates
      /\ phase' # "templates" => templates' = templates
      /\ contactless => phase' # "records"
      /\ tags' = tags \/ tags' = Stored(Cleared(tags), a)
      /\ UNCHANGED <<contactless, record, listed, applications, application>>
  BY DEF SelectPse, Goto, Ends
<1>2. listed = <<>> /\ applications = <<>> /\ templates = <<>> /\ application = NoApplication
  BY <1>1 DEF ListInv, Fresh
<1>3. SelectionTypeOK'
  <2>1. TagStore(tags')
    BY <1>1, StoredType DEF SelectionTypeOK
  <2>2. templates' \in Seq(Templates) /\ Len(listed') + Len(templates') <= MaxListed
    <3>1. a.templates \in Seq(Templates) /\ Len(a.templates) <= MaxListed
      BY AnswerType
    <3>2. MaxListed \in Nat
      BY Bounds
    <3>3. Len(listed') = 0 /\ <<>> \in Seq(Templates) /\ Len(<<>>) = 0
      BY <1>1, <1>2, Nothing
    <3>4. templates' = a.templates \/ templates' = <<>>
      BY <1>1, <1>2
    <3>5. CASE templates' = a.templates
      <4>1. Len(a.templates) \in Nat /\ Len(templates') = Len(a.templates)
        BY <3>1, <3>5
      <4>2. Len(listed') + Len(templates') <= MaxListed
        BY ONLY <3>1, <3>3, <4>1
      <4> QED
        BY <3>1, <3>5, <4>2
    <3>6. CASE templates' = <<>>
      <4>1. Len(templates') = 0
        BY <3>3, <3>6
      <4>2. Len(listed') + Len(templates') <= MaxListed
        BY ONLY <3>2, <3>3, <4>1
      <4> QED
        BY <3>3, <3>6, <4>2
    <3> QED
      BY <3>4, <3>5, <3>6
  <2>3. templates' # <<>> => phase' = "templates"
    BY <1>1, <1>2
  <2>4. /\ result' \in {"none", "panic", "Err"} /\ phase' = "ended" <=> result' # "none"
        /\ record' \in 1 .. LastRecord + 1
    BY <1>1 DEF SelectionTypeOK
  <2> QED
    BY <1>1, <2>1, <2>2, <2>3, <2>4 DEF SelectionTypeOK
<1>4. ListInv'
  <2>1. Fresh' /\ Chosen'
    BY <1>1, <1>2 DEF Fresh, Chosen
  <2>2. OneTemplate'
    <3>1. listed' = <<>> /\ applications' = <<>> /\ contactless' = contactless
      BY <1>1, <1>2
    <3>2. Len(applications') = 0
      BY ONLY <3>1, Nothing
    <3>3. Len(applications') <= 1
      BY ONLY <3>2
    <3> QED
      BY <1>1, <3>1, <3>3 DEF OneTemplate
  <2> QED
    BY <1>1, <2>1, <2>2, ListsSame
<1>5. HandOverInv'
  <2>1. result' \notin {"contact", "contactless"}
    BY <1>1 DEF SelectionTypeOK
  <2> QED
    BY <1>1, <2>1, NotHandedOver
<1> QED
  BY <1>3, <1>4, <1>5

LEMMA RecordStep ==
    ASSUME SimulatorInv, UNCHANGED <<args, amount>>,
           LastRecordRead \/ \E a \in RecordAnswers : ReadRecord(a)
    PROVE  SimulatorInv'
<1> USE DEF SimulatorInv
<1>1. /\ phase = "records" /\ phase' \in {"listed", "templates", "ended"}
      /\ phase' = "ended" => result' \in {"panic", "Err"}
      /\ phase' # "ended" => result' = result
      /\ UNCHANGED <<contactless, listed, applications, application>>
  BY DEF LastRecordRead, ReadRecord, Goto, Ends, directory
<1>2. templates = <<>> /\ application = NoApplication /\ ~contactless
  BY <1>1 DEF SelectionTypeOK, ListInv, Fresh, OneTemplate
<1>3. record \in 1 .. LastRecord + 1 /\ LastRecord \in Nat
  BY Bounds DEF SelectionTypeOK
<1>4. SelectionTypeOK'
  <2>1. TagStore(tags')
    BY StoredType DEF SelectionTypeOK, LastRecordRead, ReadRecord
  <2>2. /\ templates' \in Seq(Templates) /\ Len(listed') + Len(templates') <= MaxListed
        /\ templates' # <<>> => phase' = "templates"
        /\ record' \in 1 .. LastRecord + 1
    <3>1. CASE templates' = templates /\ record' = record
      BY <1>1, <1>2, <3>1 DEF SelectionTypeOK
    <3>2. CASE \E a \in RecordAnswers :
                  /\ templates' = a.templates /\ Len(listed) + Len(a.templates) <= MaxListed
                  /\ phase' = "templates" /\ record' = record + 1 /\ record <= LastRecord
      <4>1. templates' \in Seq(Templates) /\ Len(listed') + Len(templates') <= MaxListed
        BY <1>1, <3>2, AnswerType
      <4>2. record' \in 1 .. LastRecord + 1
        BY <1>3, <3>2
      <4> QED
        BY <3>2, <4>1, <4>2
    <3>3. \/ templates' = templates /\ record' = record
          \/ \E a \in RecordAnswers :
                /\ templates' = a.templates /\ Len(listed) + Len(a.templates) <= MaxListed
                /\ phase' = "templates" /\ record' = record + 1 /\ record <= LastRecord
      BY DEF LastRecordRead, ReadRecord, NextRecord, Goto, directory
    <3> QED
      BY <3>1, <3>2, <3>3
  <2>3. result' \in {"none", "panic", "Err"} /\ (phase' = "ended" <=> result' # "none")
    BY <1>1 DEF SelectionTypeOK
  <2> QED
    BY <1>1, <2>1, <2>2, <2>3 DEF SelectionTypeOK
<1>5. ListInv'
  <2>1. Fresh' /\ Chosen' /\ OneTemplate'
    BY <1>1, <1>2 DEF Fresh, Chosen, OneTemplate
  <2> QED
    BY <1>1, <2>1, ListsSame
<1>6. HandOverInv'
  <2>1. result' \notin {"contact", "contactless"}
    BY <1>1 DEF SelectionTypeOK
  <2> QED
    BY <1>1, <2>1, NotHandedOver
<1> QED
  BY <1>4, <1>5, <1>6

LEMMA HeadOfTemplates ==
    ASSUME SelectionTypeOK, templates # <<>>
    PROVE  /\ Head(templates) \in Templates /\ Tail(templates) \in Seq(Templates)
           /\ Len(templates) \in Nat \ {0} /\ Len(Tail(templates)) = Len(templates) - 1
<1>1. templates \in Seq(Templates)
  BY DEF SelectionTypeOK
<1>2. Len(templates) \in Nat \ {0}
  BY <1>1, EmptySeq
<1> QED
  BY <1>1, <1>2, HeadTailProperties

LEMMA PassStep ==
    ASSUME SimulatorInv, PassPrimitive, UNCHANGED <<args, amount>>
    PROVE  SimulatorInv'
<1> USE DEF SimulatorInv
<1>1. /\ phase = "templates" /\ templates # <<>> /\ templates' = Tail(templates)
      /\ UNCHANGED <<phase, result, contactless, tags, record, listed, applications,
                     application>>
  BY DEF PassPrimitive
<1>2. SelectionTypeOK'
  <2>1. Len(listed) \in Nat /\ MaxListed \in Nat
    BY Bounds DEF ListInv
  <2>2. Len(listed) + Len(templates) <= MaxListed
    BY DEF SelectionTypeOK
  <2>3. Len(listed') = Len(listed) /\ Len(templates') = Len(templates) - 1
        /\ Len(templates) \in Nat
    BY <1>1, HeadOfTemplates
  <2>4. Len(listed') + Len(templates') <= MaxListed
    BY ONLY <2>1, <2>2, <2>3
  <2> QED
    BY <1>1, <2>4, HeadOfTemplates DEF SelectionTypeOK
<1>3. ListInv'
  <2>1. Fresh' /\ Chosen' /\ OneTemplate'
    BY <1>1 DEF ListInv, Fresh, Chosen, OneTemplate
  <2> QED
    BY <1>1, <2>1, ListsSame
<1>4. HandOverInv'
  <2>1. result' \notin {"contact", "contactless"}
    BY <1>1 DEF SelectionTypeOK
  <2> QED
    BY <1>1, <2>1, NotHandedOver
<1> QED
  BY <1>2, <1>3, <1>4

LEMMA TemplatesListedStep ==
    ASSUME SimulatorInv, TemplatesListed, UNCHANGED <<args, amount>>
    PROVE  SimulatorInv'
<1> USE DEF SimulatorInv
<1>1. /\ phase = "templates" /\ templates = <<>> /\ phase' \in {"listed", "records"}
      /\ contactless => phase' = "listed"
      /\ UNCHANGED <<result, contactless, tags, record, templates, listed, applications,
                     application>>
  BY DEF TemplatesListed, Goto, directory
<1>2. SelectionTypeOK'
  BY <1>1 DEF SelectionTypeOK
<1>3. ListInv'
  <2>1. Fresh' /\ Chosen' /\ OneTemplate'
    BY <1>1 DEF ListInv, Fresh, Chosen, OneTemplate
  <2> QED
    BY <1>1, <2>1, ListsSame
<1>4. HandOverInv'
  <2>1. result' \notin {"contact", "contactless"}
    BY <1>1 DEF SelectionTypeOK
  <2> QED
    BY <1>1, <2>1, NotHandedOver
<1> QED
  BY <1>2, <1>3, <1>4

(* The template that is looked into is told alone: it gives a candidate, or   *)
(* is passed over, or ends the program.                                       *)
LEMMA ListStep ==
    ASSUME SimulatorInv, ListTemplate, UNCHANGED <<args, amount>>
    PROVE  SimulatorInv'
<1> DEFINE T == Head(templates).tags
<1> USE DEF SimulatorInv
<1>1. /\ phase = "templates" /\ templates # <<>>
      /\ tags' = Merge(Cleared(tags), T)
      /\ templates' = IF contactless THEN <<>> ELSE Tail(templates)
      /\ listed' = Append(listed, T)
      /\ IF Holds(tags', "4F")
         THEN applications' = applications \o Candidates(tags') /\ UNCHANGED <<phase, result>>
         ELSE phase' = "ended" /\ result' = "panic" /\ UNCHANGED applications
      /\ UNCHANGED <<contactless, record, application>>
  BY DEF ListTemplate, Ends
<1>2. T \in Told /\ tags' = T
  BY <1>1, HeadOfTemplates, TemplateType, ReadAlone
<1>3. /\ listed \in Seq(Told) /\ applications \in Seq(Candidate) /\ contactless \in BOOLEAN
      /\ Matches(applications, listed) /\ application = NoApplication
      /\ contactless => listed = <<>> /\ applications = <<>>
  BY <1>1 DEF ListInv, Fresh, OneTemplate
<1> HIDE DEF T
<1>4. /\ Matches(applications', listed') /\ applications' \in Seq(Candidate)
      /\ applications = <<>> => Len(applications') <= 1
  <2>1. CASE Holds(T, "4F") /\ Usable(T)
    <3>1. PICK c \in Candidate : Candidates(T) = <<c>> /\ Describes(c, T)
      BY <1>2, <1>3, <2>1, CandidateOfTemplate
    <3>2. applications' = applications \o <<c>>
      BY <1>1, <1>2, <2>1, <3>1
    <3>3. applications' = Append(applications, c)
      BY <1>3, <3>2
    <3>4. Len(applications') = Len(applications) + 1 /\ applications' \in Seq(Candidate)
      BY <1>3, <3>3
    <3>5. applications = <<>> => Len(applications) = 0
      BY Nothing
    <3>6. applications = <<>> => Len(applications') <= 1
      BY ONLY <3>4, <3>5
    <3>7. Matches(applications', listed')
      BY <1>1, <1>2, <1>3, <2>1, <3>1, <3>3, MatchesUsable
    <3> QED
      BY <3>4, <3>6, <3>7
  <2>2. CASE ~Usable(T)
    <3>1. Holds(T, "4F") => Candidates(T) = <<>>
      BY <1>2, <1>3, <2>2, CandidateOfTemplate
    <3>2. applications' = applications
      BY <1>1, <1>2, <1>3, <3>1
    <3>3. Matches(applications', listed')
      BY <1>1, <1>2, <1>3, <2>2, <3>2, MatchesUseless
    <3>4. applications = <<>> => Len(applications') = 0
      BY <3>2, Nothing
    <3>5. applications = <<>> => Len(applications') <= 1
      BY ONLY <3>4
    <3> QED
      BY <1>3, <3>2, <3>3, <3>5
  <2> QED
    BY <2>1, <2>2 DEF Usable
<1>5. ListInv'
  <2>1. Matches(applications, listed)'
    BY <1>1, <1>4 DEF Matches, Usable, Describes
  <2>2. listed' \in Seq(Told)
    BY <1>1, <1>2, <1>3
  <2>3. Fresh' /\ Chosen'
    BY <1>1, <1>3 DEF Fresh, Chosen
  <2>4. OneTemplate'
    BY <1>1, <1>3, <1>4 DEF OneTemplate
  <2> QED
    BY <1>1, <1>3, <1>4, <2>1, <2>2, <2>3, <2>4 DEF ListInv
<1>6. SelectionTypeOK'
  <2>1. templates' \in Seq(Templates) /\ Len(templates') <= Len(templates) - 1
    BY <1>1, HeadOfTemplates
  <2>2. Len(listed') = Len(listed) + 1 /\ Len(listed) \in Nat /\ Len(templates') \in Nat
    BY <1>1, <1>2, <1>3, <2>1
  <2>3. Len(listed) + Len(templates) <= MaxListed /\ MaxListed \in Nat
        /\ Len(templates) \in Nat
    BY <1>1, HeadOfTemplates, Bounds DEF SelectionTypeOK
  <2>4. Len(listed') + Len(templates') <= MaxListed
    BY ONLY <2>1, <2>2, <2>3
  <2>5. TagStore(tags')
    BY <1>1, MergeStore
  <2> QED
    BY <1>1, <2>1, <2>4, <2>5 DEF SelectionTypeOK
<1>7. HandOverInv'
  <2>1. result' \notin {"contact", "contactless"} /\ phase' \notin {"settings", "dispatch"}
    BY <1>1 DEF SelectionTypeOK
  <2> QED
    BY <1>1, <2>1, NotHandedOver
<1> QED
  BY <1>5, <1>6, <1>7

----------------------------------------------------------------------------
(* The application. *)

LEMMA CandidateIsOne ==
    ASSUME NEW c \in Candidate
    PROVE  c # NoApplication
<1>1. DOMAIN c = {"aid", "label", "priority"} /\ DOMAIN NoApplication = {"aid"}
  BY DEF Candidate, NoApplication
<1> QED
  BY <1>1

LEMMA ChooseStep ==
    ASSUME SimulatorInv, Choose, UNCHANGED <<args, amount>>
    PROVE  SimulatorInv'
<1> USE DEF SimulatorInv
<1>1. /\ phase = "listed" /\ phase' \in {"select", "ended"}
      /\ phase' = "ended" => result' \in {"panic", "Err"} /\ application' = application
      /\ phase' = "select" => result' = result
      /\ UNCHANGED <<contactless, tags, record, templates, listed, applications>>
  BY DEF Choose, Goto, Ends, directory
<1>2. phase' = "select" => \E i \in DOMAIN applications : application' = applications[i]
  <2>1. applications \in Seq(Candidate)
    BY DEF ListInv
  <2>2. applications # <<>> => 1 \in DOMAIN applications
    BY <2>1
  <2> QED
    BY <1>1, <2>2 DEF Choose, Ends
<1>3. phase' = "select" => application' # NoApplication
  <2>1. \A i \in DOMAIN applications : applications[i] \in Candidate
    BY DEF ListInv
  <2> QED
    BY <1>2, <2>1, CandidateIsOne
<1>4. SelectionTypeOK'
  BY <1>1 DEF SelectionTypeOK
<1>5. ListInv'
  <2>1. application = NoApplication
    BY <1>1 DEF ListInv, Fresh
  <2>2. Fresh' /\ Chosen'
    BY <1>1, <1>2, <1>3, <2>1 DEF Fresh, Chosen
  <2>3. OneTemplate'
    BY <1>1 DEF ListInv, OneTemplate
  <2> QED
    BY <1>1, <2>2, <2>3, ListsSame
<1>6. HandOverInv'
  <2>1. result' \notin {"contact", "contactless"}
    BY <1>1 DEF SelectionTypeOK
  <2> QED
    BY <1>1, <2>1, NotHandedOver
<1> QED
  BY <1>4, <1>5, <1>6

(* Nothing of the directory is left in the tag store.                         *)
LEMMA SelectStep ==
    ASSUME SimulatorInv, NEW a \in SelectAnswers, SelectApplication(a),
           UNCHANGED <<args, amount>>
    PROVE  SimulatorInv'
<1> USE DEF SimulatorInv
<1>1. /\ phase = "select" /\ phase' \in {"settings", "ended"}
      /\ phase' = "ended" => result' \in {"panic", "Err"}
      /\ phase' = "settings" =>
            result' = result /\ tags' = Merge(Cleared(tags), a.tags) /\ fci' = a.tags
      /\ tags' = tags \/ tags' = Merge(Cleared(tags), a.tags)
      /\ UNCHANGED <<contactless, record, templates, listed, applications, application>>
  BY DEF SelectApplication, Goto, Ends, directory
<1>2. TagStore(a.tags)
  BY SelectionAssumption
<1>3. SelectionTypeOK'
  BY <1>1, MergeStore DEF SelectionTypeOK
<1>4. ListInv'
  <2>1. Fresh' /\ Chosen' /\ OneTemplate'
    BY <1>1 DEF ListInv, Fresh, Chosen, OneTemplate
  <2> QED
    BY <1>1, <2>1, ListsSame
<1>5. HandOverInv'
  <2>1. phase' = "settings" => tags' = a.tags /\ fci' = a.tags
    BY <1>1, <1>2, ReadAlone
  <2>2. result' \notin {"contact", "contactless"} /\ phase' # "dispatch"
    BY <1>1 DEF SelectionTypeOK
  <2>3. amount' \in Seq(Digits)
    BY <1>1 DEF HandOverInv
  <2> QED
    BY <1>1, <1>2, <2>1, <2>2, <2>3 DEF HandOverInv
<1> QED
  BY <1>3, <1>4, <1>5

----------------------------------------------------------------------------
(* The terminal's tags and the amount. *)

(* The settings override the card's tags; what the terminal generates does    *)
(* not.                                                                       *)
LEMMA SettingsTags ==
    ASSUME NEW store, NEW value
    PROVE  LET set == add_tag(process_settings(store), "9F02", value)
           IN  /\ DOMAIN set = DOMAIN store \cup TerminalTags
               /\ set["9F02"] = value
               /\ \A t \in DOMAIN store \ (DOMAIN DefaultTags \cup {"9F02"}) :
                     set[t] = store[t]
<1> DEFINE merged == Merge(store, DefaultTags)
           all == Merge(Generated, merged)
           set == Merge(all, [t \in {"9F02"} |-> value])
<1>1. /\ DOMAIN merged = DOMAIN store \cup DOMAIN DefaultTags
      /\ \A t \in DOMAIN store \ DOMAIN DefaultTags : merged[t] = store[t]
  BY DEF Merge
<1>2. add_tag(process_settings(store), "9F02", value) = set
  BY DEF add_tag, process_settings
<1> HIDE DEF merged
<1>3. /\ DOMAIN all = DOMAIN Generated \cup DOMAIN merged
      /\ \A t \in DOMAIN merged : all[t] = merged[t]
  BY DEF Merge
<1> HIDE DEF all
<1>4. /\ DOMAIN set = DOMAIN all \cup {"9F02"}
      /\ set["9F02"] = value
      /\ \A t \in DOMAIN all \ {"9F02"} : set[t] = all[t]
  BY DEF Merge
<1> HIDE DEF set
<1>5. DOMAIN set = DOMAIN store \cup TerminalTags
  BY <1>1, <1>3, <1>4 DEF TerminalTags
<1>6. \A t \in DOMAIN store \ (DOMAIN DefaultTags \cup {"9F02"}) : set[t] = store[t]
  BY <1>1, <1>3, <1>4
<1> QED
  BY <1>2, <1>4, <1>5, <1>6

(* An amount that is not refused is read back from its six bytes.             *)
LEMMA AmountRead ==
    ASSUME NEW digits \in Seq(Digits), ascii_to_bcd_n(digits, 6) # Panics
    PROVE  LET read == bcd_to_ascii(ascii_to_bcd_n(digits, 6))
           IN  /\ Len(read) = 12
               /\ SubSeq(read, 13 - Len(digits), 12) = digits
               /\ \A i \in 1 .. 12 - Len(digits) : read[i] = 0
<1> DEFINE m == 12 - Len(digits)
           zeros == Fill(m, 0)
<1>1. Len(digits) <= 12
  BY DEF ascii_to_bcd_n, Convertible
<1>2. m \in Nat /\ Len(digits) \in Nat /\ m + Len(digits) = 12 /\ 13 - Len(digits) = m + 1
  BY <1>1
<1>3. bcd_to_ascii(ascii_to_bcd_n(digits, 6)) = zeros \o digits
  BY <1>1, AmountKept
<1> HIDE DEF m
<1>4. zeros \in Seq(Digits) /\ Len(zeros) = m /\ \A i \in 1 .. m : zeros[i] = 0
  <2>1. 0 \in Digits
    BY DEF Digits
  <2> QED
    BY <1>2, <2>1, FillType DEF Fill
<1> HIDE DEF zeros
<1>5. /\ Len(zeros \o digits) = 12
      /\ \A i \in 1 .. m : (zeros \o digits)[i] = 0
      /\ \A i \in 1 .. Len(digits) : (zeros \o digits)[m + i] = digits[i]
  BY <1>2, <1>4
<1>6. SubSeq(zeros \o digits, m + 1, 12) = digits
  BY <1>2, <1>4, <1>5
<1> QED
  BY <1>2, <1>3, <1>5, <1>6 DEF m

LEMMA SettingsStep ==
    ASSUME SimulatorInv, ProcessSettings
    PROVE  SimulatorInv'
<1> DEFINE tag_9f02 == ascii_to_bcd_n(amount, 6)
           set == add_tag(process_settings(tags), "9F02", tag_9f02)
<1> USE DEF SimulatorInv
<1>1. /\ phase = "settings"
      /\ IF tag_9f02 = Panics
         THEN tags' = process_settings(tags) /\ phase' = "ended" /\ result' = "panic"
         ELSE tags' = set /\ phase' = "dispatch" /\ result' = result
      /\ UNCHANGED <<contactless, record, templates, listed, applications, application,
                     fci, amount>>
  BY DEF ProcessSettings, Goto, Ends, directory
<1>2. /\ amount \in Seq(Digits) /\ DOMAIN tags = DOMAIN fci
      /\ \A t \in DOMAIN fci : tags[t] = fci[t]
      /\ application # NoApplication
  BY <1>1 DEF HandOverInv, ListInv, Fresh
<1>3. SelectionTypeOK'
  <2>1. TagStore(process_settings(tags)) /\ TagStore(set)
    BY MergeStore DEF process_settings, add_tag
  <2> HIDE DEF set, tag_9f02
  <2> QED
    BY <1>1, <2>1 DEF SelectionTypeOK
<1>4. ListInv'
  <2> HIDE DEF set, tag_9f02
  <2>1. Fresh' /\ Chosen' /\ OneTemplate'
    BY <1>1 DEF ListInv, Fresh, Chosen, OneTemplate
  <2> QED
    BY <1>1, <2>1, ListsSame
<1>5. HandOverInv'
  <2>1. CASE tag_9f02 = Panics
    BY <1>1, <2>1 DEF HandOverInv
  <2>2. CASE tag_9f02 # Panics
    <3>1. /\ DOMAIN set = DOMAIN tags \cup TerminalTags
          /\ set["9F02"] = tag_9f02
          /\ \A t \in DOMAIN tags \ (DOMAIN DefaultTags \cup {"9F02"}) : set[t] = tags[t]
      BY SettingsTags
    <3>2. LET read == bcd_to_ascii(tag_9f02)
          IN  /\ Len(read) = 12
              /\ SubSeq(read, 13 - Len(amount), 12) = amount
              /\ \A i \in 1 .. 12 - Len(amount) : read[i] = 0
      BY <1>2, <2>2, AmountRead
    <3> HIDE DEF set, tag_9f02
    <3>3. tags' = set /\ phase' = "dispatch" /\ result' = result
      BY <1>1, <2>2
    <3>4. DOMAIN tags' = DOMAIN fci' \cup TerminalTags
      BY <1>1, <1>2, <3>1, <3>3
    <3>5. \A t \in DOMAIN fci' \ (DOMAIN DefaultTags \cup {"9F02"}) : tags'[t] = fci'[t]
      BY <1>1, <1>2, <3>1, <3>3
    <3>6. tags'["9F02"] = tag_9f02
      BY <3>1, <3>3
    <3>7. Prepared'
      BY <1>1, <1>2, <3>2, <3>4, <3>5, <3>6 DEF Prepared
    <3> QED
      BY <1>1, <1>2, <3>3, <3>7 DEF HandOverInv
  <2> QED
    BY <2>1, <2>2
<1> QED
  BY <1>3, <1>4, <1>5

LEMMA DispatchStep ==
    ASSUME SimulatorInv, Dispatch
    PROVE  SimulatorInv'
<1> USE DEF SimulatorInv
<1>1. /\ phase = "dispatch" /\ phase' = "ended" /\ result' \in {"contactless", "contact"}
      /\ UNCHANGED <<contactless, tags, record, templates, listed, applications,
                     application, fci, amount>>
  BY DEF Dispatch, Ends, directory
<1>2. SelectionTypeOK'
  BY <1>1 DEF SelectionTypeOK
<1>3. ListInv'
  <2>1. Fresh' /\ Chosen' /\ OneTemplate'
    BY <1>1 DEF ListInv, Fresh, Chosen, OneTemplate
  <2> QED
    BY <1>1, <2>1, ListsSame
<1>4. HandOverInv'
  <2>1. Prepared
    BY <1>1 DEF HandOverInv
  <2>2. Prepared'
    BY <1>1, <2>1 DEF Prepared
  <2> QED
    BY <1>1, <2>2 DEF HandOverInv
<1> QED
  BY <1>2, <1>3, <1>4

LEMMA NoStep ==
    ASSUME SimulatorInv, UNCHANGED simulator
    PROVE  SimulatorInv'
<1> USE DEF SimulatorInv
<1>1. /\ UNCHANGED <<phase, result, contactless, tags, record, templates, listed>>
      /\ UNCHANGED <<applications, application, fci, amount>>
  BY DEF simulator, selection, directory
<1>2. SelectionTypeOK'
  BY <1>1 DEF SelectionTypeOK
<1>3. ListInv'
  <2>1. Fresh' /\ Chosen' /\ OneTemplate'
    BY <1>1 DEF ListInv, Fresh, Chosen, OneTemplate
  <2> QED
    BY <1>1, <2>1, ListsSame
<1>4. HandOverInv'
  BY <1>1 DEF HandOverInv, Prepared
<1> QED
  BY <1>2, <1>3, <1>4

LEMMA StepSimulator == SimulatorInv /\ [Next]_simulator => SimulatorInv'
<1> SUFFICES ASSUME SimulatorInv, [Next]_simulator PROVE SimulatorInv'
  OBVIOUS
<1>1. ASSUME NEW entry \in Entries \cup {<< 1 >>}, AmountEntry(entry) PROVE SimulatorInv'
  BY <1>1, AmountStep
<1>2. CASE ReaderFails \/ CardNotFound
           \/ \E reader \in [contactless : BOOLEAN] : CardFound(reader)
  BY <1>2, ConnectStep
<1>3. CASE SelectPaymentApplication /\ UNCHANGED <<args, amount>>
  <2>1. CASE \E a \in PseAnswers : SelectPse(a)
    BY <1>3, <2>1, PseStep
  <2>2. CASE LastRecordRead \/ \E a \in RecordAnswers : ReadRecord(a)
    BY <1>3, <2>2, RecordStep
  <2>3. CASE PassPrimitive
    BY <1>3, <2>3, PassStep
  <2>4. CASE ListTemplate
    BY <1>3, <2>4, ListStep
  <2>5. CASE TemplatesListed
    BY <1>3, <2>5, TemplatesListedStep
  <2>6. CASE Choose
    BY <1>3, <2>6, ChooseStep
  <2>7. CASE \E a \in SelectAnswers : SelectApplication(a)
    BY <1>3, <2>7, SelectStep
  <2> QED
    BY <1>3, <2>1, <2>2, <2>3, <2>4, <2>5, <2>6, <2>7 DEF SelectPaymentApplication
<1>4. CASE ProcessSettings
  BY <1>4, SettingsStep
<1>5. CASE Dispatch
  BY <1>5, DispatchStep
<1>6. CASE UNCHANGED simulator
  BY <1>6, NoStep
<1> QED
  BY <1>1, <1>2, <1>3, <1>4, <1>5, <1>6 DEF Next, Run, Waiting, Terminated

----------------------------------------------------------------------------
(* The invariant holds of every run of the simulator. *)
LEMMA SimulatorRuns == Spec => []SimulatorInv
<1>1. Init => SimulatorInv
  BY InitSimulator
<1>2. SimulatorInv /\ [Next]_simulator => SimulatorInv'
  BY StepSimulator
<1> QED
  BY <1>1, <1>2, PTL DEF Spec

(* The simulator's phases, results and lists keep to their types, and only a  *)
(* run that has ended has a result, for every directory and every card.       *)
THEOREM SelectionTypes == Spec => []SelectionTypeOK
<1>1. SimulatorInv => SelectionTypeOK
  BY DEF SimulatorInv
<1> QED
  BY <1>1, SimulatorRuns, PTL

(* The candidates of select_payment_application are the usable templates of   *)
(* the directory, each with its own data, in the card's order; a contactless  *)
(* card offers one at most; what is chosen is a candidate.                    *)
THEOREM CandidatesAreTheCards == Spec => []CandidatesAreListed
<1>1. SimulatorInv => CandidatesAreListed
  <2> SUFFICES ASSUME SimulatorInv PROVE CandidatesAreListed
    OBVIOUS
  <2>1. Matches(applications, listed) /\ OneTemplate /\ Chosen
    BY DEF SimulatorInv, ListInv
  <2> QED
    BY <2>1 DEF CandidatesAreListed, Matches, OneTemplate, Chosen
<1> QED
  BY <1>1, SimulatorRuns, PTL

(* Whatever was read before it, a transaction begins with the tags of the     *)
(* application chosen and the terminal's, and with the amount asked for.      *)
THEOREM HandOverHolds == Spec => []HandOver
<1>1. SimulatorInv => HandOver
  BY DEF SimulatorInv, HandOverInv, Prepared, HandOver
<1> QED
  BY <1>1, SimulatorRuns, PTL
=============================================================================
