------------------------ MODULE ApplicationSelection ------------------------
(* select_payment_application (lib.rs:2127-2303): the terminal asks the card   *)
(* for its directory of applications, lists those it can use, has one chosen, *)
(* and selects it.                                                           *)
(*                                                                           *)
(* A contact card's directory is a file of records, each with templates of    *)
(* applications; a contactless card gives its templates with the answer to    *)
(* the first SELECT.  Both loops read a template through the tag store.       *)
EXTENDS EmvData

CONSTANTS
    PseAnswers,      \* answers to the SELECT of the directory, [ok, body, tags,
                     \*   templates]; body "template" has the tag BF0C
    RecordAnswers,   \* answers to a READ RECORD of the directory, the same
    SelectAnswers,   \* answers to the SELECT of an application, [ok, body, tags]
    LastRecord,      \* the last record asked for, 254 in the code
    MaxListed        \* bound on the templates of a directory

(* A template of the directory: [constructed, tags].  A primitive one is not  *)
(* looked into.                                                               *)
Templates ==
    UNION {{a.templates[i] : i \in DOMAIN a.templates} :
              a \in PseAnswers \cup RecordAnswers}

(* "short": the data do not parse.                                            *)
DirectoryAnswer(a) ==
    /\ a = [ok |-> a.ok, body |-> a.body, tags |-> a.tags, templates |-> a.templates]
    /\ a.ok \in BOOLEAN /\ a.body \in {"lost", "none", "other", "short", "template"}
    /\ TagStore(a.tags)
    /\ a.templates \in Seq(Templates) /\ Len(a.templates) <= MaxListed

ASSUME SelectionAssumption ==
    /\ LastRecord \in 1 .. 254 /\ MaxListed \in Nat \ {0}
    /\ \A a \in PseAnswers \cup RecordAnswers : DirectoryAnswer(a)
    /\ \A t \in Templates : t.constructed \in BOOLEAN /\ TagStore(t.tags)
    /\ \A a \in SelectAnswers : a.body \in {"lost", "none", "template"} /\ TagStore(a.tags)

VARIABLES
    phase, result,
    interactive,    \* the cardholder is asked to choose
    contactless,
    tags,
    record,         \* the record of the directory that is read next
    templates,      \* the templates of an answer that are left to look into
    listed,         \* every template that was looked into
    applications,   \* the candidates: [aid, label, priority]
    application,    \* the one chosen, or NoApplication
    fci             \* the tags of the answer to its SELECT

directory == <<record, templates, listed, applications>>
selection == <<phase, result, interactive, contactless, tags, directory, application, fci>>

NoApplication == [aid |-> "none"]

SelectionInit ==
    /\ result = "none" /\ tags = NoTags
    /\ record = 1 /\ templates = <<>> /\ listed = <<>> /\ applications = <<>>
    /\ application = NoApplication /\ fci = NoTags

Ends(r) == phase' = "ended" /\ result' = r
Goto(p) == phase' = p /\ UNCHANGED result

----------------------------------------------------------------------------
(* Mutant: the tags are not cleared. *)
Kept(store) == store

(* self.tags.clear(): at a SELECT, and before each template.                  *)
Cleared(store) == NoTags

(* What process_tlv stores of an answer: its tags, and those of its templates,*)
(* of which the last one with a tag wins.                                     *)
Stored(store, a) ==
    LET with(t) == {i \in DOMAIN a.templates : t \in DOMAIN a.templates[i].tags}
        last(t) == CHOOSE i \in with(t) : \A j \in with(t) : j <= i
        own == Merge(store, a.tags)
        inner == UNION {DOMAIN a.templates[i].tags : i \in DOMAIN a.templates}
    IN  [t \in DOMAIN own \cup inner |->
            IF with(t) = {} THEN own[t] ELSE a.templates[last(t)].tags[t]]

SelectPse(a) ==
    /\ phase = "pse"
    /\ \/ a.body = "lost" /\ Ends("panic") /\ UNCHANGED <<tags, templates>>
       \/ /\ a.body # "lost" /\ tags' = Stored(Cleared(tags), a)
          /\ \/ ~a.ok /\ Ends("Err") /\ UNCHANGED templates
             \/ /\ a.ok /\ contactless /\ a.body # "template"
                /\ Ends("Err") /\ UNCHANGED templates
             \/ /\ a.ok /\ contactless /\ a.body = "template"
                /\ templates' = a.templates /\ Goto("templates")
             \/ /\ a.ok /\ ~contactless /\ UNCHANGED templates
                /\ IF "one byte" \in ValueOf(tags', "88")
                   THEN Goto("records") ELSE Ends("panic")
    /\ UNCHANGED <<interactive, contactless, record, listed, applications,
                   application, fci>>

(* Mutant: the first record again and again. *)
NextRecordSame(r) == r

(* Mutant: every other record. *)
NextRecordSkips(r) == r + 2

NextRecord(r) == r + 1

(* A record that cannot be read, or is empty, is the end of the directory.    *)
ReadRecord(a) ==
    /\ phase = "records" /\ record <= LastRecord
    /\ Len(listed) + Len(a.templates) <= MaxListed
    /\ \/ a.body = "lost" /\ Ends("panic") /\ UNCHANGED <<tags, templates, record>>
       \/ /\ a.body # "lost" /\ tags' = Stored(tags, a)
          /\ \/ /\ ~a.ok \/ a.body = "none"
                /\ Goto("listed") /\ UNCHANGED <<templates, record>>
             \/ /\ a.ok /\ a.body = "other"
                /\ Ends("Err") /\ UNCHANGED <<templates, record>>
             \/ /\ a.ok /\ a.body = "short"
                /\ Ends("panic") /\ UNCHANGED <<templates, record>>
             \/ /\ a.ok /\ a.body = "template"
                /\ templates' = a.templates /\ record' = NextRecord(record)
                /\ Goto("templates")
    /\ UNCHANGED <<interactive, contactless, listed, applications, application, fci>>

LastRecordRead ==
    /\ phase = "records" /\ record > LastRecord
    /\ Goto("listed")
    /\ UNCHANGED <<interactive, contactless, tags, directory, application, fci>>

(* A template without a priority is passed over on the contact interface; on  *)
(* the contactless one it gets the priority "01".                             *)
Candidates(store) ==
    IF ~Holds(store, "87") /\ ~contactless THEN <<>>
    ELSE << [aid |-> store["4F"],
             label |-> IF Holds(store, "50") THEN store["50"] ELSE {"UNKNOWN"},
             priority |-> IF Holds(store, "87") THEN store["87"] ELSE {"01"}] >>

PassPrimitive ==
    /\ phase = "templates" /\ templates # <<>> /\ ~Head(templates).constructed
    /\ templates' = Tail(templates)
    /\ UNCHANGED <<phase, result, interactive, contactless, tags, record, listed,
                   applications, application, fci>>

(* A contactless card has only its first template looked into.                *)
ListTemplate ==
    /\ phase = "templates" /\ templates # <<>> /\ Head(templates).constructed
    /\ tags' = Merge(Cleared(tags), Head(templates).tags)
    /\ templates' = IF contactless THEN <<>> ELSE Tail(templates)
    /\ listed' = Append(listed, Head(templates).tags)
    /\ IF Holds(tags', "4F")
       THEN applications' = applications \o Candidates(tags') /\ UNCHANGED <<phase, result>>
       ELSE Ends("panic") /\ UNCHANGED applications
    /\ UNCHANGED <<interactive, contactless, record, application, fci>>

TemplatesListed ==
    /\ phase = "templates" /\ templates = <<>>
    /\ Goto(IF contactless THEN "listed" ELSE "records")
    /\ UNCHANGED <<interactive, contactless, tags, directory, application, fci>>

----------------------------------------------------------------------------
(* The callback of the simulator: the cardholder's choice among several, else *)
(* the first.  What the cardholder types may be no number of the list.        *)
Choose ==
    /\ phase = "listed"
    /\ \/ applications = <<>> /\ Ends("Err") /\ UNCHANGED application
       \/ /\ interactive /\ Len(applications) > 1
          /\ \/ Ends("panic") /\ UNCHANGED application
             \/ \E i \in DOMAIN applications :
                   application' = applications[i] /\ Goto("select")
       \/ /\ applications # <<>> /\ (interactive => Len(applications) = 1)
          /\ application' = applications[1] /\ Goto("select")
    /\ UNCHANGED <<interactive, contactless, tags, directory, fci>>

SelectApplication(a) ==
    /\ phase = "select"
    /\ \/ a.body = "lost" /\ Ends("panic") /\ UNCHANGED <<tags, fci>>
       \/ /\ a.body # "lost"
          /\ tags' = Merge(Cleared(tags), a.tags) /\ fci' = a.tags
          /\ IF a.ok THEN Goto("settings") ELSE Ends("Err")
    /\ UNCHANGED <<interactive, contactless, directory, application>>

SelectPaymentApplication ==
    \/ \E a \in PseAnswers : SelectPse(a)
    \/ \E a \in RecordAnswers : ReadRecord(a)
    \/ LastRecordRead
    \/ PassPrimitive
    \/ ListTemplate
    \/ TemplatesListed
    \/ Choose
    \/ \E a \in SelectAnswers : SelectApplication(a)

----------------------------------------------------------------------------
(* Each candidate is one template of the directory, with the AID, the label   *)
(* and the priority of that template alone, although all templates go through *)
(* the same tag store; no template with an AID and a priority is left out;    *)
(* and the order is the card's.                                               *)
Describes(a, t) ==
    /\ Holds(t, "4F") /\ a.aid = t["4F"]
    /\ a.label = IF Holds(t, "50") THEN t["50"] ELSE {"UNKNOWN"}
    /\ IF Holds(t, "87") THEN a.priority = t["87"]
       ELSE contactless /\ a.priority = {"01"}

Usable(t) == Holds(t, "4F") /\ (contactless \/ Holds(t, "87"))

CandidatesAreListed ==
    /\ \E template \in [DOMAIN applications -> DOMAIN listed] :
          /\ \A i, j \in DOMAIN applications : i < j => template[i] < template[j]
          /\ {template[i] : i \in DOMAIN applications}
                = {k \in DOMAIN listed : Usable(listed[k])}
          /\ \A i \in DOMAIN applications :
                Describes(applications[i], listed[template[i]])
    /\ contactless => Len(applications) <= 1
    /\ application # NoApplication => \E i \in DOMAIN applications :
                                          application = applications[i]
=============================================================================
