----------------------------- MODULE MCSimulator -----------------------------
(* TerminalSimulator on small directories: applications with and without a    *)
(* label, a priority and an AID, in one record or several, and templates that *)
(* are none; a card that answers every READ RECORD; amounts around 12 digits. *)
EXTENDS TerminalSimulator, TLC

Template(t) == [constructed |-> TRUE, tags |-> t]
Primitive == [constructed |-> FALSE, tags |-> NoTags]
Directory(t, seq) == [ok |-> TRUE, body |-> "template", tags |-> t, templates |-> seq]
Other(ok, body) == [ok |-> ok, body |-> body, tags |-> NoTags, templates |-> <<>>]

First == Template("4F" :> {"A"} @@ "50" :> {"a"} @@ "87" :> {"1"})
Second == Template("4F" :> {"B"} @@ "87" :> {"2"})
NoPriority == Template("4F" :> {"C"} @@ "50" :> {"c"})
NoAid == Template("50" :> {"d"} @@ "87" :> {"1"})

Sfi(value) == "88" :> value

MCPseAnswers ==
    {Directory(Sfi({"one byte"}), <<>>), Directory(Sfi({}), <<>>),
     Directory(NoTags, <<Primitive, Second, First>>), Directory(NoTags, <<NoPriority>>),
     Directory(NoTags, <<NoAid>>), Other(TRUE, "other"), Other(FALSE, "none"),
     Other(FALSE, "lost")}

MCRecordAnswers ==
    {Directory(NoTags, seq) :
        seq \in {<<>>, <<First>>, <<First, Second>>, <<First, NoPriority>>,
                 <<Primitive, Second>>, <<NoAid>>}}
    \cup {Other(TRUE, "other"), Other(TRUE, "short"), Other(TRUE, "none"),
          Other(FALSE, "none"), Other(FALSE, "lost")}

MCSelectAnswers ==
    {[ok |-> TRUE, body |-> "template", tags |-> t] :
        t \in {NoTags, "9F38" :> {"9F02"}, "50" :> {"a"} @@ "9F37" :> {"card"}}}
    \cup {[ok |-> FALSE, body |-> body, tags |-> NoTags] : body \in {"none", "lost"}}

MCDefaultTags == "9F1A" :> {"0246"}

MCEntries ==
    {<<5, 0>>, <<9, 9, 9, 9, 9, 9, 9, 9, 9, 9, 9, 9>>,
     <<1, 2, 3, 4, 5, 6, 7, 8, 9, 0, 1, 2, 3>>, <<1, 10>>}
=============================================================================
