-------------------------- MODULE TerminalSimulator --------------------------
(* The terminal simulator (main.rs): it asks for the amount, waits for a card, *)
(* has a payment application selected, sets the terminal's tags, and hands    *)
(* the transaction to the contactless kernels or to the contact flow.  What   *)
(* these do with it are the modules Kernel2 and ContactTransaction.           *)
EXTENDS ApplicationSelection, Conversions

CONSTANTS
    Entries,         \* what is typed for an amount, in characters
    DefaultTags      \* the tags of the settings file

ASSUME SimulatorAssumption ==
    TagStore(DefaultTags) /\ Entries \subseteq Seq(Nat) \ {<<>>}

VARIABLES
    args,     \* [stop_after_connect, force_contactless], of the command line, and
              \* [kernels]: the settings have contactless kernels
    amount    \* the amount in characters, or <<>>

simulator == <<selection, args, amount>>

Init ==
    /\ SelectionInit
    /\ phase = "amount" /\ contactless = FALSE /\ amount = <<>>
    /\ interactive \in BOOLEAN
    /\ args \in [stop_after_connect : BOOLEAN, force_contactless : BOOLEAN,
                 kernels : BOOLEAN]

(* 1 if nobody is asked; no entry that is not a number.                       *)
AmountEntry(entry) ==
    /\ phase = "amount"
    /\ entry = <<1>> \/ interactive
    /\ amount' = entry
    /\ IF \A i \in DOMAIN entry : entry[i] \in Digits THEN Goto("connect") ELSE Ends("panic")
    /\ UNCHANGED <<interactive, contactless, tags, directory, application, fci, args>>

----------------------------------------------------------------------------
(* connect_to_card, called until it finds a card if there is someone to       *)
(* insert one.                                                                *)

ReaderFails ==
    /\ phase = "connect" /\ Ends("Could not connect to the reader")
    /\ UNCHANGED <<interactive, contactless, tags, directory, application, fci,
                   args, amount>>

CardNotFound ==
    /\ phase = "connect" /\ ~interactive /\ Ends("Card not found.")
    /\ UNCHANGED <<interactive, contactless, tags, directory, application, fci,
                   args, amount>>

(* The first reader with a card, which is contactless by its name.  The card  *)
(* may be gone when its status is asked for, which is unwrapped.              *)
CardFound(reader) ==
    /\ phase = "connect"
    /\ \/ Ends("panic") /\ UNCHANGED contactless
       \/ args.stop_after_connect /\ Ends("stopped") /\ UNCHANGED contactless
       \/ /\ ~args.stop_after_connect /\ Goto("pse")
          /\ contactless' = (reader.contactless \/ args.force_contactless)
    /\ UNCHANGED <<interactive, tags, directory, application, fci, args, amount>>

----------------------------------------------------------------------------
(* process_settings, and the amount.                                          *)

(* The terminal's values for tags that nobody else has set: date, time,       *)
(* unpredictable number, authorisation response code, TTQ, form factor.       *)
Generated ==
    [t \in {"9A", "9F21", "9F37", "8A", "9F66", "9F6E"} |-> {"terminal"}]

(* Mutant: a generated value overrides the card's. *)
process_settings_override(store) == Merge(Merge(store, DefaultTags), Generated)

process_settings(store) == Merge(Generated, Merge(store, DefaultTags))

ProcessSettings ==
    /\ phase = "settings"
    /\ LET tag_9f02 == ascii_to_bcd_n(amount, 6)
       IN  IF tag_9f02 = Panics
           THEN tags' = process_settings(tags) /\ Ends("panic")
           ELSE /\ tags' = add_tag(process_settings(tags), "9F02", tag_9f02)
                /\ Goto("dispatch")
    /\ UNCHANGED <<interactive, contactless, directory, application, fci, args, amount>>

Dispatch ==
    /\ phase = "dispatch"
    /\ Ends(IF contactless /\ args.kernels THEN "contactless" ELSE "contact")
    /\ UNCHANGED <<interactive, contactless, tags, directory, application, fci,
                   args, amount>>

----------------------------------------------------------------------------
Run ==
    \/ SelectPaymentApplication /\ UNCHANGED <<args, amount>>
    \/ ProcessSettings
    \/ Dispatch

(* The program ends, and nobody inserts a card into the reader.               *)
Terminated == phase = "ended" /\ UNCHANGED simulator
Waiting == phase = "connect" /\ interactive /\ UNCHANGED simulator

Next ==
    \/ \E entry \in Entries \cup {<<1>>} : AmountEntry(entry)
    \/ ReaderFails
    \/ CardNotFound
    \/ \E reader \in [contactless : BOOLEAN] : CardFound(reader)
    \/ Run
    \/ Waiting
    \/ Terminated

(* Fairness: with a card in the reader the program goes on, and a cardholder  *)
(* who is asked to choose answers.  Nobody needs to insert a card.            *)
Spec == Init /\ [][Next]_simulator /\ WF_simulator(Run)

----------------------------------------------------------------------------
SelectionTypeOK ==
    /\ phase \in {"amount", "connect", "pse", "records", "templates", "listed",
                  "select", "settings", "dispatch", "ended"}
    /\ result \in {"none", "panic", "Err", "Could not connect to the reader",
                   "Card not found.", "stopped", "contact", "contactless"}
    /\ phase = "ended" <=> result # "none"
    /\ record \in 1 .. LastRecord + 1
    /\ templates \in Seq(Templates) /\ Len(listed) + Len(templates) <= MaxListed
    /\ templates # <<>> => phase \in {"templates", "ended"}
    /\ TagStore(tags)

TerminalTags == DOMAIN DefaultTags \cup DOMAIN Generated \cup {"9F02"}

(* The tag store a transaction begins with: every tag is the terminal's or    *)
(* stems from the answer to the SELECT of the application chosen, which keeps *)
(* its own value of a tag the terminal would generate; nothing of the         *)
(* directory is left.  The amount the card will read is the amount asked for. *)
HandOver ==
    result \in {"contact", "contactless"} =>
        /\ application # NoApplication
        /\ DOMAIN tags = DOMAIN fci \cup TerminalTags
        /\ \A t \in DOMAIN fci \ (DOMAIN DefaultTags \cup {"9F02"}) : tags[t] = fci[t]
        /\ LET digits == bcd_to_ascii(tags["9F02"])
           IN  /\ Len(digits) = 12
               /\ SubSeq(digits, 13 - Len(amount), 12) = amount
               /\ \A i \in 1 .. 12 - Len(amount) : digits[i] = 0

(* With a card in the reader the program comes to an end or to a transaction, *)
(* however the card's directory goes on.                                      *)
SelectionEnds == phase = "pse" ~> phase = "ended"
=============================================================================
