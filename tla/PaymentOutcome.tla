--------------------------- MODULE PaymentOutcome ---------------------------
(* What a payment terminal's transaction promises, whatever its phases: it    *)
(* asks the card for at most one cryptogram, gets at most one, reaches one    *)
(* verdict that the cryptogram bears out, and keeps it.                       *)
(*                                                                          *)
(* A terminal may end at any point without a verdict on the payment (failed,  *)
(* or crashed), or send the cardholder to another interface.                  *)
EXTENDS Naturals

CONSTANT CardsObey    \* cards answer no higher than they are asked

VARIABLES
    stage,       \* "open", "asked", "answered" or "closed"
    asked,       \* the cryptogram the terminal asked for
    cryptogram,  \* the cryptogram the card gave
    verdict      \* what the transaction came to

vars == <<stage, asked, cryptogram, verdict>>

Cryptogram == {"AAC", "ARQC", "TC"}
Rank == [c \in Cryptogram |-> CASE c = "AAC" -> 0 [] c = "ARQC" -> 1 [] c = "TC" -> 2]

Verdict == {"none", "approved", "online", "declined", "other interface",
            "failed", "crashed"}

(* The verdicts a cryptogram allows.  A TC may still be declined, when the    *)
(* terminal does not believe it.                                              *)
BorneOutBy(c) == CASE c = "TC" -> {"approved", "declined"}
                   [] c = "ARQC" -> {"online"}
                   [] c = "AAC" -> {"declined"}

Init == stage = "open" /\ asked = "none" /\ cryptogram = "none" /\ verdict = "none"

Ask(c) ==
    /\ stage = "open"
    /\ stage' = "asked" /\ asked' = c
    /\ UNCHANGED <<cryptogram, verdict>>

Answer(c) ==
    /\ stage = "asked"
    /\ CardsObey => Rank[c] <= Rank[asked]
    /\ stage' = "answered" /\ cryptogram' = c
    /\ UNCHANGED <<asked, verdict>>

Conclude(v) ==
    /\ stage = "answered" /\ v \in BorneOutBy(cryptogram)
    /\ stage' = "closed" /\ verdict' = v
    /\ UNCHANGED <<asked, cryptogram>>

(* A card that gives its cryptogram before it is asked for one.               *)
Unasked(c, v) ==
    /\ stage = "open" /\ v \in BorneOutBy(c)
    /\ stage' = "closed" /\ cryptogram' = c /\ verdict' = v
    /\ UNCHANGED asked

GiveUp(v) ==
    /\ stage # "closed"
    /\ v = "other interface" => stage = "open"
    /\ stage' = "closed" /\ verdict' = v
    /\ UNCHANGED <<asked, cryptogram>>

(* The next transaction; a terminal that crashed has none.                    *)
Reopen == stage = "closed" /\ verdict # "crashed" /\ Init'

Progress ==
    \/ \E c \in Cryptogram : Ask(c) \/ Answer(c)
    \/ \E v \in Verdict : Conclude(v)
    \/ \E c \in Cryptogram, v \in Verdict : Unasked(c, v)
    \/ \E v \in {"other interface", "failed", "crashed"} : GiveUp(v)

Next == Progress \/ Reopen

Spec == Init /\ [][Next]_vars /\ WF_vars(Progress)

----------------------------------------------------------------------------
(* Every approval is of a TC, every online request of an ARQC; with obedient  *)
(* cards, a terminal that did not ask for a TC approves nothing offline.      *)
VerdictBorneOut ==
    /\ verdict = "approved" => cryptogram = "TC" /\ (CardsObey => asked \in {"none", "TC"})
    /\ verdict = "online" => cryptogram = "ARQC" /\ (CardsObey => asked # "AAC")
=============================================================================
