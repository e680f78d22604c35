-------------------------- MODULE Kernel2Refinement --------------------------
(* The contactless kernel as an implementation of PaymentOutcome.             *)
EXTENDS Kernel2Safety

Stage == IF phase = "done" THEN "closed"
         ELSE IF card # "none" THEN "answered"
         ELSE IF requested # "none" THEN "asked"
         ELSE "open"

VerdictOf(res) ==
    CASE res.kind = "none" -> "none"
      [] res.kind = "error" -> "failed"
      [] res.kind = "panic" -> "crashed"
      [] res.kind = "outcome" /\ res.what = "Approved" -> "approved"
      [] res.kind = "outcome" /\ res.what = "OnlineRequest" -> "online"
      [] res.kind = "outcome" /\ res.what = "Declined" -> "declined"
      [] res.kind = "outcome" /\ res.what = "TryAnotherInterface"
            -> "other interface"

Payment == INSTANCE PaymentOutcome
           WITH stage <- Stage, asked <- requested, cryptogram <- card,
                verdict <- VerdictOf(result), CardsObey <- CardObeys

(* The kernel implements the abstract payment, its progress included: one     *)
(* request, one answer, one verdict that the answer bears out, kept until the *)
(* next transaction.                                                          *)
ImplementsPayment == Payment!Spec

(* An approval is of a TC and an online request of an ARQC; with obedient     *)
(* cards, of a cryptogram that the action analysis asked for.                 *)
VerdictIsBorneOut == Payment!VerdictBorneOut
=============================================================================
