----------------------- MODULE PaymentOutcome_proofs -----------------------
(* The verdict of the abstract payment is borne out by its cryptogram.        *)
EXTENDS PaymentOutcome, TLAPS

(* What each stage knows, and what a verdict rests on.                        *)
Consistent ==
    /\ stage \in {"open", "asked", "answered", "closed"}
    /\ stage = "open" => asked = "none" /\ cryptogram = "none"
    /\ stage = "asked" => asked \in Cryptogram /\ cryptogram = "none"
    /\ stage = "answered" =>
          /\ asked \in Cryptogram /\ cryptogram \in Cryptogram
          /\ CardsObey => Rank[cryptogram] <= Rank[asked]
    /\ stage # "closed" => verdict = "none"
    /\ VerdictBorneOut

LEMMA ConsistentInit ==
    ASSUME Init
    PROVE  Consistent
BY DEF Init, Consistent, VerdictBorneOut

(* Below a TC no request is a TC; below an ARQC none is an AAC.               *)
LEMMA RankOrder ==
    ASSUME NEW a \in Cryptogram
    PROVE  /\ Rank["TC"] <= Rank[a] => a = "TC"
           /\ Rank["ARQC"] <= Rank[a] => a # "AAC"
BY DEF Rank, Cryptogram

LEMMA ConsistentStep ==
    ASSUME Consistent, [Next]_vars
    PROVE  Consistent'
<1> USE DEF Consistent, VerdictBorneOut
<1>1. ASSUME NEW c \in Cryptogram, Ask(c) \/ Answer(c)
      PROVE  Consistent'
  BY <1>1 DEF Ask, Answer
<1>2. ASSUME NEW v \in Verdict, Conclude(v)
      PROVE  Consistent'
  BY <1>2, RankOrder DEF Conclude, BorneOutBy, Cryptogram
<1>3. ASSUME NEW c \in Cryptogram, NEW v \in Verdict, Unasked(c, v)
      PROVE  Consistent'
  BY <1>3 DEF Unasked, BorneOutBy, Cryptogram
<1>4. ASSUME NEW v \in {"other interface", "failed", "crashed"}, GiveUp(v)
      PROVE  Consistent'
  BY <1>4 DEF GiveUp
<1>5. CASE Reopen
  BY <1>5 DEF Reopen, Init
<1>6. CASE UNCHANGED vars
  BY <1>6 DEF vars
<1> QED
  BY <1>1, <1>2, <1>3, <1>4, <1>5, <1>6 DEF Next, Progress

(* Every approval is of a TC and every online request of an ARQC; of obedient *)
(* cards, of a cryptogram that was asked for.                                 *)
THEOREM VerdictHolds == Init /\ [][Next]_vars => []VerdictBorneOut
<1>1. Init => Consistent
  BY ConsistentInit
<1>2. Consistent /\ [Next]_vars => Consistent'
  BY ConsistentStep
<1>3. Consistent => VerdictBorneOut
  BY DEF Consistent
<1> QED
  BY <1>1, <1>2, <1>3, PTL
=============================================================================
