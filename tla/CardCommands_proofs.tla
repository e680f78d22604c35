-------------------------- MODULE CardCommands_proofs --------------------------
(* For every command, every reply and every way a card may divide it and      *)
(* refuse lengths: every step of send_apdu's loop is a step of the atomic     *)
(* exchange or leaves it as it is.  (That the exchange also comes to an end   *)
(* is a liveness property, which TLC checks.)                                 *)
EXTENDS CardCommands, Conversions_proofs, WellFoundedInduction

(* The commands that are transmitted.                                         *)
Sendable ==
    [ins : {c.ins : c \in Commands} \cup {"GET RESPONSE"},
     p : {c.p : c \in Commands} \cup {<<0, 0>>},
     body : Seq(Nat), le : BOOLEAN]

Sound ==
    /\ obeys \in BOOLEAN
    /\ response_data \in Seq(Nat) /\ pending \in Seq(Nat)
    /\ performed \in Seq(Sendable)
    /\ apdu # NoCommand =>
          apdu \in Commands /\ apdu_command \in Sendable /\ reply \in Replies

(* Between commands nothing is left of the last one.                          *)
AtRest ==
    apdu = NoCommand =>
        /\ apdu_command = NoCommand /\ response_data = <<>> /\ returned = NoReply
        /\ reply = NoReply /\ pending = <<>> /\ performed = <<>>

Untried == performed = <<>> /\ response_data = <<>> /\ pending = <<>> /\ ~Fetching

Divided ==
    /\ Len(performed) = 1 /\ Fetching
    /\ response_data \o pending = reply.data /\ pending # <<>>

(* While an obeying card is at work it either has not performed the command,  *)
(* and then nothing is gathered; or it has once, and what is gathered and     *)
(* what it still has are its reply, of which it has announced the rest.       *)
Whole == obeys /\ AtCard => Untried \/ Divided

ExchangeInv == Sound /\ AtRest /\ Whole

----------------------------------------------------------------------------
(* Commands and replies. *)

LEMMA CommandsSendable ==
    ASSUME NEW c \in Commands
    PROVE  /\ c \in Sendable /\ c # NoCommand /\ c.ins # "GET RESPONSE"
           /\ c.body \in Seq(Nat) /\ c.body # <<>>
<1>1. /\ c = [ins |-> c.ins, p |-> c.p, body |-> c.body, le |-> c.le]
      /\ c.ins \notin {"none", "GET RESPONSE"} /\ c.le \in BOOLEAN
      /\ c.body \in Seq(Nat) /\ c.body # <<>>
  BY ExchangeAssumption
<1>2. NoCommand.ins = "none"
  BY DEF NoCommand
<1>3. [ins |-> c.ins, p |-> c.p, body |-> c.body, le |-> c.le] \in Sendable
  BY <1>1 DEF Sendable
<1> QED
  BY <1>1, <1>2, <1>3

LEMMA FetchSendable ==
    ASSUME NEW n \in Nat
    PROVE  GetResponse(n) \in Sendable /\ GetResponse(n).ins = "GET RESPONSE"
<1>1. <<n>> \in Seq(Nat)
  OBVIOUS
<1> QED
  BY <1>1 DEF GetResponse, Sendable

LEMMA CorrectedSendable ==
    ASSUME NEW c \in Commands, NEW n \in Nat
    PROVE  Corrected(c, n) \in Sendable /\ Corrected(c, n).ins = c.ins
<1>1. /\ c.body \in Seq(Nat) /\ c.body # <<>>
      /\ c = [ins |-> c.ins, p |-> c.p, body |-> c.body, le |-> c.le]
      /\ c.le \in BOOLEAN
  BY ExchangeAssumption
<1>2. Len(c.body) \in 1 .. Len(c.body)
  BY <1>1, EmptySeq, LenProperties
<1> DEFINE body == [c.body EXCEPT ![Len(c.body)] = n]
<1>3. body \in Seq(Nat)
  BY <1>1, <1>2, ExceptSeq
<1>4. Corrected(c, n) = [ins |-> c.ins, p |-> c.p, body |-> body, le |-> c.le]
  <2>1. Corrected(c, n) = [c EXCEPT !.body = body]
    BY DEF Corrected
  <2> HIDE DEF body
  <2> QED
    BY <2>1, <1>1
<1> HIDE DEF body
<1>5. c.ins \in {d.ins : d \in Commands} /\ c.p \in {d.p : d \in Commands}
  OBVIOUS
<1>6. [ins |-> c.ins, p |-> c.p, body |-> body, le |-> c.le] \in Sendable
  BY <1>1, <1>3, <1>5 DEF Sendable
<1> QED
  BY <1>4, <1>6

LEMMA RepliesType ==
    ASSUME NEW r \in Replies
    PROVE  r.data \in Seq(Nat) /\ r.status \in {"success", "failure"}
BY ExchangeAssumption

(* A final status is no reply's placeholder.                                  *)
LEMMA ResultIsFinal ==
    ASSUME NEW data, NEW status \in {"success", "failure"}
    PROVE  /\ Result(data, status) # NoReply /\ Result(data, status) # Crash
           /\ NoReply # Crash
<1>1. Result(data, status).status = status /\ NoReply.status = "none"
      /\ Crash.status = "crash"
  BY DEF Result, NoReply, Crash
<1> QED
  BY <1>1

----------------------------------------------------------------------------
(* The answer that hands out n bytes of what is left of the reply.            *)

LEMMA NotEmpty == ASSUME NEW s, Len(s) # 0 PROVE s # <<>>
<1>1. Len(<<>>) = 0
  BY EmptySeq
<1> QED
  BY <1>1

LEMMA Left == ASSUME NEW m \in Nat, NEW k \in 0 .. m PROVE m - k \in Nat /\ (k < m => m - k # 0)
OBVIOUS

LEMMA Associative ==
    ASSUME NEW s \in Seq(Nat), NEW t \in Seq(Nat), NEW u \in Seq(Nat)
    PROVE  (s \o t) \o u = s \o (t \o u)
BY ConcatAssociative

LEMMA Divide ==
    ASSUME NEW left \in Seq(Nat), NEW n \in 0 .. Len(left)
    PROVE  /\ SubSeq(left, 1, n) \in Seq(Nat)
           /\ SubSeq(left, n + 1, Len(left)) \in Seq(Nat)
           /\ SubSeq(left, 1, n) \o SubSeq(left, n + 1, Len(left)) = left
           /\ n < Len(left) => SubSeq(left, n + 1, Len(left)) # <<>>
           /\ n = Len(left) => SubSeq(left, 1, n) = left
<1>1. Len(left) \in Nat /\ \A i \in 1 .. Len(left) : left[i] \in Nat
  BY LenProperties, ElementOfSeq
<1>2. SubSeq(left, 1, n) \in Seq(Nat)
  BY <1>1, SubSeqProperties
<1>3. /\ SubSeq(left, n + 1, Len(left)) \in Seq(Nat)
      /\ n < Len(left) => Len(SubSeq(left, n + 1, Len(left))) = Len(left) - n
  <2>1. n + 1 \in Int /\ Len(left) \in Int /\ \A i \in n + 1 .. Len(left) : left[i] \in Nat
    BY <1>1
  <2>2. /\ SubSeq(left, n + 1, Len(left)) \in Seq(Nat)
        /\ Len(SubSeq(left, n + 1, Len(left))) =
              IF n + 1 <= Len(left) THEN Len(left) - (n + 1) + 1 ELSE 0
    BY <2>1, SubSeqProperties
  <2> QED
    BY <1>1, <2>2
<1>4. SubSeq(left, 1, n) \o SubSeq(left, n + 1, Len(left)) = SubSeq(left, 1, Len(left))
  <2>1. 1 \in 1 .. Len(left) + 1 /\ n \in 1 - 1 .. Len(left)
        /\ Len(left) \in n .. Len(left)
    BY <1>1
  <2> QED
    BY <2>1, ConcatAdjacentSubSeq
<1>5. SubSeq(left, 1, Len(left)) = left
  BY SubSeqFull
<1>6. n < Len(left) => SubSeq(left, n + 1, Len(left)) # <<>>
  <2>1. n < Len(left) => Len(left) - n # 0
    BY <1>1, Left
  <2> QED
    BY <1>3, <2>1, NotEmpty
<1> QED
  BY <1>2, <1>3, <1>4, <1>5, <1>6

(* ... n bytes and, if they are not all, a status that calls for the rest.    *)
LEMMA HandedOut ==
    ASSUME Sound, apdu # NoCommand, returned = NoReply,
           NEW left \in Seq(Nat), NEW n \in 0 .. Len(left),
           response_data \o left = reply.data, HandsOut(left, n)
    PROVE  /\ UNCHANGED <<apdu, reply, obeys>>
           /\ response_data' \in Seq(Nat) /\ pending' \in Seq(Nat)
           /\ \/ /\ apdu_command' \in Sendable /\ Fetching' /\ UNCHANGED returned
                 /\ response_data' \o pending' = reply.data /\ pending' # <<>>
              \/ /\ UNCHANGED apdu_command
                 /\ returned' = Result(reply.data, reply.status)
<1>reply. reply.data \in Seq(Nat) /\ reply.status \in {"success", "failure"}
  BY RepliesType DEF Sound
<1> DEFINE a == Portion(left, n)
           part == SubSeq(left, 1, n)
           rest == SubSeq(left, n + 1, Len(left))
<1>1. /\ part \in Seq(Nat) /\ rest \in Seq(Nat) /\ part \o rest = left
      /\ n < Len(left) => rest # <<>>
      /\ n = Len(left) => part = left
  BY Divide
<1>2. /\ a.data = part
      /\ n = Len(left) => a.sw1 = reply.status
      /\ n # Len(left) => a.sw1 = "61" /\ a.sw2 = Announced(Len(left) - n)
  BY DEF Portion
<1>3. /\ Receive(a) /\ pending' = rest /\ UNCHANGED <<obeys, reply>>
  BY DEF HandsOut
<1>len. Len(left) \in Nat
  BY LenProperties
<1> HIDE DEF a, part, rest
<1>4. response_data' = response_data \o part /\ UNCHANGED apdu
  BY <1>2, <1>3 DEF Receive, Gathered
<1>5. response_data' \in Seq(Nat)
  BY <1>1, <1>4, ConcatProperties DEF Sound
<1>6. CASE n = Len(left)
  <2>1. a.sw1 \notin {"61", "6C"}
    BY <1>2, <1>6, <1>reply
  <2>2. returned' = Result(Gathered(a), a.sw1) /\ UNCHANGED apdu_command
    BY <1>3, <2>1 DEF Receive
  <2>3. Gathered(a) = reply.data
    BY <1>1, <1>2, <1>6 DEF Gathered
  <2> QED
    BY <1>1, <1>2, <1>3, <1>4, <1>5, <1>6, <2>2, <2>3
<1>7. CASE n # Len(left)
  <2>1. a.sw1 = "61" /\ a.sw2 = Announced(Len(left) - n)
    BY <1>2, <1>7
  <2>2. apdu_command' = GetResponse(More(a.sw2)) /\ UNCHANGED returned
    BY <1>3, <2>1 DEF Receive
  <2>3. More(a.sw2) \in Nat
    <3>1. Len(left) - n \in Nat /\ LeMax \in Nat
      BY <1>len, Left, ExchangeAssumption
    <3>2. Announced(Len(left) - n) \in Nat
      BY <3>1 DEF Announced
    <3> QED
      BY <2>1, <3>1, <3>2 DEF More
  <2>4. apdu_command' \in Sendable /\ apdu_command'.ins = "GET RESPONSE"
    BY <2>2, <2>3, FetchSendable
  <2>5. rest # <<>>
    BY <1>1, <1>7, <1>len
  <2>6. response_data' \o pending' = reply.data
    <3>1. (response_data \o part) \o rest = response_data \o (part \o rest)
      BY <1>1, Associative DEF Sound
    <3> QED
      BY <1>1, <1>3, <1>4, <3>1
  <2> QED
    BY <1>1, <1>3, <1>4, <1>5, <2>2, <2>4, <2>5, <2>6 DEF Fetching
<1> QED
  BY <1>6, <1>7
----------------------------------------------------------------------------
(* The steps. *)

Abstract == Exchange!Next \/ UNCHANGED Exchange!vars

(* The answer of the loop that is final is the one the exchange promises.     *)
LEMMA PromisedResult ==
    ASSUME NEW r \in Replies
    PROVE  /\ Result(r.data, r.status) = Exchange!Returns(r)
           /\ Exchange!Returns(r) \notin {Exchange!NoReply, Exchange!Crash}
BY RepliesType, ResultIsFinal
   DEF Result, Exchange!Returns, NoReply, Crash, Exchange!NoReply, Exchange!Crash

LEMMA AtCardSame == Exchange!AtCard = AtCard
BY DEF Exchange!AtCard, AtCard, NoCommand, NoReply, Exchange!NoCommand,
       Exchange!NoReply

(* A crash fails the exchange and leaves nothing to promise.                  *)
LEMMA Crashed ==
    ASSUME ExchangeInv, AtCard, returned' = Crash,
           response_data' \in Seq(Nat), UNCHANGED <<apdu, apdu_command, card>>
    PROVE  ExchangeInv' /\ Abstract
<1>1. apdu' # NoCommand /\ returned' # NoReply
  BY DEF AtCard, NoReply, Crash, NoCommand
<1>2. ~AtCard'
  BY <1>1 DEF AtCard
<1>3. ExchangeInv'
  BY <1>1, <1>2 DEF ExchangeInv, Sound, AtRest, Whole, card, NoCommand
<1>4. Exchange!Fail
  BY AtCardSame DEF Exchange!Fail, Exchange!Crash, Crash, card
<1> QED
  BY <1>3, <1>4 DEF Abstract, Exchange!Next

(* The interface fails. *)
LEMMA LostStep ==
    ASSUME ExchangeInv, Lost
    PROVE  ExchangeInv' /\ Abstract
BY Crashed DEF Lost, ExchangeInv, Sound

(* The caller sends a command, ...                                            *)
LEMMA SendStep ==
    ASSUME ExchangeInv, NEW c \in Commands, NEW r \in Replies, SendApdu(c, r)
    PROVE  ExchangeInv' /\ Abstract
<1>1. c \in Sendable /\ c # NoCommand /\ c.ins # "GET RESPONSE"
  BY CommandsSendable
<1>2. /\ apdu = NoCommand /\ apdu' = c /\ apdu_command' = c /\ reply' = r
      /\ UNCHANGED <<response_data, returned, obeys, pending, performed>>
  BY DEF SendApdu
<1>3. /\ response_data = <<>> /\ returned = NoReply
      /\ pending = <<>> /\ performed = <<>>
  BY <1>2 DEF ExchangeInv, AtRest
<1>4. Sound'
  BY <1>1, <1>2 DEF ExchangeInv, Sound
<1>5. AtRest'
  BY <1>1, <1>2 DEF AtRest, NoCommand
<1>6. Untried'
  BY <1>1, <1>2, <1>3 DEF Untried, Fetching
<1>7. Exchange!Send(c, r)
  BY <1>2 DEF Exchange!Send, Exchange!NoCommand, NoCommand
<1> QED
  BY <1>4, <1>5, <1>6, <1>7
     DEF ExchangeInv, Whole, Abstract, Exchange!Next

(* ... and goes on with what it returned.                                     *)
LEMMA ReturnStep ==
    ASSUME ExchangeInv, Return
    PROVE  ExchangeInv' /\ Abstract
<1>1. /\ apdu' = NoCommand /\ apdu_command' = NoCommand /\ response_data' = <<>>
      /\ returned' = NoReply /\ reply' = NoReply /\ pending' = <<>>
      /\ performed' = <<>> /\ obeys' = obeys /\ returned \notin {NoReply, Crash}
  BY DEF Return
<1>2. ~AtCard'
  BY <1>1 DEF AtCard, NoCommand
<1>3. ExchangeInv'
  BY <1>1, <1>2, EmptySeq
     DEF ExchangeInv, Sound, AtRest, Whole, NoCommand, NoReply
<1>4. Exchange!Done
  <2>1. Len(performed') = 0
    BY <1>1, EmptySeq
  <2> QED
    BY <1>1, <2>1
       DEF Exchange!Done, Exchange!Idle, Exchange!NoCommand, Exchange!NoReply,
           Exchange!Crash, NoCommand, NoReply, Crash
<1> QED
  BY <1>3, <1>4 DEF Abstract, Exchange!Next

(* An obeying card refuses a length: the command goes out again, ...          *)
LEMMA RefuseStep ==
    ASSUME ExchangeInv, Refuse
    PROVE  ExchangeInv' /\ Abstract
<1> DEFINE sw2 == Announced(Len(reply.data))
           a == [data |-> <<>>, sw1 |-> "6C", sw2 |-> sw2]
<1>1. AtCard /\ obeys /\ ~Fetching /\ apdu # NoCommand /\ returned = NoReply
  BY DEF Refuse, AtCard
<1>2. Sound /\ Untried
  BY <1>1 DEF ExchangeInv, Whole, Divided
<1>3. Receive(a) /\ UNCHANGED card
  BY DEF Refuse
<1>4. response_data' = <<>> /\ UNCHANGED apdu
  BY <1>2, <1>3, ConcatEmptySeq DEF Receive, Gathered, Untried, Sound
<1>5. sw2 \in Nat
  <2>1. Len(reply.data) \in Nat
    BY <1>1, <1>2, RepliesType, LenProperties DEF Sound
  <2> QED
    BY <2>1 DEF Announced
<1>6. \/ apdu_command' = Corrected(apdu, sw2) /\ UNCHANGED returned
      \/ returned' = Crash /\ UNCHANGED apdu_command
  BY <1>3 DEF Receive
<1> HIDE DEF sw2
<1>7. CASE returned' = Crash /\ UNCHANGED apdu_command
  BY <1>1, <1>3, <1>4, <1>7, Crashed, EmptySeq
<1>8. CASE apdu_command' = Corrected(apdu, sw2) /\ UNCHANGED returned
  <2>1. apdu_command' \in Sendable /\ ~Fetching'
    BY <1>1, <1>2, <1>5, <1>8, CorrectedSendable, CommandsSendable DEF Sound, Fetching
  <2>2. Sound' /\ Untried'
    BY <1>2, <1>3, <1>4, <2>1 DEF Sound, Untried, card, NoCommand
  <2>3. AtRest'
    BY <1>1, <1>4 DEF AtRest, NoCommand
  <2>4. UNCHANGED Exchange!vars
    BY <1>3, <1>4, <1>8 DEF Exchange!vars, card
  <2> QED
    BY <2>2, <2>3, <2>4 DEF ExchangeInv, Whole, Abstract
<1> QED
  BY <1>6, <1>7, <1>8

(* ... performs it, ...                                                       *)
LEMMA PerformStep ==
    ASSUME ExchangeInv, NEW n \in 0 .. Len(reply.data), Perform(n)
    PROVE  ExchangeInv' /\ Abstract
<1>1. AtCard /\ obeys /\ ~Fetching /\ apdu # NoCommand /\ returned = NoReply
  BY DEF Perform, AtCard
<1>2. Sound /\ Untried
  BY <1>1 DEF ExchangeInv, Whole, Divided
<1>3. reply \in Replies /\ reply.data \in Seq(Nat) /\ apdu_command \in Sendable
  BY <1>1, <1>2, RepliesType DEF Sound
<1>4. response_data \o reply.data = reply.data
  BY <1>2, <1>3, ConcatEmptySeq DEF Untried
<1>5. HandsOut(reply.data, n)
  BY DEF Perform
<1>6. /\ UNCHANGED <<apdu, reply, obeys>>
      /\ response_data' \in Seq(Nat) /\ pending' \in Seq(Nat)
      /\ \/ /\ apdu_command' \in Sendable /\ Fetching' /\ UNCHANGED returned
            /\ response_data' \o pending' = reply.data /\ pending' # <<>>
         \/ /\ UNCHANGED apdu_command
            /\ returned' = Result(reply.data, reply.status)
  BY <1>1, <1>2, <1>3, <1>4, <1>5, HandedOut
<1>7. performed' \in Seq(Sendable) /\ Len(performed') = 1 /\ Len(performed) = 0
  <2>1. performed' = Append(<<>>, apdu_command)
    BY <1>2 DEF Perform, Untried
  <2>2. <<>> \in Seq(Sendable) /\ Len(<<>>) = 0
    BY EmptySeq
  <2> QED
    BY <1>2, <1>3, <2>1, <2>2, AppendProperties DEF Untried
<1>8. Sound' /\ AtRest'
  BY <1>1, <1>2, <1>3, <1>6, <1>7 DEF Sound, AtRest, NoCommand
<1>9. CASE UNCHANGED returned /\ Fetching'
           /\ response_data' \o pending' = reply.data /\ pending' # <<>>
  <2>1. Divided'
    BY <1>6, <1>7, <1>9 DEF Divided
  <2>2. Exchange!Perform
    BY <1>1, <1>6, <1>7, <1>9, AtCardSame DEF Exchange!Perform
  <2> QED
    BY <1>8, <2>1, <2>2 DEF ExchangeInv, Whole, Abstract, Exchange!Next
<1>10. CASE returned' = Result(reply.data, reply.status)
  <2>1. ~AtCard'
    BY <1>3, <1>10, RepliesType, ResultIsFinal DEF AtCard, NoReply
  <2>2. Exchange!Return
    BY <1>1, <1>3, <1>6, <1>7, <1>10, AtCardSame, PromisedResult
       DEF Exchange!Return
  <2> QED
    BY <1>8, <2>1, <2>2 DEF ExchangeInv, Whole, Abstract, Exchange!Next
<1> QED
  BY <1>6, <1>9, <1>10

(* ... and hands out the rest.                                                *)
LEMMA ContinueStep ==
    ASSUME ExchangeInv, NEW n \in 1 .. Len(pending), Continue(n)
    PROVE  ExchangeInv' /\ Abstract
<1>1. AtCard /\ obeys /\ Fetching /\ apdu # NoCommand /\ returned = NoReply
  BY DEF Continue, AtCard
<1>2. Sound /\ Divided
  BY <1>1 DEF ExchangeInv, Whole, Untried
<1>3. reply \in Replies /\ pending \in Seq(Nat)
  BY <1>1, <1>2 DEF Sound
<1>4. response_data \o pending = reply.data /\ Len(performed) = 1
  BY <1>2 DEF Divided
<1>5. HandsOut(pending, n) /\ UNCHANGED performed
  BY DEF Continue
<1>6. n \in 0 .. Len(pending)
  BY <1>3, LenProperties
<1>7. /\ UNCHANGED <<apdu, reply, obeys>>
      /\ response_data' \in Seq(Nat) /\ pending' \in Seq(Nat)
      /\ \/ /\ apdu_command' \in Sendable /\ Fetching' /\ UNCHANGED returned
            /\ response_data' \o pending' = reply.data /\ pending' # <<>>
         \/ /\ UNCHANGED apdu_command
            /\ returned' = Result(reply.data, reply.status)
  BY <1>1, <1>2, <1>3, <1>4, <1>5, <1>6, HandedOut
<1>8. Sound' /\ AtRest'
  BY <1>1, <1>2, <1>5, <1>7 DEF Sound, AtRest, NoCommand
<1>9. CASE UNCHANGED returned /\ Fetching'
           /\ response_data' \o pending' = reply.data /\ pending' # <<>>
  <2>1. Divided'
    BY <1>4, <1>5, <1>7, <1>9 DEF Divided
  <2>2. UNCHANGED Exchange!vars
    BY <1>5, <1>7, <1>9 DEF Exchange!vars
  <2> QED
    BY <1>8, <2>1, <2>2 DEF ExchangeInv, Whole, Abstract
<1>10. CASE returned' = Result(reply.data, reply.status)
  <2>1. ~AtCard'
    BY <1>3, <1>10, RepliesType, ResultIsFinal DEF AtCard, NoReply
  <2>2. Exchange!Return
    BY <1>1, <1>3, <1>4, <1>5, <1>7, <1>10, AtCardSame, PromisedResult
       DEF Exchange!Return
  <2> QED
    BY <1>8, <2>1, <2>2 DEF ExchangeInv, Whole, Abstract, Exchange!Next
<1> QED
  BY <1>7, <1>9, <1>10

(* Of any other card nothing is promised but the order of the stages.         *)
LEMMA StrayStep ==
    ASSUME ExchangeInv, NEW a \in StrayAnswers, Stray(a)
    PROVE  ExchangeInv' /\ Abstract
<1>1. AtCard /\ ~obeys /\ apdu # NoCommand /\ returned = NoReply /\ Sound
  BY DEF Stray, AtCard, ExchangeInv
<1>2. Receive(a) /\ UNCHANGED <<obeys, reply, pending>>
  BY DEF Stray
<1>3. a.sw2 \in Nat /\ a.data \in Seq(Nat) /\ LeMax \in Nat
      /\ a.sw1 \in {"61", "6C", "success", "failure"}
  <2>1. a.sw2 \in 0 .. LeMax /\ LeMax \in Nat
    BY ExchangeAssumption
  <2>2. a.data \in Seq(Nat) /\ a.sw1 \in {"61", "6C", "success", "failure"}
    BY ExchangeAssumption
  <2> QED
    BY <2>1, <2>2
<1>4. response_data' \in Seq(Nat) /\ UNCHANGED apdu
  BY <1>1, <1>2, <1>3, ConcatProperties DEF Receive, Gathered, Sound
<1>5. /\ performed' \in Seq(Sendable) /\ Len(performed) \in Nat
      /\ Len(performed') \in {Len(performed), Len(performed) + 1}
  <2>1. performed \in Seq(Sendable) /\ apdu_command \in Sendable
    BY <1>1 DEF Sound
  <2>2. Append(performed, apdu_command) \in Seq(Sendable)
        /\ Len(Append(performed, apdu_command)) = Len(performed) + 1
        /\ Len(performed) \in Nat
    BY <2>1, AppendProperties, LenProperties
  <2>3. performed' \in {performed, Append(performed, apdu_command)}
    BY DEF Stray
  <2> QED
    BY <2>1, <2>2, <2>3
<1>6. apdu_command' \in Sendable
  <2>1. More(a.sw2) \in Nat
    BY <1>3 DEF More
  <2>2. apdu_command' \in {GetResponse(More(a.sw2)), Corrected(apdu, a.sw2), apdu_command}
    BY <1>2 DEF Receive
  <2> QED
    BY <1>1, <1>3, <2>1, <2>2, FetchSendable, CorrectedSendable DEF Sound
<1>7. ExchangeInv'
  <2>1. Sound'
    BY <1>1, <1>2, <1>4, <1>5, <1>6 DEF Sound, NoCommand
  <2>2. AtRest' /\ Whole'
    BY <1>1, <1>2, <1>4 DEF AtRest, Whole, NoCommand
  <2> QED
    BY <2>1, <2>2 DEF ExchangeInv
<1>8. CASE UNCHANGED returned
  <2>1. CASE Len(performed') = Len(performed)
    BY <1>2, <1>4, <1>7, <1>8, <2>1 DEF Abstract, Exchange!vars
  <2>2. CASE Len(performed') = Len(performed) + 1
    <3>1. Exchange!Perform
      BY <1>1, <1>2, <1>4, <1>8, <2>2, AtCardSame DEF Exchange!Perform
    <3> QED
      BY <1>7, <3>1 DEF Abstract, Exchange!Next
  <2> QED
    BY <1>5, <2>1, <2>2
<1>9. CASE returned' = Crash /\ a.sw1 = "6C"
  <2>1. UNCHANGED performed
    BY <1>9 DEF Stray
  <2>2. Exchange!Fail
    BY <1>1, <1>2, <1>4, <1>9, <2>1, AtCardSame DEF Exchange!Fail, Exchange!Crash, Crash
  <2> QED
    BY <1>7, <2>2 DEF Abstract, Exchange!Next
<1>10. CASE returned' = Result(Gathered(a), a.sw1) /\ a.sw1 \notin {"61", "6C"}
  <2>1. returned' \notin {Exchange!NoReply, Exchange!Crash}
    BY <1>3, <1>10, ResultIsFinal DEF NoReply, Crash, Exchange!NoReply, Exchange!Crash
  <2>2. Exchange!Return
    BY <1>1, <1>2, <1>4, <1>5, <2>1, AtCardSame DEF Exchange!Return
  <2> QED
    BY <1>7, <2>2 DEF Abstract, Exchange!Next
<1> QED
  BY <1>2, <1>7, <1>8, <1>9, <1>10 DEF Receive

LEMMA InitExchange == Init => ExchangeInv /\ Exchange!Init
<1> SUFFICES ASSUME Init PROVE ExchangeInv /\ Exchange!Init
  OBVIOUS
<1>1. Len(<<>>) = 0
  BY EmptySeq
<1>2. ~AtCard
  BY DEF Init, AtCard, NoCommand
<1>3. ExchangeInv
  BY <1>2, EmptySeq DEF Init, ExchangeInv, Sound, AtRest, Whole
<1>4. Exchange!Init
  BY <1>1 DEF Init, Exchange!Init, Exchange!Idle, Exchange!NoCommand,
              Exchange!NoReply, NoCommand, NoReply
<1> QED
  BY <1>3, <1>4

LEMMA StepExchange == ExchangeInv /\ [Next]_vars => ExchangeInv' /\ Abstract
<1> SUFFICES ASSUME ExchangeInv, [Next]_vars PROVE ExchangeInv' /\ Abstract
  OBVIOUS
<1>1. CASE Terminated \/ UNCHANGED vars
  <2>1. UNCHANGED vars
    BY <1>1 DEF Terminated
  <2>2. ExchangeInv'
    BY <2>1 DEF vars, terminal, card, ExchangeInv, Sound, AtRest, Whole, Untried,
                Divided, AtCard, Fetching, NoCommand, NoReply
  <2> QED
    BY <2>1, <2>2 DEF vars, terminal, card, Abstract, Exchange!vars
<1>2. CASE \E n \in 0 .. Len(reply.data) : Perform(n)
  BY <1>2, PerformStep
<1>3. CASE \E n \in 1 .. Len(pending) : Continue(n)
  BY <1>3, ContinueStep
<1> QED
  BY <1>1, <1>2, <1>3, SendStep, RefuseStep, StrayStep, LostStep, ReturnStep
     DEF Next, Transmit

(* As the rest of the terminal sees it, send_apdu is atomic (lib.rs:1253-     *)
(* 1335): the card performs a command once, and the caller gets all of the    *)
(* card's reply, in order, however often 61xx and 6Cxx interrupt it.          *)
THEOREM AtomicApdu == Spec => Exchange!Init /\ [][Exchange!Next]_(Exchange!vars)
<1>1. Init => ExchangeInv
  BY InitExchange
<1>2. Init => Exchange!Init
  BY InitExchange
<1>3. ExchangeInv /\ [Next]_vars => ExchangeInv'
  BY StepExchange
<1>4. ExchangeInv /\ [Next]_vars => [Exchange!Next]_(Exchange!vars)
  BY StepExchange DEF Abstract
<1> QED
  BY <1>1, <1>2, <1>3, <1>4, PTL DEF Spec

----------------------------------------------------------------------------
(* The data of a list of objects.  Both recursive functions, FlattenSeq's and *)
(* Ends', are shown to exist: induction in the form of sets of numbers.       *)

LEMMA Induction ==
    ASSUME NEW P, 0 \in P, \A m \in Nat : m \in P => m + 1 \in P
    PROVE  Nat \subseteq P
<1> DEFINE T == Nat \ P
<1>1. ASSUME T # {} PROVE FALSE
  <2>1. PICK m \in T : \A k \in T : <<k, m>> \notin OpToRel(<, Nat)
    BY <1>1, NatLessThanWellFounded, WFMin
  <2>2. m \in Nat /\ m # 0 /\ m \notin P
    OBVIOUS
  <2>3. m - 1 \in Nat /\ (m - 1) + 1 = m /\ m - 1 < m
    BY <2>2
  <2>4. <<m - 1, m>> \in OpToRel(<, Nat)
    BY <2>2, <2>3 DEF OpToRel
  <2>5. m - 1 \in P
    BY <2>1, <2>3, <2>4
  <2> QED
    BY <2>2, <2>3, <2>5
<1> QED
  BY <1>1

(* Every object ends where it begins plus its length.                         *)
LEMMA EndsDef ==
    ASSUME NEW objects \in Seq([tag : Seq(Nat), length : 1 .. 255])
    PROVE  /\ Ends(objects) \in [0 .. Len(objects) -> Nat]
           /\ Ends(objects)[0] = 0
           /\ \A i \in 1 .. Len(objects) :
                 Ends(objects)[i] = Ends(objects)[i - 1] + objects[i].length
<1> DEFINE n == Len(objects)
           To(f, m) == \A i \in 1 .. n :
                          i <= m => f[i] = f[i - 1] + objects[i].length
           Defined(m) == \E f \in [0 .. n -> Nat] : f[0] = 0 /\ To(f, m)
           P == {m \in Nat : Defined(m)}
<1>1. n \in Nat /\ \A i \in 1 .. n : objects[i].length \in Nat
  <2>1. n \in Nat
    OBVIOUS
  <2>2. \A i \in 1 .. n : objects[i] \in [tag : Seq(Nat), length : 1 .. 255]
    BY ElementOfSeq
  <2> HIDE DEF n
  <2>3. \A i \in 1 .. n : objects[i].length \in Nat
    <3> TAKE i \in 1 .. n
    <3> DEFINE object == objects[i]
    <3>1. object \in [tag : Seq(Nat), length : 1 .. 255]
      BY <2>2
    <3> HIDE DEF object
    <3>2. object.length \in 1 .. 255
      BY <3>1
    <3>3. object.length \in Nat
      <4>1. \A k \in 1 .. 255 : k \in Nat
        OBVIOUS
      <4> QED
        BY <3>2, <4>1
    <3> QED
      BY <3>3 DEF object
  <2> QED
    BY <2>1, <2>3
<1> HIDE DEF n
<1>2. 0 \in P
  <2> DEFINE f == [i \in 0 .. n |-> 0]
  <2>1. f \in [0 .. n -> Nat] /\ f[0] = 0 /\ To(f, 0)
    BY <1>1
  <2> QED
    BY <2>1
<1>3. ASSUME NEW m \in Nat, m \in P PROVE m + 1 \in P
  <2>1. PICK f \in [0 .. n -> Nat] : f[0] = 0 /\ To(f, m)
    BY <1>3
  <2>2. CASE m + 1 > n
    <3>1. To(f, m + 1)
      BY <1>1, <2>1, <2>2
    <3> HIDE DEF To
    <3>2. Defined(m + 1)
      BY <2>1, <3>1
    <3> HIDE DEF Defined
    <3> QED
      BY <3>2
  <2>3. CASE m + 1 <= n
    <3> DEFINE g == [f EXCEPT ![m + 1] = f[m] + objects[m + 1].length]
    <3>1. f[m] \in Nat /\ objects[m + 1].length \in Nat /\ m + 1 \in 0 .. n
          /\ m \in 0 .. n /\ m # m + 1
      BY <1>1, <2>3
    <3>2. g \in [0 .. n -> Nat] /\ g[0] = 0 /\ g[m + 1] = f[m] + objects[m + 1].length
          /\ \A i \in 0 .. n : i # m + 1 => g[i] = f[i]
      BY <2>1, <3>1
    <3> HIDE DEF g
    <3>3. To(g, m + 1)
      <4> TAKE i \in 1 .. n
      <4> HAVE i <= m + 1
      <4>1. CASE i = m + 1
        <5>1. g[m] = f[m]
          BY <3>1, <3>2
        <5>2. i - 1 = m
          BY <4>1
        <5> QED
          BY <3>2, <4>1, <5>1, <5>2
      <4>2. CASE i <= m
        <5>1. g[i] = f[i] /\ g[i - 1] = f[i - 1]
          BY <1>1, <3>2, <4>2
        <5> QED
          BY <2>1, <4>2, <5>1
      <4> QED
        BY <4>1, <4>2
    <3> HIDE DEF To
    <3>4. Defined(m + 1)
      BY <3>2, <3>3
    <3> HIDE DEF Defined
    <3> QED
      BY <3>4
  <2> HIDE DEF P
  <2> QED
    BY <1>1, <2>2, <2>3
<1>4. n \in P
  <2> HIDE DEF P
  <2> QED
    BY <1>1, <1>2, <1>3, Induction
<1>5. PICK f \in [0 .. n -> Nat] : f[0] = 0 /\ To(f, n)
  BY <1>4
<1>6. f = [i \in 0 .. n |-> IF i = 0 THEN 0 ELSE f[i - 1] + objects[i].length]
  <2>1. \A i \in 0 .. n : f[i] = IF i = 0 THEN 0 ELSE f[i - 1] + objects[i].length
    BY <1>1, <1>5
  <2> QED
    BY <2>1
<1> DEFINE end == CHOOSE e : e = [i \in 0 .. n |->
                                     IF i = 0 THEN 0 ELSE e[i - 1] + objects[i].length]
<1>7. Ends(objects) = end
  BY DEF Ends, n
<1>8. end = [i \in 0 .. n |-> IF i = 0 THEN 0 ELSE end[i - 1] + objects[i].length]
  BY <1>6
<1> HIDE DEF end
<1>9. end[0] = 0 /\ \A i \in 1 .. n : end[i] = end[i - 1] + objects[i].length
  BY <1>1, <1>8
<1>10. end \in [0 .. n -> Nat]
  <2> DEFINE Q == {m \in Nat : m <= n => end[m] \in Nat}
  <2>1. 0 \in Q
    BY <1>9
  <2>2. ASSUME NEW m \in Nat, m \in Q PROVE m + 1 \in Q
    <3>1. CASE m + 1 <= n
      <4>1. end[m] \in Nat /\ m + 1 \in 1 .. n /\ (m + 1) - 1 = m
        BY <1>1, <2>2, <3>1
      <4>2. objects[m + 1].length \in Nat /\ end[m + 1] = end[m] + objects[m + 1].length
        BY <1>1, <1>9, <4>1
      <4>3. end[m + 1] \in Nat
        BY <4>1, <4>2
      <4> QED
        BY <4>3
    <3>2. CASE ~(m + 1 <= n)
      BY <3>2
    <3> QED
      BY <3>1, <3>2
  <2>3. Nat \subseteq Q
    <3> HIDE DEF Q
    <3> QED
      BY <2>1, <2>2, Induction
  <2>4. \A m \in 0 .. n : end[m] \in Nat
    BY <1>1, <2>3
  <2> QED
    BY <1>8, <2>4
<1> QED
  BY <1>7, <1>9, <1>10 DEF n

(* FlattenSeq appends one sequence after the other.                           *)
LEMMA FlattenDef ==
    ASSUME NEW values \in Seq(Seq(Nat)), values # <<>>
    PROVE  \E flatten \in [1 .. Len(values) -> Seq(Nat)] :
              /\ flatten[1] = values[1]
              /\ \A i \in 2 .. Len(values) : flatten[i] = flatten[i - 1] \o values[i]
              /\ Sequence!FlattenSeq(values) = flatten[Len(values)]
<1> DEFINE n == Len(values)
           To(f, m) == \A i \in 2 .. n : i <= m + 1 => f[i] = f[i - 1] \o values[i]
           Defined(m) == \E f \in [1 .. n -> Seq(Nat)] : f[1] = values[1] /\ To(f, m)
           P == {m \in Nat : Defined(m)}
<1>1. n \in Nat \ {0} /\ \A i \in 1 .. n : values[i] \in Seq(Nat)
  BY EmptySeq, ElementOfSeq
<1>2. n # 0
  BY <1>1
<1>3. Sequence!FlattenSeq(values)
         = (CHOOSE e : e = [i \in 1 .. n |-> IF i = 1 THEN values[i] ELSE e[i - 1] \o values[i]])[n]
  BY <1>2 DEF Sequence!FlattenSeq
<1> HIDE DEF n
<1>4. 0 \in P
  <2> DEFINE f == [i \in 1 .. n |-> values[1]]
  <2>1. f \in [1 .. n -> Seq(Nat)] /\ f[1] = values[1]
    BY <1>1
  <2>2. \A i \in 2 .. n : ~(i <= 0 + 1)
    BY <1>1
  <2>3. To(f, 0)
    BY <2>2
  <2> HIDE DEF f, To
  <2> QED
    BY <2>1, <2>3
<1>5. ASSUME NEW m \in Nat, m \in P PROVE m + 1 \in P
  <2>1. PICK f \in [1 .. n -> Seq(Nat)] : f[1] = values[1] /\ To(f, m)
    BY <1>5
  <2>2. CASE m + 2 > n
    <3>1. To(f, m + 1)
      <4>1. \A i \in 2 .. n : i <= m + 1
        BY <1>1, <2>2
      <4> QED
        BY <2>1, <4>1
    <3> HIDE DEF To
    <3>2. Defined(m + 1)
      BY <2>1, <3>1
    <3> HIDE DEF Defined
    <3> QED
      BY <3>2
  <2>3. CASE m + 2 <= n
    <3> DEFINE g == [f EXCEPT ![m + 2] = f[m + 1] \o values[m + 2]]
    <3>1. m + 2 \in 1 .. n /\ m + 1 \in 1 .. n /\ m + 1 # m + 2 /\ m + 2 # 1 /\ 1 \in 1 .. n
      BY <1>1, <2>3
    <3>2. f[m + 1] \o values[m + 2] \in Seq(Nat)
      BY <1>1, <3>1
    <3>3. g \in [1 .. n -> Seq(Nat)] /\ g[1] = values[1]
          /\ g[m + 2] = f[m + 1] \o values[m + 2]
          /\ \A i \in 1 .. n : i # m + 2 => g[i] = f[i]
      BY <2>1, <3>1, <3>2
    <3> HIDE DEF g
    <3>4. To(g, m + 1)
      <4> TAKE i \in 2 .. n
      <4> HAVE i <= (m + 1) + 1
      <4>1. CASE i = m + 2
        <5>1. g[m + 1] = f[m + 1]
          BY <3>1, <3>3
        <5>2. i - 1 = m + 1
          BY <4>1
        <5>3. g[i] = g[m + 2] /\ values[i] = values[m + 2] /\ g[i - 1] = g[m + 1]
          BY <4>1, <5>2
        <5> QED
          BY <3>3, <5>1, <5>3
      <4>2. CASE i <= m + 1
        <5>1. i \in 1 .. n /\ i - 1 \in 1 .. n /\ i # m + 2 /\ i - 1 # m + 2
          BY <1>1, <4>2
        <5>2. g[i] = f[i] /\ g[i - 1] = f[i - 1]
          BY <3>3, <5>1
        <5>3. f[i] = f[i - 1] \o values[i]
          BY <2>1, <4>2
        <5> QED
          BY <5>2, <5>3
      <4>3. i = m + 2 \/ i <= m + 1
        BY <1>1
      <4> QED
        BY <4>1, <4>2, <4>3
    <3> HIDE DEF To
    <3>5. Defined(m + 1)
      BY <3>3, <3>4
    <3> HIDE DEF Defined
    <3> QED
      BY <3>5
  <2> HIDE DEF P
  <2> QED
    BY <1>1, <2>2, <2>3
<1>6. n \in P
  <2> HIDE DEF P
  <2> QED
    BY <1>1, <1>4, <1>5, Induction
<1>7. PICK f \in [1 .. n -> Seq(Nat)] : f[1] = values[1] /\ To(f, n)
  BY <1>6
<1>8. f = [i \in 1 .. n |-> IF i = 1 THEN values[i] ELSE f[i - 1] \o values[i]]
  <2>1. ASSUME NEW i \in 1 .. n
        PROVE  f[i] = IF i = 1 THEN values[i] ELSE f[i - 1] \o values[i]
    <3>1. CASE i = 1
      BY <1>7, <3>1
    <3>2. CASE i # 1
      <4>1. i \in 2 .. n /\ i <= n + 1
        BY <1>1, <3>2
      <4> QED
        BY <1>7, <3>2, <4>1
    <3> QED
      BY <3>1, <3>2
  <2> QED
    BY <2>1
<1> DEFINE e == CHOOSE g : g = [i \in 1 .. n |->
                                   IF i = 1 THEN values[i] ELSE g[i - 1] \o values[i]]
<1>9. e = [i \in 1 .. n |-> IF i = 1 THEN values[i] ELSE e[i - 1] \o values[i]]
  BY <1>8
<1>10. Sequence!FlattenSeq(values) = e[n]
  BY <1>3
<1> HIDE DEF e
<1>11. e[1] = values[1] /\ \A i \in 2 .. n : e[i] = e[i - 1] \o values[i]
  <2>1. \A i \in 2 .. n : i \in 1 .. n /\ i # 1
    BY <1>1
  <2>2. 1 \in 1 .. n
    BY <1>1
  <2> QED
    BY <1>9, <2>1, <2>2
<1>12. e \in [1 .. n -> Seq(Nat)]
  <2> DEFINE Q == {m \in Nat : m + 1 <= n => e[m + 1] \in Seq(Nat)}
  <2>1. 0 \in Q
    BY <1>1, <1>11
  <2>2. ASSUME NEW m \in Nat, m \in Q PROVE m + 1 \in Q
    <3>1. CASE m + 2 <= n
      <4> DEFINE k == m + 2
      <4>1. e[m + 1] \in Seq(Nat) /\ k \in 2 .. n /\ k \in 1 .. n
            /\ k - 1 = m + 1 /\ (m + 1) + 1 = k
        BY <1>1, <2>2, <3>1
      <4> HIDE DEF k
      <4>2. values[k] \in Seq(Nat) /\ e[k] = e[k - 1] \o values[k]
        BY <1>1, <1>11, <4>1
      <4>3. e[k - 1] \in Seq(Nat)
        BY <4>1
      <4>4. e[k] \in Seq(Nat)
        BY <4>2, <4>3, ConcatProperties
      <4> QED
        BY <4>1, <4>4
    <3>2. CASE ~(m + 2 <= n)
      BY <3>2
    <3> QED
      BY <3>1, <3>2
  <2>3. Nat \subseteq Q
    <3> HIDE DEF Q
    <3> QED
      BY <2>1, <2>2, Induction
  <2>4. \A i \in 1 .. n : e[i] \in Seq(Nat)
    <3> TAKE i \in 1 .. n
    <3>1. i - 1 \in Nat /\ (i - 1) + 1 = i /\ i <= n
      BY <1>1
    <3>2. i - 1 \in Q
      BY <2>3, <3>1
    <3> QED
      BY <3>1, <3>2
  <2> QED
    BY <1>9, <2>4
<1> QED
  BY <1>10, <1>11, <1>12 DEF n

(* An element of the second sequence stands behind the first.                *)
LEMMA JoinedAfter ==
    ASSUME NEW a \in Seq(Nat), NEW b \in Seq(Nat), NEW l \in Nat, NEW m \in Nat,
           Len(a) = l, Len(b) = m, NEW k \in 1 .. m
    PROVE  (a \o b)[l + k] = b[k]
<1> DEFINE i == l + k
<1>1. i \in 1 .. l + m /\ ~(i <= l) /\ i - l = k
  OBVIOUS
<1> HIDE DEF i
<1>2. \A j \in 1 .. l + m : (a \o b)[j] = IF j <= l THEN a[j] ELSE b[j - l]
  BY ConcatProperties
<1>3. (a \o b)[i] = b[i - l]
  BY <1>1, <1>2
<1> QED
  BY <1>1, <1>3 DEF i

(* What stands where in two sequences put together.                           *)
LEMMA Joined ==
    ASSUME NEW a \in Seq(Nat), NEW b \in Seq(Nat), NEW l \in Nat, NEW m \in Nat,
           Len(a) = l, Len(b) = m
    PROVE  /\ a \o b \in Seq(Nat) /\ Len(a \o b) = l + m
           /\ \A p \in 1 .. l : (a \o b)[p] = a[p]
           /\ \A k \in 1 .. m : (a \o b)[l + k] = b[k]
<1>1. a \o b \in Seq(Nat) /\ Len(a \o b) = l + m
  BY ConcatProperties
<1>2. \A i \in 1 .. l + m : (a \o b)[i] = IF i <= l THEN a[i] ELSE b[i - l]
  BY ConcatProperties
<1>3. \A p \in 1 .. l : p \in 1 .. l + m /\ p <= l
  OBVIOUS
<1>4. \A p \in 1 .. l : (a \o b)[p] = a[p]
  BY <1>2, <1>3
<1>5. \A k \in 1 .. m : (a \o b)[l + k] = b[k]
  BY JoinedAfter
<1> QED
  BY <1>1, <1>4, <1>5

(* Of values that have the lengths the objects ask for, each is found where   *)
(* its object's bytes are.                                                    *)
LEMMA FieldsFound ==
    ASSUME NEW objects \in Seq([tag : Seq(Nat), length : 1 .. 255]), objects # <<>>,
           NEW values \in Seq(Seq(Nat)), Len(values) = Len(objects),
           \A i \in 1 .. Len(objects) : Len(values[i]) = objects[i].length
    PROVE  LET data == Sequence!FlattenSeq(values)
           IN  /\ data \in Seq(Nat) /\ Len(data) = Ends(objects)[Len(objects)]
               /\ \A i \in 1 .. Len(objects) :
                     SubSeq(data, Ends(objects)[i - 1] + 1, Ends(objects)[i]) = values[i]
<1> DEFINE n == Len(objects)
           end == Ends(objects)
<1>1. n \in Nat \ {0} /\ Len(values) = n
  BY EmptySeq
<1>2. values # <<>>
  <2>1. Len(values) # 0
    BY <1>1
  <2> QED
    BY <2>1, EmptySeq
<1>3. PICK flat \in [1 .. n -> Seq(Nat)] :
        /\ flat[1] = values[1]
        /\ \A i \in 2 .. n : flat[i] = flat[i - 1] \o values[i]
        /\ Sequence!FlattenSeq(values) = flat[n]
  BY <1>1, <1>2, FlattenDef
<1>4. /\ end \in [0 .. n -> Nat] /\ end[0] = 0
      /\ \A i \in 1 .. n : end[i] = end[i - 1] + Len(values[i])
  BY EndsDef
<1>5. \A i \in 1 .. n : values[i] \in Seq(Nat) /\ Len(values[i]) \in Nat
  <2> TAKE i \in 1 .. n
  <2>1. values[i] \in Seq(Nat)
    BY <1>1, ElementOfSeq
  <2> QED
    BY <2>1, LenProperties
<1> HIDE DEF n, end
<1>6. \A i \in 1 .. n : flat[i] \in Seq(Nat) /\ Len(flat[i]) = end[i]
  <2> DEFINE Q == {m \in Nat : m + 1 <= n => Len(flat[m + 1]) = end[m + 1]}
  <2>1. 0 \in Q
    <3>1. 1 \in 1 .. n /\ 1 - 1 = 0
      BY <1>1
    <3>2. end[1] = Len(values[1])
      BY <1>4, <1>5, <3>1
    <3>3. Len(flat[0 + 1]) = end[0 + 1]
      BY <1>3, <3>2
    <3> QED
      BY <3>3
  <2>2. ASSUME NEW m \in Nat, m \in Q PROVE m + 1 \in Q
    <3>1. CASE m + 2 <= n
      <4> DEFINE k == m + 2
      <4>1. k \in 2 .. n /\ k \in 1 .. n /\ k - 1 = m + 1 /\ (m + 1) + 1 = k
            /\ m + 1 \in 1 .. n /\ Len(flat[m + 1]) = end[m + 1]
        BY <1>1, <2>2, <3>1
      <4> HIDE DEF k
      <4>2. flat[k] = flat[k - 1] \o values[k] /\ end[k] = end[k - 1] + Len(values[k])
        BY <1>3, <1>4, <4>1
      <4>3. flat[k - 1] \in Seq(Nat) /\ values[k] \in Seq(Nat) /\ Len(flat[k - 1]) = end[k - 1]
        BY <1>3, <1>5, <4>1
      <4>4. end[k - 1] \in Nat /\ Len(values[k]) \in Nat
        BY <1>4, <1>5, <4>1
      <4>5. Len(flat[k - 1] \o values[k]) = end[k - 1] + Len(values[k])
        <5> DEFINE a == flat[k - 1]
                   b == values[k]
                   l == end[k - 1]
        <5>1. a \in Seq(Nat) /\ b \in Seq(Nat) /\ Len(a) = l /\ l \in Nat /\ Len(b) \in Nat
          BY <4>3, <4>4
        <5> HIDE DEF a, b, l
        <5>2. Len(a \o b) = l + Len(b)
          BY <5>1, Joined
        <5> QED
          BY <5>2 DEF a, b, l
      <4>6. Len(flat[k]) = end[k]
        BY <4>2, <4>5
      <4> QED
        BY <4>1, <4>6
    <3>2. CASE ~(m + 2 <= n)
      BY <3>2
    <3> QED
      BY <3>1, <3>2
  <2>3. Nat \subseteq Q
    <3> HIDE DEF Q
    <3> QED
      BY <2>1, <2>2, Induction
  <2> TAKE i \in 1 .. n
  <2>4. i - 1 \in Nat /\ (i - 1) + 1 = i /\ i <= n
    BY <1>1
  <2>5. i - 1 \in Q
    BY <2>3, <2>4
  <2> QED
    BY <1>3, <2>4, <2>5
<1>7. ASSUME NEW i \in 1 .. n
      PROVE  /\ end[i] <= end[n]
             /\ \A k \in 1 .. end[i] : flat[n][k] = flat[i][k]
  <2> DEFINE Begins(j) == end[i] <= end[j] /\ \A k \in 1 .. end[i] : flat[j][k] = flat[i][k]
             Q == {m \in Nat : i + m <= n => Begins(i + m)}
  <2>0. i \in Nat /\ end[i] \in Nat /\ i + 0 = i
    BY <1>1, <1>4
  <2>1. 0 \in Q
    <3>1. Begins(i)
      BY <2>0
    <3> QED
      BY <2>0, <3>1
  <2>2. ASSUME NEW m \in Nat, m \in Q PROVE m + 1 \in Q
    <3>1. CASE i + (m + 1) <= n
      <4> DEFINE j == i + m
                 k == i + (m + 1)
      <4>1. /\ j \in 1 .. n /\ k \in 2 .. n /\ k \in 1 .. n /\ k - 1 = j /\ j <= n
        BY <1>1, <3>1
      <4>2. Begins(j)
        BY <2>2, <4>1
      <4> HIDE DEF j, k
      <4>3. flat[k] = flat[j] \o values[k] /\ end[k] = end[j] + Len(values[k])
        BY <1>3, <1>4, <4>1
      <4>4. /\ flat[j] \in Seq(Nat) /\ Len(flat[j]) = end[j] /\ end[j] \in Nat
            /\ values[k] \in Seq(Nat) /\ Len(values[k]) \in Nat
        BY <1>4, <1>5, <1>6, <4>1
      <4>5. end[i] <= end[k]
        BY <2>0, <4>2, <4>3, <4>4
      <4>6. \A p \in 1 .. end[i] : flat[k][p] = flat[i][p]
        <5> TAKE p \in 1 .. end[i]
        <5>1. p \in 1 .. end[j]
          BY <2>0, <4>2, <4>4
        <5>2. (flat[j] \o values[k])[p] = flat[j][p]
          <6>1. \A q \in 1 .. end[j] : (flat[j] \o values[k])[q] = flat[j][q]
            BY <4>4, Joined, Zenon
          <6> QED
            BY <5>1, <6>1
        <5> QED
          BY <4>2, <4>3, <5>2
      <4>7. Begins(k)
        BY <4>5, <4>6
      <4> QED
        BY <4>7 DEF k
    <3>2. CASE ~(i + (m + 1) <= n)
      BY <3>2
    <3> QED
      BY <3>1, <3>2
  <2>3. Nat \subseteq Q
    <3> HIDE DEF Q
    <3> QED
      BY <2>1, <2>2, Induction
  <2>4. n - i \in Nat /\ i + (n - i) = n /\ n <= n
    BY <1>1
  <2>5. n - i \in Q
    BY <2>3, <2>4
  <2>6. Begins(n)
    BY <2>4, <2>5
  <2> QED
    BY <2>6
<1>8. ASSUME NEW i \in 1 .. n
      PROVE  SubSeq(flat[n], end[i - 1] + 1, end[i]) = values[i]
  <2> DEFINE b == end[i - 1]
             m == Len(values[i])
  <2>1. b \in Nat /\ m \in Nat /\ end[i] = b + m /\ n \in 1 .. n /\ i - 1 \in 0 .. n
    BY <1>1, <1>4, <1>5
  <2>2. \A k \in 1 .. m : flat[i][b + k] = values[i][k]
    <3>1. CASE i = 1
      BY <1>3, <1>4, <3>1
    <3>2. CASE i # 1
      <4>1. i \in 2 .. n /\ i - 1 \in 1 .. n
        BY <1>1, <3>2
      <4>2. /\ flat[i] = flat[i - 1] \o values[i]
            /\ flat[i - 1] \in Seq(Nat) /\ Len(flat[i - 1]) = b /\ values[i] \in Seq(Nat)
        BY <1>3, <1>5, <1>6, <4>1
      <4> DEFINE first == flat[i - 1]
                 second == values[i]
      <4>3. first \in Seq(Nat) /\ second \in Seq(Nat) /\ Len(first) = b /\ Len(second) = m
        BY <4>2
      <4> HIDE DEF first, second, b, m
      <4>4. ASSUME NEW k \in 1 .. m PROVE (first \o second)[b + k] = second[k]
        BY <2>1, <4>3, JoinedAfter
      <4> QED
        BY <4>2, <4>4 DEF first, second
    <3> QED
      BY <3>1, <3>2
  <2>3. /\ flat[n] \in Seq(Nat) /\ Len(flat[n]) = end[n]
        /\ \A k \in 1 .. m : flat[n][b + k] = flat[i][b + k]
    <3>1. flat[n] \in Seq(Nat) /\ Len(flat[n]) = end[n]
      BY <1>6, <2>1
    <3>2. \A k \in 1 .. m : b + k \in 1 .. end[i]
      BY <2>1
    <3> QED
      BY <1>7, <3>1, <3>2
  <2>4. values[i] = [k \in 1 .. m |-> values[i][k]]
    BY <1>5, LenProperties
  <2> HIDE DEF b, m
  <2>5. SubSeq(flat[n], b + 1, b + m) = [k \in 1 .. m |-> flat[n][b + k]]
    BY <2>1, <2>3
  <2>6. [k \in 1 .. m |-> flat[n][b + k]] = [k \in 1 .. m |-> values[i][k]]
    BY <2>2, <2>3
  <2> QED
    BY <2>1, <2>4, <2>5, <2>6 DEF b
<1> QED
  BY <1>1, <1>3, <1>6, <1>8 DEF n, end

----------------------------------------------------------------------------
(* What an object of a list is answered with: bytes of the length it asks     *)
(* for, which are the amount's or the TVR's for their tags.                   *)

LEMMA TagsDiffer == Amount # Tvr
<1>1. Len(Amount) = 2 /\ Len(Tvr) = 1
  BY DEF Amount, Tvr
<1> QED
  BY <1>1

LEMMA WholeValue ==
    ASSUME NEW value \in Seq(Byte), NEW n \in Nat \ {0}, Len(value) = n
    PROVE  SubSeq(value, 1, n) = value
<1>1. value = [i \in 1 .. n |-> value[i]] /\ \A i \in 1 .. n : value[i] \in Byte
  BY LenProperties, ElementOfSeq
<1>2. SubSeq(value, 1, n) = [i \in 1 .. n |-> value[i]]
  BY <1>1
<1> QED
  BY <1>1, <1>2

(* No byte is 256.                                                            *)
LEMMA BytesDoNotPanic == ASSUME NEW value \in Seq(Byte) PROVE value # Panics
<1>1. ASSUME value = Panics PROVE FALSE
  <2>1. Len(Panics) = 1 /\ Panics[1] = 256
    BY DEF Panics
  <2>2. 1 \in 1 .. Len(value)
    BY <1>1, <2>1
  <2>3. value[1] \in Byte
    BY <2>2, ElementOfSeq
  <2> QED
    BY <1>1, <2>1, <2>3 DEF Byte
<1> QED
  BY <1>1

LEMMA ObjectValueIs ==
    ASSUME NEW q, q.amount \in Seq(Digits), Len(q.amount) <= 12,
           NEW object \in [tag : Seq(Nat), length : 1 .. 255],
           object.tag = Amount => object.length = 6,
           object.tag = Tvr => object.length = 5
    PROVE  LET value == ObjectValue(object, Store(q))
           IN  /\ value \in Seq(Byte) /\ Len(value) = object.length
               /\ object.tag = Amount => value = ascii_to_bcd_n(q.amount, 6)
               /\ object.tag = Tvr => value = TvrBytes(q.tvr)
<1> DEFINE n == object.length
<1>1. n \in Nat \ {0} /\ n # 0
  <2>1. n \in 1 .. 255
    OBVIOUS
  <2> HIDE DEF n
  <2> QED
    BY <2>1
<1>2. DOMAIN Store(q) = {Amount, Tvr} /\ Store(q)[Amount] = ascii_to_bcd_n(q.amount, 6)
      /\ Store(q)[Tvr] = TvrBytes(q.tvr)
  BY TagsDiffer DEF Store
<1>3. /\ ascii_to_bcd_n(q.amount, 6) \in Seq(Byte) /\ Len(ascii_to_bcd_n(q.amount, 6)) = 6
      /\ TvrBytes(q.tvr) \in Seq(Byte) /\ Len(TvrBytes(q.tvr)) = 5
  BY AmountKept, TvrType
<1> DEFINE value == IF object.tag \in DOMAIN Store(q) THEN Store(q)[object.tag]
                    ELSE Fill(n, 0)
<1>4. /\ value \in Seq(Byte) /\ Len(value) = n
      /\ object.tag = Amount => value = ascii_to_bcd_n(q.amount, 6)
      /\ object.tag = Tvr => value = TvrBytes(q.tvr)
  <2>1. CASE object.tag = Amount
    BY <1>2, <1>3, <2>1, TagsDiffer
  <2>2. CASE object.tag = Tvr
    BY <1>2, <1>3, <2>2, TagsDiffer
  <2>3. CASE object.tag \notin {Amount, Tvr}
    <3>1. value = Fill(n, 0)
      BY <1>2, <2>3
    <3>2. 0 \in Byte
      BY DEF Byte
    <3> HIDE DEF n, value
    <3>3. Fill(n, 0) \in Seq(Byte) /\ Len(Fill(n, 0)) = n
      BY <1>1, <3>2, FillType
    <3> QED
      BY <2>3, <3>1, <3>3
  <2> QED
    BY <2>1, <2>2, <2>3
<1>5. ObjectValue(object, Store(q)) = IF n > Len(value) THEN Panics ELSE SubSeq(value, 1, n)
  BY <1>1 DEF ObjectValue
<1> HIDE DEF n, value
<1>6. ObjectValue(object, Store(q)) = value
  <2>1. ~(n > Len(value))
    BY <1>1, <1>4
  <2>2. SubSeq(value, 1, n) = value
    BY <1>1, <1>4, WholeValue
  <2> QED
    BY <1>5, <2>1, <2>2
<1> QED
  BY <1>4, <1>6 DEF n

(* The bytes of a list hold the amount and the TVR where the card, which      *)
(* knows the list, looks for them, whatever else the list asks for.           *)
LEMMA DataCarried ==
    ASSUME NEW q, CarriesData(q)
    PROVE  /\ DolData(q) \in Seq(Nat)
           /\ CardReadsDol(q.dol, DolData(q)) = TerminalMeans(q)
<1> DEFINE objects == process_data_object_list(q.dol)
           n == Len(objects)
           values == [i \in DOMAIN objects |-> ObjectValue(objects[i], Store(q))]
<1>1. /\ q.amount \in Seq(Digits) /\ Len(q.amount) <= 12 /\ q.tvr \in SUBSET TvrFields
      /\ objects \in Seq([tag : Seq(Nat), length : 1 .. 255])
      /\ \A i \in DOMAIN objects : /\ objects[i].tag = Amount => objects[i].length = 6
                                   /\ objects[i].tag = Tvr => objects[i].length = 5
  BY DEF CarriesData
<1>2. DolData(q) = get_tag_list_tag_values(objects, Store(q))
  BY DEF DolData
<1> HIDE DEF objects
<1>3. n \in Nat /\ DOMAIN objects = 1 .. n
      /\ \A i \in 1 .. n : objects[i] \in [tag : Seq(Nat), length : 1 .. 255]
  BY <1>1, LenProperties, ElementOfSeq
<1> HIDE DEF n
<1>4. ASSUME NEW i \in 1 .. n
      PROVE  /\ values[i] \in Seq(Byte) /\ Len(values[i]) = objects[i].length
             /\ objects[i].tag = Amount => values[i] = ascii_to_bcd_n(q.amount, 6)
             /\ objects[i].tag = Tvr => values[i] = TvrBytes(q.tvr)
             /\ values[i] # Panics /\ objects[i] # Broken
  <2> DEFINE object == objects[i]
             value == values[i]
  <2>1. object \in [tag : Seq(Nat), length : 1 .. 255]
        /\ (object.tag = Amount => object.length = 6) /\ (object.tag = Tvr => object.length = 5)
    BY <1>1, <1>3
  <2>2. value = ObjectValue(object, Store(q))
    BY <1>3
  <2> HIDE DEF object, value
  <2>3. /\ value \in Seq(Byte) /\ Len(value) = object.length
        /\ object.tag = Amount => value = ascii_to_bcd_n(q.amount, 6)
        /\ object.tag = Tvr => value = TvrBytes(q.tvr)
    BY <1>1, <2>1, <2>2, ObjectValueIs
  <2>4. value # Panics
    BY <2>3, BytesDoNotPanic
  <2>5. object # Broken
    <3>1. Broken.length = 0
      BY DEF Broken, DataObject
    <3>2. object.length # 0
      <4>1. object.length \in 1 .. 255
        BY <2>1
      <4>2. \A k \in 1 .. 255 : k # 0
        OBVIOUS
      <4> QED
        BY <4>1, <4>2
    <3> QED
      BY <3>1, <3>2
  <2> QED
    BY <2>3, <2>4, <2>5 DEF object, value
<1>5. DOMAIN values = 1 .. n
  BY <1>3
<1>6. DolData(q) = Sequence!FlattenSeq(values)
  BY <1>2, <1>3, <1>4 DEF get_tag_list_tag_values
<1> HIDE DEF values
<1>7. values \in Seq(Seq(Nat)) /\ Len(values) = n
  <2>1. Byte \subseteq Nat
    BY DEF Byte
  <2>2. Seq(Byte) \subseteq Seq(Nat)
    BY <2>1, SeqMonotonic
  <2>3. \A i \in 1 .. n : values[i] \in Seq(Nat)
    BY <1>4, <2>2
  <2>4. values = [i \in 1 .. n |-> values[i]]
    BY <1>5 DEF values
  <2> QED
    BY <1>3, <2>3, <2>4
<1> DEFINE data == DolData(q)
<1>8. /\ data \in Seq(Nat) /\ Len(data) = Ends(objects)[n]
      /\ \A i \in 1 .. n :
            SubSeq(data, Ends(objects)[i - 1] + 1, Ends(objects)[i]) = values[i]
  <2>1. CASE n = 0
    <3>1. values = <<>> /\ Len(values) = 0
      BY <1>7, <2>1, EmptySeq
    <3>2. data = <<>>
      BY <1>6, <3>1 DEF Sequence!FlattenSeq
    <3>3. Ends(objects)[0] = 0
      BY <1>1, EndsDef
    <3>4. \A i \in 1 .. n : FALSE
      BY <2>1
    <3> QED
      BY <2>1, <3>2, <3>3, <3>4, EmptySeq
  <2>2. CASE n # 0
    <3>1. objects # <<>>
      BY <2>2, EmptySeq DEF n
    <3>2. \A i \in 1 .. Len(objects) : Len(values[i]) = objects[i].length
      BY <1>4 DEF n
    <3> QED
      BY <1>1, <1>6, <1>7, <3>1, <3>2, FieldsFound DEF n
  <2> QED
    BY <2>1, <2>2
<1> HIDE DEF data
<1>9. ASSUME NEW tag, Asks(objects, tag)
      PROVE  \E i \in 1 .. n : objects[i].tag = tag /\ Field(objects, data, tag) = values[i]
  <2> DEFINE i == CHOOSE k \in DOMAIN objects : objects[k].tag = tag
  <2>1. i \in 1 .. n /\ objects[i].tag = tag
    BY <1>3, <1>9 DEF Asks
  <2>2. Field(objects, data, tag) = SubSeq(data, Ends(objects)[i - 1] + 1, Ends(objects)[i])
    BY DEF Field
  <2> HIDE DEF i
  <2> QED
    BY <1>8, <2>1, <2>2
<1>10. Asks(objects, Amount) =>
          Nibbles(Field(objects, data, Amount)) = Fill(12 - Len(q.amount), 0) \o q.amount
  <2>1. Asks(objects, Amount) => Field(objects, data, Amount) = ascii_to_bcd_n(q.amount, 6)
    BY <1>4, <1>9
  <2> QED
    BY <1>1, <2>1, AmountKept
<1>11. Asks(objects, Tvr) => TvrFrom(Field(objects, data, Tvr)) = q.tvr
  <2>1. Asks(objects, Tvr) => Field(objects, data, Tvr) = TvrBytes(q.tvr)
    BY <1>4, <1>9
  <2> QED
    BY <1>1, <2>1, TvrKept
<1>12. CardReadsDol(q.dol, data) =
          [amount |-> IF Asks(objects, Amount)
                      THEN {Nibbles(Field(objects, data, Amount))} ELSE {},
           tvr |-> IF Asks(objects, Tvr)
                   THEN {TvrFrom(Field(objects, data, Tvr))} ELSE {},
           length |-> Len(data)]
  BY DEF CardReadsDol, objects
<1>13. TerminalMeans(q) =
          [amount |-> IF Asks(objects, Amount)
                      THEN {Fill(12 - Len(q.amount), 0) \o q.amount} ELSE {},
           tvr |-> IF Asks(objects, Tvr) THEN {q.tvr} ELSE {},
           length |-> Ends(objects)[n]]
  BY DEF TerminalMeans, objects, n
<1> DEFINE read == IF Asks(objects, Amount)
                   THEN {Nibbles(Field(objects, data, Amount))} ELSE {}
           meant == IF Asks(objects, Amount)
                    THEN {Fill(12 - Len(q.amount), 0) \o q.amount} ELSE {}
           readTvr == IF Asks(objects, Tvr)
                      THEN {TvrFrom(Field(objects, data, Tvr))} ELSE {}
           meantTvr == IF Asks(objects, Tvr) THEN {q.tvr} ELSE {}
<1>14. read = meant /\ readTvr = meantTvr
  BY <1>10, <1>11, Zenon
<1>15. CardReadsDol(q.dol, data) = [amount |-> read, tvr |-> readTvr, length |-> Len(data)]
       /\ TerminalMeans(q) = [amount |-> meant, tvr |-> meantTvr, length |-> Ends(objects)[n]]
  BY <1>12, <1>13, Zenon
<1> HIDE DEF read, meant, readTvr, meantTvr
<1>16. CardReadsDol(q.dol, data) = TerminalMeans(q)
  BY <1>8, <1>14, <1>15
<1> QED
  BY <1>8, <1>16 DEF data

----------------------------------------------------------------------------
(* What a card understands of a command whose last byte may be another.       *)

LEMMA CorrectedIs ==
    ASSUME NEW c \in Commands, NEW n \in Nat
    PROVE  LET d == Corrected(c, n)
               last == Len(c.body)
           IN  /\ d.ins = c.ins /\ d.p = c.p /\ d.le = c.le
               /\ d.body \in Seq(Nat) /\ Len(d.body) = last /\ last \in Nat \ {0}
               /\ d.body[last] = n
               /\ \A i \in 1 .. last - 1 : d.body[i] = c.body[i]
               /\ [d EXCEPT !.body[last] = LastByte(c)] = c
               /\ Corrected(c, LastByte(c)) = c /\ LastByte(c) \in Nat
<1> DEFINE s == c.body
           last == Len(s)
           body == [s EXCEPT ![last] = n]
<1>1. /\ c = [ins |-> c.ins, p |-> c.p, body |-> s, le |-> c.le]
      /\ s \in Seq(Nat) /\ s # <<>>
  BY ExchangeAssumption
<1> HIDE DEF s
<1>2. /\ last \in Nat \ {0} /\ last \in 1 .. last /\ last # 0
      /\ s = [i \in 1 .. last |-> s[i]] /\ s[last] \in Nat
  <2>1. last \in Nat /\ last # 0
    BY <1>1, EmptySeq, LenProperties
  <2>2. s = [i \in 1 .. last |-> s[i]]
    BY <1>1, LenProperties
  <2> HIDE DEF last
  <2>3. last \in 1 .. last
    BY <2>1
  <2> QED
    BY <1>1, <2>1, <2>2, <2>3, ElementOfSeq DEF last
<1>3. body \in Seq(Nat) /\ Len(body) = last
  BY <1>1, <1>2, ExceptSeq
<1>4. body = [i \in 1 .. last |-> IF i = last THEN n ELSE s[i]]
  BY <1>2
<1>5. body[last] = n /\ \A i \in 1 .. last - 1 : body[i] = s[i]
  <2>1. \A i \in 1 .. last - 1 : i \in 1 .. last /\ i # last
    BY <1>2
  <2> QED
    BY <1>2, <1>4, <2>1
<1>6. [body EXCEPT ![last] = s[last]] = s /\ [s EXCEPT ![last] = s[last]] = s
  BY <1>2, <1>4
<1>7. LastByte(c) = s[last]
  BY DEF LastByte, s
<1>8. Corrected(c, n) = [ins |-> c.ins, p |-> c.p, body |-> body, le |-> c.le]
  <2>1. Corrected(c, n) = [c EXCEPT !.body = body]
    BY DEF Corrected, s
  <2> HIDE DEF body
  <2> QED
    BY <1>1, <2>1
<1>9. [Corrected(c, n) EXCEPT !.body[last] = LastByte(c)] = c
  <2>1. Corrected(c, n).body = body
    BY <1>8
  <2>2. [Corrected(c, n) EXCEPT !.body[last] = s[last]]
           = [Corrected(c, n) EXCEPT !.body = [body EXCEPT ![last] = s[last]]]
    BY <2>1
  <2> HIDE DEF body
  <2>3. [Corrected(c, n) EXCEPT !.body = s] = [ins |-> c.ins, p |-> c.p, body |-> s, le |-> c.le]
    BY <1>8
  <2> QED
    BY <1>1, <1>6, <1>7, <2>2, <2>3
<1>10. Corrected(c, LastByte(c)) = c
  <2>1. Corrected(c, LastByte(c)) = [c EXCEPT !.body = [s EXCEPT ![last] = s[last]]]
    BY <1>7 DEF Corrected, s
  <2>2. [c EXCEPT !.body = s] = c
    BY <1>1
  <2> QED
    BY <1>6, <2>1, <2>2
<1> HIDE DEF body
<1>11. /\ Corrected(c, n).ins = c.ins /\ Corrected(c, n).p = c.p
       /\ Corrected(c, n).le = c.le /\ Corrected(c, n).body = body
  BY <1>8
<1> QED
  BY <1>2, <1>3, <1>5, <1>7, <1>9, <1>10, <1>11 DEF s

(* Without its last byte it is as it was made.                                *)
LEMMA LastByteOff ==
    ASSUME NEW s \in Seq(Nat), NEW m \in Nat, NEW b \in Seq(Nat),
           Len(b) = Len(Append(s, m)),
           \A i \in 1 .. Len(Append(s, m)) - 1 : b[i] = Append(s, m)[i]
    PROVE  SubSeq(b, 1, Len(b) - 1) = s
<1> DEFINE n == Len(s)
<1>1. /\ n \in Nat /\ Len(Append(s, m)) = n + 1 /\ s = [i \in 1 .. n |-> s[i]]
      /\ \A i \in 1 .. n : Append(s, m)[i] = s[i]
  BY LenProperties, AppendProperties
<1> HIDE DEF n
<1>2. (n + 1) - 1 = n /\ Len(b) = n + 1
  BY <1>1
<1>3. \A i \in 1 .. n : b[i] = s[i]
  BY <1>1, <1>2
<1>4. SubSeq(b, 1, n) = [i \in 1 .. n |-> b[i]]
  BY <1>1
<1>5. [i \in 1 .. n |-> b[i]] = [i \in 1 .. n |-> s[i]]
  BY <1>3
<1> QED
  BY <1>1, <1>2, <1>4, <1>5

(* The template of GET PROCESSING OPTIONS: its tag, its length and its data.  *)
LEMMA TemplateParts ==
    ASSUME NEW data \in Seq(Nat)
    PROVE  LET template == <<131, Len(data)>> \o data
           IN  /\ template \in Seq(Nat) /\ template[1] = 131
               /\ template[2] = Len(template) - 2
               /\ SubSeq(template, 3, Len(template)) = data
<1> DEFINE n == Len(data)
           head == <<131, n>>
           template == head \o data
<1>1. n \in Nat /\ data = [i \in 1 .. n |-> data[i]] /\ Len(data) = n
  BY LenProperties
<1> HIDE DEF n
<1>2. head \in Seq(Nat) /\ Len(head) = 2 /\ head[1] = 131 /\ head[2] = n
  BY <1>1
<1> HIDE DEF head
<1>3. /\ template \in Seq(Nat) /\ Len(template) = 2 + n
      /\ \A p \in 1 .. 2 : template[p] = head[p]
      /\ \A k \in 1 .. n : template[2 + k] = data[k]
  <2> DEFINE l == 2
  <2>1. head \in Seq(Nat) /\ data \in Seq(Nat) /\ Len(head) = l /\ l \in Nat
        /\ n \in Nat /\ Len(data) = n
    BY <1>1, <1>2
  <2> HIDE DEF l
  <2>2. head \o data \in Seq(Nat) /\ Len(head \o data) = l + n
    BY <2>1, Joined
  <2>3. \A p \in 1 .. l : (head \o data)[p] = head[p]
    BY <2>1, Joined
  <2>4. ASSUME NEW k \in 1 .. n PROVE (head \o data)[l + k] = data[k]
    BY <2>1, JoinedAfter
  <2> QED
    BY <2>2, <2>3, <2>4 DEF l
<1> HIDE DEF template
<1>4. template[1] = 131 /\ template[2] = n /\ n = Len(template) - 2
  BY <1>1, <1>2, <1>3
<1>5. SubSeq(template, 3, 2 + n) = [k \in 1 .. n |-> template[2 + k]]
  BY <1>1, <1>3
<1>6. [k \in 1 .. n |-> template[2 + k]] = [k \in 1 .. n |-> data[k]]
  BY <1>3
<1> QED
  BY <1>1, <1>3, <1>4, <1>5, <1>6 DEF template, head, n

LEMMA Fields ==
    ASSUME NEW ins, NEW p, NEW body, NEW le, NEW d,
           d = [ins |-> ins, p |-> p, body |-> body, le |-> le]
    PROVE  d.ins = ins /\ d.p = p /\ d.body = body /\ d.le = le
OBVIOUS

LEMMA KindsDiffer ==
    ASSUME NEW q
    PROVE  /\ q.kind = "verify" => Command(q) = handle_verify_plaintext_pin(q)
           /\ q.kind = "generate_ac" => Command(q) = send_generate_ac(q)
           /\ q.kind = "get_processing_options" =>
                 Command(q) = handle_get_processing_options(q)
           /\ q.kind = "read_record" => Command(q) = read_record(q)
           /\ q.kind = "get_data" => Command(q) = handle_get_data(q)
BY DEF Command

(* The right PIN, cryptogram, data, record or tag: the card understands a     *)
(* command with another last byte unless it is one without Le that is no      *)
(* VERIFY.                                                                    *)
LEMMA CommandUnderstood ==
    ASSUME NEW q \in Requests, NEW n \in Nat, NEW c, c = Corrected(Command(q), n),
           Command(q).le \/ q.kind = "verify" \/ c = Command(q)
    PROVE  Understood(q, c)
<1> DEFINE d == Command(q)
           last == Len(d.body)
<1>1. d \in Commands
  BY CommandAssumption
<1>2. \/ q.kind = "verify" /\ q.pin \in Seq(Digits) /\ Len(q.pin) <= 12
      \/ q.kind = "generate_ac" /\ CarriesData(q)
      \/ q.kind = "get_processing_options" /\ (q.dol # <<>> => CarriesData(q))
      \/ q.kind = "read_record" /\ q.file \in Nat
      \/ q.kind = "get_data"
  BY CommandAssumption
<1> HIDE DEF d
<1>3. /\ c.ins = d.ins /\ c.p = d.p /\ c.le = d.le
      /\ c.body \in Seq(Nat) /\ Len(c.body) = last /\ last \in Nat \ {0}
      /\ \A i \in 1 .. last - 1 : c.body[i] = d.body[i]
  BY <1>1, CorrectedIs DEF d
<1>4. CASE q.kind = "verify" /\ q.pin \in Seq(Digits) /\ Len(q.pin) <= 12
  <2>1. d.ins = "VERIFY" /\ d.body = PinBlock(q.pin)
    BY <1>4, KindsDiffer DEF d, handle_verify_plaintext_pin
  <2>2. Len(PinBlock(q.pin)) = 8
    BY <1>4, PinBlockLength
  <2>3. last = 8 /\ \A i \in 1 .. 7 : c.body[i] = PinBlock(q.pin)[i]
    BY <1>3, <2>1, <2>2
  <2>4. CardReadsPin(c) = q.pin
    BY <1>3, <1>4, <2>3, PinKept DEF CardReadsPin
  <2> QED
    BY <1>3, <1>4, <2>1, <2>4 DEF Understood
<1>5. ASSUME NEW data \in Seq(Nat), d.body = Append(data, 0), d.le = TRUE
      PROVE  WithoutLe(c) = data
  <2>1. SubSeq(c.body, 1, Len(c.body) - 1) = data
    BY <1>3, <1>5, LastByteOff
  <2> QED
    BY <1>3, <1>5, <2>1 DEF WithoutLe
<1>6. CASE q.kind = "generate_ac" /\ CarriesData(q)
  <2>1. /\ d.ins = "GENERATE AC" /\ d.p = <<q.cryptogram, 0>>
        /\ d.body = Append(DolData(q), 0) /\ d.le = TRUE
    <3>1. d = send_generate_ac(q)
      BY <1>6, KindsDiffer DEF d
    <3> QED
      BY <3>1, Fields, Zenon DEF send_generate_ac
  <2>2. DolData(q) \in Seq(Nat) /\ CardReadsDol(q.dol, DolData(q)) = TerminalMeans(q)
    BY <1>6, DataCarried
  <2>3. WithoutLe(c) = DolData(q)
    BY <1>5, <2>1, <2>2
  <2>4. c.p[1] = q.cryptogram
    <3>1. c.p = <<q.cryptogram, 0>>
      BY <1>3, <2>1, Zenon
    <3> DEFINE p == c.p
               a == q.cryptogram
    <3>2. p = <<a, 0>>
      BY <3>1
    <3> HIDE DEF p, a
    <3>3. p[1] = a
      BY <3>2
    <3> QED
      BY <3>3 DEF p, a
  <2> QED
    BY <1>3, <1>6, <2>1, <2>2, <2>3, <2>4 DEF Understood
<1>7. CASE q.kind = "get_processing_options" /\ (q.dol # <<>> => CarriesData(q))
  <2> DEFINE template == WithoutLe(c)
  <2>1. /\ d.ins = "GET PROCESSING OPTIONS" /\ d.le = (q.dol # <<>>)
        /\ d.body = IF q.dol = <<>> THEN <<131, 0>>
                    ELSE Append(<<131, Len(DolData(q))>> \o DolData(q), 0)
    <3>1. d = handle_get_processing_options(q)
      BY <1>7, KindsDiffer DEF d
    <3> QED
      BY <3>1, Fields, Zenon DEF handle_get_processing_options
  <2>2. CASE q.dol = <<>>
    <3>1. c = d
      BY <1>7, <2>1, <2>2 DEF d
    <3>2. template = <<131, 0>>
      BY <2>1, <2>2, <3>1 DEF WithoutLe
    <3>3. template[1] = 131 /\ template[2] = Len(template) - 2
      BY <3>2
    <3> HIDE DEF template
    <3> QED
      BY <1>3, <1>7, <2>1, <2>2, <3>3 DEF Understood, template
  <2>3. CASE q.dol # <<>>
    <3> DEFINE data == DolData(q)
    <3>1. data \in Seq(Nat) /\ CardReadsDol(q.dol, data) = TerminalMeans(q)
      BY <1>7, <2>3, DataCarried
    <3>2. d.body = Append(<<131, Len(data)>> \o data, 0) /\ d.le = TRUE
      BY <2>1, <2>3
    <3> HIDE DEF data
    <3>3. /\ <<131, Len(data)>> \o data \in Seq(Nat)
          /\ LET t == <<131, Len(data)>> \o data
             IN  /\ t[1] = 131 /\ t[2] = Len(t) - 2
                 /\ SubSeq(t, 3, Len(t)) = data
      BY <3>1, TemplateParts
    <3>4. template = <<131, Len(data)>> \o data
      BY <1>5, <3>2, <3>3
    <3>5. /\ template[1] = 131 /\ template[2] = Len(template) - 2
          /\ CardReadsDol(q.dol, SubSeq(template, 3, Len(template))) = TerminalMeans(q)
      BY <3>1, <3>3, <3>4
    <3> HIDE DEF template
    <3> QED
      BY <1>3, <1>7, <2>1, <3>5 DEF Understood, template
  <2> QED
    BY <2>2, <2>3
<1>8. CASE q.kind = "read_record" /\ q.file \in Nat
  <2>1. d.ins = "READ RECORD" /\ d.p = <<q.record, (8 * q.file) + 4>>
    <3>1. d = read_record(q)
      BY <1>8, KindsDiffer DEF d
    <3> QED
      BY <3>1, Fields, Zenon DEF read_record
  <2>2. c.p[1] = q.record /\ c.p[2] = (8 * q.file) + 4
    <3>1. c.p = <<q.record, (8 * q.file) + 4>>
      BY <1>3, <2>1, Zenon
    <3> DEFINE p == c.p
               a == q.record
               b == (8 * q.file) + 4
    <3>2. p = <<a, b>>
      BY <3>1
    <3> HIDE DEF p, a, b
    <3>3. p[1] = a /\ p[2] = b
      BY <3>2
    <3> QED
      BY <3>3 DEF p, a, b
  <2>3. ((8 * q.file) + 4) \div 8 = q.file /\ ((8 * q.file) + 4) % 8 = 4
    BY <1>8
  <2> QED
    BY <1>3, <1>8, <2>1, <2>2, <2>3 DEF Understood
<1>9. CASE q.kind = "get_data"
  <2>1. d.ins = "GET DATA" /\ d.p = q.tag
    <3>1. d = handle_get_data(q)
      BY <1>9, KindsDiffer DEF d
    <3> QED
      BY <3>1, Fields, Zenon DEF handle_get_data
  <2> QED
    BY <1>3, <1>9, <2>1 DEF Understood
<1> QED
  BY <1>2, <1>4, <1>6, <1>7, <1>8, <1>9

----------------------------------------------------------------------------
(* What is under way is the handler's command, with another last byte at most. *)

(* Made of the handler's command by 6Cxx, which an obeying card answers only  *)
(* to a command with Le.                                                      *)
Derived(c) ==
    /\ \E n \in Nat : c = Corrected(apdu, n)
    /\ obeys /\ ~apdu.le => c = apdu

ForTheRequest ==
    /\ apdu = NoCommand => request = NoRequest
    /\ apdu # NoCommand =>
          /\ request \in Requests /\ apdu = Command(request)
          /\ Fetching \/ Derived(apdu_command)
          /\ \A i \in 1 .. Len(performed) : Derived(performed[i])

(* An obeying card performs a command once, any other once per answer.        *)
Bounded ==
    rounds \in 0 .. MaxRounds /\ Len(performed) <= (IF obeys THEN 1 ELSE rounds)

(* What is gathered and what the card still has are its reply.                *)
Begun ==
    obeys /\ apdu # NoCommand =>
        response_data = <<>> \/ response_data \o pending = reply.data

CommandInv == ExchangeInv /\ ForTheRequest /\ Bounded /\ Begun

LEMMA SentAsItIs == ASSUME apdu \in Commands PROVE Derived(apdu)
<1>1. Corrected(apdu, LastByte(apdu)) = apdu /\ LastByte(apdu) \in Nat
  <2>1. 0 \in Nat
    OBVIOUS
  <2> QED
    BY <2>1, CorrectedIs
<1> QED
  BY <1>1 DEF Derived

(* The next command to be sent after an answer.                               *)
LEMMA NextCommand ==
    ASSUME apdu \in Commands, Fetching \/ Derived(apdu_command),
           NEW a, a.sw2 \in Nat, Receive(a), UNCHANGED obeys,
           a.sw1 = "6C" /\ obeys => apdu.le
    PROVE  Fetching' \/ Derived(apdu_command)'
<1>1. UNCHANGED apdu
  BY DEF Receive
<1>2. CASE apdu_command' = GetResponse(More(a.sw2))
  BY <1>2 DEF GetResponse, Fetching
<1>3. CASE apdu_command' = Corrected(apdu, a.sw2) /\ a.sw1 = "6C"
  BY <1>1, <1>3 DEF Derived
<1>4. CASE UNCHANGED apdu_command
  BY <1>1, <1>4 DEF Fetching, Derived
<1> QED
  BY <1>2, <1>3, <1>4 DEF Receive

(* A card performs the command that was sent.                                 *)
LEMMA PerformedDerived ==
    ASSUME ForTheRequest, Sound, apdu # NoCommand, ~Fetching,
           UNCHANGED <<apdu, obeys>>, performed' = Append(performed, apdu_command)
    PROVE  /\ \A i \in 1 .. Len(performed') : Derived(performed[i])'
           /\ Len(performed') = Len(performed) + 1 /\ Len(performed) \in Nat
<1>1. performed \in Seq(Sendable) /\ apdu_command \in Sendable
  BY DEF Sound
<1>2. Derived(apdu_command) /\ \A i \in 1 .. Len(performed) : Derived(performed[i])
  BY DEF ForTheRequest
<1> DEFINE n == Len(performed)
<1>3. /\ n \in Nat /\ Len(performed') = n + 1 /\ performed'[n + 1] = apdu_command
      /\ \A i \in 1 .. n : performed'[i] = performed[i]
  BY <1>1, AppendProperties, LenProperties
<1> HIDE DEF n
<1>4. ASSUME NEW i \in 1 .. n + 1
      PROVE  Derived(performed[i])'
  <2>1. Derived(performed'[i])
    <3>1. CASE i = n + 1
      BY <1>2, <1>3, <3>1
    <3>2. CASE i \in 1 .. n
      BY <1>2, <1>3, <3>2 DEF n
    <3> QED
      BY <1>3, <3>1, <3>2
  <2> QED
    BY <2>1 DEF Derived
<1> QED
  BY <1>3, <1>4 DEF n

(* What a step leaves as it is stays derived.                                 *)
LEMMA PerformedSame ==
    ASSUME ForTheRequest, apdu # NoCommand, UNCHANGED <<apdu, obeys, performed>>
    PROVE  \A i \in 1 .. Len(performed') : Derived(performed[i])'
BY DEF ForTheRequest, Derived

(* The part handed out goes from what the card has to what is gathered.       *)
LEMMA HandedOver ==
    ASSUME Sound, NEW left \in Seq(Nat), NEW n \in 0 .. Len(left),
           response_data \o left = reply.data, HandsOut(left, n)
    PROVE  response_data' \o pending' = reply'.data
<1> DEFINE part == SubSeq(left, 1, n)
           rest == SubSeq(left, n + 1, Len(left))
<1>1. part \in Seq(Nat) /\ rest \in Seq(Nat) /\ part \o rest = left
  BY Divide
<1>2. response_data' = response_data \o part /\ pending' = rest /\ reply' = reply
  BY DEF HandsOut, Receive, Gathered, Portion
<1> HIDE DEF part, rest
<1>3. (response_data \o part) \o rest = response_data \o (part \o rest)
  BY <1>1, Associative DEF Sound
<1> QED
  BY <1>1, <1>2, <1>3

(* A part of the reply never comes with 6Cxx.                                 *)
LEMMA PortionStatus ==
    ASSUME reply \in Replies, NEW left \in Seq(Nat), NEW n \in 0 .. Len(left)
    PROVE  Portion(left, n).sw1 # "6C" /\ Portion(left, n).sw2 \in Nat
<1>1. reply.status \in {"success", "failure"}
  BY RepliesType
<1>2. Portion(left, n).sw1 \in {reply.status, "61"}
  BY DEF Portion
<1>3. Len(left) \in Nat
  BY LenProperties
<1>4. Len(left) - n \in Nat
  BY <1>3, Left
<1>5. Portion(left, n).sw2 \in {0, Len(left) - n}
  BY DEF Portion, Announced
<1> QED
  BY <1>1, <1>2, <1>4, <1>5

----------------------------------------------------------------------------
(* The invariant is kept. *)

LEMMA InitCommand == CommandInit => CommandInv
<1> SUFFICES ASSUME CommandInit PROVE CommandInv
  OBVIOUS
<1>1. ExchangeInv
  BY InitExchange DEF CommandInit
<1>2. Len(<<>>) = 0 /\ MaxRounds \in Nat
  BY EmptySeq, ExchangeAssumption
<1>3. ForTheRequest /\ Begun
  BY DEF CommandInit, Init, ForTheRequest, Begun
<1>4. rounds = 0 /\ Len(performed) = 0
  BY <1>2 DEF CommandInit, Init
<1>5. Bounded
  BY <1>2, <1>4 DEF Bounded
<1> QED
  BY <1>1, <1>3, <1>5 DEF CommandInv

LEMMA AskStep ==
    ASSUME CommandInv, NEW q \in Requests, NEW r \in Replies, Ask(q, r)
    PROVE  CommandInv'
<1>1. Command(q) \in Commands /\ Command(q) # NoCommand
  BY CommandAssumption, CommandsSendable
<1>2. SendApdu(Command(q), r) /\ request' = q
  BY DEF Ask
<1>3. ExchangeInv'
  BY <1>1, <1>2, SendStep DEF CommandInv
<1>4. /\ apdu = NoCommand /\ apdu' = Command(q) /\ apdu_command' = Command(q)
      /\ UNCHANGED <<response_data, obeys, pending, performed, rounds>>
  BY <1>2 DEF SendApdu
<1>5. response_data' = <<>> /\ performed' = <<>>
  BY <1>4 DEF CommandInv, ExchangeInv, AtRest
<1>6. Derived(apdu_command)'
  <2>1. \E n \in Nat : Command(q) = Corrected(Command(q), n)
    <3>1. 0 \in Nat
      OBVIOUS
    <3>2. Corrected(Command(q), LastByte(Command(q))) = Command(q)
          /\ LastByte(Command(q)) \in Nat
      BY <1>1, <3>1, CorrectedIs
    <3> QED
      BY <3>2
  <2> QED
    BY <1>4, <2>1 DEF Derived
<1>7. ForTheRequest'
  <2>1. \A i \in 1 .. Len(performed') : FALSE
    <3>1. Len(performed') = 0
      BY <1>5, EmptySeq
    <3> QED
      BY <3>1
  <2> QED
    BY <1>1, <1>2, <1>4, <1>6, <2>1 DEF ForTheRequest
<1>8. Bounded' /\ Begun'
  BY <1>4, <1>5 DEF CommandInv, Bounded, Begun
<1> QED
  BY <1>3, <1>7, <1>8 DEF CommandInv

LEMMA AnsweredStep ==
    ASSUME CommandInv, Answered
    PROVE  CommandInv'
<1>1. /\ Return /\ request' = NoRequest /\ apdu' = NoCommand /\ performed' = <<>>
      /\ rounds' = 0
  BY DEF Answered, Return
<1>2. ExchangeInv'
  BY <1>1, ReturnStep DEF CommandInv
<1>3. ForTheRequest' /\ Begun'
  BY <1>1 DEF ForTheRequest, Begun
<1>4. Len(performed') = 0 /\ MaxRounds \in Nat
  BY <1>1, EmptySeq, ExchangeAssumption
<1>5. Bounded'
  BY <1>1, <1>4 DEF Bounded
<1> QED
  BY <1>2, <1>3, <1>5 DEF CommandInv

LEMMA RefusedStep ==
    ASSUME CommandInv, Refuse, UNCHANGED request
    PROVE  ForTheRequest' /\ Bounded' /\ Begun'
<1> DEFINE sw2 == Announced(Len(reply.data))
           a == [data |-> <<>>, sw1 |-> "6C", sw2 |-> sw2]
<1>1. /\ AtCard /\ obeys /\ ~Fetching /\ apdu # NoCommand /\ apdu_command.le
      /\ Receive(a) /\ UNCHANGED card
  BY DEF Refuse, AtCard
<1>2. Sound /\ Untried /\ ForTheRequest /\ apdu \in Commands /\ reply \in Replies
  BY <1>1 DEF CommandInv, ExchangeInv, Whole, Divided, Sound
<1>3. UNCHANGED <<apdu, obeys, performed, pending, reply, rounds>>
  BY <1>1 DEF Receive, card
<1>4. Derived(apdu_command)
  BY <1>1, <1>2 DEF ForTheRequest
<1>5. apdu.le
  BY <1>1, <1>2, <1>4, CorrectedIs DEF Derived
<1>6. sw2 \in Nat
  <2>1. Len(reply.data) \in Nat
    BY <1>2, RepliesType, LenProperties
  <2> QED
    BY <2>1 DEF Announced
<1>7. a.sw2 \in Nat
  BY <1>6
<1> HIDE DEF a, sw2
<1>8. Fetching' \/ Derived(apdu_command)'
  BY <1>1, <1>2, <1>3, <1>4, <1>5, <1>7, NextCommand
<1>9. \A i \in 1 .. Len(performed') : Derived(performed[i])'
  BY <1>1, <1>2, <1>3, PerformedSame
<1>10. ForTheRequest'
  BY <1>1, <1>2, <1>3, <1>8, <1>9 DEF ForTheRequest
<1>11. Bounded'
  BY <1>3 DEF CommandInv, Bounded
<1>12. response_data' = <<>>
  BY <1>1, <1>2, ConcatEmptySeq DEF a, Receive, Gathered, Untried, Sound
<1> QED
  BY <1>10, <1>11, <1>12 DEF Begun

LEMMA PerformedStep ==
    ASSUME CommandInv, NEW n \in 0 .. Len(reply.data), Perform(n), UNCHANGED request
    PROVE  ForTheRequest' /\ Bounded' /\ Begun'
<1> DEFINE a == Portion(reply.data, n)
<1>1. /\ AtCard /\ obeys /\ ~Fetching /\ apdu # NoCommand
      /\ HandsOut(reply.data, n) /\ performed' = Append(performed, apdu_command)
  BY DEF Perform, AtCard
<1>2. Sound /\ Untried /\ ForTheRequest /\ apdu \in Commands /\ reply \in Replies
  BY <1>1 DEF CommandInv, ExchangeInv, Whole, Divided, Sound
<1>3. Receive(a) /\ UNCHANGED <<apdu, obeys, reply, rounds>>
  BY <1>1 DEF HandsOut, Receive
<1>4. reply.data \in Seq(Nat)
  BY <1>2, RepliesType
<1>5. a.sw1 # "6C" /\ a.sw2 \in Nat
  BY <1>2, <1>4, PortionStatus
<1> HIDE DEF a
<1>6. Fetching' \/ Derived(apdu_command)'
  BY <1>1, <1>2, <1>3, <1>5, NextCommand DEF ForTheRequest
<1>7. /\ \A i \in 1 .. Len(performed') : Derived(performed[i])'
      /\ Len(performed') = Len(performed) + 1
  BY <1>1, <1>2, <1>3, PerformedDerived
<1>8. ForTheRequest'
  BY <1>1, <1>2, <1>3, <1>6, <1>7 DEF ForTheRequest
<1>9. Bounded'
  <2>1. Len(performed) = 0
    BY <1>2, EmptySeq DEF Untried
  <2>2. Len(performed') = 1
    BY <1>7, <2>1
  <2> QED
    BY <1>1, <1>3, <2>2 DEF CommandInv, Bounded
<1>10. Begun'
  <2>1. response_data \o reply.data = reply.data
    BY <1>2, <1>4, ConcatEmptySeq DEF Untried
  <2>2. response_data' \o pending' = reply'.data
    BY <1>1, <1>2, <1>4, <2>1, HandedOver
  <2> QED
    BY <2>2 DEF Begun
<1> QED
  BY <1>8, <1>9, <1>10

LEMMA ContinuedStep ==
    ASSUME CommandInv, NEW n \in 1 .. Len(pending), Continue(n), UNCHANGED request
    PROVE  ForTheRequest' /\ Bounded' /\ Begun'
<1> DEFINE a == Portion(pending, n)
<1>1. /\ AtCard /\ obeys /\ Fetching /\ apdu # NoCommand
      /\ HandsOut(pending, n) /\ UNCHANGED performed
  BY DEF Continue, AtCard
<1>2. Sound /\ Divided /\ ForTheRequest /\ apdu \in Commands /\ reply \in Replies
  BY <1>1 DEF CommandInv, ExchangeInv, Whole, Untried, Sound
<1>3. Receive(a) /\ UNCHANGED <<apdu, obeys, reply, rounds>>
  BY <1>1 DEF HandsOut, Receive
<1>4. pending \in Seq(Nat) /\ n \in 0 .. Len(pending)
  BY <1>2, LenProperties DEF Sound
<1>5. a.sw1 # "6C" /\ a.sw2 \in Nat
  BY <1>2, <1>4, PortionStatus
<1> HIDE DEF a
<1>6. Fetching' \/ Derived(apdu_command)'
  BY <1>1, <1>2, <1>3, <1>5, NextCommand
<1>7. \A i \in 1 .. Len(performed') : Derived(performed[i])'
  BY <1>1, <1>2, <1>3, PerformedSame
<1>8. ForTheRequest'
  BY <1>1, <1>2, <1>3, <1>6, <1>7 DEF ForTheRequest
<1>9. Bounded'
  BY <1>1, <1>3 DEF CommandInv, Bounded
<1>10. response_data' \o pending' = reply'.data
  BY <1>1, <1>2, <1>4, HandedOver DEF Divided
<1> QED
  BY <1>8, <1>9, <1>10 DEF Begun

LEMMA StrayedStep ==
    ASSUME CommandInv, NEW a \in StrayAnswers, Stray(a), UNCHANGED request
    PROVE  ForTheRequest' /\ Bounded' /\ Begun'
<1>1. /\ AtCard /\ ~obeys /\ apdu # NoCommand /\ Receive(a) /\ rounds < MaxRounds
      /\ UNCHANGED <<apdu, obeys>> /\ rounds' = rounds + 1
  BY DEF Stray, AtCard, Receive
<1>2. Sound /\ ForTheRequest /\ apdu \in Commands
  BY <1>1 DEF CommandInv, ExchangeInv, Sound
<1>3. a.sw2 \in Nat
  <2>1. a.sw2 \in 0 .. LeMax /\ LeMax \in Nat
    BY ExchangeAssumption
  <2> QED
    BY <2>1
<1>4. Fetching' \/ Derived(apdu_command)'
  BY <1>1, <1>2, <1>3, NextCommand DEF ForTheRequest
<1>5. /\ \A i \in 1 .. Len(performed') : Derived(performed[i])'
      /\ Len(performed') <= Len(performed) + 1 /\ Len(performed) \in Nat /\ Len(performed') \in Nat
  <2>1. CASE Fetching \/ a.sw1 = "6C"
    <3>1. UNCHANGED performed
      BY <2>1 DEF Stray
    <3>2. Len(performed) \in Nat
      BY <1>2, LenProperties DEF Sound
    <3>3. \A i \in 1 .. Len(performed') : Derived(performed[i])'
      BY <1>1, <1>2, <3>1, PerformedSame
    <3> QED
      BY <3>1, <3>2, <3>3
  <2>2. CASE ~Fetching /\ a.sw1 # "6C"
    <3>1. performed' = Append(performed, apdu_command)
      BY <2>2 DEF Stray
    <3>2. /\ \A i \in 1 .. Len(performed') : Derived(performed[i])'
          /\ Len(performed') = Len(performed) + 1 /\ Len(performed) \in Nat
      BY <1>1, <1>2, <2>2, <3>1, PerformedDerived
    <3> QED
      BY <3>2
  <2> QED
    BY <2>1, <2>2
<1>6. ForTheRequest'
  BY <1>1, <1>2, <1>4, <1>5 DEF ForTheRequest
<1>7. Bounded'
  <2>1. rounds \in 0 .. MaxRounds /\ Len(performed) <= rounds /\ MaxRounds \in Nat
    BY <1>1, ExchangeAssumption DEF CommandInv, Bounded
  <2>2. rounds' \in 0 .. MaxRounds /\ Len(performed') <= rounds'
    BY <1>1, <1>5, <2>1
  <2> QED
    BY <1>1, <2>2 DEF Bounded
<1>8. Begun'
  BY <1>1 DEF Begun
<1> QED
  BY <1>6, <1>7, <1>8

LEMMA LostOnTheWay ==
    ASSUME CommandInv, Lost, UNCHANGED request
    PROVE  ForTheRequest' /\ Bounded' /\ Begun'
<1>1. UNCHANGED <<apdu, apdu_command, response_data, obeys, reply, pending, performed, rounds>>
  BY DEF Lost, card
<1>2. Bounded' /\ Begun'
  BY <1>1 DEF CommandInv, Bounded, Begun
<1>3. ForTheRequest'
  BY <1>1 DEF CommandInv, ForTheRequest, Fetching, Derived
<1> QED
  BY <1>2, <1>3

LEMMA StepCommand == CommandInv /\ [CommandNext]_allVars => CommandInv'
<1> SUFFICES ASSUME CommandInv, [CommandNext]_allVars PROVE CommandInv'
  OBVIOUS
<1>1. CASE Exchanges
  <2>1. Transmit /\ UNCHANGED request
    BY <1>1 DEF Exchanges
  <2>2. ExchangeInv'
    BY <2>1, StepExchange DEF CommandInv, Next
  <2>3. CASE \E n \in 0 .. Len(reply.data) : Perform(n)
    BY <2>1, <2>2, <2>3, PerformedStep DEF CommandInv
  <2>4. CASE \E n \in 1 .. Len(pending) : Continue(n)
    BY <2>1, <2>2, <2>4, ContinuedStep DEF CommandInv
  <2>5. CASE \E a \in StrayAnswers : Stray(a)
    BY <2>1, <2>2, <2>5, StrayedStep DEF CommandInv
  <2>6. CASE Refuse \/ Lost
    BY <2>1, <2>2, <2>6, RefusedStep, LostOnTheWay DEF CommandInv
  <2> QED
    BY <2>1, <2>3, <2>4, <2>5, <2>6 DEF Transmit
<1>2. CASE UNCHANGED allVars \/ (Terminated /\ UNCHANGED request)
  <2>1. UNCHANGED <<vars, request>>
    BY <1>2 DEF allVars, Terminated
  <2>2. ExchangeInv'
    BY <2>1, StepExchange DEF CommandInv
  <2>3. UNCHANGED <<apdu, apdu_command, response_data, obeys, reply, pending, performed,
                    rounds, request>>
    BY <2>1 DEF vars, terminal, card
  <2>4. ForTheRequest' /\ Bounded' /\ Begun'
    BY <2>3 DEF CommandInv, ForTheRequest, Bounded, Begun, Fetching, Derived
  <2> QED
    BY <2>2, <2>4 DEF CommandInv
<1> QED
  BY <1>1, <1>2, AskStep, AnsweredStep DEF CommandNext

----------------------------------------------------------------------------
(* What the invariant says of the two properties. *)

LEMMA BeginningOf ==
    ASSUME NEW s \in Seq(Nat), NEW t \in Seq(Nat), NEW whole, whole = s \o t
    PROVE  Sequence!IsPrefix(s, whole)
<1> DEFINE l == Len(s)
           m == Len(t)
<1>1. l \in Nat /\ m \in Nat /\ s = [i \in 1 .. l |-> s[i]]
  BY LenProperties
<1>2. Len(s) = l /\ Len(t) = m
  OBVIOUS
<1> HIDE DEF l, m
<1>3. /\ whole \in Seq(Nat) /\ Len(whole) = l + m
      /\ \A p \in 1 .. l : whole[p] = s[p]
  BY <1>1, <1>2, Joined
<1>4. SubSeq(whole, 1, l) = [i \in 1 .. l |-> whole[i]]
  BY <1>1, <1>3
<1>5. SubSeq(s, 1, l) = [i \in 1 .. l |-> s[i]]
  BY <1>1, <1>2
<1>6. [i \in 1 .. l |-> whole[i]] = [i \in 1 .. l |-> s[i]]
  BY <1>3
<1>7. Len(s) <= Len(whole)
  BY <1>1, <1>2, <1>3
<1> QED
  BY <1>2, <1>4, <1>5, <1>6, <1>7 DEF Sequence!IsPrefix

LEMMA TypeOfInv == CommandInv => ExchangeTypeOK
<1> SUFFICES ASSUME CommandInv PROVE ExchangeTypeOK
  OBVIOUS
<1>1. apdu = NoCommand <=> request = NoRequest
  <2>1. \A q \in Requests : q.kind # "none"
    BY CommandAssumption
  <2>2. NoRequest.kind = "none"
    BY DEF NoRequest
  <2> QED
    BY <2>1, <2>2 DEF CommandInv, ForTheRequest
<1>2. ASSUME apdu # NoCommand
      PROVE  /\ apdu = Command(request)
             /\ \/ Fetching
                \/ [apdu_command EXCEPT !.body[Len(apdu.body)] = LastByte(apdu)] = apdu
             /\ obeys => Sequence!IsPrefix(response_data, reply.data)
  <2>1. Sound /\ apdu \in Commands /\ reply \in Replies /\ response_data \in Seq(Nat)
        /\ pending \in Seq(Nat)
    BY <1>2 DEF CommandInv, ExchangeInv, Sound
  <2>2. ASSUME Derived(apdu_command)
        PROVE  [apdu_command EXCEPT !.body[Len(apdu.body)] = LastByte(apdu)] = apdu
    <3>1. PICK n \in Nat : apdu_command = Corrected(apdu, n)
      BY <2>2 DEF Derived
    <3>2. [Corrected(apdu, n) EXCEPT !.body[Len(apdu.body)] = LastByte(apdu)] = apdu
      BY <2>1, CorrectedIs
    <3> QED
      BY <3>1, <3>2
  <2>3. ASSUME obeys PROVE Sequence!IsPrefix(response_data, reply.data)
    <3>1. reply.data \in Seq(Nat)
      BY <2>1, RepliesType
    <3>2. CASE response_data = <<>>
      <4>1. reply.data = response_data \o reply.data
        BY <3>1, <3>2, ConcatEmptySeq
      <4> QED
        BY <2>1, <3>1, <4>1, BeginningOf
    <3>3. CASE response_data \o pending = reply.data
      BY <2>1, <3>3, BeginningOf
    <3> QED
      BY <1>2, <2>3, <3>2, <3>3 DEF CommandInv, Begun
  <2> QED
    BY <1>2, <2>2, <2>3 DEF CommandInv, ForTheRequest
<1>3. Len(performed) <= MaxRounds + 1 /\ rounds <= MaxRounds
  <2>1. rounds \in 0 .. MaxRounds /\ Len(performed) <= (IF obeys THEN 1 ELSE rounds)
        /\ MaxRounds \in Nat
    BY ExchangeAssumption DEF CommandInv, Bounded
  <2>2. Len(performed) \in Nat
    BY LenProperties DEF CommandInv, ExchangeInv, Sound
  <2> QED
    BY <2>1, <2>2
<1> QED
  BY <1>1, <1>2, <1>3 DEF ExchangeTypeOK

LEMMA ReachedOfInv == CommandInv => CommandReachesCard
<1> SUFFICES ASSUME CommandInv,
                    obeys \/ apdu = NoCommand \/ apdu.le \/ request.kind = "verify",
                    NEW i \in DOMAIN performed
             PROVE  Understood(request, performed[i])
  BY DEF CommandReachesCard
<1>1. performed \in Seq(Sendable) /\ DOMAIN performed = 1 .. Len(performed)
  BY LenProperties DEF CommandInv, ExchangeInv, Sound
<1>2. apdu # NoCommand
  <2>1. ASSUME apdu = NoCommand PROVE FALSE
    <3>1. performed = <<>>
      BY <2>1 DEF CommandInv, ExchangeInv, AtRest
    <3>2. Len(performed) = 0
      BY <3>1, EmptySeq
    <3> QED
      BY <1>1, <3>2
  <2> QED
    BY <2>1
<1>3. request \in Requests /\ apdu = Command(request) /\ Derived(performed[i])
  BY <1>1, <1>2 DEF CommandInv, ForTheRequest
<1>4. PICK n \in Nat : performed[i] = Corrected(Command(request), n)
  BY <1>3 DEF Derived
<1>5. Command(request).le \/ request.kind = "verify" \/ performed[i] = Command(request)
  <2>1. obeys \in BOOLEAN
    BY DEF CommandInv, ExchangeInv, Sound
  <2> QED
    BY <1>2, <1>3, <2>1 DEF Derived
<1> QED
  BY <1>3, <1>4, <1>5, CommandUnderstood

(* What is under way is the handler's command up to its last byte, or fetches *)
(* the rest of the answer, and what an obeying card has handed out is a       *)
(* beginning of its reply (send_apdu, lib.rs:1253-1335).                      *)
THEOREM ExchangeTypes == CommandSpec => []ExchangeTypeOK
<1>1. CommandInit => CommandInv
  BY InitCommand
<1>2. CommandInv /\ [CommandNext]_allVars => CommandInv'
  BY StepCommand
<1>3. CommandInv => ExchangeTypeOK
  BY TypeOfInv
<1> QED
  BY <1>1, <1>2, <1>3, PTL DEF CommandSpec

(* For every request, every list of a card and every way a card corrects      *)
(* lengths: a command the card performs says what the handler was asked for,  *)
(* though send_apdu overwrites the last byte without looking at it            *)
(* (lib.rs:1326).                                                             *)
THEOREM CommandsReachTheCard == CommandSpec => []CommandReachesCard
<1>1. CommandInit => CommandInv
  BY InitCommand
<1>2. CommandInv /\ [CommandNext]_allVars => CommandInv'
  BY StepCommand
<1>3. CommandInv => CommandReachesCard
  BY ReachedOfInv
<1> QED
  BY <1>1, <1>2, <1>3, PTL DEF CommandSpec

(* The same of the handlers' commands: the terminal's handlers and the card   *)
(* see one atomic exchange.                                                   *)
THEOREM AtomicCommands ==
    CommandSpec => Exchange!Init /\ [][Exchange!Next]_(Exchange!vars)
<1>1. CommandInit => CommandInv /\ Exchange!Init
  BY InitCommand, InitExchange DEF CommandInit
<1>2. CommandInv /\ [CommandNext]_allVars => CommandInv'
  BY StepCommand
<1>3. CommandInv /\ [CommandNext]_allVars => [Exchange!Next]_(Exchange!vars)
  <2> SUFFICES ASSUME CommandInv, [CommandNext]_allVars
               PROVE  [Next]_vars
    BY StepExchange DEF CommandInv, Abstract
  <2>1. ASSUME NEW q \in Requests, NEW r \in Replies, Ask(q, r) PROVE Next
    BY <2>1, CommandAssumption DEF Ask, Next
  <2> QED
    BY <2>1 DEF CommandNext, Exchanges, Answered, Next, allVars
<1> QED
  BY <1>1, <1>2, <1>3, PTL DEF CommandSpec
=============================================================================
