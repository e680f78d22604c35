---------------------------- MODULE ApduExchange ----------------------------
(* send_apdu (lib.rs:1253): one command and as many transmissions as the      *)
(* card's statuses call for.  After 61xx the terminal fetches xx more bytes   *)
(* with GET RESPONSE, after 6Cxx it sends the command again with xx as its    *)
(* last byte; the data of all answers are gathered and parsed at the end.     *)
(*                                                                          *)
(* The card is one of two: an obeying one performs a command when its length  *)
(* is right and hands out what it announced; any other answers anything.      *)
(*                                                                          *)
(* One action is one transmission: the card's answer and the loop's body.     *)
EXTENDS Naturals, Sequences

CONSTANTS
    Commands,      \* [ins, p, body, le]: p is P1 and P2, body what follows Lc;
                   \* le: the last byte of body is Le
    Replies,       \* [data, status]: what a command makes an obeying card say
    StrayAnswers,  \* [sw1, sw2, data]: answers of a card that does not obey
    LeMax,         \* the greatest byte, 255 in the code
    MaxCommands,   \* bound on the commands of a connection
    MaxRounds      \* bound on the answers of a card that does not obey

ASSUME ExchangeAssumption ==
    /\ LeMax \in Nat \ {0} /\ MaxCommands \in Nat /\ MaxRounds \in Nat
    /\ \A c \in Commands :
          /\ c = [ins |-> c.ins, p |-> c.p, body |-> c.body, le |-> c.le]
          /\ c.ins \notin {"none", "GET RESPONSE"} /\ c.le \in BOOLEAN
          /\ c.body \in Seq(Nat) /\ c.body # <<>>
    /\ \A r \in Replies :
          /\ r = [data |-> r.data, status |-> r.status]
          /\ r.data \in Seq(Nat) /\ r.status \in {"success", "failure"}
    /\ \A a \in StrayAnswers :
          /\ a = [sw1 |-> a.sw1, sw2 |-> a.sw2, data |-> a.data]
          /\ a.sw1 \in {"61", "6C", "success", "failure"} /\ a.sw2 \in 0 .. LeMax
          /\ a.data \in Seq(Nat)

VARIABLES
    apdu,           \* the command of the caller
    apdu_command,   \* the command that is sent next
    response_data,
    returned,       \* NoReply, Crash, or [data, status, parsed]
    commands,       \* commands begun
    obeys,          \* the card keeps to the protocol
    reply,          \* what the command makes of an obeying card
    pending,        \* what it has announced and not handed out
    performed,      \* the commands it performed for apdu, as it got them
    rounds          \* answers to apdu of a card that does not obey

terminal == <<apdu, apdu_command, response_data, returned, commands>>
card == <<obeys, reply, pending, performed, rounds>>
vars == <<terminal, card>>

NoCommand == [ins |-> "none"]
NoReply == [data |-> <<>>, status |-> "none"]
Crash == [data |-> <<>>, status |-> "crash"]

GetResponse(length) == 
    [ins |-> "GET RESPONSE", p |-> <<0, 0>>, body |-> <<length>>, le |-> TRUE]

Init ==
    /\ apdu = NoCommand /\ apdu_command = NoCommand /\ response_data = <<>>
    /\ returned = NoReply /\ commands = 0
    /\ obeys \in BOOLEAN
    /\ reply = NoReply /\ pending = <<>> /\ performed = <<>> /\ rounds = 0

SendApdu(c, r) ==
    /\ apdu = NoCommand /\ commands < MaxCommands
    /\ apdu' = c /\ apdu_command' = c /\ commands' = commands + 1
    /\ reply' = r
    /\ UNCHANGED <<response_data, returned, obeys, pending, performed, rounds>>

----------------------------------------------------------------------------
(* One turn of the loop, with an answer of the card: its status bytes sw1     *)
(* ("61", "6C", or the name of a final status) and sw2, and its data.         *)

(* Mutant: the data of the earlier answers are dropped. *)
GatheredLast(a) == a.data

Gathered(a) == response_data \o a.data

(* More data than LeMax bytes are announced as 00.                            *)
More(sw2) == IF sw2 = 0 THEN LeMax ELSE sw2

(* Mutant: the corrected length is appended. *)
CorrectedAppended(c, length) == [c EXCEPT !.body = Append(@, length)]

(* The command with another last byte, whatever that byte is.                 *)
Corrected(c, length) == [c EXCEPT !.body[Len(c.body)] = length]

(* process_tlv gets the gathered data, if any, whatever the status.           *)
Result(data, status) ==
    [data |-> data, status |-> status,
     parsed |-> IF data = <<>> THEN <<>> ELSE <<data>>]

Receive(a) ==
    /\ response_data' = Gathered(a)
    /\ UNCHANGED <<apdu, commands>>
    /\ \/ /\ a.sw1 = "61"
          /\ apdu_command' = GetResponse(More(a.sw2)) /\ UNCHANGED returned
       \/ /\ a.sw1 = "6C" /\ a.sw2 > 0
          /\ apdu_command' = Corrected(apdu, a.sw2) /\ UNCHANGED returned
       \/ /\ a.sw1 = "6C" /\ a.sw2 = 0
          /\ returned' = Crash /\ UNCHANGED apdu_command
       \/ /\ a.sw1 \notin {"61", "6C"}
          /\ returned' = Result(Gathered(a), a.sw1) /\ UNCHANGED apdu_command

AtCard == apdu # NoCommand /\ returned = NoReply

Fetching == apdu_command.ins = "GET RESPONSE"

(* The interface reports an error, which is unwrapped, or gives less than the *)
(* two status bytes that are sliced off.                                      *)
Lost ==
    /\ AtCard
    /\ returned' = Crash
    /\ UNCHANGED <<apdu, apdu_command, response_data, commands, card>>

(* The caller goes on; what the card still had is gone.                       *)
Return ==
    /\ returned \notin {NoReply, Crash}
    /\ apdu' = NoCommand /\ apdu_command' = NoCommand /\ response_data' = <<>>
    /\ returned' = NoReply
    /\ reply' = NoReply /\ pending' = <<>> /\ performed' = <<>> /\ rounds' = 0
    /\ UNCHANGED <<commands, obeys>>

----------------------------------------------------------------------------
(* The card. *)

(* A length in one byte: 00 stands for LeMax + 1, in a status also for more.  *)
Announced(rest) == IF rest > LeMax THEN 0 ELSE rest

LastByte(c) == c.body[Len(c.body)]
Expected(c) == IF LastByte(c) = 0 THEN LeMax + 1 ELSE LastByte(c)

(* The answer that hands out the first n bytes of the data left.              *)
Portion(left, n) ==
    [data |-> SubSeq(left, 1, n),
     sw1 |-> IF n = Len(left) THEN reply.status ELSE "61",
     sw2 |-> IF n = Len(left) THEN 0 ELSE Announced(Len(left) - n)]

HandsOut(left, n) ==
    /\ Receive(Portion(left, n))
    /\ pending' = SubSeq(left, n + 1, Len(left))
    /\ UNCHANGED <<obeys, reply, rounds>>

(* An obeying card refuses a length that is not that of its reply, ...        *)
Refuse ==
    /\ AtCard /\ obeys /\ ~Fetching /\ apdu_command.le
    /\ Len(reply.data) \in (1 .. LeMax + 1) \ {Expected(apdu_command)}
    /\ Receive([data |-> <<>>, sw1 |-> "6C", sw2 |-> Announced(Len(reply.data))])
    /\ UNCHANGED card

(* ... performs the command, with a part of its reply, none or all of it, ... *)
Perform(n) ==
    /\ AtCard /\ obeys /\ ~Fetching
    /\ n <= Len(reply.data) /\ (apdu_command.le => n <= Expected(apdu_command))
    /\ HandsOut(reply.data, n)
    /\ performed' = Append(performed, apdu_command)

(* ... and hands out no more than it is asked for, and not nothing.           *)
Continue(n) ==
    /\ AtCard /\ obeys /\ Fetching
    /\ n <= Len(pending) /\ n <= Expected(apdu_command) /\ HandsOut(pending, n)
    /\ UNCHANGED performed

(* Any other card: it performs what it does not refuse.                       *)
Stray(a) ==
    /\ AtCard /\ ~obeys /\ rounds < MaxRounds
    /\ Receive(a)
    /\ performed' = IF Fetching \/ a.sw1 = "6C" THEN performed
                    ELSE Append(performed, apdu_command)
    /\ rounds' = rounds + 1
    /\ UNCHANGED <<obeys, reply, pending>>

----------------------------------------------------------------------------
Transmit ==
    \/ Refuse
    \/ \E n \in 0 .. Len(reply.data) : Perform(n)
    \/ \E n \in 1 .. Len(pending) : Continue(n)
    \/ \E a \in StrayAnswers : Stray(a)
    \/ Lost

(* A crash, the last command, or a card that is not followed any further.     *)
Terminated ==
    /\ \/ returned = Crash
       \/ apdu = NoCommand /\ commands = MaxCommands
       \/ AtCard /\ rounds = MaxRounds
    /\ UNCHANGED vars

Next ==
    \/ \E c \in Commands, r \in Replies : SendApdu(c, r)
    \/ Transmit
    \/ Return
    \/ Terminated

(* Fairness: the interface comes back with an answer or an error, and the     *)
(* loop goes on.                                                              *)
Spec == Init /\ [][Next]_vars /\ WF_vars(Transmit)

----------------------------------------------------------------------------
(* As the rest of the terminal sees it: a card that obeys performs every      *)
(* command once, and the caller gets its whole reply, in order, parsed once,  *)
(* however the card divides it and whichever lengths it refuses; and it gets  *)
(* it, or the terminal crashes.                                               *)
Exchange ==
    INSTANCE AtomicExchange WITH command <- apdu, performed <- Len(performed)

ImplementsAtomicExchange == Exchange!Spec
=============================================================================
