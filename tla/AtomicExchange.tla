--------------------------- MODULE AtomicExchange ---------------------------
(* What the rest of the terminal takes send_apdu for: a command goes to the   *)
(* card, the card performs it once, and the terminal gets the whole reply,    *)
(* parses it once, and goes on to the next command; or the terminal crashes.  *)
(*                                                                          *)
(* The promise is made for cards that keep to the protocol.  For any other,   *)
(* only the order of the stages is promised.                                  *)
EXTENDS Naturals, Sequences

CONSTANTS Commands, Replies

VARIABLES
    obeys,       \* the card keeps to the protocol
    command,     \* the command at the card, or NoCommand
    reply,       \* what the card makes of it: data and status
    performed,   \* how often the card has performed it
    returned     \* what the caller gets: NoReply, "crash" or [data, status, parsed]

vars == <<obeys, command, reply, performed, returned>>

NoCommand == [ins |-> "none"]
NoReply == [data |-> <<>>, status |-> "none"]
Crash == [data |-> <<>>, status |-> "crash"]

(* The caller gets the data and the status, the tag store the data if any.    *)
Returns(r) ==
    [data |-> r.data, status |-> r.status,
     parsed |-> IF r.data = <<>> THEN <<>> ELSE <<r.data>>]

Idle ==
    /\ command = NoCommand /\ reply = NoReply
    /\ performed = 0 /\ returned = NoReply

Init == obeys \in BOOLEAN /\ Idle

Send(c, r) ==
    /\ command = NoCommand
    /\ command' = c /\ reply' = r
    /\ UNCHANGED <<obeys, performed, returned>>

AtCard == command # NoCommand /\ returned = NoReply

Perform ==
    /\ AtCard /\ (obeys => performed = 0)
    /\ performed' = performed + 1
    /\ UNCHANGED <<obeys, command, reply, returned>>

(* The last byte of the reply may come with the performance of the command.   *)
Return ==
    /\ AtCard
    /\ performed' \in {performed, performed + 1}
    /\ obeys => performed' = 1 /\ returned' = Returns(reply)
    /\ returned' \notin {NoReply, Crash}
    /\ UNCHANGED <<obeys, command, reply>>

Fail ==
    /\ AtCard
    /\ returned' = Crash
    /\ UNCHANGED <<obeys, command, reply, performed>>

Done == returned \notin {NoReply, Crash} /\ Idle' /\ UNCHANGED obeys

Next ==
    \/ \E c \in Commands, r \in Replies : Send(c, r)
    \/ Perform \/ Return \/ Fail \/ Done

Spec == Init /\ [][Next]_vars /\ WF_vars(obeys /\ (Perform \/ Return \/ Fail))
=============================================================================
