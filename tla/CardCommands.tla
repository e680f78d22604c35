---------------------------- MODULE CardCommands ----------------------------
(* The commands the terminal builds (lib.rs): what a handler is asked for, the *)
(* bytes it makes of it, and their way through send_apdu to the card that     *)
(* performs them.                                                            *)
EXTENDS ApduExchange, DataObjectLists

CONSTANT Requests   \* what the handlers are asked for; see Command

VARIABLE request    \* the handler that waits for send_apdu, or NoRequest

allVars == <<vars, request>>

NoRequest == [kind |-> "none"]

Amount == <<159, 2>>   \* tag 9F02
Tvr == <<149>>         \* tag 95

(* The tags a data object list finds: the simulator's amount and the TVR.     *)
Store(q) ==
    [tag \in {Amount, Tvr} |->
        IF tag = Amount THEN ascii_to_bcd_n(q.amount, 6) ELSE TvrBytes(q.tvr)]

DolData(q) == get_tag_list_tag_values(process_data_object_list(q.dol), Store(q))

handle_verify_plaintext_pin(q) ==
    [ins |-> "VERIFY", p |-> <<0, 128>>, body |-> PinBlock(q.pin), le |-> FALSE]

send_generate_ac(q) ==
    [ins |-> "GENERATE AC", p |-> <<q.cryptogram, 0>>,
     body |-> Append(DolData(q), 0), le |-> TRUE]

(* Without a PDOL the command has no Le: its 00 is the length of the empty    *)
(* template 83.                                                               *)
handle_get_processing_options(q) ==
    [ins |-> "GET PROCESSING OPTIONS", p |-> <<0, 0>>,
     body |-> IF q.dol = <<>> THEN <<131, 0>>
              ELSE Append(<<131, Len(DolData(q))>> \o DolData(q), 0),
     le |-> q.dol # <<>>]

read_record(q) ==
    [ins |-> "READ RECORD", p |-> <<q.record, (8 * q.file) + 4>>,
     body |-> <<0>>, le |-> TRUE]

(* GET DATA asks for five bytes, a tag of two bytes, a length, and the value. *)
handle_get_data(q) ==
    [ins |-> "GET DATA", p |-> q.tag, body |-> <<5>>, le |-> TRUE]

Command(q) ==
    CASE q.kind = "verify" -> handle_verify_plaintext_pin(q)
      [] q.kind = "generate_ac" -> send_generate_ac(q)
      [] q.kind = "get_processing_options" -> handle_get_processing_options(q)
      [] q.kind = "read_record" -> read_record(q)
      [] q.kind = "get_data" -> handle_get_data(q)

(* A list that is parsed, without an object of length 0, in which the amount  *)
(* and the TVR have their lengths by EMV Book 3, annex A.                     *)
CarriesData(q) ==
    LET objects == process_data_object_list(q.dol)
    IN  /\ q.amount \in Seq(Digits) /\ Len(q.amount) <= 12
        /\ q.tvr \subseteq TvrFields
        /\ objects \in Seq([tag : Seq(Nat), length : 1 .. 255])
        /\ \A i \in DOMAIN objects : /\ objects[i].tag = Amount => objects[i].length = 6
                                     /\ objects[i].tag = Tvr => objects[i].length = 5

(* What does not convert, or is no list, panics before a command is made.     *)
ASSUME CommandAssumption ==
    \A q \in Requests :
        /\ Command(q) \in Commands
        /\ \/ q.kind = "verify" /\ q.pin \in Seq(Digits) /\ Len(q.pin) <= 12
           \/ q.kind = "generate_ac" /\ CarriesData(q)
           \/ q.kind = "get_processing_options" /\ (q.dol # <<>> => CarriesData(q))
           \/ q.kind = "read_record" /\ q.file \in Nat
           \/ q.kind = "get_data"

----------------------------------------------------------------------------
(* What a card reads in a command it performs (EMV Book 3, 6.5), in the words *)
(* of a request.                                                              *)

WithoutLe(c) == IF c.le THEN SubSeq(c.body, 1, Len(c.body) - 1) ELSE c.body

(* The PIN has as many digits as the low nibble of the control byte says.     *)
CardReadsPin(c) == SubSeq(Nibbles(c.body), 3, 2 + (c.body[1] % 16))

(* Where each object of a list ends in its data.                              *)
Ends(objects) ==
    LET end[i \in 0 .. Len(objects)] ==
            IF i = 0 THEN 0 ELSE end[i - 1] + objects[i].length
    IN  end

(* The bytes of the object of a list that has the tag: it begins after the    *)
(* lengths of those before it.                                                *)
Field(objects, data, tag) ==
    LET i == CHOOSE k \in DOMAIN objects : objects[k].tag = tag
    IN  SubSeq(data, Ends(objects)[i - 1] + 1, Ends(objects)[i])

Asks(objects, tag) == \E k \in DOMAIN objects : objects[k].tag = tag

(* The card knows the lists it gave to the terminal; amount and TVR are empty *)
(* where it did not ask for them.                                             *)
CardReadsDol(dol, data) ==
    LET objects == process_data_object_list(dol)
    IN  [amount |-> IF Asks(objects, Amount)
                    THEN {Nibbles(Field(objects, data, Amount))} ELSE {},
         tvr |-> IF Asks(objects, Tvr)
                 THEN {TvrFrom(Field(objects, data, Tvr))} ELSE {},
         length |-> Len(data)]

(* What the terminal means by the same list: an amount of twelve digits.      *)
TerminalMeans(q) ==
    LET objects == process_data_object_list(q.dol)
    IN  [amount |-> IF Asks(objects, Amount)
                    THEN {Fill(12 - Len(q.amount), 0) \o q.amount} ELSE {},
         tvr |-> IF Asks(objects, Tvr) THEN {q.tvr} ELSE {},
         length |-> Ends(objects)[Len(objects)]]

Understood(q, c) ==
    CASE q.kind = "verify" ->
             c.ins = "VERIFY" /\ CardReadsPin(c) = q.pin
      [] q.kind = "generate_ac" ->
             /\ c.ins = "GENERATE AC" /\ c.p[1] = q.cryptogram
             /\ CardReadsDol(q.dol, WithoutLe(c)) = TerminalMeans(q)
      [] q.kind = "get_processing_options" ->
             LET template == WithoutLe(c)
             IN  /\ c.ins = "GET PROCESSING OPTIONS"
                 /\ template[1] = 131 /\ template[2] = Len(template) - 2
                 /\ q.dol # <<>> =>
                       CardReadsDol(q.dol, SubSeq(template, 3, Len(template)))
                           = TerminalMeans(q)
      [] q.kind = "read_record" ->
             /\ c.ins = "READ RECORD" /\ c.p[1] = q.record
             /\ c.p[2] \div 8 = q.file /\ c.p[2] % 8 = 4
      [] q.kind = "get_data" ->
             c.ins = "GET DATA" /\ c.p = q.tag

----------------------------------------------------------------------------
Ask(q, r) ==
    /\ SendApdu(Command(q), r)
    /\ request' = q

Exchanges == Transmit /\ UNCHANGED request

Answered == Return /\ request' = NoRequest

CommandInit == Init /\ request = NoRequest

CommandNext ==
    \/ \E q \in Requests, r \in Replies : Ask(q, r)
    \/ Exchanges
    \/ Answered
    \/ Terminated /\ UNCHANGED request

CommandSpec == CommandInit /\ [][CommandNext]_allVars /\ WF_allVars(Exchanges)

----------------------------------------------------------------------------
(* The command under way is the handler's up to its last byte, or fetches the *)
(* rest of its answer; the data gathered are a beginning of the card's reply. *)
ExchangeTypeOK ==
    /\ apdu = NoCommand <=> request = NoRequest
    /\ apdu # NoCommand =>
          /\ apdu = Command(request)
          /\ \/ Fetching
             \/ [apdu_command EXCEPT !.body[Len(apdu.body)] = LastByte(apdu)] = apdu
          /\ obeys => Sequence!IsPrefix(response_data, reply.data)
    /\ Len(performed) <= MaxRounds + 1 /\ rounds <= MaxRounds

(* Whatever lengths the card corrects, a command it performs says what the    *)
(* handler was asked for: the right PIN, amount, TVR, record.  6Cxx overwrites *)
(* the last byte even of a command without Le (lib.rs:1326), which the        *)
(* plaintext VERIFY survives because that byte is its filler; only GET        *)
(* PROCESSING OPTIONS without a PDOL depends on a card that does not use 6Cxx *)
(* for it.                                                                    *)
CommandReachesCard ==
    (obeys \/ apdu = NoCommand \/ apdu.le \/ request.kind = "verify") =>
        \A i \in DOMAIN performed : Understood(request, performed[i])
=============================================================================
