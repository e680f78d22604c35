----------------------------- MODULE MCExchange -----------------------------
(* CardCommands on small instances: PINs of 4, 5 and 12 digits, data object   *)
(* lists with and without the amount and the TVR, replies shorter than,       *)
(* as long as and longer than the greatest length (3 here, 255 in the code).  *)
EXTENDS CardCommands

MCRequests ==
    {[kind |-> "verify", pin |-> pin] :
        pin \in {<<1, 2, 3, 4>>, <<0, 9, 0, 9, 5>>, <<9, 8, 7, 6, 5, 4, 3, 2, 1, 0, 9, 8>>}}
    \cup
    {[kind |-> "generate_ac", cryptogram |-> 128, amount |-> <<1, 2, 3, 4, 5>>,
      tvr |-> tvr, dol |-> dol] :
        tvr \in {{}, {"sda_failed", "new_card", "online_pin_entered",
                      "merchant_forced_transaction_online",
                      "script_processing_failed_after_final_generate_ac"}},
        dol \in {<<159, 2, 6, 149, 5>>, <<149, 5, 159, 55, 2, 159, 2, 6>>, <<95, 42, 2>>}}
    \cup
    {[kind |-> "get_processing_options", amount |-> <<7>>, tvr |-> {}, dol |-> dol] :
        dol \in {<<>>, <<159, 102, 4, 159, 2, 6>>}}
    \cup
    {[kind |-> "read_record", file |-> 2, record |-> 1],
     [kind |-> "get_data", tag |-> <<159, 23>>]}

MCCommands == {Command(q) : q \in MCRequests}

MCLeMax == 3

(* A card's data: bytes that are told apart.                                  *)
DataOfLength(n) == [i \in 1 .. n |-> i]

MCReplies ==
    {[data |-> DataOfLength(n), status |-> "success"] : n \in {0, 1, 3, 4, 7}}
    \cup {[data |-> <<>>, status |-> "failure"]}

MCStrayAnswers ==
    {[sw1 |-> sw1, sw2 |-> sw2, data |-> data] :
        sw1 \in {"61", "6C"}, sw2 \in {0, 2, 3}, data \in {<<>>, <<8, 9>>}}
    \cup {[sw1 |-> sw1, sw2 |-> 0, data |-> <<9>>] : sw1 \in {"success", "failure"}}
=============================================================================
