----------------------------- MODULE Conversions -----------------------------
(* How values become the bytes of a command: binary coded decimals             *)
(* (bcdutil/mod.rs), the plaintext PIN block (lib.rs:1760) and the five bytes  *)
(* of the terminal verification results (lib.rs:790-893).                      *)
(*                                                                           *)
(* A character is its distance from '0': the digits are 0 .. 9.               *)
EXTENDS Naturals, Sequences, FiniteSets

Digits == 0 .. 9

(* No byte: the code panics, or returns the Err that its callers unwrap.      *)
Panics == <<256>>

Nibbles(bytes) ==
    [i \in 1 .. 2 * Len(bytes) |->
        LET byte == bytes[(i + 1) \div 2]
        IN  IF i % 2 = 1 THEN byte \div 16 ELSE byte % 16]

Packed(nibbles) ==
    [i \in 1 .. Len(nibbles) \div 2 |-> 16 * nibbles[2 * i - 1] + nibbles[2 * i]]

Fill(n, nibble) == [i \in 1 .. n |-> nibble]

Convertible(ascii, size) ==
    Len(ascii) <= 2 * size /\ \A i \in DOMAIN ascii : ascii[i] \in Digits

(* Mutant: the digits are padded on the left, as numbers are. *)
ascii_to_bcd_cn_right(ascii, size) ==
    IF Convertible(ascii, size)
    THEN Packed(Fill(2 * size - Len(ascii), 15) \o ascii) ELSE Panics

(* Format cn: left justified, filled with F.                                  *)
ascii_to_bcd_cn(ascii, size) ==
    IF Convertible(ascii, size)
    THEN Packed(ascii \o Fill(2 * size - Len(ascii), 15)) ELSE Panics

(* Format n: right justified, filled with 0.                                  *)
ascii_to_bcd_n(ascii, size) ==
    IF Convertible(ascii, size)
    THEN Packed(Fill(2 * size - Len(ascii), 0) \o ascii) ELSE Panics

(* Back: up to a byte FF, F nibbles left out; F before a digit is an error.   *)
(* kept: the places of the digits; the n-th of them has n - 1 before it.      *)
bcd_to_ascii(bytes) ==
    LET end == CHOOSE i \in 1 .. Len(bytes) + 1 :
                  /\ i \in DOMAIN bytes => bytes[i] = 255
                  /\ \A j \in 1 .. i - 1 : bytes[j] # 255
        nibbles == Nibbles(SubSeq(bytes, 1, end - 1))
        kept == {i \in DOMAIN nibbles : nibbles[i] # 15}
        place(n) == CHOOSE i \in kept : Cardinality({j \in kept : j < i}) = n - 1
    IN  IF \A i \in DOMAIN nibbles : nibbles[i] \in Digits \/ (i % 2 = 0 /\ nibbles[i] = 15)
        THEN [n \in 1 .. Cardinality(kept) |-> nibbles[place(n)]]
        ELSE Panics

(* The body of a plaintext VERIFY: the control nibble 2 and the PIN's length, *)
(* the PIN, and a filler byte, which is the last one of the command.          *)
PinBlock(pin) == <<32 + Len(pin)>> \o ascii_to_bcd_cn(pin, 6) \o <<255>>

----------------------------------------------------------------------------
(* The TVR's bytes: the fields in the order of EMV Book 3, C5, from bit 8     *)
(* down.                                                                      *)
TvrLayout ==
    << <<"offline_data_authentication_was_not_performed", "sda_failed",
         "icc_data_missing", "card_appears_on_terminal_exception_file",
         "dda_failed", "cda_failed">>,
       <<"icc_and_terminal_have_different_application_versions",
         "expired_application", "application_not_yet_effective",
         "requested_service_not_allowed_for_card_product", "new_card">>,
       <<"cardholder_verification_was_not_successful", "unrecognised_cvm",
         "pin_try_limit_exceeded",
         "pin_entry_required_and_pin_pad_not_present_or_not_working",
         "pin_entry_required_pin_pad_present_but_pin_was_not_entered",
         "online_pin_entered">>,
       <<"transaction_exceeds_floor_limit",
         "lower_consecutive_offline_limit_exceeded",
         "upper_consecutive_offline_limit_exceeded",
         "transaction_selected_randomly_for_online_processing",
         "merchant_forced_transaction_online">>,
       <<"default_tdol_used", "issuer_authentication_failed",
         "script_processing_failed_before_final_generate_ac",
         "script_processing_failed_after_final_generate_ac">> >>

TvrFields == UNION {{TvrLayout[i][k] : k \in DOMAIN TvrLayout[i]} : i \in 1 .. 5}

(* The k-th bit of a byte, from bit 8 down; the last two are RFU in all five. *)
BitValue == <<128, 64, 32, 16, 8, 4>>

(* From<TerminalVerificationResults> for Vec<u8>.                             *)
TvrBytes(tvr) ==
    [i \in 1 .. 5 |->
        LET bit(k) == IF k \in DOMAIN TvrLayout[i] /\ TvrLayout[i][k] \in tvr
                      THEN BitValue[k] ELSE 0
        IN  bit(1) + bit(2) + bit(3) + bit(4) + bit(5) + bit(6)]

(* From<Vec<u8>> for TerminalVerificationResults: RFU bits are left out.      *)
TvrFrom(bytes) ==
    UNION {{TvrLayout[i][k] : k \in {j \in DOMAIN TvrLayout[i] :
                                       (bytes[i] \div BitValue[j]) % 2 = 1}} : i \in 1 .. 5}
=============================================================================
