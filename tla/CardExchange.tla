---------------------------- MODULE CardExchange ----------------------------
(* What the terminal makes of the card's answer to an APDU, whichever flow    *)
(* sends it: send_apdu stores the tags of every template it can parse, the    *)
(* caller those of a format 1 answer; and the files an AFL tells it to read.  *)
EXTENDS EmvData, Sequences, FiniteSets

(* An answer: whether its status is a success, the shape of its data, and the *)
(* tags in it.  "lost": the interface reports an error; "short": a format 1   *)
(* template with too few bytes; "other": another template.                    *)
Bodies == {"lost", "none", "short", "format1", "template", "other"}

Response(r) ==
    /\ r = [ok |-> r.ok, body |-> r.body, tags |-> r.tags]
    /\ r.ok \in BOOLEAN /\ r.body \in Bodies /\ TagStore(r.tags)

Parsed(r) == IF r.body \in {"template", "other"} THEN r.tags ELSE NoTags
Extracted(r) == IF r.body = "format1" THEN r.tags ELSE NoTags

Crashes(r) == r.body = "lost" \/ ParsePanics(Parsed(r))

----------------------------------------------------------------------------
(* An AFL entry: its records, and how many of them, from the first, belong to *)
(* offline data authentication.                                               *)
AflEntry == [records : Nat, oda : Nat]

(* The order of the AFL; a record is its entry and its number in the entry.    *)
Before(r, s) == r[1] < s[1] \/ (r[1] = s[1] /\ r[2] < s[2])

(* What the card's issuer signed: the first records of each entry, as many as *)
(* the AFL says, each once and in the AFL's order.                            *)
SignedOf(afl, e) ==
    {<<e, i>> : i \in (1 .. afl[e].records) \cap (1 .. afl[e].oda)}

AreSigned(records, afl) ==
    /\ \A i, j \in DOMAIN records : i < j => Before(records[i], records[j])
    /\ {records[i] : i \in DOMAIN records} = UNION {SignedOf(afl, e) : e \in DOMAIN afl}
=============================================================================
