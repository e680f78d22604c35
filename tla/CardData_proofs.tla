---------------------------- MODULE CardData_proofs ----------------------------
(* Lemmas about the data that both flows share: the tag store, and what the   *)
(* recovery of the public keys makes of the data about the card.              *)
EXTENDS CardAuthentication, CardExchange, FiniteSetTheorems, TLAPS

----------------------------------------------------------------------------
(* The tag store. *)

LEMMA HoldsType == \A s, t : Holds(s, t) \in BOOLEAN
BY DEF Holds

(* A merge is a store; the tags of the new one override.                      *)
LEMMA MergeType ==
    ASSUME NEW a, NEW b
    PROVE  /\ TagStore(Merge(a, b))
           /\ DOMAIN Merge(a, b) = DOMAIN a \cup DOMAIN b
BY DEF TagStore, Merge

LEMMA MergeNew ==
    ASSUME NEW a, NEW b, NEW t \in DOMAIN b
    PROVE  Merge(a, b)[t] = b[t]
BY DEF Merge

LEMMA MergeOld ==
    ASSUME NEW a, NEW b, NEW t \in DOMAIN a \ DOMAIN b
    PROVE  Merge(a, b)[t] = a[t]
BY DEF Merge

(* add_tag writes one tag.                                                    *)
LEMMA AddTag ==
    ASSUME NEW s, NEW tag, NEW value
    PROVE  TagStore(add_tag(s, tag, value))
BY DEF add_tag, Merge, TagStore

LEMMA AddTagValue ==
    ASSUME NEW s, NEW tag, NEW value
    PROVE  /\ tag \in DOMAIN add_tag(s, tag, value)
           /\ add_tag(s, tag, value)[tag] = value
BY DEF add_tag, Merge

LEMMA AddTagOther ==
    ASSUME NEW s, NEW tag, NEW value, NEW t \in DOMAIN s \ {tag}
    PROVE  /\ t \in DOMAIN add_tag(s, tag, value)
           /\ add_tag(s, tag, value)[t] = s[t]
BY DEF add_tag, Merge

LEMMA NoTagsType == TagStore(NoTags) /\ DOMAIN NoTags = {} /\ ~ParsePanics(NoTags)
BY DEF TagStore, NoTags, ParsePanics, Holds

(* The values of a DOL are a store of the tags it names.                      *)
LEMMA ListValuesType ==
    ASSUME NEW s, NEW dol
    PROVE  TagStore(get_tag_list_tag_values(s, dol))
BY DEF TagStore, get_tag_list_tag_values

(* Storing tags that process_tlv accepts keeps 9F27 a cryptogram type.        *)
LEMMA MergeCid ==
    ASSUME NEW a, NEW b, ~ParsePanics(a), ~ParsePanics(b)
    PROVE  ~ParsePanics(Merge(a, b))
<1> DEFINE cid == TAG_CRYPTOGRAM_INFO_DATA
<1>1. \A s : ParsePanics(s) <=> /\ cid \in DOMAIN s
                               /\ \A c \in CryptogramType : s[cid] # {c}
  BY DEF ParsePanics, Holds
<1> HIDE DEF cid
<1>2. CASE cid \in DOMAIN b
  <2>1. Merge(a, b)[cid] = b[cid] /\ cid \in DOMAIN Merge(a, b)
    BY <1>2, MergeType, MergeNew
  <2> QED BY <1>1, <1>2, <2>1
<1>3. CASE cid \in DOMAIN a \ DOMAIN b
  <2>1. Merge(a, b)[cid] = a[cid] /\ cid \in DOMAIN Merge(a, b)
    BY <1>3, MergeType, MergeOld
  <2> QED BY <1>1, <1>3, <2>1
<1>4. CASE cid \notin DOMAIN a \cup DOMAIN b
  <2>1. cid \notin DOMAIN Merge(a, b)
    BY <1>4, MergeType
  <2> QED BY <1>1, <2>1
<1> QED
  BY <1>2, <1>3, <1>4

LEMMA AddTagCid ==
    ASSUME NEW s, NEW tag, NEW value, ~ParsePanics(s), tag # "9F27"
    PROVE  ~ParsePanics(add_tag(s, tag, value))
<1>1. ~ParsePanics([t \in {tag} |-> value])
  BY DEF ParsePanics, Holds, TAG_CRYPTOGRAM_INFO_DATA
<1> QED
  BY <1>1, MergeCid DEF add_tag

(* The cryptogram type of a stored 9F27.                                      *)
LEMMA CryptogramOfType ==
    ASSUME NEW s, ~ParsePanics(s), Holds(s, TAG_CRYPTOGRAM_INFO_DATA)
    PROVE  /\ CryptogramOf(s) \in CryptogramType
           /\ s[TAG_CRYPTOGRAM_INFO_DATA] = {CryptogramOf(s)}
BY DEF ParsePanics, CryptogramOf

(* Whatever the store holds, its amount is a number. *)
LEMMA AmountType ==
    ASSUME NEW s
    PROVE  get_amount(s) \in Nat
<1> DEFINE value == ValueOf(s, TAG_AMOUNT_AUTHORISED)
<1>1. CASE IsNumber(value)
  <2>1. PICK n \in Nat : value = {n}
    BY <1>1 DEF IsNumber
  <2>2. (CHOOSE m \in {n} : TRUE) = n
    OBVIOUS
  <2> QED
    BY <1>1, <2>1, <2>2 DEF get_amount
<1>2. CASE ~IsNumber(value)
  BY <1>2 DEF get_amount
<1> QED
  BY <1>1, <1>2

(* The amount that is read is the one that was added. *)
LEMMA AddedAmount ==
    ASSUME NEW s, NEW n \in Nat
    PROVE  get_amount(add_tag(s, TAG_AMOUNT_AUTHORISED, AmountValue(n))) = n
<1> DEFINE added == add_tag(s, TAG_AMOUNT_AUTHORISED, AmountValue(n))
<1>1. ValueOf(added, TAG_AMOUNT_AUTHORISED) = AmountValue(n)
  BY AddTagValue DEF ValueOf, Holds
<1>2. CASE n = 0
  <2>1. AmountValue(n) = {}
    BY <1>2 DEF AmountValue
  <2> QED
    BY <1>1, <1>2, <2>1 DEF get_amount, IsNumber
<1>3. CASE n # 0
  <2>1. AmountValue(n) = {n}
    BY <1>3 DEF AmountValue
  <2>2. IsNumber({n}) /\ (CHOOSE m \in {n} : TRUE) = n
    BY DEF IsNumber
  <2> QED
    BY <1>1, <2>1, <2>2 DEF get_amount
<1> QED
  BY <1>2, <1>3

----------------------------------------------------------------------------
(* Key recovery. *)

(* Whatever it meets, handle_public_keys leaves well-formed ICC data and the  *)
(* static data alone.                                                         *)
LEMMA KeysType ==
    ASSUME NEW s, NEW i \in IccData, NEW n \in Nat, NEW signed
    PROVE  LET keys == handle_public_keys(s, i, n, signed)
           IN  /\ keys.icc \in IccData
               /\ keys.icc.data_authentication = i.data_authentication
<1> DEFINE withIssuer == [i EXCEPT !.issuer_pk = n]
           withIcc == [withIssuer EXCEPT !.icc_pk = n, !.icc_pin_pk = n]
           Allowed == {j \in IccData : j.data_authentication = i.data_authentication}
<1>1. i \in Allowed
  OBVIOUS
<1>2. \A j \in Allowed : /\ [j EXCEPT !.issuer_pk = n] \in Allowed
                         /\ [j EXCEPT !.icc_pk = n, !.icc_pin_pk = n] \in Allowed
                         /\ [j EXCEPT !.icc_pin_pk = n] \in Allowed
  BY DEF IccData
<1>3. withIssuer \in Allowed /\ withIcc \in Allowed
  BY <1>1, <1>2
<1>4. [withIssuer EXCEPT !.icc_pin_pk = n] \in Allowed
      /\ [withIcc EXCEPT !.icc_pin_pk = n] \in Allowed
  BY <1>2, <1>3
<1>5. handle_public_keys(s, i, n, signed).icc \in Allowed
  <2> HIDE DEF Allowed
  <2> QED BY <1>1, <1>3, <1>4 DEF handle_public_keys
<1> QED
  BY <1>5

----------------------------------------------------------------------------
(* The static data: what the READ RECORD loop has collected when it is at     *)
(* record r of entry e and may take left more records of that entry.          *)

OfEntry(s, e) == {i \in DOMAIN s : s[i][1] = e}

(* The records so far, in the order of the AFL and before the next one. *)
InOrder(s, afl, e, r) ==
    /\ s \in Seq(Nat \X Nat) /\ e \in Nat \ {0} /\ r \in Nat \ {0}
    /\ e \in DOMAIN afl \/ (DOMAIN afl = {} /\ e = 1 /\ s = <<>>)
    /\ \A i, j \in DOMAIN s : i < j => Before(s[i], s[j])
    /\ \A i \in DOMAIN s : s[i][1] \in DOMAIN afl /\ Before(s[i], <<e, r>>)

(* No entry has given more than it may, and this one may give left more. *)
WithinCount(s, afl, e, left) ==
    /\ left \in Nat
    /\ \A x \in DOMAIN afl : Cardinality(OfEntry(s, x)) <= afl[x].oda
    /\ e \in DOMAIN afl => Cardinality(OfEntry(s, e)) + left <= afl[e].oda

(* Everything signed that comes before the next record, and nothing else. *)
Signed(afl) == UNION {SignedOf(afl, e) : e \in DOMAIN afl}

Complete(s, afl, e, r, left) ==
    /\ {s[i] : i \in DOMAIN s} = {p \in Signed(afl) : Before(p, <<e, r>>)}
    /\ e \in DOMAIN afl =>
          /\ r <= afl[e].records + 1
          /\ left = IF r <= afl[e].oda THEN afl[e].oda - (r - 1) ELSE 0

LEMMA AflFields ==
    ASSUME NEW afl \in Seq(AflEntry)
    PROVE  /\ DOMAIN afl = 1 .. Len(afl) /\ Len(afl) \in Nat
           /\ \A e \in DOMAIN afl : afl[e].records \in Nat /\ afl[e].oda \in Nat
<1>1. DOMAIN afl = 1 .. Len(afl) /\ Len(afl) \in Nat
  OBVIOUS
<1>2. \A e \in 1 .. Len(afl) : afl[e] \in AflEntry
  OBVIOUS
<1> QED
  BY <1>1, <1>2 DEF AflEntry

LEMMA SignedIn ==
    ASSUME NEW afl \in Seq(AflEntry), NEW p
    PROVE  p \in Signed(afl)
              <=> \E e \in DOMAIN afl : \E i \in 1 .. afl[e].records :
                     i <= afl[e].oda /\ p = <<e, i>>
<1>1. \A e \in DOMAIN afl : afl[e].records \in Nat /\ afl[e].oda \in Nat
  BY AflFields
<1>2. \A e \in DOMAIN afl : p \in SignedOf(afl, e)
         <=> \E i \in 1 .. afl[e].records : i <= afl[e].oda /\ p = <<e, i>>
  BY <1>1 DEF SignedOf
<1> QED
  BY <1>2 DEF Signed

LEMMA CollectNone ==
    ASSUME NEW afl \in Seq(AflEntry)
    PROVE  LET left == IF afl = <<>> THEN 0 ELSE afl[1].oda
           IN  /\ InOrder(<<>>, afl, 1, 1) /\ WithinCount(<<>>, afl, 1, left)
               /\ Complete(<<>>, afl, 1, 1, left)
<1> DEFINE left == IF afl = <<>> THEN 0 ELSE afl[1].oda
<1>1. \A e \in DOMAIN afl : afl[e].records \in Nat /\ afl[e].oda \in Nat
  BY AflFields
<1>2. afl # <<>> => 1 \in DOMAIN afl
  OBVIOUS
<1>3. afl = <<>> => DOMAIN afl = {}
  OBVIOUS
<1>4. left \in Nat /\ (1 \in DOMAIN afl => left = afl[1].oda)
  BY <1>1, <1>2, <1>3
<1> HIDE DEF left
<1>5. InOrder(<<>>, afl, 1, 1)
  BY <1>2, <1>3 DEF InOrder
<1>6. \A x : Cardinality(OfEntry(<<>>, x)) = 0
  <2>1. \A x : OfEntry(<<>>, x) = {}
    BY DEF OfEntry
  <2> QED
    BY <2>1, FS_EmptySet
<1>7. WithinCount(<<>>, afl, 1, left)
  BY <1>1, <1>4, <1>6 DEF WithinCount
<1>8. {p \in Signed(afl) : Before(p, <<1, 1>>)} = {}
  BY SignedIn DEF Before
<1>9. Complete(<<>>, afl, 1, 1, left)
  BY <1>1, <1>4, <1>8 DEF Complete
<1> QED
  BY <1>5, <1>7, <1>9 DEF left

(* A record that is taken. *)
LEMMA CollectRecord ==
    ASSUME NEW afl \in Seq(AflEntry), NEW s, NEW e \in DOMAIN afl, NEW r, NEW left,
           InOrder(s, afl, e, r), WithinCount(s, afl, e, left), left > 0
    PROVE  LET new == Append(s, <<e, r>>)
           IN  /\ InOrder(new, afl, e, r + 1) /\ WithinCount(new, afl, e, left - 1)
               /\ Complete(s, afl, e, r, left) /\ r <= afl[e].records
                     => Complete(new, afl, e, r + 1, left - 1)
<1> DEFINE new == Append(s, <<e, r>>)
           n == Len(s) + 1
<1>1. /\ s \in Seq(Nat \X Nat) /\ e \in Nat \ {0} /\ r \in Nat \ {0} /\ left \in Nat
      /\ DOMAIN s = 1 .. Len(s) /\ n \in Nat
  BY DEF InOrder, WithinCount
<1>2. /\ DOMAIN new = 1 .. n /\ new[n] = <<e, r>> /\ new \in Seq(Nat \X Nat)
      /\ \A i \in DOMAIN s : new[i] = s[i] /\ i \in 1 .. n /\ i # n
      /\ \A i \in 1 .. n : i = n \/ i \in DOMAIN s
  BY <1>1
<1>types. /\ \A i \in DOMAIN s : s[i] \in Nat \X Nat
          /\ \A x \in DOMAIN afl : afl[x].records \in Nat /\ afl[x].oda \in Nat
  <2>1. \A i \in DOMAIN s : s[i] \in Nat \X Nat
    BY <1>1
  <2> QED
    BY <2>1, AflFields
<1> HIDE DEF new, n
<1>3. InOrder(new, afl, e, r + 1)
  <2>1. \A i \in DOMAIN s : /\ s[i][1] \in DOMAIN afl /\ Before(s[i], <<e, r>>)
                             /\ Before(s[i], <<e, r + 1>>)
    BY <1>1, <1>types DEF InOrder, Before
  <2>2. Before(<<e, r>>, <<e, r + 1>>)
    BY <1>1 DEF Before
  <2>3. \A i \in DOMAIN new : new[i][1] \in DOMAIN afl /\ Before(new[i], <<e, r + 1>>)
    <3>1. <<e, r>>[1] \in DOMAIN afl
      OBVIOUS
    <3> QED
      BY <1>2, <2>1, <2>2, <3>1
  <2>4. ASSUME NEW i \in DOMAIN new, NEW j \in DOMAIN new, i < j
        PROVE  Before(new[i], new[j])
    <3>1. i \in DOMAIN s /\ i # n
      BY <1>1, <1>2, <2>4
    <3>2. CASE j = n
      BY <1>2, <2>1, <3>1, <3>2
    <3>3. CASE j # n
      BY <1>2, <2>4, <3>1, <3>3 DEF InOrder
    <3> QED
      BY <3>2, <3>3
  <2>5. \A i, j \in DOMAIN new : i < j => Before(new[i], new[j])
    BY <2>4
  <2>6. r + 1 \in Nat \ {0}
    BY <1>1
  <2> QED
    BY <1>1, <1>2, <2>3, <2>5, <2>6 DEF InOrder
<1>4. \A x : /\ IsFiniteSet(OfEntry(s, x))
             /\ x # e => OfEntry(new, x) = OfEntry(s, x)
             /\ x = e => OfEntry(new, x) = OfEntry(s, x) \cup {n}
             /\ n \notin OfEntry(s, x)
  <2>1. IsFiniteSet(DOMAIN s)
    BY <1>1, FS_Interval
  <2>2. \A x : IsFiniteSet(OfEntry(s, x))
    BY <2>1, FS_Subset DEF OfEntry
  <2>3. DOMAIN new = DOMAIN s \cup {n} /\ n \notin DOMAIN s /\ new[n][1] = e
    BY <1>1, <1>2 DEF n
  <2>4. \A i \in DOMAIN s : new[i] = s[i]
    BY <1>2
  <2>5. ASSUME NEW x
        PROVE  /\ x # e => OfEntry(new, x) = OfEntry(s, x)
               /\ x = e => OfEntry(new, x) = OfEntry(s, x) \cup {n}
               /\ n \notin OfEntry(s, x)
    BY <2>3, <2>4 DEF OfEntry
  <2> QED
    BY <2>2, <2>5
<1>5. WithinCount(new, afl, e, left - 1)
  <2>1. /\ Cardinality(OfEntry(new, e)) = Cardinality(OfEntry(s, e)) + 1
        /\ Cardinality(OfEntry(s, e)) \in Nat
    BY <1>4, FS_AddElement, FS_CardinalityType
  <2>2. \A x \in DOMAIN afl : Cardinality(OfEntry(new, x)) <= afl[x].oda
    <3>1. ASSUME NEW x \in DOMAIN afl
          PROVE  Cardinality(OfEntry(new, x)) <= afl[x].oda
      <4>1. CASE x = e
        <5>1. Cardinality(OfEntry(s, e)) + left <= afl[e].oda /\ afl[e].oda \in Nat
          BY <1>types DEF WithinCount
        <5> QED
          BY <1>1, <2>1, <4>1, <5>1
      <4>2. CASE x # e
        BY <1>4, <4>2 DEF WithinCount
      <4> QED
        BY <4>1, <4>2
    <3> QED
      BY <3>1
  <2> QED
    BY <1>1, <1>types, <2>1, <2>2 DEF WithinCount
<1>6. ASSUME Complete(s, afl, e, r, left), r <= afl[e].records
      PROVE  Complete(new, afl, e, r + 1, left - 1)
  <2>1. r <= afl[e].oda /\ left = afl[e].oda - (r - 1)
    BY <1>6 DEF Complete
  <2>2. <<e, r>> \in Signed(afl)
    BY <1>1, <1>6, <1>types, <2>1, SignedIn
  <2>3. {new[i] : i \in DOMAIN new} = {s[i] : i \in DOMAIN s} \cup {<<e, r>>}
    <3>1. DOMAIN new = DOMAIN s \cup {n}
      BY <1>1, <1>2 DEF n
    <3> QED
      BY <1>2, <3>1
  <2>4. \A p \in Signed(afl) : p \in Nat \X Nat
    BY <1>types, SignedIn
  <2>5. \A p \in Nat \X Nat : Before(p, <<e, r + 1>>) <=> Before(p, <<e, r>>) \/ p = <<e, r>>
    BY <1>1 DEF Before
  <2>6. {new[i] : i \in DOMAIN new} = {p \in Signed(afl) : Before(p, <<e, r + 1>>)}
    BY <1>6, <2>2, <2>3, <2>4, <2>5 DEF Complete
  <2>7. /\ r + 1 <= afl[e].records + 1
        /\ left - 1 = IF r + 1 <= afl[e].oda THEN afl[e].oda - ((r + 1) - 1) ELSE 0
    BY <1>1, <1>6, <1>types, <2>1
  <2> QED
    BY <2>6, <2>7 DEF Complete
<1> QED
  BY <1>3, <1>5, <1>6 DEF new

(* A record of the entry after those that belong to authentication, and one   *)
(* that cannot be read.                                                       *)
LEMMA CollectPast ==
    ASSUME NEW afl \in Seq(AflEntry), NEW s, NEW e \in DOMAIN afl, NEW r, NEW left,
           InOrder(s, afl, e, r), WithinCount(s, afl, e, left)
    PROVE  /\ InOrder(s, afl, e, r + 1)
           /\ Complete(s, afl, e, r, left) /\ left = 0 /\ r <= afl[e].records
                 => Complete(s, afl, e, r + 1, left)
<1>1. /\ s \in Seq(Nat \X Nat) /\ e \in Nat \ {0} /\ r \in Nat \ {0}
      /\ \A i \in DOMAIN s : s[i] \in Nat \X Nat
  BY DEF InOrder
<1>2. \A x \in DOMAIN afl : afl[x].records \in Nat /\ afl[x].oda \in Nat
  BY AflFields
<1>3. \A p \in Nat \X Nat : Before(p, <<e, r + 1>>) <=> Before(p, <<e, r>>) \/ p = <<e, r>>
  BY <1>1 DEF Before
<1>4. InOrder(s, afl, e, r + 1)
  <2>1. \A i \in DOMAIN s : Before(s[i], <<e, r + 1>>)
    BY <1>1, <1>3 DEF InOrder
  <2>2. r + 1 \in Nat \ {0}
    BY <1>1
  <2> QED
    BY <2>1, <2>2 DEF InOrder
<1>5. ASSUME Complete(s, afl, e, r, left), left = 0, r <= afl[e].records
      PROVE  Complete(s, afl, e, r + 1, left)
  <2>1. r > afl[e].oda
    BY <1>1, <1>2, <1>5 DEF Complete
  <2>2. \A p \in Signed(afl) : p \in Nat \X Nat /\ p # <<e, r>>
    BY <1>1, <1>2, <2>1, SignedIn
  <2>3. {s[i] : i \in DOMAIN s} = {p \in Signed(afl) : Before(p, <<e, r + 1>>)}
    BY <1>3, <1>5, <2>2 DEF Complete
  <2>4. /\ r + 1 <= afl[e].records + 1
        /\ left = IF r + 1 <= afl[e].oda THEN afl[e].oda - ((r + 1) - 1) ELSE 0
    BY <1>1, <1>2, <1>5, <2>1
  <2> QED
    BY <2>3, <2>4 DEF Complete
<1> QED
  BY <1>4, <1>5

(* The next entry. *)
LEMMA CollectEntry ==
    ASSUME NEW afl \in Seq(AflEntry), NEW s, NEW e \in DOMAIN afl, NEW r, NEW left,
           e < Len(afl), InOrder(s, afl, e, r), WithinCount(s, afl, e, left),
           r > afl[e].records
    PROVE  /\ InOrder(s, afl, e + 1, 1) /\ WithinCount(s, afl, e + 1, afl[e + 1].oda)
           /\ Complete(s, afl, e, r, left)
                 => Complete(s, afl, e + 1, 1, afl[e + 1].oda)
<1>1. /\ s \in Seq(Nat \X Nat) /\ e \in Nat \ {0} /\ r \in Nat \ {0}
      /\ \A i \in DOMAIN s : s[i] \in Nat \X Nat
  BY DEF InOrder
<1>2. /\ \A x \in DOMAIN afl : afl[x].records \in Nat /\ afl[x].oda \in Nat
      /\ e + 1 \in DOMAIN afl
  BY <1>1, AflFields
<1>3. \A p \in Nat \X Nat : Before(p, <<e, r>>) => Before(p, <<e + 1, 1>>) /\ p[1] # e + 1
  BY <1>1 DEF Before
<1>4. InOrder(s, afl, e + 1, 1)
  <2>1. \A i \in DOMAIN s : Before(s[i], <<e + 1, 1>>)
    BY <1>1, <1>3 DEF InOrder
  <2>2. e + 1 \in Nat \ {0} /\ 1 \in Nat \ {0}
    BY <1>1
  <2> QED
    BY <1>2, <2>1, <2>2 DEF InOrder
<1>5. WithinCount(s, afl, e + 1, afl[e + 1].oda)
  <2>1. OfEntry(s, e + 1) = {}
    BY <1>1, <1>3 DEF InOrder, OfEntry
  <2>2. Cardinality(OfEntry(s, e + 1)) = 0
    BY <2>1, FS_EmptySet
  <2> QED
    BY <1>2, <2>2 DEF WithinCount
<1>6. ASSUME Complete(s, afl, e, r, left)
      PROVE  Complete(s, afl, e + 1, 1, afl[e + 1].oda)
  <2>1. ASSUME NEW p \in Signed(afl)
        PROVE  Before(p, <<e + 1, 1>>) <=> Before(p, <<e, r>>)
    <3>1. PICK x \in DOMAIN afl : \E i \in 1 .. afl[x].records : p = <<x, i>>
      BY SignedIn
    <3>2. PICK i \in 1 .. afl[x].records : p = <<x, i>>
      BY <3>1
    <3>3. x \in Nat /\ i \in Nat \ {0} /\ (x = e => i < r)
      BY <1>1, <1>2, <3>2, AflFields
    <3> QED
      BY <1>1, <3>2, <3>3 DEF Before
  <2>2. {s[i] : i \in DOMAIN s} = {p \in Signed(afl) : Before(p, <<e + 1, 1>>)}
    BY <1>6, <2>1 DEF Complete
  <2>3. /\ 1 <= afl[e + 1].records + 1
        /\ afl[e + 1].oda = IF 1 <= afl[e + 1].oda THEN afl[e + 1].oda - (1 - 1) ELSE 0
    BY <1>2
  <2> QED
    BY <2>2, <2>3 DEF Complete
<1> QED
  BY <1>4, <1>5, <1>6

(* The end: with every record read the static data are what was signed.       *)
LEMMA CollectAll ==
    ASSUME NEW afl \in Seq(AflEntry), NEW s, NEW e, NEW r, NEW left,
           InOrder(s, afl, e, r), Complete(s, afl, e, r, left),
           e \in DOMAIN afl => r > afl[e].records, ~(e < Len(afl))
    PROVE  AreSigned(s, afl)
<1>1. /\ s \in Seq(Nat \X Nat) /\ e \in Nat \ {0} /\ r \in Nat \ {0}
      /\ DOMAIN afl = 1 .. Len(afl) /\ Len(afl) \in Nat
  BY AflFields DEF InOrder
<1>2. ASSUME NEW p \in Signed(afl)
      PROVE  Before(p, <<e, r>>)
  <2>1. PICK x \in DOMAIN afl : \E i \in 1 .. afl[x].records : p = <<x, i>>
    BY SignedIn
  <2>2. PICK i \in 1 .. afl[x].records : p = <<x, i>>
    BY <2>1
  <2>3. afl[x].records \in Nat /\ x \in 1 .. Len(afl)
    BY <1>1, AflFields
  <2>4. /\ x \in Nat /\ i \in Nat /\ (x = e => i < r) /\ x <= e
    BY <1>1, <2>2, <2>3
  <2> QED
    BY <1>1, <2>2, <2>4 DEF Before
<1>3. {s[i] : i \in DOMAIN s} = Signed(afl)
  BY <1>2 DEF Complete
<1> QED
  BY <1>3 DEF AreSigned, InOrder, Signed
=============================================================================
