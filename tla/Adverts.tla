------------------------------- MODULE Adverts -------------------------------
(***************************************************************************)
(* What accessories announce and what a setup label says, and how the two  *)
(* are matched: the TXT records of crates/hap-transport/src/discovery.rs   *)
(* and crates/hap-thread/src/discovery.rs, the advertisements of           *)
(* crates/hap-ble/src/advert.rs and discovery.rs, and setup_payload.rs,    *)
(* payload_match.rs and select_match of crates/hap-controller/src.         *)
(*                                                                         *)
(* A device id is [dev, case]: the characters and whether they are in      *)
(* upper or lower case.  The result of a parser is a set with at most one  *)
(* element, like Option.  A TXT value is a number, -1 when its text is not *)
(* one.  An advertisement is a record of its fields with the number of     *)
(* bytes that came.                                                        *)
(***************************************************************************)
EXTENDS Integers, Sequences, FiniteSets, Functions

CONSTANTS
    U16, U32,       \* 2^16 and 2^32: one more than the largest value
    Radix,          \* 36: the digits of a payload
    PayloadChars,   \* 9: how many of them
    CodeSpan,       \* 2^27: setup codes that a payload can say
    CategorySpan,   \* 2^8: categories
    CodeDigits      \* 8: decimal digits of a setup code

ASSUME AdvertsAssumption ==
    CodeSpan \in Nat \ {0} /\ \E h \in 1 .. CategorySpan : CategorySpan = 2 * h

lower(id) == [id EXCEPT !.case = "lower"]
upper(id) == [id EXCEPT !.case = "upper"]

\* hap_crypto::setup_hash: two different inputs have different hashes.
setup_hash(setup_id, id) == <<setup_id, id>>

-----------------------------------------------------------------------------
(* TXT records *)

number(txt, key) == IF key \in DOMAIN txt THEN txt[key] ELSE 0

\* parse_txt of hap-transport, for a record resolved at addr: the field key is
\* what the browse counts duplicates by.  A hash is valid or missing.
parse_txt(txt, addr) ==
    IF /\ "id" \in DOMAIN txt
       /\ number(txt, "c#") \in 0 .. U32 - 1
       /\ number(txt, "ci") \in 0 .. U16 - 1
       /\ number(txt, "sf") >= 0
    THEN {[via |-> "ip", id |-> txt["id"], key |-> txt["id"], addr |-> addr,
           paired |-> number(txt, "sf") % 2 = 0,
           category |-> number(txt, "ci"),
           setup_hash |-> IF "sh" \in DOMAIN txt THEN {txt["sh"]} ELSE {}]}
    ELSE {}

\* parse_txt of hap-thread: the same, without a hash.
parse_thread_txt(txt, addr) ==
    {[r EXCEPT !.via = "thread", !.setup_hash = {}] : r \in parse_txt(txt, addr)}

\* One of the preferred family if there is one, else any; none, no record.
addresses(resolved, family) ==
    LET preferred == {a \in resolved : a.family = family}
    IN  IF preferred = {} THEN resolved ELSE preferred

-----------------------------------------------------------------------------
(* BLE advertisements *)

Regular   == 6      \* the two types
Encrypted == 17
APPLE_COMPANY_ID == 76

\* HapAdvert::parse.
HapAdvert_parse(mfg) ==
    CASE mfg.type = Regular /\ mfg.len >= 13 ->
            {[kind |-> "regular", device_id |-> mfg.device_id, gsn |-> mfg.gsn,
              paired |-> mfg.sf % 2 = 0]}
      [] mfg.type = Encrypted /\ mfg.len >= 8 ->
            {[kind |-> "encrypted", advertising_id |-> mfg.device_id]}
      [] OTHER -> {}

\* parse_hap_advert, with the filter on the company of scan and scan_stream.
parse_hap_advert(mfg, peripheral) ==
    IF mfg.company # APPLE_COMPANY_ID \/ mfg.len < 15 THEN {}
    ELSE {[via |-> "ble", id |-> [dev |-> a.device_id, case |-> "lower"],
           key |-> peripheral, addr |-> peripheral,
           paired |-> a.paired,
           category |-> mfg.acid,
           setup_hash |-> IF mfg.len >= 19 THEN {mfg.hash} ELSE {}] :
              a \in {b \in HapAdvert_parse(mfg) : b.kind = "regular"}}

\* Everything one sighting can be taken for.
Records(s) ==
    CASE s.via = "ip"     -> UNION {parse_txt(s.txt, a) : a \in addresses(s.resolved, "v4")}
      [] s.via = "thread" -> UNION {parse_thread_txt(s.txt, a) : a \in addresses(s.resolved, "v6")}
      [] s.via = "ble"    -> parse_hap_advert(s.mfg, s.peripheral)

-----------------------------------------------------------------------------
(* Setup payloads *)

Value(digits) ==
    LET v[i \in 0 .. Len(digits)] == IF i = 0 THEN 0 ELSE v[i - 1] * Radix + digits[i] IN v[Len(digits)]
\* The bits of n from the one worth low on.
Field(n, low, span) == (n \div low) % span

\* The digits of a number in decimal, padded with zeros ({setup_code_num:08}).
padded(n) ==
    LET digits == CHOOSE k \in 1 .. 10 : n < 10^k /\ (k = 1 \/ n >= 10^(k - 1))
        width  == IF digits < CodeDigits THEN CodeDigits ELSE digits
    IN  [i \in 1 .. width |-> (n \div 10^(width - i)) % 10]

\* The category's lowest bit is the top of the low word, the others are the
\* lowest of the high word; above them are version bits.
category_of(full) ==
    LET low == CodeSpan * 16
    IN  Field(full, low * 2, CategorySpan \div 2) * 2 + Field(full, low, 2)

\* SetupPayload::parse.
parse_payload(uri) ==
    LET head == SubSeq(uri.text, 1, PayloadChars)
        full == Value(head)
        rest == SubSeq(uri.text, PayloadChars + 1, Len(uri.text))
        flag(bit) == Field(full, CodeSpan * bit, 2) = 1
    IN  IF \/ ~uri.scheme
           \/ Len(uri.text) < PayloadChars
           \/ \E i \in DOMAIN head : head[i] \notin 0 .. Radix - 1
        THEN {}
        ELSE {[setup_code |-> padded(Field(full, 1, CodeSpan)),
               category |-> category_of(full),
               setup_id |-> IF rest = <<>> THEN {} ELSE {rest},
               flags |-> {f \in {"ip", "ble", "nfc"} :
                            flag(CASE f = "ip" -> 2 [] f = "ble" -> 4 [] f = "nfc" -> 8)}]}

\* normalize_setup_code of the controller.
normalize_setup_code(code) == IF Len(code) = CodeDigits THEN {code} ELSE {}

-----------------------------------------------------------------------------
(* Which of the accessories found is the one of the payload *)

\* Plausible fault: a hash that is there and different falls back to the
\* category.
match_kind_lenient(payload, d) ==
    IF \E sid \in payload.setup_id, id \in {d.id, upper(d.id)} :
            setup_hash(sid, id) \in d.setup_hash
    THEN "exact"
    ELSE IF d.category = payload.category THEN "category" ELSE "none"

\* SetupPayload::match_kind.
match_kind(payload, d) ==
    IF payload.setup_id # {} /\ d.setup_hash # {}
    THEN IF \E sid \in payload.setup_id, id \in {d.id, upper(d.id)} :
                setup_hash(sid, id) \in d.setup_hash
         THEN "exact" ELSE "none"
    ELSE IF d.category = payload.category THEN "category" ELSE "none"

\* select_match: a unique exact match, else a unique match of the category.
select_match(found, payload) ==
    LET of(kind) == {d \in found : ~d.paired /\ match_kind(payload, d) = kind}
        best == IF of("exact") # {} THEN of("exact") ELSE of("category")
    IN  CASE best = {} -> [tag |-> "none", ids |-> {}, one |-> {}]
          [] \E d \in best : best = {d} -> [tag |-> "one", ids |-> {}, one |-> best]
          [] OTHER -> [tag |-> "ambiguous", ids |-> {d.id : d \in best}, one |-> {}]

=============================================================================
