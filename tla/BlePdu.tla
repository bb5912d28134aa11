------------------------------- MODULE BlePdu -------------------------------
(***************************************************************************)
(* One HAP PDU over a GATT characteristic: crates/hap-ble/src/pdu.rs, with *)
(* the pairing exchange of pairing.rs and Thread provisioning's messages   *)
(* as users.  A request is cut into fragments of the link's size, each is  *)
(* written, and response fragments are read until the length in the first  *)
(* is reached.  In a secure session every fragment is sealed by itself, so *)
(* it is TagLength shorter and each one read moves the receive counter:    *)
(* one left unread puts the session out of step.                           *)
(***************************************************************************)
EXTENDS PduBytes

CONSTANTS
    TagLength,          \* 16
    MAX_RESPONSE_FRAGMENTS,
    Exchanges           \* requests, responses and fragment sizes to try

ASSUME BlePduAssumption ==
    /\ TagLength \in Nat
    /\ MAX_RESPONSE_FRAGMENTS \in Nat \ {0}

VARIABLES
    pdu,        \* the exchange: what is sent, how it is cut, what comes back
    unwritten,  \* request fragments still to be written
    taken,      \* request fragments the accessory has
    unread_frags, \* response fragments not read yet
    frags,      \* response fragments read
    answer      \* "none" until the request returns

pduVars == <<pdu, unwritten, taken, unread_frags, frags, answer>>

RETURN_RESPONSE == 9

-----------------------------------------------------------------------------
\* u16::try_from(body.len()).unwrap_or(u16::MAX).
encode_request(op, tid, iid, body) ==
    <<0, op, tid>> \o Le(iid)
    \o IF body = <<>> THEN <<>> ELSE Le(Min({Len(body), U16MAX})) \o body

encode_write_body(value) == push(RETURN_RESPONSE, <<1>>) \o push(VALUE, value)

\* The value of a body, in a sequence of at most one.
value_param(body) ==
    LET r == parse(body) IN IF r.ok THEN get(r.items, VALUE) ELSE <<>>

\* Plausible fault: a continuation takes as much of the body as a first
\* fragment, and its header is cut off the end.
fragment_overfull(bytes, size) ==
    LET n == (Len(bytes) + size - 1) \div size
        part(i) == SubSeq(bytes, (i - 1) * size + 1, Min({i * size, Len(bytes)}))
        fit(f) == SubSeq(f, 1, Min({size, Len(f)}))
    IN  [i \in 1 .. n |-> IF i = 1 THEN part(1) ELSE fit(<<128, bytes[3]>> \o part(i))]

\* fragment: a first fragment of the given size, continuations that repeat the
\* transaction id and carry two bytes less.
fragment(bytes, frag_size) ==
    LET size == Max({frag_size, 3})
        step == Max({size - 2, 1})
        rest == SubSeq(bytes, size + 1, Len(bytes))
        n    == (Len(rest) + step - 1) \div step
        part(i) == SubSeq(rest, (i - 1) * step + 1, Min({i * step, Len(rest)}))
    IN  <<SubSeq(bytes, 1, Min({size, Len(bytes)}))>>
        \o [i \in 1 .. n |-> <<128, bytes[3]>> \o part(i)]

\* reassemble; a continuation without its header is an error.
WellCut(fs) == fs # <<>> /\ \A i \in 2 .. Len(fs) : Len(fs[i]) >= 2
reassemble(fs) ==
    fs[1] \o FlattenSeq([i \in 1 .. Len(fs) - 1 |-> SubSeq(fs[i + 1], 3, Len(fs[i + 1]))])

declared_total(first) ==
    IF Len(first) >= 5 THEN 5 + FromLe(first[4], first[5]) ELSE Len(first)

PduAnswer(tag, status, body) == [tag |-> tag, status |-> status, body |-> body]
MalformedPdu == PduAnswer("malformed", 0, <<>>)

decode_response(bytes) ==
    LET len == FromLe(bytes[4], bytes[5])
    IN  CASE Len(bytes) < 3 \/ Len(bytes) = 4 -> MalformedPdu
          [] Len(bytes) = 3 -> PduAnswer("ok", bytes[3], <<>>)
          [] Len(bytes) >= 5 ->
                IF Len(bytes) < 5 + len THEN MalformedPdu
                ELSE PduAnswer("ok", bytes[3], SubSeq(bytes, 6, 5 + len))

\* The fragments of request_secure leave room for the tag.
request_size(secure, frag_size) ==
    IF secure THEN Max({Max({frag_size - TagLength, 0}), 1}) ELSE frag_size

-----------------------------------------------------------------------------
\* The accessory: it joins the fragments of a request, and answers with a
\* status and a body in fragments of its own size.
RequestOf(fs) ==
    LET bytes == reassemble(fs)
        len   == IF Len(bytes) > 6 THEN FromLe(bytes[6], bytes[7]) ELSE 0
    IN  IF Len(bytes) < 5 THEN [op |-> -1, tid |-> 0, iid |-> 0, body |-> <<>>]
        ELSE [op |-> bytes[2], tid |-> bytes[3], iid |-> FromLe(bytes[4], bytes[5]),
              body |-> SubSeq(bytes, 8, Min({7 + len, Len(bytes)}))]
ResponsePdu(tid, status, body) ==
    <<2, tid, status>> \o IF body = <<>> THEN <<>> ELSE Le(Len(body)) \o body

-----------------------------------------------------------------------------
\* exchange of pairing.rs, after the request has returned.
exchange(a) ==
    CASE a.tag # "ok" -> [tag |-> a.tag, value |-> <<>>]
      [] a.tag = "ok" /\ a.status # 0 -> [tag |-> "rejected", value |-> <<>>]
      [] a.tag = "ok" /\ a.status = 0 ->
            IF value_param(a.body) = <<>> THEN [tag |-> "malformed", value |-> <<>>]
            ELSE [tag |-> "ok", value |-> value_param(a.body)[1]]

\* A request is made: a read, or a write of a value, over a plain or a sealed
\* link with room for size bytes, to an accessory that answers with a status and
\* a body, in fragments of reply bytes.
PduInit ==
    \E x \in Exchanges :
        LET body == IF x.write THEN encode_write_body(x.value) ELSE <<>>
        IN  /\ pdu = x
            /\ unwritten = fragment(encode_request(IF x.write THEN 2 ELSE 3, x.tid, x.iid, body),
                                    request_size(x.secure, x.size))
            /\ taken = <<>> /\ unread_frags = <<>> /\ frags = <<>>
            /\ answer = PduAnswer("none", 0, <<>>)

Asking == answer.tag = "none"

\* gatt.write of the next fragment; the accessory answers the last one.
WriteFragment ==
    /\ Asking /\ unwritten # <<>>
    /\ unwritten' = Tail(unwritten)
    /\ taken' = Append(taken, Head(unwritten))
    /\ unread_frags' = IF Len(unwritten) > 1 THEN unread_frags
                 ELSE fragment(ResponsePdu(pdu.tid, pdu.status, pdu.reply_body), pdu.reply)
    /\ UNCHANGED <<pdu, frags, answer>>

\* gatt.read of the next response fragment, and the test that follows it.
ReadFragment ==
    LET now == Append(frags, Head(unread_frags))
    IN  /\ Asking /\ unwritten = <<>> /\ unread_frags # <<>>
        /\ unread_frags' = Tail(unread_frags)
        /\ frags' = now
        /\ answer' = CASE ~WellCut(now) -> MalformedPdu
                       [] WellCut(now) /\ Len(reassemble(now)) >= declared_total(now[1]) ->
                             decode_response(reassemble(now))
                       [] WellCut(now) /\ Len(reassemble(now)) < declared_total(now[1]) ->
                             IF Len(now) >= MAX_RESPONSE_FRAGMENTS THEN MalformedPdu ELSE answer
        /\ UNCHANGED <<pdu, unwritten, taken>>

\* A write, a read or the opening of a fragment fails.
LinkFails ==
    /\ Asking
    /\ answer' = PduAnswer("gatt", 0, <<>>)
    /\ UNCHANGED <<pdu, unwritten, taken, unread_frags, frags>>

PduNext == WriteFragment \/ ReadFragment \/ LinkFails

-----------------------------------------------------------------------------
\* What the accessory has put together is what was asked, down to the value in
\* the body; what the caller gets is what it answered, and nothing of the answer
\* is left unread: for any size of the fragments, a length on the boundary of
\* one, an empty body.  The caller gets an error only when the link failed or
\* the answer has more fragments than it reads (request, request_secure,
\* exchange).
PduCarried ==
    LET r    == RequestOf(taken)
        many == Len(fragment(ResponsePdu(pdu.tid, pdu.status, pdu.reply_body), pdu.reply))
    IN  /\ taken # <<>> /\ unwritten = <<>> =>
              /\ r.tid = pdu.tid /\ r.iid = pdu.iid
              /\ r.op = IF pdu.write THEN 2 ELSE 3
              /\ IF pdu.write THEN value_param(r.body) = <<pdu.value>> ELSE r.body = <<>>
              /\ \A i \in DOMAIN taken :
                    Len(taken[i]) <= Max({request_size(pdu.secure, pdu.size), 3})
        /\ answer.tag = "ok" =>
              /\ answer = PduAnswer("ok", pdu.status, pdu.reply_body)
              /\ unread_frags = <<>>
              /\ exchange(answer).tag = "rejected" <=> pdu.status # 0
              /\ exchange(answer).tag = "ok" => <<exchange(answer).value>> = value_param(pdu.reply_body)
        /\ answer.tag = "malformed" => many > MAX_RESPONSE_FRAGMENTS
        /\ Len(frags) <= MAX_RESPONSE_FRAGMENTS

=============================================================================
