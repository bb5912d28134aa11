------------------------------ MODULE ThreadPdu ------------------------------
(***************************************************************************)
(* Batches of characteristic operations over Thread: the PDU codec of      *)
(* crates/hap-thread/src/pdu.rs, the operations of ThreadAccessory that    *)
(* use it, and the reference accessory (hap-thread-dut) that serves them   *)
(* and pushes events.  The counters, retransmissions and blocks under them *)
(* are CoapConnection's subject; here one request is answered before the   *)
(* next is sent, and its answer is a sequence of bytes.                    *)
(*                                                                         *)
(* An accessory other than the reference one may answer a batch in another *)
(* order, not to the end, or with a byte missing.                          *)
(***************************************************************************)
EXTENDS PduBytes

CONSTANTS
    Batches,        \* sequences of iids to read at once
    Lamp,           \* Self::ON_IID
    Database,       \* Self::synthetic_database()
    MaxCalls,       \* calls of one behaviour
    MaxPushes       \* events of one notification

VARIABLES
    lamp,           \* the accessory's On value
    subscriptions,
    call,           \* the call under way: its operation, iids and value
    request, reply, \* bytes on the way, <<>> when there are none
    disorder,       \* what the accessory does to its answer
    result,         \* what the last call returned
    pushed, events_payload, \* events pushed and their records
    heard,          \* events decoded
    calls

threadVars == <<lamp, subscriptions, call, request, reply, disorder, result,
                pushed, events_payload, heard, calls>>

CharWrite    == 2
CharRead     == 3
ReadDatabase == 9
Subscribe    == 11
Unsubscribe  == 12

STATUS_SUCCESS == 0
STATUS_UNSUPPORTED == 1
STATUS_INVALID_INSTANCE_ID == 4

-----------------------------------------------------------------------------
\* encode_request of hap-thread: a length even when the body is empty.
thread_request(op, tid, iid, body) ==
    <<0, op, tid>> \o Le(iid) \o Le(Min({Len(body), U16MAX})) \o body

\* The index is the transaction id, up to the largest byte.
encode_all(op, entries) ==
    FlattenSeq([i \in DOMAIN entries |->
        thread_request(op, Min({i - 1, U8MAX}), entries[i].iid, entries[i].body)])

encode_value_body(value) == push(VALUE, value)

\* A failed decoding is [ok |-> FALSE]; out is what was decoded.
Decoded(ok, out) == [ok |-> ok, out |-> out]
Malformed == Decoded(FALSE, <<>>)

\* Response::value, of a body: a missing item is an empty value.
response_value(body) ==
    LET v == get(parse(body).items, VALUE)
    IN  IF body = <<>> THEN Decoded(TRUE, <<>>)
        ELSE IF ~parse(body).ok THEN Malformed
        ELSE Decoded(TRUE, IF v = <<>> THEN <<>> ELSE v[1])

\* decode_one: [ok, response, the bytes after it].
decode_one(bytes) ==
    LET len  == FromLe(bytes[4], bytes[5])
        none == [ok |-> FALSE, response |-> <<>>, rest |-> <<>>]
    IN  IF Len(bytes) < 5 THEN none
        ELSE IF bytes[1] # 2 \/ Len(bytes) < 5 + len THEN none
        ELSE [ok |-> TRUE,
              response |-> [tid |-> bytes[2], status |-> bytes[3], body |-> SubSeq(bytes, 6, 5 + len)],
              rest |-> SubSeq(bytes, 6 + len, Len(bytes))]

\* Plausible fault: the transaction ids are not looked at.
AnyPosition(response, out) == TRUE
InPosition(response, out) == response.tid = Min({Len(out), U8MAX})

\* The loop of decode_all, with the responses so far.
RECURSIVE DecodeAll(_, _)
DecodeAll(bytes, out) ==
    LET one == decode_one(bytes)
    IN  IF bytes = <<>> THEN Decoded(TRUE, out)
        ELSE IF ~one.ok THEN Malformed
        ELSE IF ~InPosition(one.response, out) THEN Malformed
        ELSE DecodeAll(one.rest, Append(out, one.response))
decode_all(bytes) == DecodeAll(bytes, <<>>)

\* decode_events, likewise: records  0, iid, length, value item.
RECURSIVE DecodeEvents(_, _)
DecodeEvents(bytes, out) ==
    LET len == FromLe(bytes[4], bytes[5])
        v   == response_value(SubSeq(bytes, 6, 5 + len))
    IN  IF bytes = <<>> THEN Decoded(TRUE, out)
        ELSE IF Len(bytes) < 5 \/ (Len(bytes) >= 5 /\ Len(bytes) < 5 + len) THEN Malformed
        ELSE IF ~v.ok THEN Malformed
        ELSE DecodeEvents(SubSeq(bytes, 6 + len, Len(bytes)),
                          Append(out, [iid |-> FromLe(bytes[2], bytes[3]), value |-> v.out]))
decode_events(bytes) == DecodeEvents(bytes, <<>>)

-----------------------------------------------------------------------------
\* The reference accessory.
RECURSIVE DecodeRequests(_, _)
DecodeRequests(bytes, out) ==
    LET len == FromLe(bytes[6], bytes[7])
    IN  IF bytes = <<>> THEN Decoded(TRUE, out)
        ELSE IF Len(bytes) < 7 \/ (Len(bytes) >= 7 /\ Len(bytes) < 7 + len) THEN Malformed
        ELSE DecodeRequests(SubSeq(bytes, 8 + len, Len(bytes)),
                Append(out, [op |-> bytes[2], tid |-> bytes[3],
                             iid |-> FromLe(bytes[4], bytes[5]), body |-> SubSeq(bytes, 8, 7 + len)]))
decode_requests(bytes) == DecodeRequests(bytes, <<>>)

encode_response(tid, status, body) ==
    <<2, tid, status>> \o Le(Min({Len(body), U16MAX})) \o body
value_body(value) == push(VALUE, value)
extract_value(body) ==
    LET v == get(parse(body).items, VALUE)
    IN  IF ~parse(body).ok \/ v = <<>> THEN Malformed ELSE Decoded(TRUE, v[1])

\* handle_char, with the lamp and subscriptions in acc, to which its answer is
\* added.
handle_char(acc, req) ==
    LET answer(status, body) ==
            [acc EXCEPT !.out = Append(@, encode_response(req.tid, status, body))]
        done(a) == [a EXCEPT !.out = Append(@, encode_response(req.tid, STATUS_SUCCESS, <<>>))]
        value   == extract_value(req.body)
        on      == IF value.out = <<>> THEN 0 ELSE IF value.out[1] # 0 THEN 1 ELSE 0
    IN  CASE req.op = ReadDatabase -> answer(STATUS_SUCCESS, Database)
          [] req.op # ReadDatabase /\ req.iid # Lamp -> answer(STATUS_INVALID_INSTANCE_ID, <<>>)
          [] req.iid = Lamp /\ req.op = CharRead -> answer(STATUS_SUCCESS, value_body(<<acc.lamp>>))
          [] req.iid = Lamp /\ req.op = CharWrite ->
                IF value.ok THEN done([acc EXCEPT !.lamp = on]) ELSE answer(STATUS_UNSUPPORTED, <<>>)
          [] req.iid = Lamp /\ req.op = Subscribe -> done([acc EXCEPT !.subs = @ \cup {req.iid}])
          [] req.iid = Lamp /\ req.op = Unsubscribe -> done([acc EXCEPT !.subs = @ \ {req.iid}])

-----------------------------------------------------------------------------
Idle == [op |-> 0, iids |-> <<>>, value |-> <<>>]
ThreadInit ==
    /\ lamp \in {0, 1} /\ subscriptions = {}
    /\ call = Idle /\ request = <<>> /\ reply = <<>> /\ disorder = "none"
    /\ result = Malformed
    /\ pushed = <<>> /\ events_payload = <<>> /\ heard = <<>> /\ calls = 0

\* A call posts its batch of requests, each with the same body.
Post(op, iids, value, body) ==
    /\ call = Idle /\ calls < MaxCalls
    /\ calls' = calls + 1
    /\ call' = [op |-> op, iids |-> iids, value |-> value]
    /\ request' = encode_all(op, [i \in DOMAIN iids |-> [iid |-> iids[i], body |-> body]])
    /\ UNCHANGED <<lamp, subscriptions, reply, disorder, result, pushed, events_payload, heard>>

read_characteristics(iids) == Post(CharRead, iids, <<>>, <<>>)
write_characteristic(iid, value) == Post(CharWrite, <<iid>>, value, encode_value_body(value))
read_database_raw == Post(ReadDatabase, <<0>>, <<>>, <<>>)
subscribe(iid) == Post(Subscribe, <<iid>>, <<>>, <<>>)
unsubscribe(iid) == Post(Unsubscribe, <<iid>>, <<>>, <<>>)

\* secure_pdu: every request of the batch is served in order.
secure_pdu ==
    /\ request # <<>>
    /\ LET requests == decode_requests(request)
           acc == FoldLeft(handle_char, [lamp |-> lamp, subs |-> subscriptions, out |-> <<>>], requests.out)
       IN  \E d \in {"none", "reversed", "short", "cut"} :
              /\ requests.ok
              /\ disorder' = d
              /\ reply' = CASE d = "none" -> FlattenSeq(acc.out)
                            [] d = "reversed" -> FlattenSeq(Reverse(acc.out))
                            [] d = "short" -> FlattenSeq(Front(acc.out))
                            [] d = "cut" -> Front(FlattenSeq(acc.out))
              /\ lamp' = acc.lamp
              /\ subscriptions' = acc.subs
    /\ request' = <<>>
    /\ UNCHANGED <<call, result, pushed, events_payload, heard, calls>>

\* What read_characteristics makes of each response.
ReadOutcome(r) ==
    IF r.status # 0 THEN [tag |-> "status", value |-> <<r.status>>]
    ELSE IF response_value(r.body).ok THEN [tag |-> "ok", value |-> response_value(r.body).out]
    ELSE [tag |-> "malformed", value |-> <<>>]
\* The others look at the first response only.
FirstOutcome(r) ==
    IF r.status # 0 THEN [tag |-> "status", value |-> <<r.status>>]
    ELSE [tag |-> "ok", value |-> r.body]

\* The call returns: a list for reads, the first outcome for the others.
Returns ==
    /\ call # Idle /\ request = <<>>
    /\ LET responses == decode_all(reply)
           outcomes  == IF call.op = CharRead
                        THEN [i \in DOMAIN responses.out |-> ReadOutcome(responses.out[i])]
                        ELSE <<FirstOutcome(responses.out[1])>>
       IN  result' = IF ~responses.ok \/ (call.op # CharRead /\ responses.out = <<>>)
                     THEN Malformed ELSE Decoded(TRUE, outcomes)
    /\ reply' = <<>> /\ disorder' = "none" /\ call' = Idle
    /\ UNCHANGED <<lamp, subscriptions, request, pushed, events_payload, heard, calls>>

\* push_event, for a subscribed characteristic; records may come together.
push_event(iid, value) ==
    /\ iid \in subscriptions
    /\ Len(pushed) < MaxPushes
    /\ Len(value_body(value)) <= U16MAX
    /\ pushed' = Append(pushed, [iid |-> iid, value |-> value])
    /\ events_payload' = events_payload \o <<0>> \o Le(iid) \o Le(Len(value_body(value))) \o value_body(value)
    /\ UNCHANGED <<lamp, subscriptions, call, request, reply, disorder, result, heard, calls>>

next_event ==
    /\ events_payload # <<>>
    /\ decode_events(events_payload).ok
    /\ heard' = heard \o decode_events(events_payload).out
    /\ events_payload' = <<>>
    /\ UNCHANGED <<lamp, subscriptions, call, request, reply, disorder, result, pushed, calls>>

ThreadNext ==
    \/ \E iids \in Batches : read_characteristics(iids)
    \/ \E iid \in {Lamp, Lamp + 1}, v \in {<<>>, <<0>>, <<1>>, <<2, 0, 1>>} : write_characteristic(iid, v)
    \/ \E iid \in {Lamp, Lamp + 1} : subscribe(iid) \/ unsubscribe(iid)
    \/ read_database_raw
    \/ secure_pdu
    \/ Returns
    \/ \E v \in {<<>>, <<1>>, <<2, 0, 1>>} : push_event(Lamp, v)
    \/ next_event

-----------------------------------------------------------------------------
\* What the answer to the call should say of its i-th characteristic, the
\* accessory having served it.
Told(i) ==
    IF call.op = ReadDatabase THEN [tag |-> "ok", value |-> Database]
    ELSE IF call.iids[i] # Lamp THEN [tag |-> "status", value |-> <<STATUS_INVALID_INSTANCE_ID>>]
    ELSE [tag |-> "ok", value |-> IF call.op = CharRead THEN <<lamp>> ELSE <<>>]

\* A call that returns says of every characteristic it asked for what the
\* accessory said of that one, never of another in the batch, also when the
\* answers come in another order, not to the end, or cut; it fails only then.
\* A write, a subscription and its end are in force when they return, and the
\* events decoded are the ones pushed, in order (read_characteristics,
\* decode_all, decode_events, handle_char).
BatchAligned ==
    [][/\ call # Idle /\ call' = Idle =>
            /\ result'.ok => \A i \in DOMAIN result'.out : result'.out[i] = Told(i)
            /\ disorder = "none" => result'.ok /\ Len(result'.out) = Len(call.iids)
            /\ result'.ok /\ call.iids = <<Lamp>> =>
                  /\ call.op = CharWrite => lamp = IF call.value = <<>> \/ Head(call.value \o <<0>>) = 0 THEN 0 ELSE 1
                  /\ call.op = Subscribe => Lamp \in subscriptions
                  /\ call.op = Unsubscribe => Lamp \notin subscriptions
       /\ IsPrefix(heard', pushed') /\ (events_payload' = <<>> => heard' = pushed')]_threadVars

=============================================================================
