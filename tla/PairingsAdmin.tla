---------------------------- MODULE PairingsAdmin ----------------------------
(***************************************************************************)
(* The /pairings endpoint as crates/hap-pairing uses it: the requests to   *)
(* add, remove and list pairings, and the replies as it reads them, the    *)
(* acknowledgement of add and remove, and the list of pairings, a          *)
(* State item followed by one group  Identifier, PublicKey, Permissions    *)
(* per pairing, the groups separated by a separator item.                  *)
(***************************************************************************)
EXTENDS Tlv8

CONSTANT KeyLength      \* bytes of a public key, 32 in the code

TLV_METHOD      == 0
TLV_IDENTIFIER  == 1
TLV_PUBLIC_KEY  == 3
TLV_STATE       == 6
TLV_ERROR       == 7
TLV_PERMISSIONS == 11
STATE_M1        == 1
STATE_M2        == 2
METHOD_ADD      == 3
METHOD_REMOVE   == 4
METHOD_LIST     == 5

\* The requests: state, method, and what the method is about.
RequestBody(method) == push(TLV_STATE, <<STATE_M1>>) \o push(TLV_METHOD, <<method>>)
AddRequest(p)       == RequestBody(METHOD_ADD) \o push(TLV_IDENTIFIER, p.id) \o push(TLV_PUBLIC_KEY, p.ltpk)
                       \o push(TLV_PERMISSIONS, <<IF p.admin THEN 1 ELSE 0>>)
RemoveRequest(id)   == RequestBody(METHOD_REMOVE) \o push(TLV_IDENTIFIER, id)
ListRequest         == RequestBody(METHOD_LIST)

\* What an operation returns: its pairings, the accessory's error code, or the
\* error of the decoder.
Result(tag, code, list) == [tag |-> tag, code |-> code, list |-> list]
Ok(list)       == Result("ok", 0, list)
Accessory(c)   == Result("accessory", c, <<>>)
Failed(why)    == Result(why, 0, <<>>)

\* An error item wins over everything, then the state must be M2.
expect_m2_ok(body) ==
    LET r     == parse(body)
        err   == get(r.items, TLV_ERROR)
        state == get(r.items, TLV_STATE)
    IN  IF ~r.ok THEN Failed("tlv8")
        ELSE IF err # <<>>
        THEN IF err[1] = <<>> THEN Failed("malformed") ELSE Accessory(err[1][1])
        ELSE IF state = <<>> \/ (state # <<>> /\ state[1] = <<>>)
        THEN Failed("malformed")
        ELSE IF state[1][1] # STATE_M2 THEN Failed("malformed")
        ELSE Ok(<<>>)

\* The fields of the group being read, each a sequence of at most one.
NoGroup == [id |-> <<>>, ltpk |-> <<>>, admin |-> <<>>]

\* flush_pairing: a whole group is a pairing, an empty one is nothing.
flush_pairing(st) ==
    LET g == st.group
        fields == Len(g.id) + Len(g.ltpk) + Len(g.admin)
    IN  IF fields = 3
        THEN [st EXCEPT !.group = NoGroup,
                        !.out = Append(@, [id |-> g.id[1], ltpk |-> g.ltpk[1],
                                           admin |-> g.admin[1]])]
        ELSE [st EXCEPT !.group = NoGroup, !.ok = @ /\ fields = 0]

\* One turn of the loop of parse_list_reply.
ReadItem(st, item) ==
    CASE item.ty = SEPARATOR -> flush_pairing(st)
      [] item.ty = TLV_IDENTIFIER -> [st EXCEPT !.group.id = <<item.value>>]
      [] item.ty = TLV_PUBLIC_KEY ->
            [st EXCEPT !.group.ltpk = <<item.value>>,
                       !.ok = @ /\ Len(item.value) = KeyLength]
      [] item.ty = TLV_PERMISSIONS ->
            [st EXCEPT !.group.admin = <<item.value # <<>> /\ item.value[1] % 2 = 1>>]
      [] OTHER -> st

ListItems(items) ==
    LET start == [ok |-> TRUE, out |-> <<>>, group |-> NoGroup]
        st    == flush_pairing(FoldLeft(ReadItem, start, items))
    IN  IF st.ok THEN Ok(st.out) ELSE Failed("malformed")

\* parse_list_reply begins with the same tests.
parse_list_reply(body) ==
    LET head == expect_m2_ok(body)
    IN  IF head.tag # "ok" THEN head ELSE ListItems(parse(body).items)

\* What the accessory replies, and what it makes of a request: it refuses to
\* add an identifier it has, and removes one it does not have without complaint.
Acknowledgement == push(TLV_STATE, <<STATE_M2>>)
Refusal(code)   == push(TLV_STATE, <<STATE_M2>>) \o push(TLV_ERROR, <<code>>)
Group(p) == push(TLV_IDENTIFIER, p.id) \o push(TLV_PUBLIC_KEY, p.ltpk)
            \o push(TLV_PERMISSIONS, <<IF p.admin THEN 1 ELSE 0>>)
ListReply(ps) ==
    Acknowledgement
    \o FlattenSeq([i \in DOMAIN ps |-> (IF i > 1 THEN push_separator ELSE <<>>) \o Group(ps[i])])

Serve(pairings, body) ==
    LET items     == parse(body).items
        field(ty) == get(items, ty)[1]
        served(ps, reply) == [pairings |-> ps, reply |-> reply]
    IN  CASE field(TLV_METHOD) = <<METHOD_LIST>> -> served(pairings, ListReply(pairings))
          [] field(TLV_METHOD) = <<METHOD_REMOVE>> ->
                served(SelectSeq(pairings, LAMBDA p : p.id # field(TLV_IDENTIFIER)), Acknowledgement)
          [] field(TLV_METHOD) = <<METHOD_ADD>> ->
                IF \E i \in DOMAIN pairings : pairings[i].id = field(TLV_IDENTIFIER)
                THEN served(pairings, Refusal(2))
                ELSE served(Append(pairings, [id |-> field(TLV_IDENTIFIER), ltpk |-> field(TLV_PUBLIC_KEY),
                                              admin |-> field(TLV_PERMISSIONS)[1] = 1]), Acknowledgement)

=============================================================================
