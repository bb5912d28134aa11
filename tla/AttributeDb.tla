----------------------------- MODULE AttributeDb -----------------------------
(***************************************************************************)
(* How the controller comes to its copy of an accessory's attribute        *)
(* database.  Over BLE it is put together in a long sweep: the GATT tables *)
(* are discovered (bluest_gatt.rs), the instance id of each characteristic *)
(* is read, and its signature asked for with a write and a read (db.rs),   *)
(* while the accessory may drop the link at any point.  Over Thread it is  *)
(* one nested TLV8 (hap-thread/src/database.rs), over IP one JSON document *)
(* (hap-model/src/accessories.rs), each decoded in one step.               *)
(*                                                                         *)
(* A UUID is a head (the short type) and a tail; HAP's own have the tail   *)
(* HAP_BASE.  On the wire each is one byte, for the four and the twelve of *)
(* the code.                                                               *)
(***************************************************************************)
EXTENDS Integers, SequencesExt

CONSTANTS
    ServiceTable,       \* the generated tables: name -> head
    TypeTable,
    FormatTable,        \* name -> default format, where a type has one
    MAX_OP_RECONNECTS,
    Accessories,        \* databases an accessory may have
    MaxDrops,           \* link losses of one behaviour
    DbFragment          \* bytes of a value one TLV8 item carries, 255 in the code

LOCAL INSTANCE Tlv8 WITH MaxFragment <- DbFragment

VARIABLES
    via,            \* "ble", "thread" or "ip"
    tree,           \* the accessory's database, a sequence of accessories
    handles,        \* UUID -> the characteristic its handle leads to
    sweep,          \* "iids", "signatures", "done" or "failed"
    slot,           \* where in the sweep
    asked,          \* the request is written, its response not read
    attempts, drops,
    found,          \* GattCharacteristics enumerated so far, with their service
    pending,        \* on the accessory: the UUID with an unanswered request
    db,             \* the database built
    chars           \* BleAccessory's (aid, iid) -> UUID and format

dbVars == <<via, tree, handles, sweep, slot, asked, attempts, drops, found, pending, db, chars>>

HAP_BASE == 7
Uuid(head, tail) == [head |-> head, tail |-> tail]
PROTOCOL_INFO_SERVICE  == Uuid(162, HAP_BASE)
SERVICE_SIGNATURE_CHAR == Uuid(165, HAP_BASE)
HAP_SERVICE_ID_CHAR    == Uuid(229, 3)

-----------------------------------------------------------------------------
\* The generated tables: a type has a name, or is Unknown and keeps its UUID.
TypeIn(table, u) ==
    LET names == {n \in DOMAIN table : u = Uuid(table[n], HAP_BASE)}
    IN  IF names = {} THEN [name |-> "Unknown", uuid |-> u]
        ELSE [name |-> CHOOSE n \in names : TRUE, uuid |-> Uuid(0, 0)]
ServiceType_from_uuid(u) == TypeIn(ServiceTable, u)
ServiceType_uuid(t) == IF t.name = "Unknown" THEN t.uuid ELSE Uuid(ServiceTable[t.name], HAP_BASE)
CharacteristicType_from_uuid(u) == TypeIn(TypeTable, u)
CharacteristicType_uuid(t) == IF t.name = "Unknown" THEN t.uuid ELSE Uuid(TypeTable[t.name], HAP_BASE)
\* In a sequence of at most one.
default_format(t) == IF t.name \in DOMAIN FormatTable THEN <<FormatTable[t.name]>> ELSE <<>>

\* Uuid::parse of hap-model, on a text that is short or full; its inverse.
Uuid_parse(text) == IF text.short THEN Uuid(text.head, HAP_BASE) ELSE Uuid(text.head, text.tail)
Uuid_serialize(u) == [short |-> u.tail = HAP_BASE, head |-> u.head, tail |-> u.tail]

\* Property bits, as an integer in two true bytes.
Bit(n, k) == (n \div 2 ^ k) % 2 = 1
U16(bytes) == bytes[1] + 256 * bytes[2]
perms_from_properties(n) ==
    {p \in {"read", "write", "events", "hidden"} :
        \/ p = "read" /\ (Bit(n, 0) \/ Bit(n, 4))
        \/ p = "write" /\ (Bit(n, 1) \/ Bit(n, 5))
        \/ p = "events" /\ Bit(n, 7)
        \/ p = "hidden" /\ Bit(n, 6)}
perms_from(n) ==
    (perms_from_properties(n) \cup IF Bit(n, 8) THEN {"events"} ELSE {})
    \cup (IF Bit(n, 2) THEN {"additional_authorization"} ELSE {})
    \cup (IF Bit(n, 3) THEN {"timed_write"} ELSE {})
\* The codes of the JSON form, an unknown one is ignored.
PermOf == [pr |-> "read", pw |-> "write", ev |-> "events", aa |-> "additional_authorization",
           tw |-> "timed_write", hd |-> "hidden", wr |-> "write_response"]
Perms_visit_seq(codes) == {PermOf[c] : c \in ToSet(codes) \cap DOMAIN PermOf}

GattFormat == [Bool |-> 1, Uint8 |-> 4, Uint16 |-> 6, Uint32 |-> 8, Uint64 |-> 10,
               Int |-> 16, Float |-> 20, String |-> 25, Data |-> 27]
\* In a sequence of at most one.
char_format_from_gatt(b) ==
    LET fs == {f \in DOMAIN GattFormat : GattFormat[f] = b}
    IN  IF fs = {} THEN <<>> ELSE <<CHOOSE f \in fs : TRUE>>

-----------------------------------------------------------------------------
CHAR_TYPE == 4
PROPERTIES == 10
PRESENTATION_FORMAT == 12

Entry(iid, type, format, perms) == [iid |-> iid, type |-> type, format |-> format, perms |-> perms]
NoEntry == Entry(-1, ServiceType_from_uuid(Uuid(0, 0)), "none", {})

\* parse_signature; NoEntry for an error.
parse_signature(iid, body) ==
    LET r     == parse(body)
        type  == get(r.items, CHAR_TYPE)
        props == get(r.items, PROPERTIES)
        pf    == get(r.items, PRESENTATION_FORMAT)
        ct    == CharacteristicType_from_uuid(Uuid(type[1][2], type[1][1]))
        fmt   == (IF pf = <<>> \/ (pf # <<>> /\ pf[1] = <<>>) THEN <<>>
                  ELSE char_format_from_gatt(pf[1][1])) \o default_format(ct)
    IN  IF ~r.ok \/ type = <<>> \/ props = <<>> THEN NoEntry
        ELSE IF Len(type[1]) # 2 \/ Len(props[1]) < 2 THEN NoEntry
        ELSE IF fmt = <<>> THEN NoEntry
        ELSE Entry(iid, ct, fmt[1], perms_from_properties(U16(props[1])))

\* What the accessory answers to a signature read of c, over any transport: a
\* characteristic has a UUID, an iid (0 for none), its property bits and a
\* format, "none" if it presents none.
Format(c) == IF c.format = "none" THEN <<>>
             ELSE push(PRESENTATION_FORMAT, <<GattFormat[c.format], 0>>)
Signature(c) ==
    push(CHAR_TYPE, <<c.uuid.tail, c.uuid.head>>) \o push(PROPERTIES, <<c.props % 256, c.props \div 256>>)
    \o Format(c)

-----------------------------------------------------------------------------
\* The slots of a database in the order of the loops: <<service, index>>.
Slots(services) ==
    FlattenSeq([s \in DOMAIN services |-> [c \in DOMAIN services[s].chars |-> <<s, c>>]])
CharAt(services, x) == services[x[1]].chars[x[2]]
InProtocolInfo(services, x) == services[x[1]].uuid = PROTOCOL_INFO_SERVICE

\* discover: a later characteristic takes the place of an earlier one with its
\* UUID, except that only one Service-Signature is kept.
discover(services) ==
    LET keep == SelectSeq(Slots(services), LAMBDA x :
                    CharAt(services, x).uuid = SERVICE_SIGNATURE_CHAR => InProtocolInfo(services, x))
        uuids == {CharAt(services, keep[i]).uuid : i \in DOMAIN keep}
        last(u) == Max({i \in DOMAIN keep : CharAt(services, keep[i]).uuid = u})
    IN  [u \in uuids |-> CharAt(services, keep[last(u)])]
\* The service iid it reads, of Protocol Information only.
service_iid(service) ==
    IF service.uuid = PROTOCOL_INFO_SERVICE
       /\ \E c \in ToSet(service.chars) : c.uuid = HAP_SERVICE_ID_CHAR
    THEN service.iid ELSE 0

\* Slots whose instance id enumerate reads.
Enumerated(services) ==
    SelectSeq(Slots(services), LAMBDA x :
        /\ CharAt(services, x).uuid # HAP_SERVICE_ID_CHAR
        /\ CharAt(services, x).uuid = SERVICE_SIGNATURE_CHAR => InProtocolInfo(services, x))

\* build_db's services, from what was enumerated and the entries read for it.
Assemble(services, entries) ==
    [s \in DOMAIN services |->
        LET own == SelectSeq(entries, LAMBDA e : e.service = s)
        IN  [iid |-> service_iid(services[s]), type |-> ServiceType_from_uuid(services[s].uuid),
             chars |-> [k \in DOMAIN own |-> own[k].entry]]]

\* BleAccessory::new: a later UUID of an iid takes the place of an earlier.
CharsMap(entries, all) ==
    LET iids == {entries[i].entry.iid : i \in DOMAIN entries}
        last(n) == all[Max({i \in DOMAIN all : all[i].iid = n})]
    IN  [n \in iids |-> [uuid |-> last(n).uuid,
                         format |-> entries[Max({i \in DOMAIN entries : entries[i].entry.iid = n})].entry.format]]

\* find, over either handle: the first match, in a sequence of at most one.
find(database, service, type) ==
    LET ofAcc(a) == FlattenSeq([s \in DOMAIN a.services |->
                        IF a.services[s].type # service THEN <<>>
                        ELSE SelectSeq(a.services[s].chars, LAMBDA c : c.type = type)])
        all == FlattenSeq([i \in DOMAIN database |->
                  [k \in DOMAIN ofAcc(database[i]) |-> <<database[i].aid, ofAcc(database[i])[k].iid>>]])
    IN  IF all = <<>> THEN <<>> ELSE <<all[1]>>

-----------------------------------------------------------------------------
Services == tree[1].services
DbInit ==
    /\ via \in {"ble", "thread", "ip"}
    /\ tree \in Accessories
    /\ via = "ble" => Len(tree) = 1 /\ tree[1].aid = 1
    /\ handles = discover(Services)
    /\ sweep = "iids" /\ slot = 1 /\ asked = FALSE /\ attempts = 0 /\ drops = 0
    /\ found = <<>> /\ pending = <<>> /\ db = <<>> /\ chars = [n \in {} |-> 0]

Sweeping == via = "ble" /\ sweep \in {"iids", "signatures"}

\* read_iid of the next characteristic of enumerate.
read_iid ==
    LET todo == Enumerated(Services)
        uuid == CharAt(Services, todo[slot]).uuid
        iid  == handles[uuid].iid
    IN  /\ via = "ble" /\ sweep = "iids" /\ slot <= Len(todo)
        /\ found' = IF iid = 0 THEN found
                    ELSE Append(found, [service |-> todo[slot][1], uuid |-> uuid, iid |-> iid, entry |-> NoEntry])
        /\ slot' = slot + 1 /\ attempts' = 0
        /\ UNCHANGED <<via, tree, handles, sweep, asked, drops, pending, db, chars>>
enumerated ==
    /\ via = "ble" /\ sweep = "iids" /\ slot > Len(Enumerated(Services))
    /\ sweep' = "signatures" /\ slot' = 1
    /\ UNCHANGED <<via, tree, handles, asked, attempts, drops, found, pending, db, chars>>

\* build_db: the next enumerated characteristic is skipped, or its signature
\* request is written.
skip_signature ==
    /\ via = "ble" /\ sweep = "signatures" /\ slot <= Len(found)
    /\ found[slot].uuid = SERVICE_SIGNATURE_CHAR
    /\ slot' = slot + 1
    /\ UNCHANGED <<via, tree, handles, sweep, asked, attempts, drops, found, pending, db, chars>>
write_request ==
    /\ via = "ble" /\ sweep = "signatures" /\ slot <= Len(found) /\ ~asked
    /\ found[slot].uuid # SERVICE_SIGNATURE_CHAR
    /\ asked' = TRUE /\ attempts' = 0
    /\ pending' = <<[uuid |-> found[slot].uuid, iid |-> found[slot].iid]>>
    /\ UNCHANGED <<via, tree, handles, sweep, slot, drops, found, db, chars>>
\* Its response is read: empty if the request was written over an earlier link.
read_response ==
    LET here  == pending # <<>> /\ pending[1].uuid = found[slot].uuid
                 /\ pending[1].iid = handles[found[slot].uuid].iid
        entry == IF here THEN parse_signature(found[slot].iid, Signature(handles[found[slot].uuid]))
                 ELSE NoEntry
    IN  /\ via = "ble" /\ sweep = "signatures" /\ asked
        /\ asked' = FALSE /\ attempts' = 0 /\ pending' = <<>>
        /\ IF entry = NoEntry THEN sweep' = "failed" /\ UNCHANGED <<slot, found>>
           ELSE /\ found' = [found EXCEPT ![slot].entry = entry]
                /\ slot' = slot + 1 /\ UNCHANGED sweep
        /\ UNCHANGED <<via, tree, handles, drops, db, chars>>
built ==
    LET entries == SelectSeq(found, LAMBDA f : f.entry # NoEntry)
    IN  /\ via = "ble" /\ sweep = "signatures" /\ slot > Len(found)
        /\ db' = <<[aid |-> 1, services |-> Assemble(Services, entries)]>>
        /\ chars' = CharsMap(entries, found)
        /\ sweep' = "done"
        /\ UNCHANGED <<via, tree, handles, slot, asked, attempts, drops, found, pending>>

\* A faulty form: the sweep goes on after the characteristic it was at.
reconnect_and_go_on ==
    /\ Sweeping /\ drops < MaxDrops
    /\ drops' = drops + 1 /\ pending' = <<>> /\ attempts' = 0
    /\ slot' = IF sweep = "iids" /\ slot > Len(Enumerated(Services)) THEN slot ELSE slot + 1
    /\ asked' = FALSE
    /\ UNCHANGED <<via, tree, sweep, handles, found, db, chars>>
\* The accessory drops the link in the middle of the operation, which
\* reconnects, discovers the handles again and repeats its own GATT access; it
\* gives up when that has been of no use, or the reconnect fails.
reconnect_bounded ==
    /\ Sweeping /\ drops < MaxDrops
    /\ drops' = drops + 1
    /\ pending' = <<>>
    /\ attempts' = attempts + 1
    /\ IF attempts + 1 > MAX_OP_RECONNECTS THEN sweep' = "failed" /\ UNCHANGED handles
       ELSE \/ handles' = discover(Services) /\ UNCHANGED sweep
            \/ sweep' = "failed" /\ UNCHANGED handles
    /\ UNCHANGED <<via, tree, slot, asked, found, db, chars>>

-----------------------------------------------------------------------------
\* The TLV8 database of Thread.
ACCESSORIES == 24
ACCESSORY == 25
ACC_IID == 26
SERVICES == 22
SERVICE == 21
SVC_TYPE == 6
SVC_IID == 7
CHARS == 20
CHAR == 19
CHR_IID == 5

\* The accessory's side: lists with empty items of type 0 between theirs.
EncodeList(ty, bodies) ==
    FlattenSeq([i \in DOMAIN bodies |-> (IF i > 1 THEN push(0, <<>>) ELSE <<>>) \o push(ty, bodies[i])])
EncodeType(u) == IF u.tail = HAP_BASE THEN <<u.head>> ELSE <<u.tail, u.head>>
EncodeChar(c) ==
    push(CHAR_TYPE, EncodeType(c.uuid)) \o push(CHR_IID, <<c.iid>>)
    \o push(PROPERTIES, <<c.props % 256, c.props \div 256>>) \o Format(c)
EncodeService(s) ==
    push(SVC_TYPE, EncodeType(s.uuid)) \o push(SVC_IID, <<s.iid, 0>>)
    \o push(CHARS, EncodeList(CHAR, [i \in DOMAIN s.chars |-> EncodeChar(s.chars[i])]))
EncodeDatabase(t) ==
    push(ACCESSORIES, EncodeList(ACCESSORY, [i \in DOMAIN t |->
        push(ACC_IID, <<t[i].aid>>)
        \o push(SERVICES, EncodeList(SERVICE, [k \in DOMAIN t[i].services |-> EncodeService(t[i].services[k])]))]))

\* Option::unwrap_or.
OrElse(option, default) == IF option = <<>> THEN default ELSE option[1]
get_u16(items, ty) ==
    LET v == OrElse(get(items, ty), <<>>)
    IN  IF v = <<>> THEN 0 ELSE IF Len(v) = 1 THEN v[1] ELSE U16(v)
list_items(value, item_type) ==
    LET own == SelectSeq(parse(value).items, LAMBDA i : i.ty = item_type)
    IN  [k \in DOMAIN own |-> own[k].value]
type_uuid(bytes) ==
    LET le == SubSeq(bytes \o <<0, 0>>, 1, 2)
    IN  IF le[2] = 0 THEN Uuid(le[1], HAP_BASE) ELSE Uuid(le[2], le[1])
\* "Data" for a format that is absent or unknown.
format_and_unit(pf) ==
    OrElse(IF pf = <<>> \/ (pf # <<>> /\ pf[1] = <<>>) THEN <<>> ELSE char_format_from_gatt(pf[1][1]), "Data")
decode_characteristic(bytes) ==
    LET m == parse(bytes).items
    IN  Entry(get_u16(m, CHR_IID), CharacteristicType_from_uuid(type_uuid(OrElse(get(m, CHAR_TYPE), <<>>))),
              format_and_unit(get(m, PRESENTATION_FORMAT)), perms_from(get_u16(m, PROPERTIES)))
decode_service(bytes) ==
    LET m  == parse(bytes).items
        cs == list_items(OrElse(get(m, CHARS), <<>>), CHAR)
    IN  [iid |-> get_u16(m, SVC_IID), type |-> ServiceType_from_uuid(type_uuid(OrElse(get(m, SVC_TYPE), <<>>))),
         chars |-> [i \in DOMAIN cs |-> decode_characteristic(cs[i])]]
decode_accessory(bytes) ==
    LET m  == parse(bytes).items
        ss == list_items(OrElse(get(m, SERVICES), <<>>), SERVICE)
    IN  [aid |-> get_u16(m, ACC_IID), services |-> [i \in DOMAIN ss |-> decode_service(ss[i])]]
decode_database(raw) ==
    LET as == list_items(OrElse(get(parse(raw).items, ACCESSORIES), <<>>), ACCESSORY)
    IN  [i \in DOMAIN as |-> decode_accessory(as[i])]

\* The JSON document of IP, whose types are texts and whose permissions codes.
Codes(n) == SetToSeq({c \in DOMAIN PermOf : PermOf[c] \in perms_from(n)} \cup {"xx"})
convert_characteristic(c) ==
    Entry(c.iid, CharacteristicType_from_uuid(Uuid_parse(c.type)), c.format, Perms_visit_seq(c.perms))
convert_service(s) ==
    [iid |-> s.iid, type |-> ServiceType_from_uuid(Uuid_parse(s.type)),
     chars |-> [i \in DOMAIN s.chars |-> convert_characteristic(s.chars[i])]]
parse_accessories(doc) ==
    [i \in DOMAIN doc |-> [aid |-> doc[i].aid,
        services |-> [k \in DOMAIN doc[i].services |-> convert_service(doc[i].services[k])]]]
Document(t) ==
    [i \in DOMAIN t |-> [aid |-> t[i].aid, services |-> [k \in DOMAIN t[i].services |->
        LET s == t[i].services[k]
        IN  [iid |-> s.iid, type |-> Uuid_serialize(s.uuid),
             chars |-> [j \in DOMAIN s.chars |->
                [iid |-> s.chars[j].iid, type |-> Uuid_serialize(s.chars[j].uuid),
                 format |-> s.chars[j].format, perms |-> Codes(s.chars[j].props)]]]]]]

\* read_database, or accessories() of the IP handle.
decode ==
    /\ via # "ble" /\ sweep = "iids"
    /\ db' = IF via = "thread" THEN decode_database(EncodeDatabase(tree)) ELSE parse_accessories(Document(tree))
    /\ sweep' = "done"
    /\ UNCHANGED <<via, tree, handles, slot, asked, attempts, drops, found, pending, chars>>

DbNext ==
    \/ read_iid \/ enumerated \/ skip_signature \/ write_request \/ read_response \/ built
    \/ reconnect_bounded \/ decode

-----------------------------------------------------------------------------
\* What the database should say of a characteristic.
FormatSeen(c) ==
    IF c.format # "none" THEN c.format
    ELSE CASE via = "ble" -> default_format(CharacteristicType_from_uuid(c.uuid))[1] [] via = "thread" -> "Data" [] OTHER -> "none"
Seen(c) ==
    Entry(c.iid, c.uuid, FormatSeen(c),
          IF via = "ble" THEN perms_from_properties(c.props) ELSE perms_from(c.props))
\* BLE leaves out what is no characteristic of the model.
Hap(c) == c.iid # 0 /\ c.uuid \notin {SERVICE_SIGNATURE_CHAR, HAP_SERVICE_ID_CHAR}
CharsSeen(s) ==
    LET cs == IF via = "ble" THEN SelectSeq(s.chars, Hap) ELSE s.chars
    IN  [i \in DOMAIN cs |-> Seen(cs[i])]
\* An entry of the database, with the UUID of its type.
Spelled(e) == [e EXCEPT !.type = CharacteristicType_uuid(@)]
Kept(got, acc) ==
    /\ got.aid = acc.aid /\ Len(got.services) = Len(acc.services)
    /\ \A s \in DOMAIN acc.services :
          /\ ServiceType_uuid(got.services[s].type) = acc.services[s].uuid
          /\ got.services[s].iid = IF via = "ble" THEN service_iid(acc.services[s]) ELSE acc.services[s].iid
          /\ [i \in DOMAIN got.services[s].chars |-> Spelled(got.services[s].chars[i])] = CharsSeen(acc.services[s])

Shared(u) == Cardinality({x \in ToSet(Slots(Services)) : CharAt(Services, x).uuid = u /\ Hap(CharAt(Services, x))}) > 1
AllHap == {CharAt(Services, x) : x \in {y \in ToSet(Slots(Services)) : Hap(CharAt(Services, y))}}

\* A database that is returned is the accessory's own, service by service and
\* characteristic by characteristic, with its types, formats and permissions,
\* wherever the link dropped in the sweep and however the document spells them;
\* every iid leads to the UUID of its own characteristic, and find to a
\* characteristic of the type asked for.  Over BLE this is said of accessories
\* no two of whose characteristics share a UUID (enumerate, build_db,
\* decode_database, parse_accessories, BleAccessory::new).
DatabaseKept ==
    sweep = "done" /\ (via = "ble" => \A c \in AllHap : ~Shared(c.uuid)) =>
        /\ Len(db) = Len(tree)
        /\ \A i \in DOMAIN tree : Kept(db[i], tree[i])
        /\ via = "ble" => \A c \in AllHap : c.iid \in DOMAIN chars /\ chars[c.iid] = [uuid |-> c.uuid, format |-> FormatSeen(c)]
        /\ \A i \in DOMAIN tree, s \in DOMAIN Services : \A c \in ToSet(CharsSeen(Services[s])) :
              LET at == find(db, ServiceType_from_uuid(Services[s].uuid), CharacteristicType_from_uuid(c.type))
              IN  at # <<>> /\ \E a \in ToSet(tree) : \E t \in ToSet(a.services) : \E d \in ToSet(t.chars) :
                     t.uuid = Services[s].uuid /\ c.type = d.uuid /\ at[1] = <<a.aid, d.iid>>

\* "`accessories` models a single accessory [...] so characteristic iids are
\* unique" (BleAccessory::new): no two characteristics of a database built over
\* BLE have one instance id.
IidsUnique ==
    via = "ble" /\ sweep = "done" =>
        LET all == FlattenSeq([s \in DOMAIN db[1].services |-> db[1].services[s].chars])
        IN  \A i, j \in DOMAIN all : all[i].iid = all[j].iid => i = j

=============================================================================
