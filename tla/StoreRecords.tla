---------------------------- MODULE StoreRecords ----------------------------
(***************************************************************************)
(* What JsonFileStore keeps in its document, character by character where  *)
(* it converts, and how the controller finds a record again: the second    *)
(* half of crates/hap-pairing/src/store.rs and load_stored of              *)
(* crates/hap-controller.  JsonFileStore has how the document gets on the  *)
(* disk; here a call is one step, and a document may be one of an older    *)
(* version or have a record somebody damaged.                              *)
(*                                                                         *)
(* A hex digit is below Radix16 (16 in the code) and a letter from Letters *)
(* (10) on; a byte has two of them.                                        *)
(***************************************************************************)
EXTENDS Integers, Sequences

CONSTANTS
    Radix16, Letters,
    KeyBytes, IdBytes,    \* bytes of a key and of a device id
    Keypairs,             \* identities
    Stored,               \* accessories to save
    Materials,            \* broadcast material
    Queries,              \* ids the user may ask for
    OldDocuments,         \* what the file may hold at first
    MaxSaves

ASSUME StoreRecordsAssumption ==
    /\ Radix16 \in Nat \ {0} /\ Letters \in 0 .. Radix16 /\ KeyBytes \in Nat /\ IdBytes \in Nat \ {0}
    /\ MaxSaves \in Nat

VARIABLES
    document,     \* of the file
    expected,     \* id -> the accessory that was saved last under it
    identity,     \* the keypair that was saved last, at most one
    first, about, \* history: the first document's records, the ids of calls since
    saves

recordVars == <<document, expected, identity, first, about, saves>>

-----------------------------------------------------------------------------
\* A character: a hex digit in either case, a colon, or another.
Hex(n) == [kind |-> "hex", n |-> n, upper |-> FALSE]
Colon  == [kind |-> "colon", n |-> 0, upper |-> FALSE]
Plus   == [kind |-> "plus", n |-> 0, upper |-> FALSE]
Upper(s) == [i \in DOMAIN s |-> [s[i] EXCEPT !.upper = s[i].kind = "hex" /\ s[i].n >= Letters]]
eq_ignore_ascii_case(s, t) == Upper(s) = Upper(t)

High(b) == Hex(b \div Radix16)
Low(b)  == Hex(b % Radix16)
encode_hex(bytes) ==
    [i \in 1 .. 2 * Len(bytes) |-> IF i % 2 = 1 THEN High(bytes[(i + 1) \div 2]) ELSE Low(bytes[i \div 2])]

hex_digit(c) == IF c.kind = "hex" THEN <<c.n>> ELSE <<>>

\* The key, in a sequence of at most one.
decode_key_32(s) ==
    IF Len(s) # 2 * KeyBytes \/ \E i \in DOMAIN s : hex_digit(s[i]) = <<>> THEN <<>>
    ELSE <<[i \in 1 .. KeyBytes |-> Radix16 * s[2 * i - 1].n + s[2 * i].n]>>

format_device_id(id) ==
    [i \in 1 .. 3 * Len(id) - 1 |->
        CASE i % 3 = 1 -> High(id[(i + 2) \div 3]) [] i % 3 = 2 -> Low(id[(i + 1) \div 3]) [] OTHER -> Colon]

\* u8::from_str_radix of two characters, which takes a sign.
from_str_radix(p) ==
    CASE p[1].kind = "hex" /\ p[2].kind = "hex" -> <<Radix16 * p[1].n + p[2].n>>
      [] p[1].kind = "plus" /\ p[2].kind = "hex" -> <<p[2].n>>
      [] OTHER -> <<>>

\* s.split(':') gives as many parts as an id has bytes, of two characters each.
Split(s) == Len(s) = 3 * IdBytes - 1 /\ \A i \in DOMAIN s : s[i].kind = "colon" <=> i % 3 = 0
parse_device_id(s) ==
    LET byte(i) == from_str_radix(<<s[3 * i - 2], s[3 * i - 1]>>)
    IN  IF ~Split(s) \/ \E i \in 1 .. IdBytes : byte(i) = <<>> THEN <<>>
        ELSE <<[i \in 1 .. IdBytes |-> byte(i)[1]]>>

-----------------------------------------------------------------------------
\* An accessory: StoredAccessory, its transport with the fields of both kinds.
Transport(type, addr, device_id, broadcast) ==
    [type |-> type, addr |-> addr, device_id |-> device_id, broadcast |-> broadcast]
Record(id, ltpk_hex, transport, addr) ==
    [id |-> id, ltpk_hex |-> ltpk_hex, transport |-> transport, addr |-> addr]

controller_to_record(k) == [id |-> k.id, signing_key_hex |-> encode_hex(k.seed)]
controller_from_record(r) ==
    LET seed == decode_key_32(r.signing_key_hex)
    IN  IF seed = <<>> THEN <<>> ELSE <<[id |-> r.id, seed |-> seed[1]]>>

broadcast_to_record(b) == [key_hex |-> encode_hex(b.key), gsn |-> b.gsn]

\* Plausible fault: the broadcast material is left out.
accessory_to_record_silent(a) ==
    LET t == a.transport
    IN  Record(a.id, encode_hex(a.ltpk),
               <<IF t.type = "ip" THEN t ELSE Transport("ble", 0, format_device_id(t.device_id), <<>>)>>, <<>>)

accessory_to_record(a) ==
    LET t == a.transport
        b == t.broadcast
    IN  Record(a.id, encode_hex(a.ltpk),
               <<IF t.type = "ip" THEN t
                 ELSE Transport("ble", 0, format_device_id(t.device_id),
                                IF b = <<>> THEN <<>> ELSE <<broadcast_to_record(b[1])>>)>>, <<>>)

\* The accessory of a record, in a sequence of at most one: of version 2 with a
\* transport, of version 1 with an address.
accessory_from_record(r) ==
    LET ltpk == decode_key_32(r.ltpk_hex)
        t    == r.transport[1]
        id   == parse_device_id(t.device_id)
        b    == t.broadcast
        key  == decode_key_32(b[1].key_hex)
        made(transport) == <<[id |-> r.id, ltpk |-> ltpk[1], transport |-> transport]>>
    IN  IF ltpk = <<>> \/ (r.transport = <<>> /\ r.addr = <<>>) THEN <<>>
        ELSE IF r.transport = <<>> THEN made(Transport("ip", r.addr[1], <<>>, <<>>))
        ELSE IF t.type = "ip" THEN made(t)
        ELSE IF id = <<>> \/ (b # <<>> /\ key = <<>>) THEN <<>>
        ELSE made(Transport("ble", 0, id[1], IF b = <<>> THEN <<>> ELSE <<[key |-> key[1], gsn |-> b[1].gsn]>>))

-----------------------------------------------------------------------------
\* read_doc: no version is version 1.
readable(d) == d.version \in {<<>>, <<1>>, <<2>>}

\* Nothing or every accessory.
load_pairings(d) ==
    LET all == [i \in DOMAIN d.accessories |-> accessory_from_record(d.accessories[i])]
    IN  IF ~readable(d) \/ \E i \in DOMAIN all : all[i] = <<>> THEN <<>>
        ELSE <<[i \in DOMAIN all |-> all[i][1]]>>
load_controller(d) ==
    IF ~readable(d) \/ d.controller = <<>> THEN <<>> ELSE controller_from_record(d.controller[1])

First(places) == CHOOSE i \in places : \A j \in places : i <= j

\* The first accessory with that pairing id in either case, else the first with
\* that device id.
Matching(all, id, query) ==
    LET same == {i \in DOMAIN all : eq_ignore_ascii_case(all[i].id, query)}
        near == {i \in DOMAIN all : all[i].transport.type = "ble" /\ <<all[i].transport.device_id>> = id}
    IN  IF same # {} THEN <<all[First(same)]>>
        ELSE IF near # {} THEN <<all[First(near)]>> ELSE <<>>
load_stored(d, query) ==
    IF load_pairings(d) = <<>> THEN <<>>
    ELSE Matching(load_pairings(d)[1], parse_device_id(query), query)

Known(d, id) == {i \in DOMAIN d.accessories : d.accessories[i].id = id}

\* Vec::retain: what is left of the first i records.
retain(records, id) ==
    LET left[i \in 0 .. Len(records)] ==
            IF i = 0 THEN <<>>
            ELSE IF records[i].id # id THEN Append(left[i - 1], records[i])
            ELSE left[i - 1]
    IN  left[Len(records)]

\* A call that writes: write_doc makes it version 2.
Write(d) ==
    /\ readable(document) /\ saves < MaxSaves
    /\ document' = [d EXCEPT !.version = <<2>>]
    /\ saves' = saves + 1
Touched(id) == about' = about \cup {id} /\ UNCHANGED first
Expect(id, accessory) == expected' = [expected EXCEPT ![id] = accessory]

save_controller(k) ==
    /\ Write([document EXCEPT !.controller = <<controller_to_record(k)>>])
    /\ identity' = <<k>>
    /\ UNCHANGED <<expected, first, about>>

save_pairing(a) ==
    LET known == Known(document, a.id)
    IN  /\ Write([document EXCEPT !.accessories =
                    IF known = {} THEN Append(@, accessory_to_record(a))
                    ELSE [@ EXCEPT ![First(known)] = accessory_to_record(a)]])
        /\ Expect(a.id, <<a>>) /\ Touched(a.id)
        /\ UNCHANGED identity

delete_pairing(id) ==
    /\ Write([document EXCEPT !.accessories = retain(@, id)])
    /\ Expect(id, <<>>) /\ Touched(id)
    /\ UNCHANGED identity

\* No write unless the record is of a BLE accessory, which is not decoded.
save_broadcast_state(id, b) ==
    LET known == Known(document, id)
        i     == First(known)
    IN  /\ known # {}
        /\ document.accessories[i].transport # <<>> /\ document.accessories[i].transport[1].type = "ble"
        /\ Write([document EXCEPT !.accessories[i].transport[1].broadcast = <<broadcast_to_record(b)>>])
        /\ Expect(id, IF expected[id] = <<>> THEN <<>>
                      ELSE <<[expected[id][1] EXCEPT !.transport.broadcast = <<b>>]>>)
        /\ Touched(id)
        /\ UNCHANGED identity

\* What is saved is whole: keys and device ids have their length.  A record, also
\* a damaged one, has the fields serde asks for.  One accessory has one record,
\* and ids of two differ in more than case.
StoreIds == {a.id : a \in Stored}
Bytes == 0 .. Radix16 * Radix16 - 1
Keys == [1 .. KeyBytes -> Bytes]
WholeMaterial(b) == b = [key |-> b.key, gsn |-> b.gsn] /\ b.key \in Keys
WholeTransport(t) ==
    \/ t = Transport("ip", t.addr, <<>>, <<>>)
    \/ /\ t = Transport("ble", 0, t.device_id, t.broadcast) /\ t.device_id \in [1 .. IdBytes -> Bytes]
       /\ t.broadcast = <<>> \/ (t.broadcast = <<t.broadcast[1]>> /\ WholeMaterial(t.broadcast[1]))
Fields(r) ==
    LET t == r.transport[1]
    IN  /\ r = Record(r.id, r.ltpk_hex, r.transport, r.addr)
        /\ \/ r.transport = <<>>
           \/ r.transport = <<t>> /\ t = Transport("ip", t.addr, <<>>, <<>>)
           \/ r.transport = <<t>> /\ t = Transport("ble", 0, t.device_id, t.broadcast)
OldIds(d) == {d.accessories[i].id : i \in DOMAIN d.accessories}
AllIds == StoreIds \cup UNION {OldIds(d) : d \in OldDocuments}
ASSUME DocumentsAssumption ==
    /\ \A k \in Keypairs : k = [id |-> k.id, seed |-> k.seed] /\ k.seed \in Keys
    /\ \A b \in Materials : WholeMaterial(b)
    /\ \A a \in Stored :
          a = [id |-> a.id, ltpk |-> a.ltpk, transport |-> a.transport] /\ a.ltpk \in Keys /\ WholeTransport(a.transport)
    /\ \A d \in OldDocuments :
          LET all == d.accessories
          IN  /\ d = [version |-> d.version, controller |-> d.controller, accessories |-> all]
              /\ all \in Seq({all[i] : i \in DOMAIN all})
              /\ \A i \in DOMAIN all : Fields(all[i])
              /\ \A i, j \in DOMAIN all : all[i].id = all[j].id => i = j
    /\ \A x, y \in AllIds : eq_ignore_ascii_case(x, y) => x = y

\* At first: what an earlier version or a user left, or nothing.
RecordsInit ==
    /\ document \in OldDocuments
    /\ expected = [id \in StoreIds |->
          LET known == Known(document, id)
          IN  IF known = {} THEN <<>> ELSE accessory_from_record(document.accessories[First(known)])]
    /\ identity = IF document.controller = <<>> THEN <<>> ELSE controller_from_record(document.controller[1])
    /\ first = document.accessories /\ about = {} /\ saves = 0

RecordsNext ==
    \/ \E k \in Keypairs : save_controller(k)
    \/ \E a \in Stored : save_pairing(a)
    \/ \E id \in StoreIds : delete_pairing(id) \/ \E b \in Materials : save_broadcast_state(id, b)

RecordsSpec == RecordsInit /\ [][RecordsNext]_recordVars

-----------------------------------------------------------------------------
\* Records of the first document that no call was about, and where one is now.
Others == {i \in DOMAIN first : first[i].id \notin about}
Whereabouts(i) == {j \in DOMAIN document.accessories : document.accessories[j] = first[i]}

\* Records whose own id the query is, in whatever case.
Meant(query) == {id \in StoreIds : eq_ignore_ascii_case(id, query)}

\* After any calls on a document of any version the store takes, each accessory
\* is there once and reads as it was saved last, key, device id and broadcast
\* included, and so is the identity; records no call was about are there as they
\* were, once and in their order, also ones that cannot be read.  The user who
\* asks for an accessory by its pairing id gets that one, however the id is
\* written, and by its device id one with that device id (accessory_to_record,
\* accessory_from_record, save_broadcast_state, load_stored).
StoredAsSaved ==
    /\ \A id \in StoreIds : expected[id] # <<>> =>
          \E i \in DOMAIN document.accessories :
             /\ Known(document, id) = {i}
             /\ accessory_from_record(document.accessories[i]) = expected[id]
    /\ identity # <<>> /\ readable(document) => load_controller(document) = identity
    /\ \A i \in Others : \E j \in Whereabouts(i) :
          /\ Whereabouts(i) = {j}
          /\ \A k \in Others : i < k => \A l \in Whereabouts(k) : j < l
    /\ load_pairings(document) # <<>> => \A q \in Queries :
          LET got == load_stored(document, q)
          IN  /\ \A id \in Meant(q) : expected[id] # <<>> => got = expected[id]
              /\ got # <<>> /\ ~eq_ignore_ascii_case(got[1].id, q) =>
                    <<got[1].transport.device_id>> = parse_device_id(q)
              /\ got = <<>> => \A id \in StoreIds : expected[id] # <<>> /\ parse_device_id(q) # <<>> =>
                    parse_device_id(q) # <<expected[id][1].transport.device_id>>

=============================================================================
