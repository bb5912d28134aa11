----------------------------- MODULE FileProofs -----------------------------
(***************************************************************************)
(* Proofs about JsonFileStore, for any number of tasks, accessories and    *)
(* crashes, and about StoreRecords, for any keys, ids and documents.       *)
(*                                                                         *)
(* JsonFileStore.  It implements the contract of the PairingStore trait,   *)
(* as long as no call is cut off in the middle of a file-system call       *)
(* (CancelSpec is not Spec).  The invariant says who may change what.  The *)
(* lock is held by the one task between reading and renaming, so the       *)
(* document it has computed is still the call applied to what is on disk;  *)
(* the file it writes to is the temporary one, which is never the file at  *)
(* the path.                                                               *)
(*                                                                         *)
(* StoreRecords.  A key and a device id read as they were written, so a    *)
(* record reads as the accessory it was made from.  RecordsInv says that   *)
(* an id has one place in the document, and what is there; each call       *)
(* leaves the records of other ids where an order-preserving function      *)
(* finds them (Carries).                                                   *)
(***************************************************************************)
EXTENDS JsonFileStore, StoreRecords, WellFoundedInduction, TLAPS

-----------------------------------------------------------------------------
(* StoreRecords: conversions *)

LEMMA ByteHalves ==
    ASSUME NEW b \in Bytes
    PROVE  /\ b \div Radix16 \in Nat /\ b % Radix16 \in Nat
           /\ Radix16 * (b \div Radix16) + (b % Radix16) = b
  BY StoreRecordsAssumption DEF Bytes

LEMMA HexFields ==
    \A n : /\ Hex(n).kind = "hex" /\ Hex(n).n = n /\ hex_digit(Hex(n)) = <<n>>
           /\ hex_digit(Hex(n)) # <<>>
  BY Zenon DEF Hex, hex_digit

\* A function on 1 .. n is a sequence of that length.
LEMMA Sequence ==
    ASSUME NEW S, NEW n \in Nat, NEW s \in [1 .. n -> S]
    PROVE  s \in Seq(S) /\ Len(s) = n /\ DOMAIN s = 1 .. n
  OBVIOUS

\* A key reads as it was written (encode_hex, decode_key_32).
LEMMA KeyRead ==
    ASSUME NEW k \in Keys
    PROVE  decode_key_32(encode_hex(k)) = <<k>>
<1>1. KeyBytes \in Nat BY StoreRecordsAssumption, Zenon
<1>2. Len(k) = KeyBytes /\ \A i \in 1 .. KeyBytes : k[i] \in Bytes BY <1>1, Sequence, Zenon DEF Keys
<1> DEFINE S == {Hex(n) : n \in Nat}
           s == encode_hex(k)
<1>3. s = [i \in 1 .. 2 * KeyBytes |-> IF i % 2 = 1 THEN High(k[(i + 1) \div 2]) ELSE Low(k[i \div 2])]
  BY <1>2, Zenon DEF encode_hex
<1>4. \A i \in 1 .. KeyBytes : s[2 * i - 1] = High(k[i]) /\ s[2 * i] = Low(k[i])
  <2> TAKE i \in 1 .. KeyBytes
  <2>1. /\ 2 * i - 1 \in 1 .. 2 * KeyBytes /\ (2 * i - 1) % 2 = 1 /\ ((2 * i - 1) + 1) \div 2 = i
        /\ 2 * i \in 1 .. 2 * KeyBytes /\ (2 * i) % 2 # 1 /\ (2 * i) \div 2 = i
    BY <1>1
  <2> QED BY <1>3, <2>1, Zenon
<1>5. \A i \in 1 .. 2 * KeyBytes : s[i] \in S
  <2> TAKE i \in 1 .. 2 * KeyBytes
  <2>1. i % 2 = 1 => (i + 1) \div 2 \in 1 .. KeyBytes BY <1>1
  <2>2. i % 2 # 1 => i \div 2 \in 1 .. KeyBytes BY <1>1
  <2> QED BY <1>2, <1>3, <2>1, <2>2, ByteHalves, Zenon DEF High, Low
<1>6. s \in [1 .. 2 * KeyBytes -> S]
  <2>1. s = [i \in 1 .. 2 * KeyBytes |-> s[i]] BY <1>3, Zenon
  <2> HIDE DEF s, S
  <2> QED BY <1>5, <2>1, Zenon
<1> HIDE DEF s
<1>7. 2 * KeyBytes \in Nat BY <1>1
<1>8. Len(s) = 2 * KeyBytes /\ DOMAIN s = 1 .. 2 * KeyBytes BY <1>6, <1>7, Sequence, Zenon
<1>9. ~ \E i \in DOMAIN s : hex_digit(s[i]) = <<>> BY <1>5, <1>8, HexFields
<1>10. decode_key_32(s) = <<[i \in 1 .. KeyBytes |-> Radix16 * s[2 * i - 1].n + s[2 * i].n]>>
  BY <1>8, <1>9, Zenon DEF decode_key_32
<1>11. \A i \in 1 .. KeyBytes : Radix16 * s[2 * i - 1].n + s[2 * i].n = k[i]
  BY <1>2, <1>4, HexFields, ByteHalves DEF High, Low
<1>12. [i \in 1 .. KeyBytes |-> Radix16 * s[2 * i - 1].n + s[2 * i].n] = k BY <1>11, Zenon DEF Keys
<1> QED BY <1>10, <1>12, Zenon DEF s

\* So does a device id (format_device_id, parse_device_id).
LEMMA DeviceIdRead ==
    ASSUME NEW id \in [1 .. IdBytes -> Bytes]
    PROVE  parse_device_id(format_device_id(id)) = <<id>>
<1>1. IdBytes \in Nat \ {0} BY StoreRecordsAssumption, Zenon
<1>2. Len(id) = IdBytes /\ \A i \in 1 .. IdBytes : id[i] \in Bytes BY <1>1, Sequence, Zenon
<1> DEFINE S == {Hex(n) : n \in Nat} \cup {Colon}
           s == format_device_id(id)
           last == 3 * IdBytes - 1
<1>3. s = [i \in 1 .. last |->
              CASE i % 3 = 1 -> High(id[(i + 2) \div 3]) [] i % 3 = 2 -> Low(id[(i + 1) \div 3]) [] OTHER -> Colon]
  BY <1>2, Zenon DEF format_device_id
<1>4. last \in Nat BY <1>1
<1>5. \A i \in 1 .. IdBytes : s[3 * i - 2] = High(id[i]) /\ s[3 * i - 1] = Low(id[i])
  <2> TAKE i \in 1 .. IdBytes
  <2>1. /\ 3 * i - 2 \in 1 .. last /\ (3 * i - 2) % 3 = 1 /\ ((3 * i - 2) + 2) \div 3 = i
        /\ 3 * i - 1 \in 1 .. last /\ (3 * i - 1) % 3 = 2 /\ ((3 * i - 1) + 1) \div 3 = i
    BY <1>1
  <2>2. \A j \in 1 .. last : /\ j % 3 = 1 => s[j] = High(id[(j + 2) \div 3])
                             /\ j % 3 = 2 => s[j] = Low(id[(j + 1) \div 3])
    BY <1>3
  <2> HIDE DEF s, last
  <2> QED BY <2>1, <2>2, Zenon
<1>6. \A i \in 1 .. last : s[i] \in S /\ (s[i].kind = "colon" <=> i % 3 = 0)
  <2> TAKE i \in 1 .. last
  <2>1. i % 3 = 0 \/ i % 3 = 1 \/ i % 3 = 2 BY <1>4
  <2>2. i % 3 = 1 => (i + 2) \div 3 \in 1 .. IdBytes BY <1>1
  <2>3. i % 3 = 2 => (i + 1) \div 3 \in 1 .. IdBytes BY <1>1
  <2>4. \A n : Hex(n).kind # "colon" BY HexFields, Zenon
  <2>5. Colon.kind = "colon" BY Zenon DEF Colon
  <2>6. CASE i % 3 = 1
    <3>1. s[i] = High(id[(i + 2) \div 3]) BY <1>3, <2>6
    <3>2. id[(i + 2) \div 3] \div Radix16 \in Nat BY <1>2, <2>2, <2>6, ByteHalves, Zenon
    <3> QED BY <2>4, <2>6, <3>1, <3>2 DEF High
  <2>7. CASE i % 3 = 2
    <3>1. s[i] = Low(id[(i + 1) \div 3]) BY <1>3, <2>7
    <3>2. id[(i + 1) \div 3] % Radix16 \in Nat BY <1>2, <2>3, <2>7, ByteHalves, Zenon
    <3> QED BY <2>4, <2>7, <3>1, <3>2 DEF Low
  <2>8. CASE i % 3 = 0 BY <1>3, <2>5, <2>8
  <2> QED BY <2>1, <2>6, <2>7, <2>8, Zenon
<1>7. s \in [1 .. last -> S]
  <2>1. s = [i \in 1 .. last |-> s[i]] BY <1>3, Zenon
  <2> HIDE DEF s, S, last
  <2> QED BY <1>6, <2>1, Zenon
<1> HIDE DEF s, last
<1>8. Len(s) = last /\ DOMAIN s = 1 .. last BY <1>4, <1>7, Sequence, Zenon
<1>9. Split(s) BY <1>6, <1>8, Zenon DEF Split, last
<1>10. ASSUME NEW i \in 1 .. IdBytes PROVE from_str_radix(<<s[3 * i - 2], s[3 * i - 1]>>) = <<id[i]>>
  <2>1. s[3 * i - 2].kind = "hex" /\ s[3 * i - 1].kind = "hex" BY <1>5, HexFields DEF High, Low
  <2>2. Radix16 * s[3 * i - 2].n + s[3 * i - 1].n = id[i]
    BY <1>2, <1>5, HexFields, ByteHalves, Zenon DEF High, Low
  <2> QED BY <2>1, <2>2, Zenon DEF from_str_radix
<1>11. [i \in 1 .. IdBytes |-> from_str_radix(<<s[3 * i - 2], s[3 * i - 1]>>)[1]] = id
  <2>1. \A i \in 1 .. IdBytes : from_str_radix(<<s[3 * i - 2], s[3 * i - 1]>>)[1] = id[i] BY <1>10
  <2> QED BY <2>1, Zenon
<1>12. ~ \E i \in 1 .. IdBytes : from_str_radix(<<s[3 * i - 2], s[3 * i - 1]>>) = <<>>
  <2>1. \A b : <<b>> # <<>> BY Zenon
  <2> QED BY <1>10, <2>1, Zenon
<1> QED BY <1>9, <1>11, <1>12, Zenon DEF parse_device_id, s

-----------------------------------------------------------------------------
(* StoreRecords: what a record reads as *)

LEMMA ReadsOf ==
    ASSUME NEW r, NEW t, r.transport = <<t>>, NEW k, decode_key_32(r.ltpk_hex) = <<k>>
    PROVE  /\ t.type = "ip" =>
                accessory_from_record(r) = <<[id |-> r.id, ltpk |-> k, transport |-> t]>>
           /\ t.type # "ip" /\ parse_device_id(t.device_id) = <<>> => accessory_from_record(r) = <<>>
           /\ t.type # "ip" /\ parse_device_id(t.device_id) # <<>> /\ t.broadcast = <<>> =>
                accessory_from_record(r) =
                    <<[id |-> r.id, ltpk |-> k,
                       transport |-> Transport("ble", 0, parse_device_id(t.device_id)[1], <<>>)]>>
           /\ \A b, key : t.type # "ip" /\ parse_device_id(t.device_id) # <<>>
                          /\ t.broadcast = <<b>> /\ decode_key_32(b.key_hex) = <<key>> =>
                accessory_from_record(r) =
                    <<[id |-> r.id, ltpk |-> k,
                       transport |-> Transport("ble", 0, parse_device_id(t.device_id)[1],
                                               <<[key |-> key, gsn |-> b.gsn]>>)]>>
<1>1. r.transport[1] = t /\ r.transport # <<>> /\ decode_key_32(r.ltpk_hex) # <<>> /\ decode_key_32(r.ltpk_hex)[1] = k
  OBVIOUS
<1>2. \A b : <<b>> # <<>> /\ <<b>>[1] = b BY Zenon
<1>3. t.type = "ip" => accessory_from_record(r) = <<[id |-> r.id, ltpk |-> k, transport |-> t]>>
  BY <1>1, Zenon DEF accessory_from_record
<1>4. t.type # "ip" /\ parse_device_id(t.device_id) = <<>> => accessory_from_record(r) = <<>>
  BY <1>1, Zenon DEF accessory_from_record
<1>5. ASSUME t.type # "ip", parse_device_id(t.device_id) # <<>>, t.broadcast = <<>>
      PROVE  accessory_from_record(r) =
                    <<[id |-> r.id, ltpk |-> k,
                       transport |-> Transport("ble", 0, parse_device_id(t.device_id)[1], <<>>)]>>
  BY <1>1, <1>5, Zenon DEF accessory_from_record
<1>6. ASSUME NEW b, NEW key, t.type # "ip", parse_device_id(t.device_id) # <<>>,
             t.broadcast = <<b>>, decode_key_32(b.key_hex) = <<key>>
      PROVE  accessory_from_record(r) =
                    <<[id |-> r.id, ltpk |-> k,
                       transport |-> Transport("ble", 0, parse_device_id(t.device_id)[1],
                                               <<[key |-> key, gsn |-> b.gsn]>>)]>>
  <2>1. /\ t.broadcast # <<>> /\ t.broadcast[1] = b
        /\ decode_key_32(b.key_hex) # <<>> /\ decode_key_32(b.key_hex)[1] = key
    BY <1>2, <1>6, Zenon
  <2> QED BY <1>1, <1>6, <2>1, Zenon DEF accessory_from_record
<1> QED BY <1>3, <1>4, <1>5, <1>6, Zenon

\* An accessory reads as it was saved (accessory_to_record, accessory_from_record).
THEOREM RecordRead ==
    ASSUME NEW a \in Stored
    PROVE  /\ accessory_from_record(accessory_to_record(a)) = <<a>>
           /\ accessory_to_record(a).id = a.id /\ Fields(accessory_to_record(a))
<1> DEFINE r == accessory_to_record(a)
           t == a.transport
<1>1. /\ a = [id |-> a.id, ltpk |-> a.ltpk, transport |-> t] /\ a.ltpk \in Keys /\ WholeTransport(t)
  BY DocumentsAssumption, Zenon
<1>2. r.id = a.id /\ r.ltpk_hex = encode_hex(a.ltpk) /\ r = Record(r.id, r.ltpk_hex, r.transport, r.addr)
  BY Zenon DEF accessory_to_record, Record
<1>3. decode_key_32(r.ltpk_hex) = <<a.ltpk>> BY <1>1, <1>2, KeyRead, Zenon
<1>4. CASE t = Transport("ip", t.addr, <<>>, <<>>)
  <2>1. t.type = "ip" BY <1>4 DEF Transport
  <2>2. r.transport = <<t>> BY <2>1, Zenon DEF accessory_to_record, Record
  <2>3. accessory_from_record(r) = <<[id |-> r.id, ltpk |-> a.ltpk, transport |-> t]>> BY <1>3, <2>1, <2>2, ReadsOf
  <2>4. Fields(r) BY <1>2, <1>4, <2>2 DEF Fields
  <2> QED BY <1>1, <1>2, <2>3, <2>4, Zenon
<1>5. CASE /\ t = Transport("ble", 0, t.device_id, t.broadcast) /\ t.device_id \in [1 .. IdBytes -> Bytes]
           /\ t.broadcast = <<>> \/ (t.broadcast = <<t.broadcast[1]>> /\ WholeMaterial(t.broadcast[1]))
  <2> DEFINE b == t.broadcast
             u == Transport("ble", 0, format_device_id(t.device_id),
                            IF b = <<>> THEN <<>> ELSE <<broadcast_to_record(b[1])>>)
  <2>1. t.type = "ble" BY <1>5 DEF Transport
  <2>2. r.transport = <<u>> BY <2>1, Zenon DEF accessory_to_record, Record
  <2>3. /\ u.type = "ble" /\ u.device_id = format_device_id(t.device_id)
        /\ u.broadcast = (IF b = <<>> THEN <<>> ELSE <<broadcast_to_record(b[1])>>)
        /\ u = Transport("ble", 0, u.device_id, u.broadcast)
    BY Zenon DEF Transport
  <2> HIDE DEF u, r
  <2>4. parse_device_id(u.device_id) = <<t.device_id>> BY <1>5, <2>3, DeviceIdRead, Zenon
  <2>5. parse_device_id(u.device_id) # <<>> /\ parse_device_id(u.device_id)[1] = t.device_id /\ u.type # "ip"
    BY <2>3, <2>4
  <2>6. Fields(r)
    <3>1. r.transport[1] = u BY <2>2
    <3> QED BY <1>2, <2>2, <2>3, <3>1, Zenon DEF Fields
  <2>7. CASE b = <<>>
    <3>1. u.broadcast = <<>> BY <2>3, <2>7, Zenon
    <3>2. accessory_from_record(r)
            = <<[id |-> r.id, ltpk |-> a.ltpk, transport |-> Transport("ble", 0, t.device_id, <<>>)]>>
      BY <1>3, <2>2, <2>5, <3>1, ReadsOf
    <3>3. Transport("ble", 0, t.device_id, <<>>) = t BY <1>5, <2>7, Zenon
    <3> QED BY <1>1, <1>2, <2>6, <3>2, <3>3, Zenon DEF r
  <2>8. CASE b = <<b[1]>> /\ WholeMaterial(b[1])
    <3>1. u.broadcast = <<broadcast_to_record(b[1])>> BY <2>3, <2>8
    <3>2. decode_key_32(broadcast_to_record(b[1]).key_hex) = <<b[1].key>> /\ broadcast_to_record(b[1]).gsn = b[1].gsn
      BY <2>8, KeyRead, Zenon DEF WholeMaterial, broadcast_to_record
    <3>3. accessory_from_record(r)
            = <<[id |-> r.id, ltpk |-> a.ltpk,
                 transport |-> Transport("ble", 0, t.device_id, <<[key |-> b[1].key, gsn |-> b[1].gsn]>>)]>>
      BY <1>3, <2>2, <2>5, <3>1, <3>2, ReadsOf, SMTT(30)
    <3>4. <<[key |-> b[1].key, gsn |-> b[1].gsn]>> = b BY <2>8, Zenon DEF WholeMaterial
    <3>5. Transport("ble", 0, t.device_id, b) = t BY <1>5, Zenon
    <3> QED BY <1>1, <1>2, <2>6, <3>3, <3>4, <3>5, Zenon DEF r
  <2> QED BY <1>5, <2>7, <2>8, Zenon
<1> QED BY <1>1, <1>4, <1>5, Zenon DEF WholeTransport

\* What a record reads as, whatever its transport.
LEMMA ReadFields ==
    ASSUME NEW r, Fields(r), accessory_from_record(r) # <<>>
    PROVE  LET a == accessory_from_record(r)[1]
           IN  /\ accessory_from_record(r) = <<a>> /\ a.id = r.id
               /\ a.transport.type = "ble" \/ a.transport.device_id = <<>>
               /\ a = [id |-> a.id, ltpk |-> a.ltpk, transport |-> a.transport]
<1>1. PICK t : /\ accessory_from_record(r) = <<[id |-> r.id, ltpk |-> decode_key_32(r.ltpk_hex)[1], transport |-> t]>>
               /\ t.type = "ble" \/ t.device_id = <<>>
  <2>1. r.transport = <<>> =>
          accessory_from_record(r)
            = <<[id |-> r.id, ltpk |-> decode_key_32(r.ltpk_hex)[1], transport |-> Transport("ip", r.addr[1], <<>>, <<>>)]>>
    BY Zenon DEF accessory_from_record
  <2>2. \A n, x, y, z : Transport(n, x, y, z).type = n /\ Transport(n, x, y, z).device_id = y
    BY Zenon DEF Transport
  <2>3. CASE r.transport = <<>> BY <2>1, <2>2, <2>3
  <2>4. CASE r.transport # <<>> /\ r.transport[1].type = "ip"
    <3>1. accessory_from_record(r)
            = <<[id |-> r.id, ltpk |-> decode_key_32(r.ltpk_hex)[1], transport |-> r.transport[1]]>>
      BY <2>4, Zenon DEF accessory_from_record
    <3>2. r.transport[1].device_id = <<>> BY <2>2, <2>4 DEF Fields
    <3> QED BY <3>1, <3>2, Zenon
  <2>5. CASE r.transport # <<>> /\ r.transport[1].type # "ip"
    <3>1. \E t : /\ accessory_from_record(r) = <<[id |-> r.id, ltpk |-> decode_key_32(r.ltpk_hex)[1], transport |-> t]>>
                 /\ \E x, y : t = Transport("ble", 0, x, y)
      BY <2>5, Zenon DEF accessory_from_record
    <3> QED BY <2>2, <3>1
  <2> QED BY <2>3, <2>4, <2>5, Zenon
<1> QED BY <1>1

LEMMA BroadcastFields ==
    ASSUME NEW r, NEW t, r.transport = <<t>>, t.type = "ble", NEW b \in Materials, NEW q, NEW u,
           q = Record(q.id, q.ltpk_hex, q.transport, q.addr), q.id = r.id, q.ltpk_hex = r.ltpk_hex,
           q.transport = <<u>>, u = Transport("ble", 0, t.device_id, <<broadcast_to_record(b)>>)
    PROVE  /\ Fields(q)
           /\ accessory_from_record(r) # <<>> =>
                accessory_from_record(q) = <<[accessory_from_record(r)[1] EXCEPT !.transport.broadcast = <<b>>]>>
<1>1. u.type = "ble" /\ u.device_id = t.device_id /\ u.broadcast = <<broadcast_to_record(b)>>
  BY Zenon DEF Transport
<1>2. Fields(q)
  <2>1. q.transport[1] = u /\ u = Transport("ble", 0, u.device_id, u.broadcast) BY <1>1
  <2> QED BY <2>1, Zenon DEF Fields
<1>3. ASSUME accessory_from_record(r) # <<>>
      PROVE  accessory_from_record(q) = <<[accessory_from_record(r)[1] EXCEPT !.transport.broadcast = <<b>>]>>
  <2> DEFINE k == decode_key_32(r.ltpk_hex)[1]
             id == parse_device_id(t.device_id)[1]
  <2>1. r.transport[1] = t /\ r.transport # <<>> /\ t.type # "ip" OBVIOUS
  <2>2. PICK y : accessory_from_record(r) = <<[id |-> r.id, ltpk |-> k, transport |-> Transport("ble", 0, id, y)]>>
    BY <1>3, <2>1, Zenon DEF accessory_from_record
  <2>3. parse_device_id(t.device_id) # <<>> /\ decode_key_32(r.ltpk_hex) # <<>>
    BY <1>3, <2>1, Zenon DEF accessory_from_record
  <2>4. decode_key_32(r.ltpk_hex) = <<k>> BY <2>3, Zenon DEF decode_key_32
  <2>5. decode_key_32(broadcast_to_record(b).key_hex) = <<b.key>> /\ broadcast_to_record(b).gsn = b.gsn
    BY KeyRead, DocumentsAssumption, Zenon DEF WholeMaterial, broadcast_to_record
  <2>6. [key |-> b.key, gsn |-> b.gsn] = b BY DocumentsAssumption, Zenon DEF WholeMaterial
  <2> HIDE DEF k, id
  <2>7. parse_device_id(u.device_id) # <<>> /\ u.type # "ip" /\ decode_key_32(q.ltpk_hex) = <<k>>
    BY <1>1, <2>3, <2>4, Zenon
  <2>8. accessory_from_record(q)
          = <<[id |-> q.id, ltpk |-> k,
               transport |-> Transport("ble", 0, parse_device_id(u.device_id)[1],
                                       <<[key |-> b.key, gsn |-> broadcast_to_record(b).gsn]>>)]>>
    <3> HIDE DEF id
    <3>1. PICK rec : rec = broadcast_to_record(b) BY Zenon
    <3>2. decode_key_32(rec.key_hex) = <<b.key>> /\ u.broadcast = <<rec>> BY <1>1, <2>5, <3>1, Zenon
    <3> QED BY <2>7, <3>1, <3>2, ReadsOf
  <2>9. accessory_from_record(q) = <<[id |-> r.id, ltpk |-> k, transport |-> Transport("ble", 0, id, <<b>>)]>>
    BY <1>1, <2>5, <2>6, <2>8, Zenon DEF id
  <2>10. [Transport("ble", 0, id, y) EXCEPT !.broadcast = <<b>>] = Transport("ble", 0, id, <<b>>) BY DEF Transport
  <2>11. PICK tr : tr = Transport("ble", 0, id, y) BY Zenon
  <2>12. accessory_from_record(r)[1] = [id |-> r.id, ltpk |-> k, transport |-> tr] BY <2>2, <2>11
  <2>13. [accessory_from_record(r)[1] EXCEPT !.transport.broadcast = <<b>>]
            = [id |-> r.id, ltpk |-> k, transport |-> [tr EXCEPT !.broadcast = <<b>>]]
    BY <2>12
  <2> QED BY <2>9, <2>10, <2>11, <2>13, Zenon
<1> QED BY <1>2, <1>3, Zenon

\* Broadcast material that is saved in a record is all that changes in it.
LEMMA BroadcastRead ==
    ASSUME NEW r, Fields(r), r.transport # <<>>, r.transport[1].type = "ble", NEW b \in Materials
    PROVE  LET q == [r EXCEPT !.transport[1].broadcast = <<broadcast_to_record(b)>>]
           IN  /\ Fields(q) /\ q.id = r.id
               /\ accessory_from_record(r) # <<>> =>
                    accessory_from_record(q) = <<[accessory_from_record(r)[1] EXCEPT !.transport.broadcast = <<b>>]>>
<1>1. PICK t : t = r.transport[1] BY Zenon
<1>2. PICK rec : rec = broadcast_to_record(b) BY Zenon
<1>3. PICK u : u = Transport("ble", 0, t.device_id, <<rec>>) BY Zenon
<1>4. /\ r = Record(r.id, r.ltpk_hex, r.transport, r.addr) /\ r.transport = <<t>>
      /\ t = Transport("ble", 0, t.device_id, t.broadcast)
  <2>1. Transport("ip", t.addr, <<>>, <<>>).type = "ip" BY Zenon DEF Transport
  <2> QED BY <1>1, <2>1, Zenon DEF Fields
<1>5. [t EXCEPT !.broadcast = <<rec>>] = u
  <2>1. t = [type |-> "ble", addr |-> 0, device_id |-> t.device_id, broadcast |-> t.broadcast]
    BY <1>4, Zenon DEF Transport
  <2> QED BY <1>3, <2>1 DEF Transport
<1> DEFINE q == [r EXCEPT !.transport[1].broadcast = <<broadcast_to_record(b)>>]
<1>6. q = Record(r.id, r.ltpk_hex, <<u>>, r.addr)
  <2>1. r = [id |-> r.id, ltpk_hex |-> r.ltpk_hex, transport |-> r.transport, addr |-> r.addr]
    BY <1>4, Zenon DEF Record
  <2>2. [r.transport EXCEPT ![1].broadcast = <<rec>>] = <<[t EXCEPT !.broadcast = <<rec>>]>> BY <1>4
  <2>3. q = [r EXCEPT !.transport = [r.transport EXCEPT ![1].broadcast = <<rec>>]] BY <1>2, <2>1, Zenon
  <2>4. q = [r EXCEPT !.transport = <<u>>] BY <1>5, <2>2, <2>3, Zenon
  <2> QED BY <2>1, <2>4 DEF Record
<1> HIDE DEF q
<1>7. /\ q.id = r.id /\ q.ltpk_hex = r.ltpk_hex /\ q.transport = <<u>> /\ q.addr = r.addr
      /\ q = Record(q.id, q.ltpk_hex, q.transport, q.addr)
  BY <1>6, Zenon DEF Record
<1>8. t.type = "ble" BY <1>1, Zenon
<1>9. /\ Fields(q)
      /\ accessory_from_record(r) # <<>> =>
            accessory_from_record(q) = <<[accessory_from_record(r)[1] EXCEPT !.transport.broadcast = <<b>>]>>
  BY <1>2, <1>3, <1>4, <1>7, <1>8, BroadcastFields
<1> QED BY <1>7, <1>9, Zenon DEF q

-----------------------------------------------------------------------------
(* StoreRecords: places in a sequence *)

LEMMA Least ==
    ASSUME NEW P, P \subseteq Nat, P # {}
    PROVE  First(P) \in P /\ \A j \in P : First(P) <= j
<1> DEFINE R == {ss \in Nat \X Nat : ss[1] < ss[2]}
<1>1. IsWellFoundedOn(OpToRel(<, Nat), Nat) BY NatLessThanWellFounded, Zenon
<1>2. OpToRel(<, Nat) = R BY Zenon DEF OpToRel
<1>3. IsWellFoundedOn(R, Nat) BY <1>1, <1>2, Zenon
<1>4. \A x, y \in Nat : x < y => <<x, y>> \in R BY SMT
<1> HIDE DEF R
<1>5. PICK i \in P : \A j \in P : ~ (<<j, i>> \in R) BY <1>3, WFMin, Zenon
<1>6. \A j \in P : i <= j
  <2> TAKE j \in P
  <2>1. ~(j < i) BY <1>4, <1>5, Zenon
  <2> QED BY <2>1
<1> QED BY <1>6, Zenon DEF First

LEMMA Induction ==
    ASSUME NEW S, 0 \in S, \A n \in Nat : n \in S => n + 1 \in S
    PROVE  \A n \in Nat : n \in S
<1> DEFINE P == {n \in Nat : n \notin S}
<1> SUFFICES ASSUME P # {} PROVE FALSE BY Zenon
<1>1. P \subseteq Nat BY Zenon
<1> HIDE DEF P
<1>2. PICK x \in P : \A y \in P : x <= y BY <1>1, Least, Zenon
<1>3. x \in Nat /\ x \notin S /\ x - 1 \notin P BY <1>2 DEF P
<1>4. x # 0 /\ x - 1 \in Nat BY <1>3
<1>5. x - 1 \in S BY <1>3, <1>4, Zenon DEF P
<1>6. (x - 1) + 1 \in S BY <1>4, <1>5, Zenon
<1> QED BY <1>3, <1>6

LEMMA OwnElements ==
    ASSUME NEW S, NEW s \in Seq(S)
    PROVE  s \in Seq({s[i] : i \in DOMAIN s}) /\ Len(s) \in Nat /\ DOMAIN s = 1 .. Len(s)
<1>1. Len(s) \in Nat /\ DOMAIN s = 1 .. Len(s) OBVIOUS
<1>2. s = [i \in 1 .. Len(s) |-> s[i]] OBVIOUS
<1>3. s \in [1 .. Len(s) -> {s[i] : i \in DOMAIN s}] BY <1>1, <1>2, Zenon
<1> QED BY <1>1, <1>3

\* Vec::retain's pass over the first n records, and what it leaves of them.
Pass(records, id, n, g) ==
    g = [i \in 0 .. n |-> IF i = 0 THEN <<>>
                          ELSE IF records[i].id # id THEN Append(g[i - 1], records[i])
                          ELSE g[i - 1]]

LEMMA PassExists ==
    ASSUME NEW records, NEW id, NEW n \in Nat
    PROVE  \E g : Pass(records, id, n, g)
<1> DEFINE S == {k \in Nat : \E g : Pass(records, id, k, g)}
           then(x, i) == IF records[i].id # id THEN Append(x, records[i]) ELSE x
<1>1. 0 \in S
  <2> DEFINE g == [i \in 0 .. 0 |-> <<>>]
  <2>1. Pass(records, id, 0, g) BY DEF Pass
  <2> QED BY <2>1, Zenon
<1>2. ASSUME NEW k \in Nat, k \in S PROVE k + 1 \in S
  <2>1. PICK g : Pass(records, id, k, g) BY <1>2, Zenon
  <2>2. \A i \in 0 .. k : g[i] = IF i = 0 THEN <<>> ELSE then(g[i - 1], i) BY <2>1, Zenon DEF Pass
  <2> HIDE DEF then
  <2> DEFINE h == [i \in 0 .. k + 1 |-> IF i = k + 1 THEN then(g[k], k + 1) ELSE g[i]]
  <2>3. \A i \in 0 .. k : h[i] = g[i] OBVIOUS
  <2>4. h[k + 1] = then(h[k], k + 1) BY <2>3
  <2>5. \A i \in 0 .. k + 1 : h[i] = IF i = 0 THEN <<>> ELSE then(h[i - 1], i)
    <3> TAKE i \in 0 .. k + 1
    <3>1. CASE i = k + 1 BY <2>4, <3>1
    <3>2. CASE i # k + 1
      <4>1. i \in 0 .. k /\ (i # 0 => i - 1 \in 0 .. k) BY <3>2
      <4> QED BY <2>2, <2>3, <4>1
    <3> QED BY <3>1, <3>2, Zenon
  <2>6. h = [i \in 0 .. k + 1 |-> h[i]] BY Zenon
  <2> HIDE DEF h
  <2>7. h = [i \in 0 .. k + 1 |-> IF i = 0 THEN <<>> ELSE then(h[i - 1], i)] BY <2>5, <2>6, Zenon
  <2>8. Pass(records, id, k + 1, h) BY <2>7, Zenon DEF Pass, then
  <2> QED BY <2>8
<1> HIDE DEF S
<1>3. n \in S BY <1>1, <1>2, Induction, Zenon
<1> QED BY <1>3, Zenon DEF S

\* The records of other ids, among the first n or among all, in their order: f is
\* where one was.
LeavesOf(records, n, out, id, f) ==
    /\ \A k \in DOMAIN out : f[k] \in 1 .. n /\ records[f[k]].id # id /\ out[k] = records[f[k]]
    /\ \A k, p \in DOMAIN out : k < p => f[k] < f[p]
    /\ \A i \in 1 .. n : records[i].id # id => \E k \in DOMAIN out : f[k] = i
Leaves(records, out, id, f) ==
    /\ \A k \in DOMAIN out : f[k] \in DOMAIN records /\ records[f[k]].id # id /\ out[k] = records[f[k]]
    /\ \A k, p \in DOMAIN out : k < p => f[k] < f[p]
    /\ \A i \in DOMAIN records : records[i].id # id => \E k \in DOMAIN out : f[k] = i

\* One more record: kept, it comes last; of the id, it is left out.
LEMMA OneMore ==
    ASSUME NEW S, NEW records \in Seq(S), NEW id, NEW n \in Nat, n + 1 <= Len(records),
           NEW out \in Seq(S), NEW f, LeavesOf(records, n, out, id, f)
    PROVE  /\ records[n + 1].id = id => LeavesOf(records, n + 1, out, id, f)
           /\ records[n + 1].id # id =>
                 \E g : LeavesOf(records, n + 1, Append(out, records[n + 1]), id, g)
<1>1. CASE records[n + 1].id = id
  <2>1. \A i \in 1 .. n + 1 : i # n + 1 => i \in 1 .. n OBVIOUS
  <2>2. 1 .. n \subseteq 1 .. n + 1 OBVIOUS
  <2> QED BY <1>1, <2>1, <2>2, Zenon DEF LeavesOf
<1>2. CASE records[n + 1].id # id
  <2> DEFINE m == Len(out)
             new == Append(out, records[n + 1])
             g == [k \in 1 .. m + 1 |-> IF k = m + 1 THEN n + 1 ELSE f[k]]
  <2>1. m \in Nat /\ DOMAIN out = 1 .. m OBVIOUS
  <2>2. records[n + 1] \in S OBVIOUS
  <2>3. /\ DOMAIN new = 1 .. m + 1 /\ new[m + 1] = records[n + 1]
        /\ \A k \in 1 .. m : new[k] = out[k]
    BY <2>1, <2>2
  <2>4. g[m + 1] = n + 1 /\ \A k \in 1 .. m : g[k] = f[k] BY <2>1
  <2>5. \A k \in 1 .. m + 1 : k \in Nat /\ (k = m + 1 \/ k \in 1 .. m) BY <2>1
  <2> HIDE DEF m, new, g
  <2>6. \A k \in 1 .. m : f[k] \in 1 .. n /\ records[f[k]].id # id /\ out[k] = records[f[k]]
    BY <2>1, Zenon DEF LeavesOf
  <2>7. \A k \in 1 .. m + 1 : g[k] \in 1 .. n + 1 /\ records[g[k]].id # id /\ new[k] = records[g[k]]
    <3> TAKE k \in 1 .. m + 1
    <3>1. CASE k = m + 1 BY <1>2, <2>3, <2>4, <3>1
    <3>2. CASE k \in 1 .. m
      <4>1. f[k] \in 1 .. n + 1 BY <2>6, <3>2
      <4> QED BY <2>3, <2>4, <2>6, <3>2, <4>1, Zenon
    <3> QED BY <2>5, <3>1, <3>2, Zenon
  <2>8. \A k, p \in 1 .. m + 1 : k < p => g[k] < g[p]
    <3> TAKE k, p \in 1 .. m + 1
    <3> HAVE k < p
    <3>1. k \in 1 .. m BY <2>1, <2>5
    <3>2. CASE p = m + 1
      <4>1. g[k] \in 1 .. n BY <2>4, <2>6, <3>1, Zenon
      <4> QED BY <2>4, <3>2, <4>1
    <3>3. CASE p \in 1 .. m
      <4>1. f[k] < f[p] BY <2>1, <3>1, <3>3, Zenon DEF LeavesOf
      <4> QED BY <2>4, <3>1, <3>3, <4>1, Zenon
    <3> QED BY <2>5, <3>2, <3>3, Zenon
  <2>9. \A i \in 1 .. n + 1 : records[i].id # id => \E k \in 1 .. m + 1 : g[k] = i
    <3> TAKE i \in 1 .. n + 1
    <3> HAVE records[i].id # id
    <3>1. CASE i = n + 1
      <4>1. m + 1 \in 1 .. m + 1 BY <2>1
      <4> QED BY <2>4, <3>1, <4>1, Zenon
    <3>2. CASE i # n + 1
      <4>1. i \in 1 .. n BY <3>2
      <4>2. PICK k \in 1 .. m : f[k] = i BY <2>1, <4>1, Zenon DEF LeavesOf
      <4>3. k \in 1 .. m + 1 BY <2>1, <4>2
      <4> QED BY <2>4, <4>2, <4>3, Zenon
    <3> QED BY <3>1, <3>2, Zenon
  <2>10. LeavesOf(records, n + 1, new, id, g) BY <2>3, <2>7, <2>8, <2>9, Zenon DEF LeavesOf
  <2> QED BY <1>2, <2>10, Zenon DEF new
<1> QED BY <1>1, <1>2, Zenon

\* What Vec::retain leaves of a sequence.
LEMMA Retained ==
    ASSUME NEW S, NEW records \in Seq(S), NEW id
    PROVE  retain(records, id) \in Seq(S) /\ \E f : Leaves(records, retain(records, id), id, f)
<1> DEFINE N == Len(records)
           left == CHOOSE g : Pass(records, id, N, g)
<1>1. N \in Nat OBVIOUS
<1>2. Pass(records, id, N, left) BY <1>1, PassExists, Zenon
<1>3. retain(records, id) = left[N] BY Zenon DEF retain, Pass
<1> HIDE DEF left, N
<1> DEFINE T == {n \in Nat : n <= N => left[n] \in Seq(S) /\ \E f : LeavesOf(records, n, left[n], id, f)}
<1>4. 0 \in T
  <2>1. left[0] = <<>> BY <1>1, <1>2 DEF Pass
  <2>2. DOMAIN <<>> = {} /\ <<>> \in Seq(S) /\ 1 .. 0 = {} OBVIOUS
  <2>3. LeavesOf(records, 0, <<>>, id, <<>>) BY <2>2, Zenon DEF LeavesOf
  <2>4. left[0] \in Seq(S) /\ \E f : LeavesOf(records, 0, left[0], id, f) BY <2>1, <2>2, <2>3, Zenon
  <2> QED BY <2>4, Zenon
<1>5. ASSUME NEW n \in Nat, n \in T PROVE n + 1 \in T
  <2> SUFFICES ASSUME n + 1 <= N
               PROVE  left[n + 1] \in Seq(S) /\ \E f : LeavesOf(records, n + 1, left[n + 1], id, f)
    OBVIOUS
  <2>1. left[n] \in Seq(S) /\ \E f : LeavesOf(records, n, left[n], id, f)
    <3>1. n <= N BY <1>1
    <3> QED BY <1>5, <3>1, Zenon
  <2> HIDE DEF T
  <2>2. PICK f : LeavesOf(records, n, left[n], id, f) BY <2>1, Zenon
  <2>3. n + 1 \in 0 .. N /\ n + 1 # 0 /\ (n + 1) - 1 = n BY <1>1
  <2>4. left[n + 1] = IF records[n + 1].id # id THEN Append(left[n], records[n + 1]) ELSE left[n]
    BY <1>2, <2>3, Zenon DEF Pass
  <2>5. records[n + 1] \in S BY <2>3 DEF N
  <2>6. n + 1 <= Len(records) BY Zenon DEF N
  <2>7. /\ records[n + 1].id = id => LeavesOf(records, n + 1, left[n], id, f)
        /\ records[n + 1].id # id =>
              \E g : LeavesOf(records, n + 1, Append(left[n], records[n + 1]), id, g)
    BY <2>1, <2>2, <2>6, OneMore, Zenon
  <2>8. Append(left[n], records[n + 1]) \in Seq(S) BY <2>1, <2>5
  <2> QED BY <2>1, <2>4, <2>7, <2>8, Zenon
<1> HIDE DEF T
<1>6. N \in T BY <1>1, <1>4, <1>5, Induction, Zenon
<1>7. N <= N BY <1>1
<1>8. left[N] \in Seq(S) /\ \E f : LeavesOf(records, N, left[N], id, f) BY <1>6, <1>7, Zenon DEF T
<1>9. DOMAIN records = 1 .. N BY DEF N
<1>10. \A out, f : LeavesOf(records, N, out, id, f) => Leaves(records, out, id, f)
  BY <1>9, Zenon DEF Leaves, LeavesOf
<1> QED BY <1>3, <1>8, <1>10, Zenon

-----------------------------------------------------------------------------
(* StoreRecords: the document *)

\* The document's shape; ids are of accessories that are saved or were in the
\* first document, and each is there once.
DocumentShape ==
    LET all == document.accessories
    IN  /\ document = [version |-> document.version, controller |-> document.controller, accessories |-> all]
        /\ all \in Seq({all[i] : i \in DOMAIN all})
        /\ \A i \in DOMAIN all : Fields(all[i]) /\ all[i].id \in AllIds
        /\ \A i, j \in DOMAIN all : all[i].id = all[j].id => i = j

\* Each accessory reads as it was saved last.
AccessoriesRead ==
    /\ expected = [id \in StoreIds |-> expected[id]]
    /\ \A id \in StoreIds : expected[id] # <<>> =>
          \E i \in DOMAIN document.accessories :
             /\ document.accessories[i].id = id
             /\ accessory_from_record(document.accessories[i]) = expected[id]

IdentityRead ==
    identity # <<>> => document.controller # <<>> /\ controller_from_record(document.controller[1]) = identity

\* Records no call was about, in their order.
OthersKept ==
    /\ DOMAIN first \subseteq Nat
    /\ \A i \in Others : Whereabouts(i) # {}
    /\ \A i, k \in Others : i < k => \A j \in Whereabouts(i), l \in Whereabouts(k) : j < l

RecordsInv == DocumentShape /\ AccessoriesRead /\ IdentityRead /\ OthersKept

LEMMA Domain ==
    ASSUME DocumentShape
    PROVE  DOMAIN document.accessories = 1 .. Len(document.accessories) /\ DOMAIN document.accessories \subseteq Nat
<1>1. document.accessories \in Seq({document.accessories[i] : i \in DOMAIN document.accessories})
  BY Zenon DEF DocumentShape
<1>2. /\ DOMAIN document.accessories = 1 .. Len(document.accessories)
      /\ Len(document.accessories) \in Nat
  BY <1>1, OwnElements, Zenon
<1> QED BY <1>2

\* The first place of an id is its only one.
LEMMA OnlyPlace ==
    ASSUME DocumentShape, NEW i \in DOMAIN document.accessories
    PROVE  /\ Known(document, document.accessories[i].id) = {i}
           /\ First(Known(document, document.accessories[i].id)) = i
<1> DEFINE known == Known(document, document.accessories[i].id)
<1>1. known = {i} BY Zenon DEF DocumentShape, Known
<1>2. i \in Nat BY Domain, Zenon
<1>3. First(known) \in known BY <1>1, <1>2, Least, Zenon
<1> QED BY <1>1, <1>3, Zenon

LEMMA InitialRecords == RecordsInit => RecordsInv
<1> SUFFICES ASSUME RecordsInit PROVE RecordsInv BY Zenon
<1>1. document \in OldDocuments /\ first = document.accessories /\ about = {} BY Zenon DEF RecordsInit
<1>2. DocumentShape
  <2>1. \A i \in DOMAIN document.accessories : document.accessories[i].id \in AllIds
    BY <1>1 DEF AllIds, OldIds
  <2> QED BY <1>1, <2>1, DocumentsAssumption, Zenon DEF DocumentShape
<1>3. AccessoriesRead
  <2>1. \A id \in StoreIds : expected[id] =
          IF Known(document, id) = {} THEN <<>>
          ELSE accessory_from_record(document.accessories[First(Known(document, id))])
    BY Zenon DEF RecordsInit
  <2>2. expected = [id \in StoreIds |-> expected[id]] BY Zenon DEF RecordsInit
  <2>3. ASSUME NEW id \in StoreIds, expected[id] # <<>>
        PROVE  \E i \in DOMAIN document.accessories :
                 /\ document.accessories[i].id = id
                 /\ accessory_from_record(document.accessories[i]) = expected[id]
    <3>1. Known(document, id) # {} BY <2>1, <2>3, Zenon
    <3>2. PICK i \in DOMAIN document.accessories : document.accessories[i].id = id
      BY <3>1, Zenon DEF Known
    <3>3. First(Known(document, id)) = i BY <1>2, <3>2, OnlyPlace, Zenon
    <3> QED BY <2>1, <3>1, <3>2, <3>3, Zenon
  <2> QED BY <2>2, <2>3, Zenon DEF AccessoriesRead
<1>4. IdentityRead BY Zenon DEF RecordsInit, IdentityRead
<1>5. OthersKept
  <2>1. DOMAIN first \subseteq Nat BY <1>1, <1>2, Domain, Zenon
  <2>2. \A i \in DOMAIN first : Whereabouts(i) = {i}
    BY <1>1, <1>2, Zenon DEF Whereabouts, DocumentShape
  <2>3. Others \subseteq DOMAIN first BY Zenon DEF Others
  <2> QED BY <2>1, <2>2, <2>3, Zenon DEF OthersKept
<1> QED BY <1>2, <1>3, <1>4, <1>5, Zenon DEF RecordsInv

\* What a call about one id may do to the records: f is where one of another id
\* was before, and was is what the one of that id reads as.
Carries(all, now, id, f, was) ==
    /\ now \in Seq({now[i] : i \in DOMAIN now})
    /\ \A n \in DOMAIN now : Fields(now[n]) /\ (now[n].id # id => f[n] \in DOMAIN all /\ now[n] = all[f[n]])
    /\ \A n, p \in DOMAIN now : n < p /\ now[n].id # id /\ now[p].id # id => f[n] < f[p]
    /\ \A i \in DOMAIN all : all[i].id # id => \E n \in DOMAIN now : now[n].id # id /\ f[n] = i
    /\ \A n, p \in DOMAIN now : now[n].id = id /\ now[p].id = id => n = p
    /\ was # <<>> => \E n \in DOMAIN now : now[n].id = id /\ accessory_from_record(now[n]) = was

\* The document keeps the rest, and the history has the call.
Recorded(id, was) ==
    /\ document' = [version |-> document'.version, controller |-> document'.controller,
                    accessories |-> document'.accessories]
    /\ document'.controller = document.controller
    /\ expected' = [expected EXCEPT ![id] = was]
    /\ identity' = identity /\ first' = first /\ about' = about \cup {id}

LEMMA Carried ==
    ASSUME RecordsInv, NEW id \in StoreIds, NEW f, NEW was,
           Carries(document.accessories, document'.accessories, id, f, was), Recorded(id, was)
    PROVE  RecordsInv'
<1>1. PICK all : all = document.accessories BY Zenon
<1>2. PICK now : now = document'.accessories BY Zenon
<1>3. /\ \A n \in DOMAIN now : Fields(now[n]) /\ (now[n].id # id => f[n] \in DOMAIN all /\ now[n] = all[f[n]])
      /\ \A n, p \in DOMAIN now : n < p /\ now[n].id # id /\ now[p].id # id => f[n] < f[p]
      /\ \A i \in DOMAIN all : all[i].id # id => \E n \in DOMAIN now : now[n].id # id /\ f[n] = i
      /\ \A n, p \in DOMAIN now : now[n].id = id /\ now[p].id = id => n = p
      /\ now \in Seq({now[i] : i \in DOMAIN now})
      /\ was # <<>> => \E n \in DOMAIN now : now[n].id = id /\ accessory_from_record(now[n]) = was
  BY <1>1, <1>2, SMTT(30) DEF Carries
<1>13. \A n, p \in DOMAIN now : n < p /\ now[n].id # id /\ now[p].id # id => f[n] < f[p] BY <1>3, Zenon
<1>14. \A n \in DOMAIN now : now[n].id # id => f[n] \in DOMAIN all /\ now[n] = all[f[n]] BY <1>3, Zenon
<1>4. DOMAIN all \subseteq Nat BY <1>1, Domain, Zenon DEF RecordsInv
<1>5. DOMAIN now \subseteq Nat
  <2>1. DOMAIN now = 1 .. Len(now) /\ Len(now) \in Nat BY <1>3, OwnElements, Zenon
  <2> QED BY <2>1
<1>6. \A i \in DOMAIN all : all[i].id \in AllIds BY <1>1, Zenon DEF RecordsInv, DocumentShape
<1>7. \A i, j \in DOMAIN all : all[i].id = all[j].id => i = j
  BY <1>1, Zenon DEF RecordsInv, DocumentShape
<1>8. \A n, p \in DOMAIN now : now[n].id = now[p].id => n = p
  <2> TAKE n, p \in DOMAIN now
  <2> HAVE now[n].id = now[p].id
  <2>1. CASE now[n].id = id BY <1>3, <2>1, Zenon
  <2>2. CASE now[n].id # id
    <3>4. now[n] = all[f[n]] /\ now[p] = all[f[p]] /\ f[n] \in DOMAIN all /\ f[p] \in DOMAIN all
      BY <1>14, <2>2, Zenon
    <3>1. f[n] = f[p] /\ f[n] \in Nat BY <1>4, <1>7, <3>4, Zenon
    <3>2. ~(n < p) /\ ~(p < n) BY <1>13, <2>2, <3>1
    <3>3. n \in Nat /\ p \in Nat BY <1>5, Zenon
    <3> QED BY <3>2, <3>3
  <2> QED BY <2>1, <2>2, Zenon
<1>9. DocumentShape'
  <2>1. \A n \in DOMAIN now : now[n].id \in AllIds BY <1>3, <1>6, Zenon DEF AllIds
  <2> QED BY <1>2, <1>3, <1>8, <2>1 DEF DocumentShape, Recorded
<1>10. AccessoriesRead'
  <2>1. expected = [x \in StoreIds |-> expected[x]] BY Zenon DEF RecordsInv, AccessoriesRead
  <2>2. /\ expected' = [x \in StoreIds |-> expected'[x]] /\ expected'[id] = was
        /\ \A x \in StoreIds : x # id => expected'[x] = expected[x]
    BY <2>1, Zenon DEF Recorded
  <2>3. ASSUME NEW x \in StoreIds, expected'[x] # <<>>
        PROVE  \E n \in DOMAIN now : now[n].id = x /\ accessory_from_record(now[n]) = expected'[x]
    <3>1. CASE x = id BY <1>3, <2>2, <2>3, <3>1, Zenon
    <3>2. CASE x # id
      <4>1. expected[x] # <<>> /\ expected'[x] = expected[x] BY <2>2, <2>3, <3>2, Zenon
      <4>2. PICK i \in DOMAIN all : all[i].id = x /\ accessory_from_record(all[i]) = expected[x]
        BY <1>1, <4>1, Zenon DEF RecordsInv, AccessoriesRead
      <4>3. PICK n \in DOMAIN now : now[n].id # id /\ f[n] = i BY <1>3, <3>2, <4>2, Zenon
      <4> QED BY <1>3, <4>1, <4>2, <4>3, Zenon
    <3> QED BY <3>1, <3>2, Zenon
  <2> QED BY <1>2, <2>2, <2>3, Zenon DEF AccessoriesRead
<1>11. IdentityRead' BY Zenon DEF RecordsInv, IdentityRead, Recorded
<1>12. OthersKept'
  <2>1. /\ DOMAIN first \subseteq Nat /\ \A i \in Others : Whereabouts(i) # {}
        /\ \A i, k \in Others : i < k => \A j \in Whereabouts(i), l \in Whereabouts(k) : j < l
    BY Zenon DEF RecordsInv, OthersKept
  <2>2. Others' = {i \in Others : first[i].id # id} BY Zenon DEF Others, Recorded
  <2>3. \A i : Whereabouts(i) = {j \in DOMAIN all : all[j] = first[i]} BY <1>1, Zenon DEF Whereabouts
  <2>4. \A i : Whereabouts(i)' = {j \in DOMAIN now : now[j] = first[i]}
    BY <1>2, Zenon DEF Whereabouts, Recorded
  <2>5. \A i \in Others' : \A j \in Whereabouts(i)' : j \in DOMAIN now /\ now[j].id # id /\ f[j] \in Whereabouts(i)
    BY <1>3, <2>2, <2>3, <2>4, Zenon
  <2>6. ASSUME NEW i \in Others' PROVE Whereabouts(i)' # {}
    <3>1. PICK j \in DOMAIN all : all[j] = first[i] BY <2>1, <2>2, <2>3, Zenon
    <3>2. PICK n \in DOMAIN now : now[n].id # id /\ f[n] = j BY <1>3, <2>2, <3>1, Zenon
    <3>3. now[n] = first[i] BY <1>14, <3>1, <3>2, Zenon
    <3> QED BY <2>4, <3>3, Zenon
  <2>7. ASSUME NEW i \in Others', NEW k \in Others', i < k, NEW j \in Whereabouts(i)', NEW l \in Whereabouts(k)'
        PROVE  j < l
    <3>1. /\ j \in DOMAIN now /\ now[j].id # id /\ f[j] \in Whereabouts(i)
          /\ l \in DOMAIN now /\ now[l].id # id /\ f[l] \in Whereabouts(k)
      BY <2>5, Zenon
    <3>2. f[j] < f[l] BY <2>1, <2>2, <2>7, <3>1, Zenon
    <3>3. f[j] \in Nat /\ f[l] \in Nat /\ j \in Nat /\ l \in Nat BY <1>3, <1>4, <1>5, <3>1, Zenon
    <3>4. ~(l < j) BY <1>13, <3>1, <3>2, <3>3
    <3>5. j # l BY <3>2, <3>3
    <3> QED BY <3>3, <3>4, <3>5
  <2> QED BY <2>1, <2>6, <2>7, Zenon DEF OthersKept, Recorded
<1> QED BY <1>9, <1>10, <1>11, <1>12, Zenon DEF RecordsInv

LEMMA WrittenAccessories ==
    ASSUME DocumentShape, NEW all, Write([document EXCEPT !.accessories = all])
    PROVE  /\ document' = [version |-> document'.version, controller |-> document.controller,
                           accessories |-> document'.accessories]
           /\ document'.controller = document.controller /\ document'.accessories = all
<1>1. document = [version |-> document.version, controller |-> document.controller, accessories |-> document.accessories]
  BY Zenon DEF DocumentShape
<1>2. document' = [version |-> <<2>>, controller |-> document.controller, accessories |-> all]
  BY <1>1, Zenon DEF Write
<1> QED BY <1>2, Zenon

LEMMA WrittenController ==
    ASSUME DocumentShape, NEW c, Write([document EXCEPT !.controller = c])
    PROVE  /\ document' = [version |-> document'.version, controller |-> c,
                           accessories |-> document'.accessories]
           /\ document'.controller = c /\ document'.accessories = document.accessories
<1>1. document = [version |-> document.version, controller |-> document.controller, accessories |-> document.accessories]
  BY Zenon DEF DocumentShape
<1>2. document' = [version |-> <<2>>, controller |-> c, accessories |-> document.accessories]
  BY <1>1, Zenon DEF Write
<1> QED BY <1>2, Zenon

LEMMA ControllerSaved == ASSUME RecordsInv, NEW k \in Keypairs, save_controller(k) PROVE RecordsInv'
<1>1. /\ document' = [version |-> document'.version, controller |-> document'.controller,
                      accessories |-> document'.accessories]
      /\ document'.controller = <<controller_to_record(k)>> /\ document'.accessories = document.accessories
  BY WrittenController, Zenon DEF save_controller, RecordsInv
<1>2. identity' = <<k>> /\ expected' = expected /\ first' = first /\ about' = about
  BY Zenon DEF save_controller
<1>3. controller_from_record(controller_to_record(k)) = <<k>>
  <2>1. k = [id |-> k.id, seed |-> k.seed] /\ k.seed \in Keys BY DocumentsAssumption, Zenon
  <2>2. PICK r : r = controller_to_record(k) BY Zenon
  <2>3. r.id = k.id /\ r.signing_key_hex = encode_hex(k.seed) BY <2>2, Zenon DEF controller_to_record
  <2>4. decode_key_32(r.signing_key_hex) = <<k.seed>> BY <2>1, <2>3, KeyRead, Zenon
  <2>5. controller_from_record(r) = <<[id |-> r.id, seed |-> k.seed]>> BY <2>4 DEF controller_from_record
  <2> QED BY <2>1, <2>2, <2>3, <2>5, Zenon
<1>4. DocumentShape' BY <1>1, Zenon DEF RecordsInv, DocumentShape
<1>5. AccessoriesRead' BY <1>1, <1>2, Zenon DEF RecordsInv, AccessoriesRead
<1>6. IdentityRead'
  <2>1. document'.controller # <<>> /\ document'.controller[1] = controller_to_record(k) BY <1>1
  <2> QED BY <1>2, <1>3, <2>1, Zenon DEF IdentityRead
<1>7. OthersKept' BY <1>1, <1>2 DEF RecordsInv, OthersKept, Others, Whereabouts
<1> QED BY <1>4, <1>5, <1>6, <1>7, Zenon DEF RecordsInv

\* A record that takes the place of the one with its id.
LEMMA Replaced ==
    ASSUME RecordsInv, NEW i \in DOMAIN document.accessories, NEW q, Fields(q), q.id = document.accessories[i].id,
           NEW id \in StoreIds, q.id = id, NEW was,
           Write([document EXCEPT !.accessories = [document.accessories EXCEPT ![i] = q]]),
           expected' = [expected EXCEPT ![id] = was], was # <<>> => accessory_from_record(q) = was,
           identity' = identity, first' = first, about' = about \cup {id}
    PROVE  RecordsInv'
<1>1. PICK all : all = document.accessories BY Zenon
<1>2. PICK now : now = document'.accessories BY Zenon
<1>3. /\ document' = [version |-> document'.version, controller |-> document.controller,
                      accessories |-> document'.accessories]
      /\ document'.controller = document.controller /\ now = [all EXCEPT ![i] = q]
  BY <1>1, <1>2, WrittenAccessories, Zenon DEF RecordsInv
<1>4. /\ all \in Seq({all[j] : j \in DOMAIN all}) /\ \A j \in DOMAIN all : Fields(all[j])
      /\ \A j, k \in DOMAIN all : all[j].id = all[k].id => j = k
  BY <1>1, Zenon DEF RecordsInv, DocumentShape
<1>5. DOMAIN now = DOMAIN all /\ now[i] = q /\ \A j \in DOMAIN all : j # i => now[j] = all[j]
  BY <1>1, <1>3, Zenon
<1>6. now \in Seq({now[j] : j \in DOMAIN now})
  <2>1. now \in Seq({all[j] : j \in DOMAIN all} \cup {q}) BY <1>1, <1>3, <1>4
  <2> QED BY <2>1, OwnElements
<1> DEFINE f == [j \in DOMAIN all |-> j]
<1>7. \A j \in DOMAIN now : now[j].id = id <=> j = i BY <1>1, <1>4, <1>5, Zenon
<1>8. \A j \in DOMAIN now : Fields(now[j]) /\ (now[j].id # id => f[j] \in DOMAIN all /\ now[j] = all[f[j]])
  BY <1>4, <1>5, <1>7, Zenon
<1>9. \A n, p \in DOMAIN now : n < p /\ now[n].id # id /\ now[p].id # id => f[n] < f[p] BY <1>5, Zenon
<1>10. \A j \in DOMAIN all : all[j].id # id => \E n \in DOMAIN now : now[n].id # id /\ f[n] = j
  BY <1>1, <1>5, Zenon
<1>11. \A n, p \in DOMAIN now : now[n].id = id /\ now[p].id = id => n = p BY <1>7, Zenon
<1>12. was # <<>> => \E n \in DOMAIN now : now[n].id = id /\ accessory_from_record(now[n]) = was
  BY <1>1, <1>5, Zenon
<1>13. Carries(all, now, id, f, was) BY <1>6, <1>8, <1>9, <1>10, <1>11, <1>12, Zenon DEF Carries
<1>14. Recorded(id, was) BY <1>3, Zenon DEF Recorded
<1> HIDE DEF f
<1> QED BY <1>1, <1>2, <1>13, <1>14, Carried, Zenon

LEMMA PairingSaved == ASSUME RecordsInv, NEW a \in Stored, save_pairing(a) PROVE RecordsInv'
<1> DEFINE known == Known(document, a.id)
<1>1. PICK q : q = accessory_to_record(a) BY Zenon
<1>2. PICK all : all = document.accessories BY Zenon
<1>3. accessory_from_record(q) = <<a>> /\ q.id = a.id /\ Fields(q) BY <1>1, RecordRead, Zenon
<1>4. a.id \in StoreIds BY Zenon DEF StoreIds
<1>5. /\ expected' = [expected EXCEPT ![a.id] = <<a>>] /\ identity' = identity
      /\ first' = first /\ about' = about \cup {a.id}
  BY Zenon DEF save_pairing, Expect, Touched
<1>6. Write([document EXCEPT !.accessories = IF known = {} THEN Append(all, q) ELSE [all EXCEPT ![First(known)] = q]])
  BY <1>1, <1>2, Zenon DEF save_pairing
<1>7. CASE known # {}
  <2>1. PICK i \in DOMAIN all : all[i].id = a.id BY <1>2, <1>7, Zenon DEF Known
  <2>2. First(known) = i BY <1>2, <2>1, OnlyPlace, Zenon DEF RecordsInv
  <2>3. Write([document EXCEPT !.accessories = [document.accessories EXCEPT ![i] = q]])
    BY <1>2, <1>6, <1>7, <2>2, Zenon
  <2> QED BY <1>2, <1>3, <1>4, <1>5, <2>1, <2>3, Replaced, Zenon
<1>8. CASE known = {}
  <2>1. PICK now : now = document'.accessories BY Zenon
  <2>2. /\ document' = [version |-> document'.version, controller |-> document.controller,
                        accessories |-> document'.accessories]
        /\ document'.controller = document.controller /\ now = Append(all, q)
    <3>1. PICK new : new = Append(all, q) BY Zenon
    <3>2. Write([document EXCEPT !.accessories = new]) BY <1>6, <1>8, <3>1, Zenon
    <3> QED BY <2>1, <3>1, <3>2, WrittenAccessories, Zenon DEF RecordsInv
  <2>3. all \in Seq({all[j] : j \in DOMAIN all}) /\ \A j \in DOMAIN all : Fields(all[j])
    BY <1>2, Zenon DEF RecordsInv, DocumentShape
  <2>4. PICK m \in Nat : m = Len(all) /\ DOMAIN all = 1 .. m BY <2>3, OwnElements, Zenon
  <2>5. now \in Seq({all[j] : j \in DOMAIN all} \cup {q}) BY <2>2, <2>3
  <2>6. now \in Seq({now[j] : j \in DOMAIN now}) BY <2>5, OwnElements
  <2>7. DOMAIN now = 1 .. m + 1 /\ now[m + 1] = q /\ \A j \in 1 .. m : now[j] = all[j] BY <2>2, <2>3, <2>4
  <2>8. \A j \in DOMAIN all : all[j].id # a.id BY <1>2, <1>8, Zenon DEF Known
  <2> DEFINE f == [j \in 1 .. m + 1 |-> j]
  <2>9. \A j \in DOMAIN now : (j \in 1 .. m /\ now[j] = all[j] /\ now[j].id # a.id) \/ (j = m + 1 /\ now[j] = q)
    BY <2>4, <2>7, <2>8
  <2>10. \A j \in DOMAIN now : Fields(now[j]) /\ (now[j].id # a.id => f[j] \in DOMAIN all /\ now[j] = all[f[j]])
    BY <1>3, <2>3, <2>4, <2>7, <2>9, Zenon
  <2>11. \A n, p \in DOMAIN now : n < p /\ now[n].id # a.id /\ now[p].id # a.id => f[n] < f[p]
    BY <2>7, Zenon
  <2>12. \A j \in DOMAIN all : all[j].id # a.id => \E n \in DOMAIN now : now[n].id # a.id /\ f[n] = j
    <3> TAKE j \in DOMAIN all
    <3> HAVE all[j].id # a.id
    <3>1. j \in 1 .. m + 1 BY <2>4
    <3> QED BY <2>4, <2>7, <3>1, Zenon
  <2>13. \A n, p \in DOMAIN now : now[n].id = a.id /\ now[p].id = a.id => n = p BY <2>9, Zenon
  <2>14. \E n \in DOMAIN now : now[n].id = a.id /\ accessory_from_record(now[n]) = <<a>>
    <3>1. m + 1 \in DOMAIN now BY <2>7
    <3> QED BY <1>3, <2>7, <3>1, Zenon
  <2> HIDE DEF f
  <2>15. Carries(all, now, a.id, f, <<a>>) BY <2>6, <2>10, <2>11, <2>12, <2>13, <2>14, Zenon DEF Carries
  <2>16. Recorded(a.id, <<a>>) BY <1>5, <2>2, Zenon DEF Recorded
  <2> QED BY <1>2, <1>4, <2>1, <2>15, <2>16, Carried, Zenon
<1> QED BY <1>7, <1>8, Zenon

LEMMA PairingDeleted == ASSUME RecordsInv, NEW id \in StoreIds, delete_pairing(id) PROVE RecordsInv'
<1>1. PICK all : all = document.accessories BY Zenon
<1>2. PICK now : now = document'.accessories BY Zenon
<1>3. /\ document' = [version |-> document'.version, controller |-> document.controller,
                      accessories |-> document'.accessories]
      /\ document'.controller = document.controller /\ now = retain(all, id)
  <2>1. Write([document EXCEPT !.accessories = retain(all, id)]) BY <1>1, Zenon DEF delete_pairing
  <2> QED BY <1>2, <2>1, WrittenAccessories, Zenon DEF RecordsInv
<1>4. all \in Seq({all[j] : j \in DOMAIN all}) /\ \A j \in DOMAIN all : Fields(all[j])
  BY <1>1, Zenon DEF RecordsInv, DocumentShape
<1>5. PICK f : now \in Seq({all[j] : j \in DOMAIN all}) /\ Leaves(all, now, id, f)
  BY <1>3, <1>4, Retained, Zenon
<1>6. now \in Seq({now[j] : j \in DOMAIN now}) BY <1>5, OwnElements
<1>7. /\ expected' = [expected EXCEPT ![id] = <<>>] /\ identity' = identity
      /\ first' = first /\ about' = about \cup {id}
  BY Zenon DEF delete_pairing, Expect, Touched
<1>8. \A n \in DOMAIN now : Fields(now[n]) /\ now[n].id # id /\ f[n] \in DOMAIN all /\ now[n] = all[f[n]]
  BY <1>4, <1>5, Zenon DEF Leaves
<1>9. \A i \in DOMAIN all : all[i].id # id => \E n \in DOMAIN now : now[n].id # id /\ f[n] = i
  BY <1>5, <1>8, Zenon DEF Leaves
<1>10. \A n, p \in DOMAIN now : n < p /\ now[n].id # id /\ now[p].id # id => f[n] < f[p]
  BY <1>5, Zenon DEF Leaves
<1>11. Carries(all, now, id, f, <<>>) BY <1>6, <1>8, <1>9, <1>10, Zenon DEF Carries
<1>12. Recorded(id, <<>>) BY <1>3, <1>7, Zenon DEF Recorded
<1> QED BY <1>1, <1>2, <1>11, <1>12, Carried, Zenon

LEMMA BroadcastSaved ==
    ASSUME RecordsInv, NEW id \in StoreIds, NEW b \in Materials, save_broadcast_state(id, b)
    PROVE  RecordsInv'
<1> DEFINE known == Known(document, id)
<1>1. PICK all : all = document.accessories BY Zenon
<1>2. PICK i \in DOMAIN all : all[i].id = id BY <1>1, Zenon DEF save_broadcast_state, Known
<1>3. First(known) = i BY <1>1, <1>2, OnlyPlace, Zenon DEF RecordsInv
<1>4. PICK r : r = all[i] BY Zenon
<1>5. r.transport # <<>> /\ r.transport[1].type = "ble" /\ r.id = id /\ Fields(r)
  BY <1>1, <1>2, <1>3, <1>4, Zenon DEF save_broadcast_state, RecordsInv, DocumentShape
<1> DEFINE q == [r EXCEPT !.transport[1].broadcast = <<broadcast_to_record(b)>>]
<1>6. Write([document EXCEPT !.accessories = [all EXCEPT ![i] = q]])
  <2>1. Write([document EXCEPT !.accessories[i].transport[1].broadcast = <<broadcast_to_record(b)>>])
    BY <1>3, Zenon DEF save_broadcast_state
  <2>2. document = [version |-> document.version, controller |-> document.controller, accessories |-> all]
    BY <1>1, Zenon DEF RecordsInv, DocumentShape
  <2>3. [document EXCEPT !.accessories[i].transport[1].broadcast = <<broadcast_to_record(b)>>]
          = [document EXCEPT !.accessories = [all EXCEPT ![i] = q]]
    BY <1>1, <1>2, <1>4, <2>2, Zenon
  <2> QED BY <2>1, <2>3, Zenon
<1>7. /\ Fields(q) /\ q.id = r.id
      /\ accessory_from_record(r) # <<>> =>
           accessory_from_record(q) = <<[accessory_from_record(r)[1] EXCEPT !.transport.broadcast = <<b>>]>>
  BY <1>5, BroadcastRead, Zenon
<1> HIDE DEF q
<1> DEFINE was == IF expected[id] = <<>> THEN <<>>
                  ELSE <<[expected[id][1] EXCEPT !.transport.broadcast = <<b>>]>>
<1>8. /\ expected' = [expected EXCEPT ![id] = was] /\ identity' = identity
      /\ first' = first /\ about' = about \cup {id}
  BY Zenon DEF save_broadcast_state, Expect, Touched
<1>9. was # <<>> => accessory_from_record(q) = was
  <2> SUFFICES ASSUME expected[id] # <<>> PROVE accessory_from_record(q) = was BY Zenon
  <2>1. PICK j \in DOMAIN all : all[j].id = id /\ accessory_from_record(all[j]) = expected[id]
    BY <1>1, Zenon DEF RecordsInv, AccessoriesRead
  <2>2. j = i BY <1>1, <1>2, <2>1, Zenon DEF RecordsInv, DocumentShape
  <2>3. accessory_from_record(r) = expected[id] BY <1>4, <2>1, <2>2, Zenon
  <2> QED BY <1>7, <2>3, Zenon
<1> HIDE DEF was
<1> QED BY <1>1, <1>2, <1>4, <1>5, <1>6, <1>7, <1>8, <1>9, Replaced, Zenon

LEMMA RecordsStep == RecordsInv /\ [RecordsNext]_recordVars => RecordsInv'
<1> SUFFICES ASSUME RecordsInv, [RecordsNext]_recordVars PROVE RecordsInv' BY Zenon
<1>1. CASE RecordsNext
  BY <1>1, ControllerSaved, PairingSaved, PairingDeleted, BroadcastSaved, Zenon DEF RecordsNext
<1>2. CASE UNCHANGED recordVars
  <2>1. document' = document /\ expected' = expected /\ identity' = identity /\ first' = first /\ about' = about
    BY <1>2, Zenon DEF recordVars
  <2> QED BY <2>1 DEF RecordsInv, DocumentShape, AccessoriesRead, IdentityRead, OthersKept, Others, Whereabouts
<1> QED BY <1>1, <1>2, Zenon

\* When the pairings load, each is what its record reads as.
LEMMA Loaded ==
    ASSUME DocumentShape, load_pairings(document) # <<>>
    PROVE  LET all == document.accessories
               got == load_pairings(document)[1]
           IN  /\ DOMAIN got = DOMAIN all
               /\ \A i \in DOMAIN all :
                    /\ accessory_from_record(all[i]) = <<got[i]>> /\ got[i].id = all[i].id
                    /\ got[i].transport.type = "ble" \/ got[i].transport.device_id = <<>>
<1> DEFINE all == document.accessories
           got == load_pairings(document)[1]
           read == [i \in DOMAIN all |-> accessory_from_record(all[i])]
<1>1. ~(\E i \in DOMAIN read : read[i] = <<>>) /\ got = [i \in DOMAIN read |-> read[i][1]]
  BY Zenon DEF load_pairings
<1>2. DOMAIN got = DOMAIN all /\ \A i \in DOMAIN all : got[i] = accessory_from_record(all[i])[1]
  BY <1>1, Zenon
<1>3. \A i \in DOMAIN all : accessory_from_record(all[i]) # <<>> BY <1>1, Zenon
<1> HIDE DEF got
<1>4. \A i \in DOMAIN all : Fields(all[i]) BY Zenon DEF DocumentShape
<1>5. ASSUME NEW i \in DOMAIN all
      PROVE  /\ accessory_from_record(all[i]) = <<got[i]>> /\ got[i].id = all[i].id
             /\ got[i].transport.type = "ble" \/ got[i].transport.device_id = <<>>
  <2>1. PICK r : r = all[i] BY Zenon
  <2>2. Fields(r) /\ accessory_from_record(r) # <<>> /\ got[i] = accessory_from_record(r)[1]
    BY <1>2, <1>3, <1>4, <2>1, Zenon
  <2> QED BY <2>1, <2>2, ReadFields, Zenon
<1> QED BY <1>2, <1>5, Zenon DEF got

LEMMA ReadId == ASSUME NEW s, parse_device_id(s) # <<>> PROVE parse_device_id(s) # <<<<>>>>
<1> DEFINE id == [i \in 1 .. IdBytes |-> from_str_radix(<<s[3 * i - 2], s[3 * i - 1]>>)[1]]
<1>1. parse_device_id(s) = <<id>> BY Zenon DEF parse_device_id
<1>2. 1 \in DOMAIN id BY StoreRecordsAssumption
<1> HIDE DEF id
<1>3. id # <<>>
  <2>1. DOMAIN <<>> = {} OBVIOUS
  <2> QED BY <1>2, <2>1, Zenon
<1>4. <<id>>[1] = id /\ <<<<>>>>[1] = <<>> BY Zenon
<1> QED BY <1>1, <1>3, <1>4, Zenon

\* The query conjunct of StoredAsSaved.
LEMMA QueryAnswered ==
    ASSUME RecordsInv, load_pairings(document) # <<>>, NEW q \in Queries
    PROVE  LET got == load_stored(document, q)
           IN  /\ \A id \in Meant(q) : expected[id] # <<>> => got = expected[id]
               /\ got # <<>> /\ ~eq_ignore_ascii_case(got[1].id, q) =>
                     <<got[1].transport.device_id>> = parse_device_id(q)
               /\ got = <<>> => \A id \in StoreIds : expected[id] # <<>> /\ parse_device_id(q) # <<>> =>
                     parse_device_id(q) # <<expected[id][1].transport.device_id>>
<1>1. PICK records : records = document.accessories BY Zenon
<1>2. PICK all : all = load_pairings(document)[1] BY Zenon
<1>3. PICK got : got = load_stored(document, q) BY Zenon
<1>4. PICK device : device = parse_device_id(q) BY Zenon
<1>5. /\ DOMAIN all = DOMAIN records
      /\ \A i \in DOMAIN records :
           /\ accessory_from_record(records[i]) = <<all[i]>> /\ all[i].id = records[i].id
           /\ all[i].transport.type = "ble" \/ all[i].transport.device_id = <<>>
  BY <1>1, <1>2, Loaded, Zenon DEF RecordsInv
<1>6. DOMAIN all \subseteq Nat BY <1>1, <1>5, Domain, Zenon DEF RecordsInv
<1> DEFINE same == {i \in DOMAIN all : eq_ignore_ascii_case(all[i].id, q)}
           near == {i \in DOMAIN all : all[i].transport.type = "ble" /\ <<all[i].transport.device_id>> = device}
<1>7. got = IF same # {} THEN <<all[First(same)]>> ELSE IF near # {} THEN <<all[First(near)]>> ELSE <<>>
  BY <1>2, <1>3, <1>4, Zenon DEF load_stored, Matching
<1>8. /\ same # {} => First(same) \in same
      /\ near # {} => First(near) \in near
  BY <1>6, Least, Zenon
<1>9. \A id \in StoreIds : expected[id] # <<>> =>
        \E i \in DOMAIN all : records[i].id = id /\ <<all[i]>> = expected[id] /\ all[i].id = id
  BY <1>1, <1>5 DEF RecordsInv, AccessoriesRead
<1>10. ASSUME NEW id \in Meant(q), expected[id] # <<>> PROVE got = expected[id]
  <2>1. id \in StoreIds /\ eq_ignore_ascii_case(id, q) BY Zenon DEF Meant
  <2>2. PICK i \in DOMAIN all : records[i].id = id /\ <<all[i]>> = expected[id] /\ all[i].id = id
    BY <1>9, <1>10, <2>1, Zenon
  <2>3. i \in same BY <2>1, <2>2, Zenon
  <2>4. First(same) \in same BY <1>8, <2>3, Zenon
  <2>5. PICK j \in DOMAIN all : j = First(same) /\ eq_ignore_ascii_case(all[j].id, q) BY <2>4, Zenon
  <2>6. eq_ignore_ascii_case(all[j].id, id) BY <2>1, <2>5, Zenon DEF eq_ignore_ascii_case
  <2>7. all[j].id \in AllIds /\ id \in AllIds /\ all[j].id = records[j].id
    BY <1>1, <1>5, <2>1, <2>5, Zenon DEF RecordsInv, DocumentShape, AllIds
  <2>8. all[j].id = id BY <2>6, <2>7, DocumentsAssumption, Zenon
  <2>9. j = i BY <1>1, <1>5, <2>2, <2>7, <2>8, Zenon DEF RecordsInv, DocumentShape
  <2>10. same # {} BY <2>3, Zenon
  <2> HIDE DEF same, near
  <2> QED BY <1>7, <2>2, <2>5, <2>9, <2>10, Zenon
<1>11. ASSUME got # <<>>, ~eq_ignore_ascii_case(got[1].id, q)
       PROVE  <<got[1].transport.device_id>> = device
  <2>1. CASE same # {}
    <3>1. got = <<all[First(same)]>> BY <1>7, <2>1, Zenon
    <3>2. eq_ignore_ascii_case(all[First(same)].id, q) BY <1>8, <2>1, Zenon
    <3>3. got[1] = all[First(same)] BY <3>1, Zenon
    <3> QED BY <1>11, <3>2, <3>3, Zenon
  <2>2. CASE same = {}
    <3>1. near # {} /\ got = <<all[First(near)]>> BY <1>7, <1>11, <2>2, Zenon
    <3>2. <<all[First(near)].transport.device_id>> = device BY <1>8, <3>1, Zenon
    <3>3. got[1] = all[First(near)] BY <3>1, Zenon
    <3> QED BY <3>2, <3>3, Zenon
  <2> QED BY <2>1, <2>2, Zenon
<1>12. ASSUME got = <<>>, NEW id \in StoreIds, expected[id] # <<>>, device # <<>>
       PROVE  device # <<expected[id][1].transport.device_id>>
  <2> SUFFICES ASSUME device = <<expected[id][1].transport.device_id>> PROVE FALSE BY Zenon
  <2>1. PICK i \in DOMAIN all : records[i].id = id /\ <<all[i]>> = expected[id] /\ all[i].id = id
    BY <1>9, <1>12, Zenon
  <2>2. expected[id][1] = all[i] BY <2>1
  <2>3. device = <<all[i].transport.device_id>> BY <2>2, Zenon
  <2>4. near = {}
    <3>1. \A x : <<x>> # <<>> BY Zenon
    <3> HIDE DEF same, near
    <3> QED BY <1>7, <1>12, <3>1, Zenon
  <2>5. all[i].transport.type # "ble" BY <2>3, <2>4, Zenon
  <2>6. all[i].transport.device_id = <<>> BY <1>5, <2>1, <2>5, Zenon
  <2> QED BY <1>4, <1>12, <2>3, <2>6, ReadId, Zenon
<1> QED BY <1>3, <1>4, <1>10, <1>11, <1>12, Zenon

LEMMA RecordsGuarantee == RecordsInv => StoredAsSaved
<1> SUFFICES ASSUME RecordsInv PROVE StoredAsSaved BY Zenon
<1>1. \A id \in StoreIds : expected[id] # <<>> =>
          \E i \in DOMAIN document.accessories :
             /\ Known(document, id) = {i}
             /\ accessory_from_record(document.accessories[i]) = expected[id]
  <2> TAKE id \in StoreIds
  <2> HAVE expected[id] # <<>>
  <2>1. PICK i \in DOMAIN document.accessories :
          document.accessories[i].id = id /\ accessory_from_record(document.accessories[i]) = expected[id]
    BY Zenon DEF RecordsInv, AccessoriesRead
  <2>2. Known(document, id) = {i} BY <2>1, OnlyPlace, Zenon DEF RecordsInv
  <2> QED BY <2>1, <2>2, Zenon
<1>2. identity # <<>> /\ readable(document) => load_controller(document) = identity
  BY Zenon DEF RecordsInv, IdentityRead, load_controller
<1>3. \A i \in Others : \E j \in Whereabouts(i) :
          /\ Whereabouts(i) = {j}
          /\ \A k \in Others : i < k => \A l \in Whereabouts(k) : j < l
  <2> TAKE i \in Others
  <2>1. PICK j \in Whereabouts(i) : TRUE BY Zenon DEF RecordsInv, OthersKept
  <2>2. \A l \in Whereabouts(i) : l = j BY <2>1, Zenon DEF RecordsInv, DocumentShape, Whereabouts
  <2>3. Whereabouts(i) = {j} BY <2>1, <2>2, Zenon
  <2> WITNESS j \in Whereabouts(i)
  <2> QED BY <2>1, <2>3, Zenon DEF RecordsInv, OthersKept
<1>4. load_pairings(document) # <<>> => \A q \in Queries :
          LET got == load_stored(document, q)
          IN  /\ \A id \in Meant(q) : expected[id] # <<>> => got = expected[id]
              /\ got # <<>> /\ ~eq_ignore_ascii_case(got[1].id, q) =>
                    <<got[1].transport.device_id>> = parse_device_id(q)
              /\ got = <<>> => \A id \in StoreIds : expected[id] # <<>> /\ parse_device_id(q) # <<>> =>
                    parse_device_id(q) # <<expected[id][1].transport.device_id>>
  BY QueryAnswered, Zenon
<1> QED BY <1>1, <1>2, <1>3, <1>4, Zenon DEF StoredAsSaved

\* After any calls on a document of any version JsonFileStore takes, an accessory
\* and the identity read as they were saved last, other records are as they were
\* and in their order, and load_stored finds what is asked for (store.rs).
THEOREM RecordsReadAsSaved == RecordsSpec => []StoredAsSaved
<1>1. RecordsInit => RecordsInv BY InitialRecords, Zenon
<1>2. RecordsInv /\ [RecordsNext]_recordVars => RecordsInv' BY RecordsStep, Zenon
<1>3. RecordsInv => StoredAsSaved BY RecordsGuarantee, Zenon
<1> QED BY <1>1, <1>2, <1>3, PTL DEF RecordsSpec

-----------------------------------------------------------------------------
(* JsonFileStore *)

TaskState == [pc : Places, call : Contract!Calls \cup {None},
              doc : Contract!Documents \cup {None}, file : Inodes \cup {None}]

Computed == {"creating", "writing", "renaming"}

Sane(t) ==
    /\ task[t].pc \in Holding <=> lock = t
    /\ task[t].pc = "idle" <=> task[t].call = None
    /\ task[t].pc \in Computed => task[t].doc = Contract!Apply(task[t].call, OnDisk)
    /\ task[t].pc \in {"writing", "renaming"} => dir.tmp # None /\ task[t].file = dir.tmp
    /\ task[t].pc = "renaming" => content[task[t].file] = task[t].doc

Inv ==
    /\ TypeOK
    /\ late = {}
    /\ OnDisk \in Contract!Documents
    /\ dir.path # None => dir.path # dir.tmp
    /\ \A t \in Tasks : Sane(t)

\* Every call turns a document into a document (what Apply does to it).
LEMMA ApplyType ==
    ASSUME NEW c \in Contract!Calls, NEW d \in Contract!Documents
    PROVE  Contract!Apply(c, d) \in Contract!Documents
<1>1. CASE c \in [call : {"save_controller"}, identity : Identities]
  BY <1>1, Zenon DEF Contract!Apply, Contract!Documents
<1>2. CASE c \in [call : {"save_pairing"}, id : Ids, record : Contract!Records]
  BY <1>2, Zenon DEF Contract!Apply, Contract!Documents
<1>3. CASE c \in [call : {"delete_pairing"}, id : Ids]
  BY <1>3, Zenon DEF Contract!Apply, Contract!Documents
<1>4. CASE c \in [call : {"save_broadcast_state"}, id : Ids, broadcast : Broadcasts]
  <2>1. CASE Contract!IsBle(d.accessories[c.id])
    <3> DEFINE r == d.accessories[c.id]
    <3>1. r \in [pairing : Pairings, ble : {TRUE}, broadcast : Broadcasts \cup {None}]
      BY <1>4, <2>1, Zenon DEF Contract!IsBle, Contract!Documents, Contract!Records
    <3>2. [r EXCEPT !.broadcast = c.broadcast] \in Contract!Records
      BY <1>4, <3>1, Zenon DEF Contract!Records
    <3>3. Contract!Apply(c, d)
            = [d EXCEPT !.accessories = [d.accessories EXCEPT
                 ![c.id] = [d.accessories[c.id] EXCEPT !.broadcast = c.broadcast]]]
      BY <1>4, <2>1, Zenon DEF Contract!Apply, Contract!Documents
    <3> QED BY <1>4, <3>2, <3>3 DEF Contract!Documents
  <2>2. CASE ~Contract!IsBle(d.accessories[c.id])
    BY <1>4, <2>2, Zenon DEF Contract!Apply
  <2> QED BY <2>1, <2>2, Zenon
<1> QED BY <1>1, <1>2, <1>3, <1>4, Zenon DEF Contract!Calls

\* The invariant holds at the start.
LEMMA InitInv == Init => Inv
<1> SUFFICES ASSUME Init PROVE Inv BY Zenon
<1> USE MarksAssumption, BoundsAssumption
<1>1. OnDisk \in Contract!Documents BY Zenon DEF Init, OnDisk, Contract!Documents
<1>2. TypeOK BY DEF Init, TypeOK, Idle, Places, Holding
<1>3. \A t \in Tasks : Sane(t) BY Zenon DEF Init, Sane, Idle, Holding, Computed
<1> QED BY <1>1, <1>2, <1>3, Zenon DEF Inv, Init


\* The document on disk stays while the file at the path does.
LEMMA SameFile ==
    ASSUME dir'.path = dir.path, dir.path # None => content'[dir.path] = content[dir.path]
    PROVE  OnDisk' = OnDisk
BY Zenon DEF OnDisk

\* Only the lock's holder gets past "reading".
LEMMA OneHolder ==
    ASSUME Inv, NEW t \in Tasks, NEW u \in Tasks,
           task[t].pc \in Holding, task[u].pc \in Holding
    PROVE  t = u
BY Zenon DEF Inv, Sane

\* Every file-system step of every task, an error, a dropped future and a
\* crash keep the invariant.
LEMMA NextInv == Inv /\ [Next]_vars => Inv'
<1> SUFFICES ASSUME Inv, [Next]_vars PROVE Inv' BY Zenon
<1> USE MarksAssumption, BoundsAssumption
<1> USE DEF Holding, Computed, Places
<1>1. ASSUME NEW t \in Tasks, NEW c \in Contract!Calls, Call(t, c)
      PROVE  Inv'
  <2>1. OnDisk' = OnDisk BY <1>1, SameFile, Zenon DEF Call, store
  <2>2. TypeOK'
    <3>1. [Idle EXCEPT !.pc = "locking", !.call = c] \in TaskState BY Zenon DEF Idle, TaskState
    <3>2. task' \in [Tasks -> TaskState] BY <1>1, <3>1, Zenon DEF Inv, TypeOK, Call, TaskState
    <3> QED BY <1>1, <3>2 DEF Inv, TypeOK, Call, store, TaskState
  <2>3. \A u \in Tasks : Sane(u)' BY <1>1, <2>1, Zenon DEF Inv, TypeOK, Sane, Call, Idle, store, At
  <2> QED BY <1>1, <2>1, <2>2, <2>3, Zenon DEF Inv, Call, store
<1>2. ASSUME NEW t \in Tasks, Lock(t)
      PROVE  Inv'
  <2>1. OnDisk' = OnDisk BY <1>2, SameFile, Zenon DEF Lock, store
  <2>2. TypeOK' BY <1>2, SMTT(30) DEF Inv, TypeOK, Lock, store
  <2>3. \A u \in Tasks : Sane(u)' BY <1>2, <2>1 DEF Inv, TypeOK, Sane, Lock, store, At
  <2> QED BY <1>2, <2>1, <2>2, <2>3, Zenon DEF Inv, Lock, store
<1>3. ASSUME NEW t \in Tasks, NEW res \in {"ok", "err"}, Return(t, res),
             task[t].pc \in Holding \cup {"locking"}, UNCHANGED <<store, late, calls, crashes>>
      PROVE  Inv'
  <2>1. OnDisk' = OnDisk BY <1>3, SameFile, Zenon DEF store
  <2>2. TypeOK' BY <1>3, Zenon DEF Inv, TypeOK, Return, Idle, store
  <2>3. \A u \in Tasks : Sane(u)' BY <1>3, <2>1 DEF Inv, TypeOK, Sane, Return, Idle, store
  <2> QED BY <1>3, <2>1, <2>2, <2>3, Zenon DEF Inv, store
<1>4. ASSUME NEW t \in Tasks, Read(t)
      PROVE  Inv'
  <2> DEFINE c == task[t].call
  <2>1. CASE c.call = "save_broadcast_state" /\ ~Contract!IsBle(OnDisk.accessories[c.id])
    BY <1>3, <1>4, <2>1, Zenon DEF Read, At
  <2>2. CASE ~(c.call = "save_broadcast_state" /\ ~Contract!IsBle(OnDisk.accessories[c.id]))
    <3>1. OnDisk' = OnDisk BY <1>4, SameFile, Zenon DEF Read, store
    <3>2. c \in Contract!Calls BY <1>4, Zenon DEF Inv, TypeOK, Sane, Read, At
    <3>3. Contract!Apply(c, OnDisk) \in Contract!Documents BY <3>2, ApplyType, Zenon DEF Inv
    <3>4. task' = [task EXCEPT ![t].pc = "creating", ![t].doc = Contract!Apply(c, OnDisk)]
      BY <1>4, <2>2, Zenon DEF Read
    <3>5. UNCHANGED <<dir, content, lock, outcome, late, calls, crashes>>
      BY <1>4, <2>2, Zenon DEF Read, store
    <3>6. TypeOK'
      <4>1. [task[t] EXCEPT !.pc = "creating", !.doc = Contract!Apply(c, OnDisk)] \in TaskState
        <5>1. task[t] \in TaskState BY Zenon DEF Inv, TypeOK, TaskState
        <5> HIDE DEF c
        <5> QED BY <3>3, <5>1, Zenon DEF TaskState
      <4>2. task' = [task EXCEPT ![t] =
                       [task[t] EXCEPT !.pc = "creating", !.doc = Contract!Apply(c, OnDisk)]]
        BY <3>4, Zenon DEF Inv, TypeOK
      <4>3. task' \in [Tasks -> TaskState] BY <4>1, <4>2, Zenon DEF Inv, TypeOK, TaskState
      <4> QED BY <3>5, <4>3, Zenon DEF Inv, TypeOK, TaskState
    <3>7. \A u \in Tasks : Sane(u)'
      BY <1>4, <3>1, <3>4, <3>5 DEF Inv, TypeOK, Sane, Read, At
    <3> QED BY <3>1, <3>5, <3>6, <3>7, Zenon DEF Inv
  <2> QED BY <2>1, <2>2, Zenon
<1>5. ASSUME NEW t \in Tasks, Create(t)
      PROVE  Inv'
  <2>1. PICK f \in Inodes : /\ Opened("tmp", f)
                            /\ task' = [task EXCEPT ![t].pc = "writing", ![t].file = f]
    BY <1>5, Zenon DEF Create
  <2>2. f # dir.path BY <2>1, Zenon DEF Opened, Unused, Inv, TypeOK
  <2>3. dir'.path = dir.path /\ dir'.tmp = f BY <2>1, Zenon DEF Opened, Inv, TypeOK
  <2>4. OnDisk' = OnDisk BY <2>1, <2>2, <2>3, SameFile, Zenon DEF Opened, Inv, TypeOK
  <2>5. TypeOK'
    <3>1. [task[t] EXCEPT !.pc = "writing", !.file = f] \in TaskState
      <4>1. task[t] \in TaskState BY Zenon DEF Inv, TypeOK, TaskState
      <4>2. "writing" \in Places BY Zenon DEF Places, Holding
      <4> QED BY <4>1, <4>2, Zenon DEF TaskState
    <3>2. task' = [task EXCEPT ![t] = [task[t] EXCEPT !.pc = "writing", !.file = f]]
      BY <2>1, Zenon DEF Inv, TypeOK
    <3>3. task' \in [Tasks -> TaskState] BY <3>1, <3>2, Zenon DEF Inv, TypeOK, TaskState
    <3>4. dir' \in [path : Inodes \cup {None}, tmp : Inodes \cup {None}]
      BY <2>1, Zenon DEF Opened, Inv, TypeOK
    <3>5. content' \in [Inodes -> Contract!Documents \cup {Torn}]
      BY <2>1, Zenon DEF Opened, Inv, TypeOK
    <3> QED BY <1>5, <3>3, <3>4, <3>5, Zenon DEF Create, Inv, TypeOK, TaskState
  <2>6. ASSUME NEW u \in Tasks PROVE Sane(u)'
    <3>1. u # t => task[u].pc \notin Holding BY <1>5, OneHolder, Zenon DEF Create, At
    <3> QED BY <1>5, <2>1, <2>3, <2>4, <3>1 DEF Create, Inv, TypeOK, Sane, At
  <2> QED BY <1>5, <2>2, <2>3, <2>4, <2>5, <2>6, Zenon DEF Inv, Create
<1>6. ASSUME NEW t \in Tasks, WriteAll(t)
      PROVE  Inv'
  <2>1. task[t].file = dir.tmp /\ dir.tmp # None /\ dir.tmp # dir.path /\ dir.tmp \in Inodes
    BY <1>6, Zenon DEF WriteAll, At, Inv, TypeOK, Sane
  <2>2. OnDisk' = OnDisk BY <1>6, <2>1, SameFile, Zenon DEF WriteAll, Inv, TypeOK
  <2>3. task[t].doc \in Contract!Documents
    <3>1. task[t].call \in Contract!Calls BY <1>6, Zenon DEF Inv, TypeOK, Sane, WriteAll, At
    <3> QED BY <1>6, <3>1, ApplyType, Zenon DEF Inv, Sane, WriteAll, At
  <2>4. TypeOK'
    <3>1. task' \in [Tasks -> TaskState] BY <1>6, SMTT(30) DEF WriteAll, Inv, TypeOK, TaskState
    <3>2. content' \in [Inodes -> Contract!Documents \cup {Torn}]
      BY <1>6, <2>3, Zenon DEF WriteAll, Inv, TypeOK
    <3> QED BY <1>6, <3>1, <3>2, Zenon DEF WriteAll, Inv, TypeOK, TaskState
  <2>5. ASSUME NEW u \in Tasks PROVE Sane(u)'
    <3>1. u # t => task[u].pc \notin Holding BY <1>6, OneHolder, Zenon DEF WriteAll, At
    <3> QED BY <1>6, <2>1, <2>2, <3>1 DEF WriteAll, Inv, TypeOK, Sane, At
  <2> QED BY <1>6, <2>1, <2>2, <2>4, <2>5, Zenon DEF Inv, WriteAll
<1>7. ASSUME NEW t \in Tasks, Rename(t)
      PROVE  Inv'
  <2>1. dir.tmp # None /\ dir.tmp \in Inodes /\ content[dir.tmp] = task[t].doc
    BY <1>7, Zenon DEF Rename, At, Inv, TypeOK, Sane
  <2>2. dir' = [path |-> dir.tmp, tmp |-> None] BY <1>7, <2>1, Zenon DEF Rename, Renamed
  <2>3. OnDisk' = task[t].doc BY <1>7, <2>1, <2>2, Zenon DEF Rename, OnDisk
  <2>4. task[t].call \in Contract!Calls BY <1>7, Zenon DEF Inv, TypeOK, Sane, Rename, At
  <2>5. OnDisk' \in Contract!Documents
    BY <1>7, <2>3, <2>4, ApplyType, Zenon DEF Inv, Sane, Rename, At
  <2>6. TypeOK' BY <1>7, <2>1, <2>2, Zenon DEF Rename, Return, Idle, Inv, TypeOK
  <2>7. ASSUME NEW u \in Tasks PROVE Sane(u)'
    <3>1. u # t => task[u].pc \notin Holding BY <1>7, OneHolder, Zenon DEF Rename, At
    <3> QED BY <1>7, <3>1, Zenon DEF Rename, Return, Idle, Inv, TypeOK, Sane, At
  <2> QED BY <1>7, <2>1, <2>2, <2>5, <2>6, <2>7, Zenon DEF Inv, Rename
<1>8. ASSUME NEW t \in Tasks, Fail(t) \/ CancelWait(t)
      PROVE  Inv'
  <2>1. CASE Fail(t) BY <1>3, <2>1, Zenon DEF Fail
  <2>2. CASE CancelWait(t) BY <1>3, <2>2, Zenon DEF CancelWait, At
  <2> QED BY <1>8, <2>1, <2>2, Zenon
<1>9. CASE Crash
  <2>1. OnDisk' = OnDisk BY <1>9, SameFile, Zenon DEF Crash, store
  <2>2. TypeOK' BY <1>9 DEF Inv, TypeOK, Crash, Idle, store
  <2>3. \A u \in Tasks : Sane(u)' BY <1>9, Zenon DEF Sane, Crash, Idle
  <2> QED BY <1>9, <2>1, <2>2, <2>3, Zenon DEF Inv, Crash, store
<1>10. CASE UNCHANGED vars
  BY <1>10, Zenon DEF vars, Inv, TypeOK, Sane, OnDisk
<1> QED BY <1>1, <1>2, <1>4, <1>5, <1>6, <1>7, <1>8, <1>9, <1>10, Zenon DEF Next, Step


\* Each step of the file store is a step of the contract or leaves its state
\* alone: a call takes effect at its rename.
LEMMA StepRefines == Inv /\ [Next]_vars => [Contract!Next]_(Contract!vars)
<1> SUFFICES ASSUME Inv, [Next]_vars PROVE [Contract!Next]_(Contract!vars) BY Zenon
<1> USE MarksAssumption DEF Holding, Computed
<1> DEFINE pending == [t \in Tasks |-> task[t].call]
<1>1. ASSUME NEW t \in Tasks, NEW c \in Contract!Calls, Call(t, c)
      PROVE  Contract!Invoke(t, c)
  <2>1. OnDisk' = OnDisk BY <1>1, SameFile, Zenon DEF Call, store
  <2>2. pending[t] = None BY <1>1, Zenon DEF Call, At, Inv, Sane
  <2>3. pending' = [pending EXCEPT ![t] = c] BY <1>1, Zenon DEF Call, Idle, Inv, TypeOK
  <2>4. outcome' = [outcome EXCEPT ![t] = None] BY <1>1, Zenon DEF Call
  <2> QED BY <2>1, <2>2, <2>3, <2>4, Zenon DEF Contract!Invoke
<1>2. ASSUME NEW t \in Tasks, NEW res \in {"ok", "err"}, Return(t, res),
             task[t].pc \in Holding \cup {"locking"}
      PROVE  /\ pending[t] # None
             /\ pending' = [pending EXCEPT ![t] = None]
             /\ outcome' = [outcome EXCEPT ![t] = res]
  BY <1>2, Zenon DEF Return, Idle, Inv, TypeOK, Sane
<1>3. ASSUME NEW t \in Tasks, Fail(t) \/ CancelWait(t)
      PROVE  Contract!Abandon(t)
  <2>1. OnDisk' = OnDisk BY <1>3, SameFile, Zenon DEF Fail, CancelWait, store
  <2>2. Return(t, "err") /\ task[t].pc \in Holding \cup {"locking"}
    BY <1>3, Zenon DEF Fail, CancelWait, At
  <2> QED BY <1>2, <2>1, <2>2, Zenon DEF Contract!Abandon
<1>4. ASSUME NEW t \in Tasks, Rename(t)
      PROVE  Contract!Succeed(t)
  <2>1. dir.tmp # None /\ content[dir.tmp] = task[t].doc
    BY <1>4, Zenon DEF Rename, At, Inv, Sane
  <2>2. OnDisk' = task[t].doc BY <1>4, <2>1, Zenon DEF Rename, Renamed, OnDisk
  <2>3. OnDisk' = Contract!Apply(pending[t], OnDisk)
    BY <1>4, <2>2, Zenon DEF Rename, At, Inv, Sane
  <2>4. Return(t, "ok") /\ task[t].pc \in Holding BY <1>4, <2>1, Zenon DEF Rename, At
  <2> QED BY <1>2, <2>3, <2>4, Zenon DEF Contract!Succeed
<1>5. ASSUME NEW t \in Tasks, Read(t)
      PROVE  Contract!Succeed(t) \/ UNCHANGED Contract!vars
  <2> DEFINE c == task[t].call
  <2>1. OnDisk' = OnDisk BY <1>5, SameFile, Zenon DEF Read, store
  <2>2. CASE c.call = "save_broadcast_state" /\ ~Contract!IsBle(OnDisk.accessories[c.id])
    <3>1. Contract!Apply(pending[t], OnDisk) = OnDisk BY <2>2, Zenon DEF Contract!Apply
    <3>2. Return(t, "ok") /\ task[t].pc \in Holding BY <1>5, <2>2, Zenon DEF Read, At
    <3> QED BY <1>2, <2>1, <3>1, <3>2, Zenon DEF Contract!Succeed
  <2>3. CASE ~(c.call = "save_broadcast_state" /\ ~Contract!IsBle(OnDisk.accessories[c.id]))
    <3>1. pending' = pending BY <1>5, <2>3 DEF Read, Inv, TypeOK
    <3>2. outcome' = outcome BY <1>5, <2>3, Zenon DEF Read
    <3> QED BY <2>1, <3>1, <3>2, Zenon DEF Contract!vars
  <2> QED BY <2>2, <2>3, Zenon
<1>6. ASSUME NEW t \in Tasks, Lock(t)
      PROVE  UNCHANGED Contract!vars
  <2>1. OnDisk' = OnDisk BY <1>6, SameFile, Zenon DEF Lock, store
  <2>2. pending' = pending BY <1>6, Zenon DEF Lock, Inv, TypeOK
  <2> QED BY <1>6, <2>1, <2>2, Zenon DEF Lock, Contract!vars
<1>7. ASSUME NEW t \in Tasks, Create(t)
      PROVE  UNCHANGED Contract!vars
  <2>1. PICK f \in Inodes : /\ Opened("tmp", f)
                            /\ task' = [task EXCEPT ![t].pc = "writing", ![t].file = f]
    BY <1>7, Zenon DEF Create
  <2>2. f # dir.path /\ dir'.path = dir.path BY <2>1, Zenon DEF Opened, Unused, Inv, TypeOK
  <2>3. OnDisk' = OnDisk BY <2>1, <2>2, SameFile, Zenon DEF Opened, Inv, TypeOK
  <2>4. pending' = pending BY <2>1, Zenon DEF Inv, TypeOK
  <2> QED BY <1>7, <2>3, <2>4, Zenon DEF Create, Contract!vars
<1>8. ASSUME NEW t \in Tasks, WriteAll(t)
      PROVE  UNCHANGED Contract!vars
  <2>1. task[t].file # dir.path BY <1>8, Zenon DEF WriteAll, At, Inv, Sane
  <2>2. OnDisk' = OnDisk BY <1>8, <2>1, SameFile, Zenon DEF WriteAll, Inv, TypeOK
  <2>3. pending' = pending BY <1>8, Zenon DEF WriteAll, Inv, TypeOK
  <2> QED BY <1>8, <2>2, <2>3, Zenon DEF WriteAll, Contract!vars
<1>9. CASE Crash
  <2>1. OnDisk' = OnDisk BY <1>9, SameFile, Zenon DEF Crash, store
  <2>2. pending' = [t \in Tasks |-> None] BY <1>9, Zenon DEF Crash, Idle
  <2> QED BY <1>9, <2>1, <2>2, Zenon DEF Crash, Contract!Restart, Contract!Next
<1>10. CASE UNCHANGED vars
  BY <1>10, Zenon DEF vars, OnDisk, Contract!vars
<1> QED
  BY <1>1, <1>3, <1>4, <1>5, <1>6, <1>7, <1>8, <1>9, <1>10, Zenon
  DEF Next, Step, Contract!Next

\* The inductive invariant of the store.
LEMMA InvHolds == Spec => []Inv
BY InitInv, NextInv, PTL DEF Spec

\* The types of the store's variables, the lock's owner included.
THEOREM StoreTypes == Spec => []TypeOK
<1>1. Inv => TypeOK BY Zenon DEF Inv
<1> QED BY <1>1, InvHolds, PTL

\* The file at the path is a complete document after any crash and any failed
\* call, because write_doc only ever writes to the temporary file.
THEOREM NeverTorn == Spec => []FileReadable
<1>1. Inv => FileReadable BY MarksAssumption, Zenon DEF Inv, FileReadable
<1> QED BY <1>1, InvHolds, PTL

\* JsonFileStore implements the contract of the PairingStore trait.
THEOREM ImplementsContract == Spec => AtomicStore
<1>1. Init => Contract!Init
  BY DEF Init, Contract!Init, OnDisk, Contract!EmptyDocument, Idle
<1> QED BY <1>1, StepRefines, InvHolds, PTL DEF Spec, AtomicStore, Contract!Spec

=============================================================================
