------------------------------ MODULE CharValues ------------------------------
(***************************************************************************)
(* Characteristic values and their three forms: the typed CharValue of     *)
(* hap-model, its JSON on IP (format.rs, characteristics.rs) and its bytes *)
(* on BLE (hap-ble/src/db.rs).                                             *)
(*                                                                         *)
(* A value is a type and a sequence of integers.  A number of n bytes is   *)
(* below Byte^n.  A Float counts quarters; an f32 keeps the even ones.  A  *)
(* base64 text is the bytes after the mark B64.                            *)
(***************************************************************************)
EXTENDS PduBytes

CharValue(t, v) == [t |-> t, v |-> v]
Json(j, v)      == [j |-> j, v |-> v]   \* "bool", "int", "float", "text"

Width == [Uint8 |-> 1, Uint16 |-> 2, Uint32 |-> 4, Uint64 |-> 8]
UintFormats == DOMAIN Width
CharFormat  == UintFormats \cup {"Bool", "Int", "Float", "String", "Tlv8", "Data"}
uint_max(format) == Byte ^ Width[format] - 1
I32 == -(Byte ^ 4 \div 2) .. Byte ^ 4 \div 2 - 1
I64MAX == Byte ^ 8 \div 2 - 1
QUARTERS == 4
B64 == 64
to_base64(bytes) == <<B64>> \o bytes
IsBase64(text) == text # <<>> /\ text[1] = B64

\* A conversion that may fail.
Typed(value) == [ok |-> TRUE, value |-> value]
TypeErr      == [ok |-> FALSE, value |-> CharValue("none", <<>>)]

-----------------------------------------------------------------------------
to_json(x) ==
    CASE x.t = "Bool"  -> Json("bool", x.v)
      [] x.t \in {"Int", "Uint"} -> Json("int", x.v)
      [] x.t = "Float" -> Json("float", x.v)
      [] x.t = "Str"   -> Json("text", x.v)
      [] x.t = "Bytes" -> Json("text", to_base64(x.v))

\* serde_json's as_f64, in quarters.
AsFloat(json) == IF json.j = "int" THEN <<QUARTERS * json.v[1]>> ELSE json.v

value_from_json(format, json) ==
    LET n == json.v[1]
    IN  CASE format = "Bool" ->
                IF json.j = "bool" \/ (json.j = "int" /\ n \in {0, 1})
                THEN Typed(CharValue("Bool", json.v)) ELSE TypeErr
          [] format \in UintFormats ->
                IF json.j = "int" /\ n \in 0 .. uint_max(format)
                THEN Typed(CharValue("Uint", json.v)) ELSE TypeErr
          [] format = "Int" ->
                IF json.j = "int" /\ n <= I64MAX THEN Typed(CharValue("Int", json.v)) ELSE TypeErr
          [] format = "Float" ->
                IF json.j \in {"int", "float"} THEN Typed(CharValue("Float", AsFloat(json))) ELSE TypeErr
          [] format = "String" ->
                IF json.j = "text" THEN Typed(CharValue("Str", json.v)) ELSE TypeErr
          [] format \in {"Tlv8", "Data"} ->
                IF json.j = "text" /\ IsBase64(json.v)
                THEN Typed(CharValue("Bytes", Tail(json.v))) ELSE TypeErr

\* infer_value: a JSON value whose format is not known.
infer_value(json) ==
    CASE json.j = "bool"  -> CharValue("Bool", json.v)
      [] json.j = "text"  -> CharValue("Str", json.v)
      [] json.j = "float" -> CharValue("Float", json.v)
      [] json.j = "int"   -> CharValue(IF json.v[1] >= 0 THEN "Uint" ELSE "Int", json.v)

\* Plausible fault: numbers are left as they were inferred.
coerce_bools_only(x, format) ==
    IF format = "Bool" /\ x.t \in {"Uint", "Int"}
    THEN CharValue("Bool", <<IF x.v[1] # 0 THEN 1 ELSE 0>>) ELSE x

coerce_to_format(x, format) ==
    CASE format = "Bool" /\ x.t \in {"Uint", "Int"} ->
            CharValue("Bool", <<IF x.v[1] # 0 THEN 1 ELSE 0>>)
      [] format = "Int" /\ x.t = "Uint" ->
            IF x.v[1] <= I64MAX THEN CharValue("Int", x.v) ELSE x
      [] format = "Float" /\ x.t \in {"Uint", "Int"} -> CharValue("Float", <<QUARTERS * x.v[1]>>)
      [] OTHER -> x

\* parse_read_response: the first entry with a status is the error of all, one
\* without a value is left out.  An entry is [iid, status, json], with json a
\* sequence of at most one.
parse_read_response(entries) ==
    LET failed == {i \in DOMAIN entries : entries[i].status # 0}
        valued == SelectSeq(entries, LAMBDA e : e.json # <<>>)
    IN  IF failed # {} THEN [ok |-> FALSE, status |-> entries[Min(failed)].status, values |-> <<>>]
        ELSE [ok |-> TRUE, status |-> 0,
              values |-> [i \in DOMAIN valued |-> infer_value(valued[i].json[1])]]

-----------------------------------------------------------------------------
LeBytes(n, width) == [i \in 1 .. width |-> (n \div Byte ^ (i - 1)) % Byte]
FromLeBytes(bytes, width) == FoldLeftDomain(LAMBDA sum, i : sum + bytes[i] * Byte ^ (i - 1), 0, SubSeq(bytes, 1, width))
Narrow(quarters) == 2 * (quarters \div 2)       \* as f32

\* encode_value: the value must be of the format's type and in its range.
encode_value(format, x) ==
    LET n == x.v[1]
        raw(bytes) == [ok |-> TRUE, raw |-> bytes]
        mismatch == [ok |-> FALSE, raw |-> <<>>]
    IN  CASE format = "Bool" /\ x.t = "Bool" -> raw(x.v)
          [] format \in UintFormats /\ x.t = "Uint" ->
                IF n <= uint_max(format) THEN raw(LeBytes(n, Width[format])) ELSE mismatch
          [] format = "Int" /\ x.t = "Int" ->
                IF n \in I32 THEN raw(LeBytes(n % Byte ^ 4, 4)) ELSE mismatch
          [] format = "Float" /\ x.t = "Float" -> raw(LeBytes(Narrow(n), 4))
          [] format = "String" /\ x.t = "Str" -> raw(x.v)
          [] format \in {"Tlv8", "Data"} /\ x.t = "Bytes" -> raw(x.v)
          [] OTHER -> mismatch

decode_value(format, raw) ==
    LET signed == FromLeBytes(raw, 4)
        need(n, value) == IF Len(raw) >= n THEN Typed(value) ELSE TypeErr
    IN  CASE format = "Bool" -> need(1, CharValue("Bool", <<IF raw[1] # 0 THEN 1 ELSE 0>>))
          [] format \in UintFormats ->
                need(Width[format], CharValue("Uint", <<FromLeBytes(raw, Width[format])>>))
          [] format = "Int" ->
                need(4, CharValue("Int", <<IF signed \in I32 THEN signed ELSE signed - Byte ^ 4>>))
          [] format = "Float" -> need(4, CharValue("Float", <<signed>>))
          [] format = "String" -> Typed(CharValue("Str", raw))
          [] format \in {"Tlv8", "Data"} -> Typed(CharValue("Bytes", raw))

=============================================================================
