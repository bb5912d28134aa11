--------------------------- MODULE AccessoryHandle ---------------------------
(***************************************************************************)
(* What the user of the public handle of hap-controller reads and writes:  *)
(* AccessoryHandle (unified.rs) sends an operation to the IP handle, which *)
(* makes one request of a batch, or to the BLE accessory, which takes the  *)
(* characteristics one by one.  The sessions underneath and their retries  *)
(* are the subject of IpHandle and BleAccessory; here a request is served, *)
(* or fails before or after the accessory has served it.                   *)
(***************************************************************************)
EXTENDS CharValues

CONSTANTS
    Iids,           \* characteristics of the accessory
    FormatMaps,     \* their formats, [Iids -> CharFormat]
    WriteValues,    \* values the user writes
    MaxOps          \* operations of one behaviour

VARIABLES
    link,           \* "ip" or "ble"
    loose,          \* the accessory's JSON: TRUE for 0, 1 and whole floats
    format_of,      \* the accessory's formats
    held,           \* the accessory's values
    formats,        \* the IP handle's map, filled by accessories()
    prepared,       \* pid of the timed write the accessory expects, 0 for none
    pid,            \* the IP handle's counter
    op,             \* the operation under way
    outcome,        \* what the last one returned
    ops

handleVars == <<link, loose, format_of, held, formats, prepared, pid, op, outcome, ops>>

INVALID_VALUE == -70410
Unset == CharValue("none", <<>>)

\* An operation has a kind, the iids and values it is about, and what it has
\* done of them; an outcome has a tag and the values returned.
Operation(kind, iids, values) == [kind |-> kind, iids |-> iids, values |-> values, got |-> <<>>]
NoOperation == Operation("none", <<>>, <<>>)
Outcome(tag, values) == [tag |-> tag, values |-> values]
Writes == {"write_many", "write_timed", "write_with_response"}

-----------------------------------------------------------------------------
\* The accessory on IP: it renders a value, and takes one its format allows.
Render(iid) ==
    LET x == held[iid]
    IN  CASE loose /\ x.t = "Bool" -> Json("int", x.v)
          [] loose /\ x.t = "Float" /\ x.v[1] % QUARTERS = 0 -> Json("int", <<x.v[1] \div QUARTERS>>)
          [] OTHER -> to_json(x)
Takes(iid, x) == value_from_json(format_of[iid], to_json(x))
\* What it holds after the writes it takes, and the status of each.
After(iids, values) ==
    [i \in Iids |->
        LET last == {k \in DOMAIN iids : iids[k] = i /\ Takes(i, values[k]).ok}
        IN  IF last = {} THEN held[i] ELSE Takes(i, values[Max(last)]).value]
Statuses(iids, values) ==
    [k \in DOMAIN iids |-> [iid |-> iids[k], json |-> <<>>,
                            status |-> IF Takes(iids[k], values[k]).ok THEN 0 ELSE INVALID_VALUE]]
ReadEntries(iids) ==
    [k \in DOMAIN iids |-> [iid |-> iids[k], status |-> 0, json |-> <<Render(iids[k])>>]]

-----------------------------------------------------------------------------
HandleInit ==
    /\ link \in {"ip", "ble"} /\ loose \in BOOLEAN
    /\ format_of \in FormatMaps
    /\ held = [i \in Iids |->
          CASE format_of[i] = "Bool" -> CharValue("Bool", <<1>>)
            [] format_of[i] = "Int" -> CharValue("Int", <<0>>)
            [] format_of[i] = "Float" -> CharValue("Float", <<QUARTERS>>)
            [] format_of[i] = "String" -> CharValue("Str", <<>>)
            [] format_of[i] \in {"Tlv8", "Data"} -> CharValue("Bytes", <<1>>)
            [] OTHER -> CharValue("Uint", <<0>>)]
    /\ formats = [i \in {} |-> "Bool"]
    /\ prepared = 0 /\ pid = 1
    /\ op = NoOperation /\ outcome = Outcome("none", <<>>) /\ ops = 0

\* BLE has no PDU for the first, the others are about sleeping accessories.
IpOnly  == {"unsubscribe", "write_timed", "write_with_response"}
BleOnly == {"enable_broadcasts", "watch_sleepy_events"}
Unsupported(kind) == kind \in IF link = "ble" THEN IpOnly ELSE BleOnly

\* The user calls an operation; one of the other transport returns at once.
Call(kind, iids, values) ==
    /\ op = NoOperation /\ ops < MaxOps
    /\ ops' = ops + 1
    /\ IF Unsupported(kind)
       THEN outcome' = Outcome("unsupported", <<>>) /\ UNCHANGED op
       ELSE op' = Operation(kind, iids, values) /\ outcome' = Outcome("none", <<>>)
    /\ UNCHANGED <<link, loose, format_of, held, formats, prepared, pid>>

Return(tag, values) == op' = NoOperation /\ outcome' = Outcome(tag, values)

\* Re-typing with the cached formats, in read_many and write_with_response.
Retyped(iids, values) ==
    [k \in DOMAIN values |-> IF iids[k] \in DOMAIN formats
                             THEN coerce_to_format(values[k], formats[iids[k]]) ELSE values[k]]

-----------------------------------------------------------------------------
\* GET /accessories: the tree with its values, and the formats with it.
accessories ==
    LET tree == [i \in Iids |-> value_from_json(format_of[i], Render(i))]
    IN  /\ link = "ip" /\ op.kind = "accessories"
        /\ IF \A i \in Iids : tree[i].ok
           THEN Return("ok", [k \in DOMAIN op.iids |-> tree[op.iids[k]].value]) /\ formats' = format_of
           ELSE Return("model", <<>>) /\ UNCHANGED formats
        /\ UNCHANGED <<link, loose, format_of, held, prepared, pid, ops>>

read_many ==
    LET r == parse_read_response(ReadEntries(op.iids))
    IN  /\ link = "ip" /\ op.kind = "read_many"
        /\ Return(IF r.ok THEN "ok" ELSE "status", Retyped(op.iids, r.values))
        /\ UNCHANGED <<link, loose, format_of, held, formats, prepared, pid, ops>>

\* put_characteristics: the body lists the failures, if there are any.
write_many ==
    LET r == parse_read_response(Statuses(op.iids, op.values))
    IN  /\ link = "ip" /\ op.kind = "write_many"
        /\ held' = After(op.iids, op.values)
        /\ Return(IF r.ok THEN "ok" ELSE "status", <<>>)
        /\ UNCHANGED <<link, loose, format_of, formats, prepared, pid, ops>>

\* write_timed: PUT /prepare with a new pid, then the write that carries it.
prepare ==
    /\ link = "ip" /\ op.kind = "write_timed" /\ op.got = <<>>
    /\ pid' = pid + 1
    /\ prepared' = pid
    /\ op' = [op EXCEPT !.got = <<pid>>]
    /\ UNCHANGED <<link, loose, format_of, held, formats, outcome, ops>>
write_timed ==
    LET r == parse_read_response(Statuses(op.iids, op.values))
    IN  /\ link = "ip" /\ op.kind = "write_timed" /\ op.got # <<>>
        /\ IF prepared = op.got[1]
           THEN held' = After(op.iids, op.values) /\ Return(IF r.ok THEN "ok" ELSE "status", <<>>)
           ELSE UNCHANGED held /\ Return("status", <<>>)
        /\ prepared' = 0
        /\ UNCHANGED <<link, loose, format_of, formats, pid, ops>>
\* The time to live of a prepared write passes.
Expires == prepared # 0 /\ prepared' = 0
           /\ UNCHANGED <<link, loose, format_of, held, formats, pid, op, outcome, ops>>

\* The r flag: the response has the value after the write.
write_with_response ==
    LET r == parse_read_response(Statuses(op.iids, op.values))
        after == After(op.iids, op.values)
    IN  /\ link = "ip" /\ op.kind = "write_with_response"
        /\ held' = after
        /\ IF r.ok
           THEN Return("ok", Retyped(op.iids, <<infer_value(to_json(after[op.iids[1]]))>>))
           ELSE Return("status", <<>>)
        /\ UNCHANGED <<link, loose, format_of, formats, prepared, pid, ops>>

\* A request of the IP handle fails: the accessory may have served it.
Served == op.kind \in Writes /\ (op.kind = "write_timed" => op.got # <<>> /\ prepared = op.got[1])
RequestFails ==
    /\ link = "ip" /\ op # NoOperation
    /\ held' \in {held} \cup IF Served THEN {After(op.iids, op.values)} ELSE {}
    /\ prepared' \in {prepared} \cup IF op.kind # "write_timed" THEN {}
                                      ELSE IF op.got = <<>> THEN {pid} ELSE {0}
    /\ pid' = IF op.kind = "write_timed" /\ op.got = <<>> THEN pid + 1 ELSE pid
    /\ Return("transport", <<>>)
    /\ UNCHANGED <<link, loose, format_of, formats, ops>>

-----------------------------------------------------------------------------
\* The BLE accessory takes the next characteristic of the loop in read_many or
\* write_many; accessories() has the database at hand.
At == Len(op.got) + 1
BleDone == link = "ble" /\ op.kind \in {"accessories", "read_many", "write_many"}
           /\ (op.kind = "accessories" \/ At > Len(op.iids))
           /\ Return("ok", IF op.kind = "read_many" THEN op.got ELSE <<>>)
           /\ UNCHANGED <<link, loose, format_of, held, formats, prepared, pid, ops>>
BleStep == link = "ble" /\ op.kind \in {"read_many", "write_many"} /\ At <= Len(op.iids)

ble_read ==
    LET iid == op.iids[At]
        x   == decode_value(format_of[iid], encode_value(format_of[iid], held[iid]).raw)
    IN  /\ BleStep /\ op.kind = "read_many"
        /\ IF x.ok THEN op' = [op EXCEPT !.got = Append(@, x.value)] /\ UNCHANGED outcome
           ELSE Return("malformed", <<>>)
        /\ UNCHANGED <<link, loose, format_of, held, formats, prepared, pid, ops>>
ble_write ==
    LET iid == op.iids[At]
        e   == encode_value(format_of[iid], op.values[At])
    IN  /\ BleStep /\ op.kind = "write_many"
        /\ IF e.ok
           THEN /\ held' = [held EXCEPT ![iid] = decode_value(format_of[iid], e.raw).value]
                /\ op' = [op EXCEPT !.got = Append(@, Unset)] /\ UNCHANGED outcome
           ELSE Return("malformed", <<>>) /\ UNCHANGED held
        /\ UNCHANGED <<link, loose, format_of, formats, prepared, pid, ops>>
\* The link fails in the middle of the loop, the write done or not.
BleFails ==
    LET e == encode_value(format_of[op.iids[At]], op.values[At])
        x == decode_value(format_of[op.iids[At]], e.raw)
    IN  /\ BleStep
        /\ held' \in {held} \cup IF op.kind = "write_many" /\ e.ok
                                 THEN {[held EXCEPT ![op.iids[At]] = x.value]} ELSE {}
        /\ Return("gatt", <<>>)
        /\ UNCHANGED <<link, loose, format_of, formats, prepared, pid, ops>>

\* Operations on no value: what they do is in IpHandle and SleepyEvents.
Elsewhere ==
    /\ op.kind \in BleOnly \cup {"unsubscribe"}
    /\ Return("ok", <<>>)
    /\ UNCHANGED <<link, loose, format_of, held, formats, prepared, pid, ops>>

HandleNext ==
    \/ Call("accessories", <<1, 2>>, <<>>)
    \/ \E ids \in {<<1>>, <<2, 1>>} : Call("read_many", ids, <<>>)
    \/ \E kind \in BleOnly \cup {"unsubscribe"} : Call(kind, <<1>>, <<>>)
    \/ \E x \in WriteValues, kind \in Writes : Call(kind, <<1>>, <<x>>)
    \/ \E x \in WriteValues, y \in {CharValue("Uint", <<1>>), CharValue("Uint", <<Byte>>)} :
          Call("write_many", <<2, 1>>, <<y, x>>)
    \/ accessories \/ read_many \/ write_many \/ prepare \/ write_timed \/ Expires
    \/ write_with_response \/ RequestFails
    \/ Elsewhere \/ BleDone \/ ble_read \/ ble_write \/ BleFails

-----------------------------------------------------------------------------
\* A value as the handle returns it: in the type of its format, except that IP
\* leaves the base64 text of tlv8 and data values as it is.
AsRead(x) == IF link = "ip" /\ x.t = "Bytes" THEN CharValue("Str", to_base64(x.v)) ELSE x
\* The same value as the user wrote it: IP keeps a Float's precision and takes
\* a number for a Float or an Int.
Written(iid, x) ==
    IF link = "ip" THEN Takes(iid, x).value
    ELSE IF x.t = "Float" THEN CharValue("Float", <<Narrow(x.v[1])>>) ELSE x

\* Over either transport, a value read is the one the accessory holds, in the
\* type of its format, once accessories() has been called; a write that returns
\* Ok is in force, to the last characteristic, and one that was refused has
\* changed nothing of a characteristic that did not take it.  A timed write is
\* served only if its own prepare still stands (read_many, write_many,
\* write_timed, write_with_response, coerce_to_format, encode_value).
ValuesKept ==
    [][LET done == op # NoOperation /\ op' = NoOperation
           ok   == done /\ outcome'.tag = "ok"
       IN  /\ ok /\ op.kind = "read_many" /\ (link = "ip" => formats # <<>>) =>
                 outcome'.values = [k \in DOMAIN op.iids |-> AsRead(held[op.iids[k]])]
           /\ ok /\ op.kind = "accessories" /\ link = "ip" =>
                 outcome'.values = [k \in DOMAIN op.iids |-> held[op.iids[k]]]
           /\ ok /\ op.kind \in Writes =>
                 \A k \in DOMAIN op.iids : held'[op.iids[k]] = Written(op.iids[k], op.values[k])
           /\ ok /\ op.kind = "write_with_response" /\ formats # <<>> =>
                 outcome'.values = <<AsRead(held'[op.iids[1]])>>
           /\ op.kind = "write_timed" /\ held' # held => op.got # <<>> /\ prepared = op.got[1]
           /\ \A i \in Iids : held'[i] # held[i] =>
                 \E k \in DOMAIN op.iids : op.iids[k] = i /\ held'[i] = Written(i, op.values[k])]_handleVars

=============================================================================
