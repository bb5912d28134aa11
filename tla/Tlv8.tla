-------------------------------- MODULE Tlv8 --------------------------------
(***************************************************************************)
(* The TLV8 codec of crates/hap-tlv8: every pairing message, and the body  *)
(* of every PDU, is a sequence of items  type, length, value  in which a   *)
(* value longer than MaxFragment bytes (255 in the code) is cut into       *)
(* consecutive items of one type.  A full fragment says that the run goes  *)
(* on, so a value that fills its last fragment is followed by an empty one.*)
(* Bytes are numbers.                                                      *)
(***************************************************************************)
EXTENDS Integers, SequencesExt

CONSTANT MaxFragment    \* bytes of a value one item carries, 255 in the code

SEPARATOR == 255
NoRun     == -1
Item(ty, value) == [ty |-> ty, value |-> value]

\* Tlv8Writer::push.
push(ty, value) ==
    LET n == (Len(value) + MaxFragment - 1) \div MaxFragment
        chunk(i) == SubSeq(value, (i - 1) * MaxFragment + 1,
                           Min({i * MaxFragment, Len(value)}))
    IN  FlattenSeq([i \in 1 .. n |-> <<ty, Len(chunk(i))>> \o chunk(i)])
        \o IF Len(value) % MaxFragment = 0 THEN <<ty, 0>> ELSE <<>>

push_separator == <<SEPARATOR, 0>>

\* The type whose run is open after a fragment: the next item of that type
\* continues it.
RunNever(ty, len) == NoRun
RunAfter(ty, len) == IF ty # SEPARATOR /\ len = MaxFragment THEN ty ELSE NoRun

\* The loop of Tlv8Reader::parse, with the items so far and the open run.
RECURSIVE ParseFrom(_, _, _)
ParseFrom(bytes, items, run) ==
    IF bytes = <<>> THEN [ok |-> TRUE, items |-> items]
    ELSE IF Len(bytes) < 2 \/ (Len(bytes) >= 2 /\ Len(bytes) < 2 + bytes[2])
    THEN [ok |-> FALSE, items |-> <<>>]
    ELSE LET ty    == bytes[1]
             len   == bytes[2]
             value == SubSeq(bytes, 3, 2 + len)
             next  == IF ty # SEPARATOR /\ ty = run
                      THEN [items EXCEPT ![Len(items)].value = @ \o value]
                      ELSE Append(items, Item(ty, value))
         IN  ParseFrom(SubSeq(bytes, 3 + len, Len(bytes)), next, RunAfter(ty, len))

parse(bytes) == ParseFrom(bytes, <<>>, NoRun)

\* Tlv8Map::get: the values of the first item of a type, as a sequence of at
\* most one.
get(items, ty) ==
    LET found == {i \in DOMAIN items : items[i].ty = ty}
    IN  IF found = {} THEN <<>> ELSE <<items[Min(found)].value>>

=============================================================================
