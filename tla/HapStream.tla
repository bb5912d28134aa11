------------------------------ MODULE HapStream ------------------------------
(***************************************************************************)
(* The receiving side of an established IP session, byte by byte: the      *)
(* reader task of crates/hap-transport gets the socket's bytes in pieces   *)
(* of any size, takes record frames out of them, appends the plaintext of  *)
(* each to a second buffer and takes HTTP/1.1 responses and EVENT/1.0      *)
(* pushes out of that.  Neither frames nor pieces respect the messages'    *)
(* boundaries.  Responses go to the /pairings operations of PairingsAdmin. *)
(*                                                                         *)
(* A frame is a two-byte length, the block, and a tag of one byte for the  *)
(* sixteen of Poly1305: the number it was sealed with, which opens at that *)
(* number only.  Start-line prefixes are shortened, EVENT's still being    *)
(* the longer one; a status, a header's name, its value and a size are one *)
(* byte each.  The channels the messages go to are unbounded here, their   *)
(* limits are SecureSession's subject.                                     *)
(***************************************************************************)
EXTENDS PairingsAdmin

CONSTANTS
    MAX_BLOCK,      \* plaintext bytes of a frame
    ReadSizes,      \* bytes one read of the socket returns if there are as many
    Conversations,  \* sequences of messages the accessory may send
    BlockSizes,     \* how it may cut them into blocks
    Damage          \* numbers of the frame that may be damaged, 0 for none

ASSUME StreamAssumption ==
    /\ MaxFragment \in Nat \ {0} /\ ReadSizes \subseteq Nat \ {0}
    /\ BlockSizes \subseteq 1 .. MAX_BLOCK /\ Damage \subseteq Nat

VARIABLES
    sent,        \* what the accessory sends: messages, block size, damage
    unread,      \* bytes of it not read from the socket yet
    cipher_buf, plain_buf,
    counter,     \* the nonce counter of the reading side
    responses, events_routed,   \* messages routed so far
    routing      \* "reading", or why the task returned

streamVars == <<sent, unread, cipher_buf, plain_buf, counter, responses, events_routed, routing>>

-----------------------------------------------------------------------------
\* The shape of a message.
HTTP_PREFIX  == <<72, 84>>
EVENT_PREFIX == <<69, 86, 69>>
CRLF         == <<13, 10>>
CONTENT_LENGTH    == 76
TRANSFER_ENCODING == 84
CHUNKED == 99
Number(n) == 200 + n        \* a number in digits: no digit is CR or LF
Value(b)  == b - 200

LEN_PREFIX == 2
TAG_LEN    == 1
frame_len(declared) == LEN_PREFIX + declared + TAG_LEN

IndexOf(buf, needle) ==     \* find_subslice, 0 when there is none
    LET at == {i \in 1 .. Len(buf) - Len(needle) + 1 :
                  SubSeq(buf, i, i + Len(needle) - 1) = needle}
    IN  IF at = {} THEN 0 ELSE Min(at)
Drop(buf, n) == SubSeq(buf, n + 1, Len(buf))

-----------------------------------------------------------------------------
\* The accessory: a message is [kind, framing, body], with kind "http",
\* "event", or a start line of another protocol.
StartLine(kind) == CASE kind = "http"  -> HTTP_PREFIX
                     [] kind = "event" -> EVENT_PREFIX
                     [] OTHER          -> <<72, 79, 80>>
Chunk(bytes) == <<Number(Len(bytes))>> \o CRLF \o bytes \o CRLF
Encode(m) ==
    LET half == Len(m.body) \div 2
        headers == CASE m.framing = "length"  -> CRLF \o <<CONTENT_LENGTH, Number(Len(m.body))>>
                     [] m.framing = "chunked" -> CRLF \o <<TRANSFER_ENCODING, CHUNKED>>
                     [] m.framing = "gzip"    -> CRLF \o <<TRANSFER_ENCODING, 0>>
                     [] m.framing = "bare"    -> <<>>
        body == IF m.framing # "chunked" THEN m.body
                ELSE (IF half > 0 THEN Chunk(SubSeq(m.body, 1, half)) ELSE <<>>)
                     \o (IF m.body # <<>> THEN Chunk(Drop(m.body, half)) ELSE <<>>)
                     \o <<Number(0)>> \o CRLF \o CRLF
    IN  StartLine(m.kind) \o <<Number(2)>> \o headers \o CRLF \o CRLF \o body

Plaintext(messages) == FlattenSeq([i \in DOMAIN messages |-> Encode(messages[i])])
Records(plain, size, damaged) ==
    LET n == (Len(plain) + size - 1) \div size
        block(i) == SubSeq(plain, (i - 1) * size + 1, Min({i * size, Len(plain)}))
    IN  FlattenSeq([i \in 1 .. n |->
            <<Len(block(i)), 0>> \o block(i) \o <<IF i = damaged THEN n + 1 ELSE i - 1>>])

-----------------------------------------------------------------------------
\* decrypt_frame: "none" when the frame is not complete.
decrypt_frame(ctr, buf) ==
    IF Len(buf) < LEN_PREFIX THEN [tag |-> "none", block |-> <<>>]
    ELSE LET declared == buf[1] + 256 * buf[2]
             total    == frame_len(declared)
         IN  CASE declared > MAX_BLOCK -> [tag |-> "length", block |-> <<>>]
               [] declared <= MAX_BLOCK /\ Len(buf) < total -> [tag |-> "none", block |-> <<>>]
               [] declared <= MAX_BLOCK /\ Len(buf) >= total ->
                    IF buf[total] = ctr
                    THEN [tag |-> "ok", block |-> SubSeq(buf, LEN_PREFIX + 1, LEN_PREFIX + declared)]
                    ELSE [tag |-> "decrypt", block |-> <<>>]

\* The reader's inner loop: every whole frame from cipher into plain.
RECURSIVE DrainFrames(_, _, _)
DrainFrames(cipher, plain, ctr) ==
    LET f == decrypt_frame(ctr, cipher)
    IN  IF f.tag = "ok"
        THEN DrainFrames(Drop(cipher, frame_len(Len(f.block))), plain \o f.block, ctr + 1)
        ELSE [tag |-> f.tag, cipher |-> cipher, plain |-> plain, ctr |-> ctr]

Incomplete == [tag |-> "incomplete", body |-> <<>>, consumed |-> 0]
Refuse(why) == [tag |-> why, body |-> <<>>, consumed |-> 0]
Complete(body, n) == [tag |-> "complete", body |-> body, consumed |-> n]

\* decode_chunked, with the body and the bytes consumed so far.
RECURSIVE decode_chunked(_, _, _)
decode_chunked(rest, body, consumed) ==
    LET nl    == IndexOf(rest, CRLF)
        size  == Value(rest[nl - 1])
        start == nl + 1
    IN  IF nl = 0 THEN Incomplete
        ELSE IF size = 0
        THEN IF Len(rest) < start + 2 THEN Incomplete ELSE Complete(body, consumed + start + 2)
        ELSE IF Len(rest) < start + size + 2 THEN Incomplete
        ELSE decode_chunked(Drop(rest, start + size + 2),
                            body \o SubSeq(rest, start + 1, start + size), consumed + start + size + 2)

\* parse_message: the header lines come two bytes each after their CRLF.
parse_message(buf, prefix) ==
    LET end   == IndexOf(buf, CRLF \o CRLF)
        from  == Len(prefix) + 2
        lines == {i \in from .. end - 1 : (i - from) % 4 = 0}
        with(name) == {buf[i + 3] : i \in {j \in lines : buf[j + 2] = name}}
        start == end + 3
        rest  == Drop(buf, start)
        len   == IF with(CONTENT_LENGTH) = {} THEN 0
                 ELSE Value(CHOOSE v \in with(CONTENT_LENGTH) : TRUE)
    IN  IF end = 0 THEN Incomplete
        ELSE IF with(TRANSFER_ENCODING) \ {CHUNKED} # {} THEN Refuse("encoding")
        ELSE IF CHUNKED \in with(TRANSFER_ENCODING) THEN decode_chunked(rest, <<>>, start)
        ELSE IF Len(rest) < len THEN Incomplete
        ELSE Complete(SubSeq(rest, 1, len), start + len)

\* A start line this short may still turn into one of the two.
ShortStartLineFault(rest) == Len(rest) < Min({Len(EVENT_PREFIX), Len(HTTP_PREFIX)})
ShortStartLine(rest) == Len(rest) < Max({Len(EVENT_PREFIX), Len(HTTP_PREFIX)})

\* demux_messages: every complete message at the front of the buffer; an error
\* discards the ones found before it.
RECURSIVE demux_messages(_, _)
demux_messages(rest, out) ==
    LET is_event == IsPrefix(EVENT_PREFIX, rest)
        is_http  == IsPrefix(HTTP_PREFIX, rest)
        m == parse_message(rest, IF is_event THEN EVENT_PREFIX ELSE HTTP_PREFIX)
        stop(why) == [tag |-> why, out |-> out, rest |-> rest]
    IN  IF rest = <<>> THEN stop("ok")
        ELSE IF ~is_event /\ ~is_http
        THEN IF ShortStartLine(rest) THEN stop("ok") ELSE stop("http")
        ELSE CASE m.tag = "incomplete" -> stop("ok")
               [] m.tag = "complete" ->
                    demux_messages(Drop(rest, m.consumed),
                                   Append(out, [kind |-> IF is_event THEN "event" ELSE "http",
                                                body |-> m.body]))
               [] m.tag = "encoding" -> stop("encoding")

Bodies(messages, kind) ==
    LET of == SelectSeq(messages, LAMBDA m : m.kind = kind)
    IN  [i \in DOMAIN of |-> of[i].body]

-----------------------------------------------------------------------------
StreamInit ==
    \E messages \in Conversations, size \in BlockSizes, damaged \in Damage :
        /\ sent = [messages |-> messages, size |-> size, damaged |-> damaged]
        /\ unread = Records(Plaintext(messages), size, damaged)
        /\ cipher_buf = <<>> /\ plain_buf = <<>> /\ counter = 0
        /\ responses = <<>> /\ events_routed = <<>> /\ routing = "reading"

\* The task returns, having told the response channel why.
Stop(why) ==
    /\ routing' = why
    /\ UNCHANGED <<plain_buf, counter, responses, events_routed>>

\* One turn of reader_task, from a read that returned at most size bytes
\* to the next read.
Read(size) ==
    LET n       == Min({size, Len(unread)})
        frames  == DrainFrames(cipher_buf \o SubSeq(unread, 1, n), plain_buf, counter)
        demuxed == demux_messages(frames.plain, <<>>)
    IN  /\ routing = "reading"
        /\ n > 0
        /\ unread' = Drop(unread, n)
        /\ cipher_buf' = frames.cipher
        /\ IF frames.tag # "none" THEN Stop(frames.tag)
           ELSE IF demuxed.tag # "ok" THEN Stop(demuxed.tag)
           ELSE /\ plain_buf' = demuxed.rest
                /\ counter' = frames.ctr
                /\ responses' = responses \o Bodies(demuxed.out, "http")
                /\ events_routed' = events_routed \o Bodies(demuxed.out, "event")
                /\ UNCHANGED routing
        /\ UNCHANGED sent

\* The accessory closes the connection, or the connection fails, anywhere.
Closed ==
    /\ routing = "reading"
    /\ \E why \in {"eof", "io"} : Stop(why)
    /\ UNCHANGED <<sent, unread, cipher_buf>>

StreamNext == (\E size \in ReadSizes : Read(size)) \/ Closed

-----------------------------------------------------------------------------
\* How much of what was sent has come in, by counting: whole frames before the
\* damaged one, and the messages that end in their plaintext.
PlainLength == Len(Plaintext(sent.messages))
AllFrames   == (PlainLength + sent.size - 1) \div sent.size
WireLength  == PlainLength + AllFrames * (LEN_PREFIX + TAG_LEN)
FramesIn    == IF unread = <<>> THEN AllFrames
               ELSE (WireLength - Len(unread)) \div frame_len(sent.size)
Damaged     == sent.damaged \in 1 .. FramesIn
PlainIn     == IF FramesIn = AllFrames THEN PlainLength ELSE FramesIn * sent.size
MessagesIn  ==
    LET ms == sent.messages
    IN  Max({k \in 0 .. Len(ms) : Len(Plaintext(SubSeq(ms, 1, k))) <= PlainIn})
Readable(m) == m.kind \in {"http", "event"} /\ m.framing # "gzip"
\* Messages before the first one the session does not understand.
Understood  == Max({k \in 0 .. Len(sent.messages) :
                      \A i \in 1 .. k : Readable(sent.messages[i])})

\* Whatever the pieces the bytes come in and the blocks the accessory cuts its
\* messages into, the reader task has routed exactly the messages that have
\* come in whole, each to its channel and in order, and it has not stopped by
\* itself before a damaged frame or a message it does not understand came in.
\* If it stopped at one, what it routed is still a prefix (reader_task,
\* demux_messages).
ExactlyWhatCame ==
    LET in == SubSeq(sent.messages, 1, MessagesIn)
    IN  /\ IsPrefix(responses, Bodies(in, "http"))
        /\ IsPrefix(events_routed, Bodies(in, "event"))
        /\ ~Damaged /\ PlainIn <= Len(Plaintext(SubSeq(sent.messages, 1, Understood)))
              => /\ routing \in {"reading", "eof", "io"}
                 /\ responses = Bodies(in, "http")
                 /\ events_routed = Bodies(in, "event")

\* An operation on /pairings returns what the accessory replied: the list it
\* holds with every name, key and permission in its own pairing, the code of a
\* refusal, or the acknowledgement; and what add and remove asked for shows in
\* the list (PairingsAdmin::add, remove and list, parse_list_reply,
\* expect_m2_ok).
PairingsAnswered ==
    LET asked == SelectSeq(sent.messages, LAMBDA m : m.kind = "http")
    IN  \A i \in DOMAIN responses :
            LET a == asked[i].answer
            IN  /\ parse_list_reply(responses[i]) = a
                /\ expect_m2_ok(responses[i]) = [a EXCEPT !.list = <<>>]

=============================================================================
