----------------------------- MODULE MCIpSession -----------------------------
\* The session on the IP transport seen from two distances: its tasks and
\* channels with messages as units (SecureSession), or the bytes one reader
\* task is given (HapStream); each behaviour is of one of the two.
EXTENDS SecureSession, HapStream

CONSTANT MaxMessages
P(id, key, admin) == [id |-> id, ltpk |-> key, admin |-> admin]
\* Names and keys below, at and above the length of a fragment.
Pairings == {<<>>, <<P(<<5>>, <<1, 3>>, TRUE)>>,
             <<P(<<5, 6>>, <<7, 7>>, FALSE), P(<<11, 1, 255>>, <<1, 3>>, TRUE)>>}

Message(kind, framing, body, answer) ==
    [kind |-> kind, framing |-> framing, body |-> body, answer |-> answer]
Replies ==
    {Message("http", f, ListReply(ps), Ok(ps)) : f \in {"length", "chunked"}, ps \in Pairings}
    \cup {Message("http", "length", Refusal(2), Accessory(2)),
          Message("http", "bare", <<>>, Failed("malformed")),
          Message("http", "gzip", <<>>, Failed("malformed")),
          Message("other", "length", <<>>, Failed("malformed"))}
\* A body may look like the end of a header block or like a start line.
Pushes ==
    {Message("event", f, b, Failed("tlv8")) :
        f \in {"length", "chunked"}, b \in {<<9>>, CRLF \o CRLF \o HTTP_PREFIX}}

\* A pairing is added or removed, and the list that is asked for next shows it.
Reply(body, answer) == Message("http", "length", body, answer)
Added(ps, p) ==
    LET known == \E i \in DOMAIN ps : ps[i].id = p.id
        s     == Serve(ps, AddRequest(p))
    IN  <<Reply(s.reply, IF known THEN Accessory(2) ELSE Ok(<<>>)),
          Reply(Serve(s.pairings, ListRequest).reply, Ok(IF known THEN ps ELSE Append(ps, p)))>>
Removed(ps, id) ==
    LET s == Serve(ps, RemoveRequest(id))
    IN  <<Reply(s.reply, Ok(<<>>)),
          Reply(Serve(s.pairings, ListRequest).reply, Ok(SelectSeq(ps, LAMBDA p : p.id # id)))>>
Administration ==
    {Added(ps, P(id, <<2, 4>>, admin)) : ps \in Pairings, id \in {<<5>>, <<5, 6, 7>>}, admin \in BOOLEAN}
    \cup {Removed(ps, id) : ps \in Pairings, id \in {<<5>>, <<5, 6>>}}

MCConversations ==
    Administration \cup UNION {[1 .. n -> Replies \cup Pushes] : n \in 1 .. MaxMessages}

\* Nothing was ever sent, or the connection is closed and nobody calls.
NoStream ==
    /\ sent = [messages |-> <<>>, size |-> 1, damaged |-> 0] /\ unread = <<>>
    /\ cipher_buf = <<>> /\ plain_buf = <<>> /\ counter = 0
    /\ responses = <<>> /\ events_routed = <<>> /\ routing = "eof"
NoSession ==
    /\ pc = [c \in Callers |-> "idle"] /\ rlock = NoCaller /\ no = 0 /\ blk = 0
    /\ wctr = 0 /\ out = <<>>
    /\ actr = 0 /\ part = <<>> /\ back = <<>> /\ events = 0
    /\ conn = FALSE /\ reader = FALSE /\ respQ = <<>> /\ eventQ = 0
    /\ got = [c \in Callers |-> NoResult] /\ abandoned = {}

IpInit == (Init /\ NoStream) \/ (NoSession /\ StreamInit)
SessionNext == sent.messages = <<>> /\ Next /\ UNCHANGED streamVars
BytesNext == StreamNext /\ UNCHANGED vars
IpSpec == IpInit /\ [][SessionNext \/ BytesNext]_<<vars, streamVars>> /\ SessionFairness

=============================================================================
