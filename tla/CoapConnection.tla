--------------------------- MODULE CoapConnection ---------------------------
(***************************************************************************)
(* HAP over Thread: SecureCoapConnection with its session counters and the *)
(* watcher of ThreadAccessory (crates/hap-thread/src/accessory.rs,         *)
(* session.rs), the exchange and the reader of UdpCoapTransport (coap.rs), *)
(* against the reference accessory of crates/hap-thread-dut.               *)
(*                                                                         *)
(* Datagrams are lost, duplicated and reordered: a datagram that was sent  *)
(* may be received at any later time, any number of times.  A sealed       *)
(* payload is the counter it was sealed with, and opens under no other.    *)
(***************************************************************************)
EXTENDS Integers, Sequences, FiniteSets

CONSTANTS
    Callers,            \* tasks that call post_secure on the accessory
    Accessories,        \* kinds of accessory: does it recognise a retransmission,
                        \* does it send an empty ACK and a separate response?
    Blocks,             \* numbers of Block2 blocks a response may have
    MAX_TRANSMISSIONS,  \* 4 in the code
    MaxCalls, MaxEvents, EventQueue

ASSUME CoapAssumption ==
    /\ IsFiniteSet(Callers) /\ "free" \notin Callers /\ Accessories \subseteq [dedup : BOOLEAN]
    /\ Blocks \subseteq Nat \ {0} /\ MAX_TRANSMISSIONS \in Nat \ {0}
    /\ MaxCalls \in Nat /\ MaxEvents \in Nat /\ EventQueue \in Nat

VARIABLES
    lock,     \* the session mutex: a caller, or Free
    ctl,      \* the controller's send_ctr, recv_ctr, event_ctr
    acc,      \* the accessory: its counters, its block cache, dedup or not
    call,     \* the post_secure of each caller
    next,     \* the source of message ids and tokens
    up,       \* requests sent
    down,     \* responses sent
    reader,   \* is the reader task alive?
    pushed,   \* events sent
    evq,      \* the event channel
    watch,    \* the watcher
    begun, wedged, oks   \* calls begun, a sealed call failed, calls that succeeded

vars == <<lock, ctl, acc, call, next, up, down, reader, pushed, evq, watch,
          begun, wedged, oks>>
net == <<up, down>>
events == <<pushed, evq, watch>>
history == <<begun, wedged, oks>>

-----------------------------------------------------------------------------
Free == "free"
None == -1

\* n is the counter the request is sealed with, blk the Block2 block asked
\* for, ans the request answered by the response opened last.
NoCall == [pc |-> "idle", n |-> 0, tok |-> 0, tries |-> 0, blk |-> 0, ans |-> None]

NoCache == [k |-> None, n |-> 0, size |-> 0]

Requests  == [tok : Nat, n : Nat, blk : Nat]
Responses == [tok : Nat, n : Nat \cup {None}, k : Nat \cup {None}, more : BOOLEAN]
Calls     == [pc : {"idle", "lock", "send", "wait"}, n : Nat, tok : Nat,
              tries : 0..MAX_TRANSMISSIONS, blk : Nat, ans : Nat \cup {None}]
Caches    == [k : Nat \cup {None}, n : Nat, size : Nat]
Watchers  == [pc : {"recv", "lock", "stopped"}, k : Nat, rx : Nat, calm : BOOLEAN]

\* A new CoapSession, and what sealing a request and opening a response or an
\* event make of one.  Each direction has its own key and counter.
NewSession == [send |-> 0, recv |-> 0, event |-> 0]

seal_request(s) == [s EXCEPT !.send = @ + 1]

open_response(s) == [s EXCEPT !.recv = @ + 1]

open_event(s) == [s EXCEPT !.event = @ + 1]

\* A caller has the session exactly while its request is under way.
Locked == \A c \in Callers : lock = c <=> call[c].pc \in {"send", "wait"}

TypeOK ==
    /\ lock \in Callers \cup {Free} /\ Locked
    /\ ctl \in [send : Nat, recv : Nat, event : Nat]
    /\ acc \in [recv : Nat, send : Nat, event : Nat, kind : Accessories, cache : Caches]
    /\ call \in [Callers -> Calls]
    /\ next \in Nat /\ up \subseteq Requests /\ down \subseteq Responses
    /\ reader \in BOOLEAN /\ pushed \subseteq Nat /\ evq \in Seq(Nat)
    /\ watch \in Watchers
    /\ begun \in 0..MaxCalls /\ wedged \in BOOLEAN /\ oks \in Nat
    /\ acc.recv <= ctl.send /\ ctl.recv <= acc.send /\ ctl.event <= acc.event

Init ==
    /\ lock = Free /\ ctl = NewSession
    /\ \E a \in Accessories :
          acc = [recv |-> 0, send |-> 0, event |-> 0, kind |-> a,
                 cache |-> NoCache]
    /\ call = [c \in Callers |-> NoCall] /\ next = 0
    /\ up = {} /\ down = {} /\ reader = TRUE
    /\ pushed = {} /\ evq = <<>>
    /\ watch = [pc |-> "recv", k |-> 0, rx |-> 0, calm |-> TRUE]
    /\ begun = 0 /\ wedged = FALSE /\ oks = 0

-----------------------------------------------------------------------------
(* post_secure and the exchange *)

Begin(c) ==
    /\ call[c].pc = "idle" /\ begun < MaxCalls
    /\ call' = [call EXCEPT ![c] = [NoCall EXCEPT !.pc = "lock"]]
    /\ begun' = begun + 1
    /\ UNCHANGED <<lock, ctl, acc, next, net, reader, events, wedged, oks>>

\* Plausible fault: every request of the connection has the same token.
SealSameToken(c) ==
    /\ call[c].pc = "lock" /\ lock = Free
    /\ lock' = c
    /\ ctl' = [ctl EXCEPT !.send = @ + 1]
    /\ call' = [call EXCEPT ![c] = [NoCall EXCEPT !.pc = "send", !.n = ctl.send]]
    /\ next' = next + 1
    /\ UNCHANGED <<acc, net, reader, events, history>>

\* The session is locked, the request sealed and given a fresh token.
Seal(c) ==
    /\ call[c].pc = "lock" /\ lock = Free
    /\ lock' = c
    /\ ctl' = seal_request(ctl)
    /\ call' = [call EXCEPT ![c] = [NoCall EXCEPT !.pc = "send", !.n = ctl.send,
                                                  !.tok = next]]
    /\ next' = next + 1
    /\ UNCHANGED <<acc, net, reader, events, history>>

\* The datagram of an exchange: its token, and the sealed request or the block
\* asked for.
Frame(c) == [tok |-> call[c].tok, n |-> call[c].n, blk |-> call[c].blk]

\* One transmission of the Confirmable request.
Transmit(c) ==
    /\ call[c].pc = "send"
    /\ up' = up \cup {Frame(c)}
    /\ call' = [call EXCEPT ![c].pc = "wait", ![c].tries = @ + 1]
    /\ UNCHANGED <<lock, ctl, acc, next, down, reader, events, history>>

\* A call that has sealed its request ends without opening a response.
Fail(c) ==
    /\ call' = [call EXCEPT ![c] = NoCall]
    /\ lock' = Free
    /\ wedged' = TRUE
    /\ UNCHANGED <<ctl, acc, next, net, reader, events, begun, oks>>

\* Plausible fault: an exchange retransmits for ever.
AckTimeoutForever(c) ==
    /\ call[c].pc = "wait"
    /\ call' = [call EXCEPT ![c].pc = "send", ![c].tries = 0]
    /\ UNCHANGED <<lock, ctl, acc, next, net, reader, events, history>>

\* No response within ACK_TIMEOUT: retransmit, or give up.  An empty ACK has
\* no token, so it never reaches the exchange and changes nothing here.
AckTimeout(c) ==
    /\ call[c].pc = "wait"
    /\ IF call[c].tries < MAX_TRANSMISSIONS
       THEN /\ call' = [call EXCEPT ![c].pc = "send"]
            /\ UNCHANGED <<lock, ctl, acc, next, net, reader, events, history>>
       ELSE Fail(c)

\* The socket refuses the datagram.
SendFails(c) == call[c].pc = "send" /\ Fail(c)

\* The reader hands a response to the exchange that waits for its token; one
\* nobody waits for is dropped, and so is an empty ACK, which has no token.
Routed(c, d) == reader /\ call[c].pc = "wait" /\ d.tok = call[c].tok

\* The response with the more-bit: ask for the next block under a new token.
NextBlock(c, d) ==
    /\ Routed(c, d) /\ d.k # None /\ d.more
    /\ call' = [call EXCEPT ![c].pc = "send", ![c].tok = next, ![c].tries = 0,
                            ![c].blk = @ + 1]
    /\ next' = next + 1
    /\ UNCHANGED <<lock, ctl, acc, net, reader, events, history>>

\* Plausible fault: recv_ctr skips to the counter of a later response.
OpenResync(c, d) ==
    /\ Routed(c, d) /\ d.k # None /\ ~d.more /\ d.k >= ctl.recv
    /\ ctl' = [ctl EXCEPT !.recv = d.k + 1]
    /\ call' = [call EXCEPT ![c] = [NoCall EXCEPT !.n = call[c].n, !.ans = d.n]]
    /\ lock' = Free
    /\ oks' = oks + 1
    /\ UNCHANGED <<acc, next, net, reader, events, begun, wedged>>

\* The last or only block, 2.04: the payload is opened under recv_ctr.
Open(c, d) ==
    /\ Routed(c, d) /\ d.k # None /\ ~d.more /\ d.k = ctl.recv
    /\ ctl' = open_response(ctl)
    /\ call' = [call EXCEPT ![c] = [NoCall EXCEPT !.n = call[c].n, !.ans = d.n]]
    /\ lock' = Free
    /\ oks' = oks + 1
    /\ UNCHANGED <<acc, next, net, reader, events, begun, wedged>>

\* A response that does not open, or another code than 2.04.
Refused(c, d) ==
    /\ Routed(c, d)
    /\ d.k = None \/ (~d.more /\ d.k # ctl.recv)
    /\ Fail(c)

\* The future of the call is dropped: before the lock nothing has happened.
Cancel(c) ==
    \/ /\ call[c].pc = "lock"
       /\ call' = [call EXCEPT ![c] = NoCall]
       /\ UNCHANGED <<lock, ctl, acc, next, net, reader, events, history>>
    \/ call[c].pc \in {"send", "wait"} /\ Fail(c)

-----------------------------------------------------------------------------
(* the accessory *)

\* The response goes out whole, or it is cached and its first block goes out.
SendResponse(m, k, b) ==
    /\ acc' = [acc EXCEPT !.recv = @ + 1, !.send = @ + 1,
                          !.cache = IF b > 1 THEN [k |-> k, n |-> m.n, size |-> b] ELSE @]
    /\ down' = down \cup {[tok |-> m.tok, n |-> m.n, k |-> k, more |-> b > 1]}

\* A secure request that opens is served and its response sealed.
Serve(m) ==
    /\ m.blk = 0 /\ m.n = acc.recv
    /\ \E b \in Blocks : SendResponse(m, acc.send, b)
    /\ UNCHANGED <<lock, ctl, call, next, up, reader, events, history>>

\* One that does not is 4.01 Unauthorized; an accessory that recognises the
\* message id only repeats its answer.
Reject(m) ==
    /\ m.blk = 0 /\ m.n # acc.recv
    /\ acc.kind.dedup => \A d \in down : d.tok # m.tok
    /\ down' = down \cup {[tok |-> m.tok, n |-> None, k |-> None, more |-> FALSE]}
    /\ UNCHANGED <<lock, ctl, acc, call, next, up, reader, events, history>>

\* A block of the cached response; the last one clears the cache.
ServeBlock(m) ==
    /\ m.blk > 0 /\ acc.cache.k # None
    /\ LET more == m.blk + 1 < acc.cache.size IN
       /\ acc' = IF more THEN acc ELSE [acc EXCEPT !.cache = NoCache]
       /\ down' = down \cup {[tok |-> m.tok, n |-> acc.cache.n, k |-> acc.cache.k,
                             more |-> more]}
    /\ UNCHANGED <<lock, ctl, call, next, up, reader, events, history>>

\* A datagram of the serve loop: a further block comes from the cache, anything
\* else goes to the handler.  The controller's ACKs are dropped.
Receive(m) == Serve(m) \/ Reject(m) \/ ServeBlock(m)

\* push_event: sealed on the event channel, sent once.
PushEvent ==
    /\ acc.event < MaxEvents
    /\ pushed' = pushed \cup {acc.event}
    /\ acc' = [acc EXCEPT !.event = @ + 1]
    /\ UNCHANGED <<lock, ctl, call, next, net, reader, evq, watch, history>>

-----------------------------------------------------------------------------
(* the reader *)

\* An event PUT is acknowledged and its payload queued, also a second time.
ReadEvent(k) ==
    /\ reader /\ Len(evq) < EventQueue
    /\ evq' = Append(evq, k)
    /\ watch' = [watch EXCEPT !.rx = k + 1, !.calm = watch.calm /\ k = watch.rx]
    /\ UNCHANGED <<lock, ctl, acc, call, next, net, reader, pushed, history>>

\* The socket fails and the reader returns, for good.
ReaderEnds ==
    /\ reader /\ reader' = FALSE
    /\ UNCHANGED <<lock, ctl, acc, call, next, net, events, history>>

-----------------------------------------------------------------------------
(* the watcher *)

WatchTake ==
    /\ watch.pc = "recv" /\ evq # <<>>
    /\ watch' = [watch EXCEPT !.pc = "lock", !.k = Head(evq)]
    /\ evq' = Tail(evq)
    /\ UNCHANGED <<lock, ctl, acc, call, next, net, reader, pushed, history>>

\* The channel is closed once the reader has returned and it is drained.
WatchEnds ==
    /\ watch.pc = "recv" /\ evq = <<>> /\ ~reader
    /\ watch' = [watch EXCEPT !.pc = "stopped"]
    /\ UNCHANGED <<lock, ctl, acc, call, next, net, reader, pushed, evq, history>>

\* Plausible fault: the watcher does not advance the counter.
WatchOpenForgets ==
    /\ watch.pc = "lock" /\ lock = Free
    /\ watch' = [watch EXCEPT !.pc = IF watch.k = ctl.event THEN "recv" ELSE "stopped"]
    /\ UNCHANGED <<lock, ctl, acc, call, next, net, reader, pushed, evq, history>>

\* open_event under the session lock: forwarded, or the watcher stops.
WatchOpen ==
    /\ watch.pc = "lock" /\ lock = Free
    /\ \/ /\ watch.k = ctl.event
          /\ ctl' = open_event(ctl)
          /\ watch' = [watch EXCEPT !.pc = "recv"]
       \/ /\ watch.k # ctl.event
          /\ watch' = [watch EXCEPT !.pc = "stopped"]
          /\ UNCHANGED ctl
    /\ UNCHANGED <<lock, acc, call, next, net, reader, pushed, evq, history>>

\* watch_events again: the previous watcher is aborted, and the event it was
\* about to open with it.
Rewatch ==
    /\ watch.pc # "recv"
    /\ watch' = [watch EXCEPT !.pc = "recv", !.calm = watch.calm /\ watch.pc # "lock"]
    /\ UNCHANGED <<lock, ctl, acc, call, next, net, reader, pushed, evq, history>>

-----------------------------------------------------------------------------
Quiet == begun = MaxCalls /\ lock = Free /\ UNCHANGED vars

Next ==
    \/ \E c \in Callers :
          \/ Begin(c) \/ Seal(c) \/ Transmit(c) \/ AckTimeout(c) \/ SendFails(c)
          \/ Cancel(c)
          \/ \E d \in down : NextBlock(c, d) \/ Open(c, d) \/ Refused(c, d)
    \/ \E m \in up : Receive(m)
    \/ \E k \in pushed : ReadEvent(k)
    \/ PushEvent \/ ReaderEnds \/ WatchTake \/ WatchEnds \/ WatchOpen \/ Rewatch
    \/ Quiet

Spec == Init /\ [][Next]_vars

\* Tasks are polled, timers fire, and the tokio mutex is fair.
FairSpec ==
    /\ Spec
    /\ \A c \in Callers : SF_vars(Seal(c)) /\ WF_vars(Transmit(c)) /\ WF_vars(AckTimeout(c))
    /\ WF_vars(WatchTake) /\ SF_vars(WatchOpen)

-----------------------------------------------------------------------------
(* Properties *)

\* A successful post_secure returns the response to its own request, whatever
\* late or repeated datagrams arrive: the token keeps the responses of failed
\* calls away, which recv_ctr alone would accept.
OwnResponse ==
    \A c \in Callers : call[c].ans # None => call[c].ans = call[c].n

\* A post_secure that fails or is dropped after sealing its request ends the
\* usefulness of the connection: the counters of the two sides never agree
\* again, and no later call succeeds.
FailureIsFinal == [][wedged => oks' = oks]_vars

\* Requests, cancellations and failures never cost the watcher an event: while
\* the event datagrams arrive once and in order and no watcher is replaced with
\* an event in hand, a watcher stops only because the reader has.
WatcherGoesOn == watch.calm /\ watch.pc = "stopped" => ~reader

\* post_secure returns: retransmission is bounded and the lock is released.
CallsReturn == \A c \in Callers : call[c].pc # "idle" ~> call[c].pc = "idle"

=============================================================================
