------------------------------ MODULE IpHandle ------------------------------
(***************************************************************************)
(* The self-healing IP handle: the supervisor task and the operations of   *)
(* IpHandle (crates/hap-controller/src/handle.rs) over ReconnectingSession *)
(* (reconnect.rs) and PairingReconnector (controller.rs).                  *)
(*                                                                         *)
(* Sessions are numbered in the order in which they are minted.  A session *)
(* is up, hung (half-open: no answer and no error) or dead.  Operations    *)
(* take &mut self, so there is one at a time.  The responses of a session  *)
(* are the right ones here; SecureSession looks at that.  The accessory,   *)
(* with the subscriptions it keeps per session and its config number c#,   *)
(* is external.                                                            *)
(***************************************************************************)
EXTENDS Integers, Sequences

CONSTANTS
    Chars,                         \* characteristics to subscribe to
    MaxSessions, MaxCn, MaxOps     \* bounds

ASSUME HandleAssumption ==
    MaxSessions \in Nat \ {0} /\ MaxCn \in Nat \ {0} /\ MaxOps \in Nat

VARIABLES
    sess,         \* the sessions minted so far
    cur,          \* the session in the watch channel
    sup,          \* the supervisor task
    lastcn,       \* last_cn of the supervisor; 0 is None
    refresh,      \* needs_refresh
    cache,        \* the cached accessory database
    subscribed,   \* the subscribed set of the handle
    op, ops,      \* the foreground operation; how many there were
    cn,           \* the accessory's config number
    late          \* subscriptions recorded after the snapshot for a session

supVars == <<sup, lastcn>>
vars == <<sess, cur, sup, lastcn, refresh, cache, subscribed, op, ops, cn, late>>

-----------------------------------------------------------------------------
\* subs: characteristics the accessory pushes on this session; gone: the ones
\* it declined to re-subscribe, or was told to stop pushing.
Sessions == [st : {"up", "hung", "dead"}, subs : SUBSET Chars, gone : SUBSET Chars]
NewSession == [st |-> "up", subs |-> {}, gone |-> {}]

\* "drain" receives events, "discover" and "verify" are the two halves of
\* reconnect(), "resub" re-issues the subscriptions in todo, then publishes.
SupStates == [pc : {"drain", "discover", "verify", "resub"},
              todo : SUBSET Chars, cn : Nat]

Kinds == {"fetch", "write", "sub", "unsub"}

\* "sent" is the first request, "wait" waits for a fresh session, "again" is
\* the retry, "record" has its response and has not updated the handle.
OpStates == [kind : Kinds \cup {"none"}, ch : Chars \cup {0}, on : Nat,
             pc : {"idle", "sent", "wait", "again", "record"},
             done : BOOLEAN, ver : Nat, known : BOOLEAN]

NoOp == [kind |-> "none", ch |-> 0, on |-> 0, pc |-> "idle", done |-> FALSE,
         ver |-> 0, known |-> FALSE]

\* known: a config number had been seen when this database was asked for.
NoCache == [ver |-> 0, known |-> FALSE]

TypeOK ==
    /\ sess \in Seq(Sessions) /\ Len(sess) <= MaxSessions
    /\ cur \in 1..Len(sess) /\ op \in OpStates /\ op.on \in 0..Len(sess)
    /\ sup \in SupStates /\ lastcn \in 0..MaxCn /\ cn \in 1..MaxCn
    /\ refresh \in BOOLEAN /\ cache \in [ver : 0..MaxCn, known : BOOLEAN]
    /\ subscribed \subseteq Chars /\ late \subseteq Chars /\ ops \in 0..MaxOps
    \* an operation is at a session that was published, or beyond it none
    /\ op.on <= cur
    /\ sup.pc = "resub" <=> cur < Len(sess)

Init ==
    /\ sess = <<NewSession>> /\ cur = 1
    /\ sup = [pc |-> "drain", todo |-> {}, cn |-> 0] /\ lastcn = 0
    /\ refresh = FALSE /\ cache = NoCache /\ subscribed = {}
    /\ op = NoOp /\ ops = 0 /\ cn = 1 /\ late = {}

-----------------------------------------------------------------------------
(* the supervisor task *)

Fresh == Len(sess)

\* Plausible fault: the end of the event channel is not taken for the end of
\* the session.
SessionDiedUnnoticed == sup.pc = "drain" /\ sess[cur].st = "dead" /\ UNCHANGED vars

\* The event channel of the current session closes.
SessionDied ==
    /\ sup.pc = "drain" /\ sess[cur].st = "dead"
    /\ sup' = [sup EXCEPT !.pc = "discover"]
    /\ UNCHANGED <<sess, cur, lastcn, refresh, cache, subscribed, op, ops, cn, late>>

\* reconnect(): the config number is looked up by mDNS, best effort.
Discover ==
    /\ sup.pc = "discover"
    /\ \E found \in {0, cn} : sup' = [sup EXCEPT !.pc = "verify", !.cn = found]
    /\ UNCHANGED <<sess, cur, lastcn, refresh, cache, subscribed, op, ops, cn, late>>

\* Pair Verify fails: back off and try again.
ReconnectFails ==
    /\ sup.pc = "verify"
    /\ sup' = [sup EXCEPT !.pc = "discover", !.cn = 0]
    /\ UNCHANGED <<sess, cur, lastcn, refresh, cache, subscribed, op, ops, cn, late>>

\* Plausible fault: the new number is remembered before it is compared.
NoteConfigNumberFirst(new) ==
    IF new = 0 THEN UNCHANGED <<lastcn, refresh>>
    ELSE /\ lastcn' = new
         /\ UNCHANGED refresh

\* Compare the config number with the one of the last reconnect.
NoteConfigNumber(new) ==
    IF new = 0 THEN UNCHANGED <<lastcn, refresh>>
    ELSE /\ lastcn' = new
         /\ refresh' = (refresh \/ (lastcn # 0 /\ lastcn # new))

\* Pair Verify succeeds: note the config number, snapshot the subscriptions.
Reconnected ==
    /\ sup.pc = "verify" /\ Len(sess) < MaxSessions
    /\ NoteConfigNumber(sup.cn)
    /\ sess' = Append(sess, NewSession)
    /\ sup' = [pc |-> "resub", todo |-> subscribed, cn |-> 0]
    /\ late' = late \ subscribed
    /\ UNCHANGED <<cur, cache, subscribed, op, ops, cn>>

\* The request for one subscription returns: granted, refused, or failed with
\* the session.  The result is ignored.
Resubscribe(c) ==
    /\ sup.pc = "resub" /\ c \in sup.todo
    /\ \/ sess[Fresh].st = "up" /\ sess' = [sess EXCEPT ![Fresh].subs = @ \cup {c}]
       \/ sess[Fresh].st = "up" /\ sess' = [sess EXCEPT ![Fresh].gone = @ \cup {c}]
       \/ sess[Fresh].st = "dead" /\ UNCHANGED sess
    /\ sup' = [sup EXCEPT !.todo = @ \ {c}]
    /\ UNCHANGED <<cur, lastcn, refresh, cache, subscribed, op, ops, cn, late>>

\* Plausible fault: the session is published before it has its subscriptions.
PublishEarly ==
    /\ sup.pc = "resub"
    /\ cur' = Fresh /\ sup' = [sup EXCEPT !.pc = "drain", !.todo = {}]
    /\ UNCHANGED <<sess, lastcn, refresh, cache, subscribed, op, ops, cn, late>>

\* Every subscription was tried: publish, and drain the new session.
Publish ==
    /\ sup.pc = "resub" /\ sup.todo = {}
    /\ cur' = Fresh /\ sup' = [sup EXCEPT !.pc = "drain"]
    /\ UNCHANGED <<sess, lastcn, refresh, cache, subscribed, op, ops, cn, late>>

-----------------------------------------------------------------------------
(* operations: ReconnectingSession::request and what surrounds it *)

Begin(k, c) == [NoOp EXCEPT !.kind = k, !.ch = c, !.on = cur, !.pc = "sent",
                            !.known = lastcn # 0]

\* subscribe, unsubscribe, and the reads and writes, which leave no trace in
\* the handle.
Call(k, c) ==
    /\ op.pc = "idle" /\ ops < MaxOps
    /\ op' = Begin(k, c) /\ ops' = ops + 1
    /\ UNCHANGED <<sess, cur, supVars, refresh, cache, subscribed, cn, late>>

\* accessories(): drop a cache that needs a refresh; return it if there is one.
Accessories ==
    /\ op.pc = "idle" /\ ops < MaxOps
    /\ refresh' = FALSE /\ ops' = ops + 1
    /\ IF cache.ver # 0 /\ ~refresh THEN UNCHANGED <<op, cache>>
       ELSE op' = Begin("fetch", 0) /\ cache' = NoCache
    /\ UNCHANGED <<sess, cur, supVars, subscribed, cn, late>>

InFlight == op.pc \in {"sent", "again"}

\* The accessory carries the request out; the response is on its way.
CarriedOut ==
    /\ InFlight /\ ~op.done /\ sess[op.on].st = "up"
    /\ op' = [op EXCEPT !.done = TRUE, !.ver = cn]
    /\ sess' = CASE op.kind = "sub"   -> [sess EXCEPT ![op.on].subs = @ \cup {op.ch}]
                 [] op.kind = "unsub" -> [sess EXCEPT ![op.on].subs = @ \ {op.ch},
                                                       ![op.on].gone = @ \cup {op.ch}]
                 [] OTHER             -> sess
    /\ UNCHANGED <<cur, supVars, refresh, cache, subscribed, ops, cn, late>>

\* The response is in the session's channel.
Response ==
    /\ InFlight /\ op.done /\ sess[op.on].st = "up"
    /\ op' = [op EXCEPT !.pc = "record"]
    /\ UNCHANGED <<sess, cur, supVars, refresh, cache, subscribed, ops, cn, late>>

\* The accessory answers with an error status, or the body does not decode.
Refused ==
    /\ InFlight /\ ~op.done /\ sess[op.on].st = "up"
    /\ op' = NoOp
    /\ UNCHANGED <<sess, cur, supVars, refresh, cache, subscribed, ops, cn, late>>

\* Plausible fault: the retry goes on retrying on its session.
SessionErrorLoops ==
    /\ InFlight /\ sess[op.on].st = "dead"
    /\ op' = IF op.pc = "sent" THEN [op EXCEPT !.pc = "wait"] ELSE op
    /\ UNCHANGED <<sess, cur, supVars, refresh, cache, subscribed, ops, cn, late>>

\* is_session_dead: wait for a fresh session, or, in the retry, give up.
SessionError ==
    /\ InFlight /\ sess[op.on].st = "dead"
    /\ op' = IF op.pc = "sent" THEN [op EXCEPT !.pc = "wait"] ELSE NoOp
    /\ UNCHANGED <<sess, cur, supVars, refresh, cache, subscribed, ops, cn, late>>

Again == [op EXCEPT !.pc = "again", !.on = cur, !.done = FALSE]

\* request_timeout elapses on the first try: retry if there is a new session.
RequestTimeout ==
    /\ op.pc = "sent" /\ sess[op.on].st = "hung"
    /\ op' = IF cur = op.on THEN NoOp ELSE Again
    /\ UNCHANGED <<sess, cur, supVars, refresh, cache, subscribed, ops, cn, late>>

\* wait_for_fresh_then_retry sees another session and retries on it.
Retry ==
    /\ op.pc = "wait" /\ cur # op.on
    /\ op' = Again
    /\ UNCHANGED <<sess, cur, supVars, refresh, cache, subscribed, ops, cn, late>>

\* FOREGROUND_WAIT elapses: ConnectionLost.
WaitExpires ==
    /\ op.pc = "wait" /\ cur = op.on
    /\ op' = NoOp
    /\ UNCHANGED <<sess, cur, supVars, refresh, cache, subscribed, ops, cn, late>>

\* The operation resumes with its response and updates the handle.
Record ==
    /\ op.pc = "record"
    /\ op' = NoOp
    /\ cache' = IF op.kind = "fetch" THEN [ver |-> op.ver, known |-> op.known] ELSE cache
    /\ subscribed' = CASE op.kind = "sub"   -> subscribed \cup {op.ch}
                       [] op.kind = "unsub" -> subscribed \ {op.ch}
                       [] OTHER             -> subscribed
    /\ late' = IF op.kind = "sub" /\ op.on # Fresh THEN late \cup {op.ch} ELSE late
    /\ UNCHANGED <<sess, cur, supVars, refresh, ops, cn>>

\* The caller drops the future of its operation.
Cancel ==
    /\ op.pc # "idle"
    /\ op' = NoOp
    /\ UNCHANGED <<sess, cur, supVars, refresh, cache, subscribed, ops, cn, late>>

-----------------------------------------------------------------------------
(* the network and the accessory *)

SessionFails(s) ==
    /\ sess[s].st = "up" /\ Len(sess) < MaxSessions
    /\ \E st \in {"hung", "dead"} : sess' = [sess EXCEPT ![s].st = st]
    /\ UNCHANGED <<cur, supVars, refresh, cache, subscribed, op, ops, cn, late>>

\* TCP gives up on a half-open connection.
HungDies(s) ==
    /\ sess[s].st = "hung" /\ Len(sess) < MaxSessions
    /\ sess' = [sess EXCEPT ![s].st = "dead"]
    /\ UNCHANGED <<cur, supVars, refresh, cache, subscribed, op, ops, cn, late>>

Reconfigure ==
    /\ cn < MaxCn /\ cn' = cn + 1
    /\ UNCHANGED <<sess, cur, supVars, refresh, cache, subscribed, op, ops, late>>

-----------------------------------------------------------------------------
SupStep == \/ SessionDied \/ Discover \/ ReconnectFails \/ Reconnected \/ Publish
           \/ \E c \in Chars : Resubscribe(c)

OpStep == \/ CarriedOut \/ Response \/ Refused \/ SessionError \/ RequestTimeout
          \/ Retry \/ WaitExpires \/ Record

\* The handle may be left alone.
Idle == op.pc = "idle" /\ UNCHANGED vars

Next ==
    \/ SupStep \/ OpStep \/ Accessories \/ Cancel \/ Reconfigure \/ Idle
    \/ Call("write", 0)
    \/ \E c \in Chars, k \in {"sub", "unsub"} : Call(k, c)
    \/ \E s \in 1..Len(sess) : SessionFails(s) \/ HungDies(s)

Spec == Init /\ [][Next]_vars

\* Tasks are polled, timers fire, an up session answers, and a reconnect that
\* is tried for ever succeeds at last.  A hung session may hang for ever.
FairSpec == Spec /\ WF_vars(SupStep) /\ SF_vars(Reconnected) /\ WF_vars(OpStep)

-----------------------------------------------------------------------------
(* Properties *)

\* "a foreground waiter that wakes on the new session already has its
\* subscriptions in place": what the handle believes subscribed is subscribed
\* on the published session, unless the accessory refused to renew it, was
\* told to end it, or it was recorded after the snapshot for that session.
SubscriptionsKept ==
    sess[cur].st = "up" /\ cur = Fresh =>
        subscribed \subseteq sess[cur].subs \cup sess[cur].gone \cup late

\* The handle never serves a database older than the config number of the
\* last reconnect without having asked for a refresh, once it has a config
\* number to compare with, whatever fetch and reconnect overlap.
StaleCacheIsMarked ==
    cache.known /\ cache.ver < lastcn => refresh

Hung == \E s \in 1..Len(sess) : sess[s].st = "hung"

\* Every operation returns unless a session hangs: only the first try is under
\* the request timeout, the retry on a fresh session is awaited without one.
OpsReturnUnlessHung == op.pc # "idle" ~> (op.pc = "idle" \/ Hung)

\* A dead session is replaced ("indefinite backoff") unless a session hangs:
\* the re-subscribe requests and the event drain have no timeout.
Reconnects == sess[cur].st = "dead" ~> (sess[cur].st = "up" \/ Hung)

=============================================================================
