------------------------ MODULE CoapConnectionProofs ------------------------
(***************************************************************************)
(* Proofs about CoapConnection, for any callers, block counts and bounds,  *)
(* and a network that loses, repeats and reorders datagrams.               *)
(*                                                                         *)
(* The accessory moves its two counters together, so a response sealed     *)
(* with counter k answers the request sealed with k.  The request under    *)
(* way is the last one sealed; once its first block has come the accessory *)
(* has no request left that would open, so its block cache cannot be taken *)
(* over before the last block is fetched.                                  *)
(***************************************************************************)
EXTENDS CoapConnection, TLAPS

Active(c) == call[c].pc \in {"send", "wait"}

\* What TypeOK needs besides to be preserved.
Places ==
    /\ \A c \in Callers : call[c].pc = "send" => call[c].tries < MAX_TRANSMISSIONS
    /\ \A k \in pushed : k < acc.event
    /\ \A i \in 1..Len(evq) : evq[i] < acc.event
    /\ watch.pc = "lock" => watch.k < acc.event

Counters ==
    /\ acc.recv = acc.send
    /\ acc.cache.k # None => acc.cache.n = acc.cache.k /\ acc.cache.k < acc.recv

\* What is in the network was sent with tokens and counters used before.
Network ==
    /\ \A m \in up : m.tok < next /\ m.n < ctl.send
    /\ \A d \in down :
          /\ d.tok < next
          /\ d.k # None => d.n = d.k /\ d.k < acc.recv
          /\ d.k # None /\ d.more /\ acc.cache.k # None => acc.cache.k >= d.k

\* The request under way, and what the network holds for it.
Current(c) ==
    /\ call[c].tok < next /\ call[c].n + 1 = ctl.send
    /\ \A m \in up : m.tok = call[c].tok => m.n = call[c].n /\ m.blk = call[c].blk
    /\ \A d \in down : d.tok = call[c].tok /\ d.k # None => d.k = call[c].n
    /\ call[c].blk > 0 =>
          acc.recv = ctl.send /\ (acc.cache.k # None => acc.cache.k = call[c].n)

\* A failed call leaves recv_ctr behind for good.
Behind ==
    /\ lock # Free => ctl.recv < ctl.send
    /\ wedged => ctl.recv + (IF lock = Free THEN 0 ELSE 1) < ctl.send

CoapInv ==
    /\ TypeOK /\ Places /\ Counters /\ Network
    /\ \A c \in Callers : Active(c) => Current(c)
    /\ Behind /\ OwnResponse

\* A new session: nothing sent, all counters zero.
LEMMA InitCoap == Init => CoapInv
<1> SUFFICES ASSUME Init PROVE CoapInv
  BY Zenon
<1>1. NoCall \in Calls /\ NoCall.pc = "idle" /\ NoCall.ans = None
  BY CoapAssumption DEF NoCall, Calls, None
<1>2. NoCache \in Caches /\ NoCache.k = None BY Zenon DEF NoCache, Caches, None
<1>3. watch \in Watchers BY Zenon DEF Init, Watchers
<1>4. acc \in [recv : Nat, send : Nat, event : Nat, kind : Accessories, cache : Caches]
  BY <1>2 DEF Init
<1>5. reader \in BOOLEAN /\ wedged \in BOOLEAN
  <2>1. reader = TRUE /\ wedged = FALSE BY Zenon DEF Init
  <2> QED BY <2>1, Zenon
<1>6. lock \in Callers \cup {Free} /\ Locked /\ call \in [Callers -> Calls]
  BY CoapAssumption, <1>1, Zenon DEF Init, Locked, Free
<1>7. /\ ctl \in [send : Nat, recv : Nat, event : Nat] /\ begun \in 0..MaxCalls
       /\ next \in Nat /\ up \subseteq Requests /\ down \subseteq Responses
       /\ pushed \subseteq Nat /\ evq \in Seq(Nat) /\ oks \in Nat
       /\ acc.recv <= ctl.send /\ ctl.recv <= acc.send /\ ctl.event <= acc.event
  BY CoapAssumption DEF Init, NewSession
<1>8. TypeOK BY <1>3, <1>4, <1>5, <1>6, <1>7, Zenon DEF TypeOK
<1>9. Places /\ Counters /\ Network /\ Behind BY <1>1, <1>2
  DEF Init, NewSession, Places, Counters, Network, Behind, Free
<1>10. OwnResponse /\ \A c \in Callers : ~Active(c) BY <1>1, Zenon DEF Init, OwnResponse, Active
<1> QED BY <1>8, <1>9, <1>10, Zenon DEF CoapInv

\* The watcher, the event channel and the end of the reader touch neither the
\* counters of requests nor the calls.
LEMMA SameExchange ==
    ASSUME CoapInv, TypeOK', Places', UNCHANGED <<lock, call, next, up, down, wedged>>,
           ctl'.send = ctl.send, ctl'.recv = ctl.recv,
           acc'.recv = acc.recv, acc'.send = acc.send, acc'.cache = acc.cache
    PROVE  CoapInv'
<1>1. Counters' /\ Network' /\ Behind' /\ OwnResponse'
  BY Zenon DEF CoapInv, Counters, Network, Behind, OwnResponse
<1>2. ASSUME NEW c \in Callers, Active(c)' PROVE Current(c)'
  BY <1>2, Zenon DEF CoapInv, Active, Current
<1> QED BY <1>1, <1>2, Zenon DEF CoapInv

\* Updates of the watcher's record, one field of which is Boolean.
LEMMA WatcherTypes ==
    ASSUME NEW w \in Watchers, NEW k \in Nat, NEW b \in BOOLEAN
    PROVE  /\ [w EXCEPT !.rx = k, !.calm = b] \in Watchers
           /\ [w EXCEPT !.pc = "lock", !.k = k] \in Watchers
           /\ [w EXCEPT !.pc = "recv", !.calm = b] \in Watchers
<1>1. [w EXCEPT !.rx = k, !.calm = b] \in Watchers BY Zenon DEF Watchers
<1>2. [w EXCEPT !.pc = "lock", !.k = k] \in Watchers BY Zenon DEF Watchers
<1>3. [w EXCEPT !.pc = "recv", !.calm = b] \in Watchers BY Zenon DEF Watchers
<1> QED BY <1>1, <1>2, <1>3, Zenon

\* Fields of the updated record.
LEMMA WatcherFields ==
    ASSUME NEW w \in Watchers, NEW k \in Nat, NEW b \in BOOLEAN
    PROVE  /\ [w EXCEPT !.rx = k, !.calm = b].pc = w.pc
           /\ [w EXCEPT !.rx = k, !.calm = b].k = w.k
           /\ [w EXCEPT !.pc = "lock", !.k = k].k = k
           /\ [w EXCEPT !.pc = "recv", !.calm = b].pc = "recv"
  BY Zenon DEF Watchers

\* Events do not disturb the exchange of requests.
LEMMA EventsCoap ==
    ASSUME CoapInv,
           \/ \E k \in pushed : ReadEvent(k)
           \/ PushEvent \/ ReaderEnds \/ WatchTake \/ WatchEnds \/ WatchOpen \/ Rewatch
           \/ Quiet
    PROVE  CoapInv'
<1> USE DEF net, events, history
<1>0. TypeOK /\ Places BY Zenon DEF CoapInv
<1>a. /\ watch \in Watchers /\ evq \in Seq(Nat) /\ pushed \subseteq Nat
      /\ acc.event \in Nat /\ ctl.event \in Nat /\ ctl.event <= acc.event
  BY <1>0, Zenon DEF TypeOK
<1>b. /\ \A k \in pushed : k < acc.event
      /\ \A i \in 1..Len(evq) : evq[i] < acc.event
      /\ watch.pc = "lock" => watch.k < acc.event
  BY <1>0, Zenon DEF Places
<1>1. ASSUME NEW k \in pushed, ReadEvent(k) PROVE CoapInv'
  <2>1. k \in Nat /\ k + 1 \in Nat /\ k < acc.event BY <1>a, <1>b
  <2> DEFINE calm == watch.calm /\ k = watch.rx
  <2>2. /\ evq' = Append(evq, k)
        /\ watch' = [watch EXCEPT !.rx = k + 1, !.calm = calm]
        /\ UNCHANGED <<lock, ctl, acc, call, next, up, down, reader, pushed, begun, wedged, oks>>
    BY <1>1, Zenon DEF ReadEvent
  <2>3. calm \in BOOLEAN BY Zenon
  <2> HIDE DEF calm
  <2>4. watch' \in Watchers /\ watch'.pc = watch.pc /\ watch'.k = watch.k
    <3>1. watch \in Watchers /\ k + 1 \in Nat BY <1>a, <2>1, Zenon
    <3>2. watch' = [watch EXCEPT !.rx = k + 1, !.calm = calm] BY <2>2, Zenon
    <3>3. [watch EXCEPT !.rx = k + 1, !.calm = calm] \in Watchers
      BY <2>3, <3>1, WatcherTypes, Zenon
    <3>4. /\ [watch EXCEPT !.rx = k + 1, !.calm = calm].pc = watch.pc
          /\ [watch EXCEPT !.rx = k + 1, !.calm = calm].k = watch.k
      BY <3>1, Zenon DEF Watchers
    <3> QED BY <3>2, <3>3, <3>4, Zenon
  <2>5. evq' \in Seq(Nat) /\ \A i \in 1..Len(evq') : evq'[i] < acc.event
    BY <1>a, <1>b, <2>1, <2>2
  <2>6. TypeOK' BY <1>0, <2>2, <2>4, <2>5, SMTT(30) DEF TypeOK, Locked
  <2>7. Places' BY <1>0, <2>2, <2>4, <2>5, Zenon DEF Places
  <2> QED BY <2>2, <2>6, <2>7, SameExchange, Zenon
<1>2. CASE PushEvent
  <2>1. /\ pushed' = pushed \cup {acc.event} /\ acc' = [acc EXCEPT !.event = @ + 1]
        /\ UNCHANGED <<lock, ctl, call, next, up, down, reader, evq, watch, begun, wedged, oks>>
    BY <1>2, Zenon DEF PushEvent
  <2>2. acc \in [recv : Nat, send : Nat, event : Nat, kind : Accessories, cache : Caches]
    BY <1>0, Zenon DEF TypeOK
  <2>3. /\ acc' \in [recv : Nat, send : Nat, event : Nat, kind : Accessories, cache : Caches]
        /\ acc'.event = acc.event + 1 /\ acc'.recv = acc.recv /\ acc'.send = acc.send
        /\ acc'.cache = acc.cache
    BY <2>1, <2>2
  <2>4. TypeOK' BY <1>0, <1>a, <2>1, <2>3, SMTT(30) DEF TypeOK, Locked
  <2>5. watch.k \in Nat /\ \A i \in 1..Len(evq) : evq[i] \in Nat BY <1>a DEF Watchers
  <2>6. Places' BY <1>0, <1>a, <2>1, <2>3, <2>5, SMTT(30) DEF Places
  <2> QED BY <2>1, <2>3, <2>4, <2>6, SameExchange, Zenon
<1>3. CASE ReaderEnds
  <2>0. reader' \in BOOLEAN
    <3>1. reader' = FALSE BY <1>3, Zenon DEF ReaderEnds
    <3> QED BY <3>1, Zenon
  <2>1. UNCHANGED <<lock, ctl, acc, call, next, up, down, pushed, evq, watch, begun, wedged, oks>>
    BY <1>3, Zenon DEF ReaderEnds
  <2>2. TypeOK' BY <1>0, <2>0, <2>1, Zenon DEF TypeOK, Locked
  <2>3. Places' BY <1>0, <2>1, Zenon DEF Places
  <2> QED BY <2>1, <2>2, <2>3, SameExchange, Zenon
<1>4. CASE WatchTake
  <2>1. /\ evq # <<>> /\ watch' = [watch EXCEPT !.pc = "lock", !.k = Head(evq)]
        /\ evq' = Tail(evq)
        /\ UNCHANGED <<lock, ctl, acc, call, next, up, down, reader, pushed, begun, wedged, oks>>
    BY <1>4, Zenon DEF WatchTake
  <2>2. /\ Head(evq) \in Nat /\ Head(evq) < acc.event /\ evq' \in Seq(Nat)
        /\ \A i \in 1..Len(evq') : evq'[i] < acc.event
    BY <1>a, <1>b, <2>1, SMTT(30)
  <2>3. watch' \in Watchers /\ watch'.k = Head(evq)
    BY <1>a, <2>1, <2>2, WatcherTypes, WatcherFields, Zenon
  <2>4. TypeOK' BY <1>0, <2>1, <2>2, <2>3, Zenon DEF TypeOK, Locked
  <2>5. Places' BY <1>0, <2>1, <2>2, <2>3, Zenon DEF Places
  <2> QED BY <2>1, <2>4, <2>5, SameExchange, Zenon
<1>5. CASE WatchEnds
  <2>1. watch' \in Watchers /\ watch'.pc = "stopped"
    BY <1>a, <1>5, Zenon DEF WatchEnds, Watchers
  <2>2. UNCHANGED <<lock, ctl, acc, call, next, up, down, reader, pushed, evq, begun, wedged, oks>>
    BY <1>5, Zenon DEF WatchEnds
  <2>3. TypeOK' BY <1>0, <2>1, <2>2, Zenon DEF TypeOK, Locked
  <2>4. Places' BY <1>0, <2>1, <2>2, Zenon DEF Places
  <2> QED BY <2>2, <2>3, <2>4, SameExchange, Zenon
<1>6. CASE WatchOpen
  <2>1. UNCHANGED <<lock, acc, call, next, up, down, reader, pushed, evq, begun, wedged, oks>>
    BY <1>6, Zenon DEF WatchOpen
  <2>2. ctl \in [send : Nat, recv : Nat, event : Nat] BY <1>0, Zenon DEF TypeOK
  <2>3. CASE watch.k = ctl.event
    <3>1. /\ ctl' = [ctl EXCEPT !.event = @ + 1] /\ watch' = [watch EXCEPT !.pc = "recv"]
          /\ watch.pc = "lock"
      BY <1>6, <2>3, Zenon DEF WatchOpen, open_event
    <3>2. /\ ctl' \in [send : Nat, recv : Nat, event : Nat] /\ ctl'.event = ctl.event + 1
          /\ ctl'.send = ctl.send /\ ctl'.recv = ctl.recv
      BY <2>2, <3>1
    <3>3. watch' \in Watchers /\ watch'.pc = "recv" BY <1>a, <3>1, Zenon DEF Watchers
    <3>4. TypeOK' BY <1>0, <1>a, <1>b, <2>1, <2>3, <3>1, <3>2, <3>3, SMTT(30) DEF TypeOK, Locked
    <3>5. Places' BY <1>0, <2>1, <3>3, Zenon DEF Places
    <3> QED BY <2>1, <3>2, <3>4, <3>5, SameExchange, Zenon
  <2>4. CASE watch.k # ctl.event
    <3>1. ctl' = ctl /\ watch' = [watch EXCEPT !.pc = "stopped"] BY <1>6, <2>4, Zenon DEF WatchOpen
    <3>2. watch' \in Watchers /\ watch'.pc = "stopped" BY <1>a, <3>1, Zenon DEF Watchers
    <3>3. TypeOK' BY <1>0, <2>1, <3>1, <3>2, Zenon DEF TypeOK, Locked
    <3>4. Places' BY <1>0, <2>1, <3>2, Zenon DEF Places
    <3> QED BY <2>1, <3>1, <3>3, <3>4, SameExchange, Zenon
  <2> QED BY <2>3, <2>4, Zenon
<1>7. CASE Rewatch
  <2> DEFINE calm == watch.calm /\ watch.pc # "lock"
  <2>1. /\ watch' = [watch EXCEPT !.pc = "recv", !.calm = calm]
        /\ UNCHANGED <<lock, ctl, acc, call, next, up, down, reader, pushed, evq, begun, wedged, oks>>
    BY <1>7, Zenon DEF Rewatch
  <2>2. calm \in BOOLEAN BY Zenon
  <2> HIDE DEF calm
  <2>3. watch' \in Watchers /\ watch'.pc = "recv"
    BY <1>a, <2>1, <2>2, WatcherTypes, WatcherFields, Zenon
  <2>4. TypeOK' BY <1>0, <2>1, <2>3, Zenon DEF TypeOK, Locked
  <2>5. Places' BY <1>0, <2>1, <2>3, Zenon DEF Places
  <2> QED BY <2>1, <2>4, <2>5, SameExchange, Zenon
<1>8. CASE Quiet
  <2>1. TypeOK' /\ Places' BY <1>0, <1>8, Zenon DEF Quiet, vars, TypeOK, Locked, Places
  <2> QED BY <1>8, <2>1, SameExchange, Zenon DEF Quiet, vars
<1> QED BY <1>1, <1>2, <1>3, <1>4, <1>5, <1>6, <1>7, <1>8, Zenon

\* At most one call is under way: it has the session lock.
LEMMA OneActive ==
    ASSUME CoapInv, NEW c \in Callers, Active(c)
    PROVE  /\ lock = c /\ lock # Free /\ Current(c)
           /\ \A e \in Callers : Active(e) => e = c
  BY CoapAssumption, Zenon DEF CoapInv, TypeOK, Locked, Active, Free

\* A step of one call leaves the others alone.
LEMMA CallStep ==
    ASSUME TypeOK, NEW c \in Callers, NEW r \in Calls, call' = [call EXCEPT ![c] = r]
    PROVE  /\ call' \in [Callers -> Calls] /\ call'[c] = r
           /\ \A e \in Callers : e # c => call'[e] = call[e]
  BY Zenon DEF TypeOK

\* Updates of the record of a call.
LEMMA CallTypes ==
    ASSUME NEW r \in Calls, NEW n \in 0..MAX_TRANSMISSIONS, NEW t \in Nat, NEW b \in Nat
    PROVE  /\ [r EXCEPT !.pc = "wait", !.tries = n] \in Calls
           /\ [r EXCEPT !.pc = "send"] \in Calls
           /\ [r EXCEPT !.pc = "send", !.tok = t, !.tries = n, !.blk = b] \in Calls
<1>1. [r EXCEPT !.pc = "wait", !.tries = n] \in Calls BY Zenon DEF Calls
<1>2. [r EXCEPT !.pc = "send"] \in Calls BY Zenon DEF Calls
<1>3. [r EXCEPT !.pc = "send", !.tok = t, !.tries = n, !.blk = b] \in Calls BY Zenon DEF Calls
<1> QED BY <1>1, <1>2, <1>3, Zenon

\* The records a call starts and ends with.
LEMMA NoCallTypes ==
    ASSUME NEW n \in Nat, NEW t \in Nat
    PROVE  /\ NoCall \in Calls
           /\ [NoCall EXCEPT !.pc = "lock"] \in Calls
           /\ [NoCall EXCEPT !.pc = "send", !.n = n, !.tok = t] \in Calls
           /\ [NoCall EXCEPT !.n = n, !.ans = n] \in Calls
<1>1. 0 \in 0..MAX_TRANSMISSIONS BY CoapAssumption
<1>2. NoCall \in Calls BY <1>1, Zenon DEF NoCall, Calls
<1>3. [NoCall EXCEPT !.pc = "lock"] \in Calls BY <1>2, Zenon DEF Calls
<1>4. [NoCall EXCEPT !.pc = "send", !.n = n, !.tok = t] \in Calls BY <1>2, Zenon DEF Calls
<1>5. [NoCall EXCEPT !.n = n, !.ans = n] \in Calls BY <1>2, Zenon DEF Calls
<1> QED BY <1>2, <1>3, <1>4, <1>5, Zenon

\* A call that fails after sealing.
LEMMA FailCoap ==
    ASSUME CoapInv, NEW c \in Callers, Active(c), Fail(c)
    PROVE  CoapInv'
<1>1. lock = c /\ lock # Free /\ \A e \in Callers : Active(e) => e = c BY OneActive, Zenon
<1>2. NoCall \in Calls /\ NoCall.pc = "idle" /\ NoCall.ans = None
  BY CoapAssumption DEF NoCall, Calls, None
<1>3. /\ call' = [call EXCEPT ![c] = NoCall] /\ lock' = Free
      /\ UNCHANGED <<ctl, acc, next, up, down, reader, pushed, evq, watch, begun, oks>>
  BY Zenon DEF Fail, net, events
<1>4. /\ call' \in [Callers -> Calls] /\ call'[c] = NoCall
      /\ \A e \in Callers : e # c => call'[e] = call[e]
  BY <1>2, <1>3, CallStep, Zenon DEF CoapInv
<1>5. \A e \in Callers : ~Active(e)' BY <1>1, <1>2, <1>4, Zenon DEF Active
<1>6. TypeOK'
  <2>1. wedged' \in BOOLEAN
    <3>1. wedged' = TRUE BY Zenon DEF Fail
    <3> QED BY <3>1, Zenon
  <2>2. Locked' BY CoapAssumption, <1>3, <1>5, Zenon DEF Locked, Active, Free
  <2> QED BY <1>3, <1>4, <2>1, <2>2, Zenon DEF CoapInv, TypeOK
<1>7. Places' /\ Counters' /\ Network'
  BY <1>2, <1>3, <1>4, Zenon DEF CoapInv, Places, Counters, Network
<1>8. Behind'
  <2>1. ctl.recv \in Nat /\ ctl.send \in Nat BY Zenon DEF CoapInv, TypeOK
  <2>2. ctl.recv < ctl.send BY <1>1, Zenon DEF CoapInv, Behind
  <2> QED BY <1>3, <2>1, <2>2 DEF Behind
<1>9. OwnResponse' BY <1>2, <1>4, Zenon DEF CoapInv, OwnResponse
<1> QED BY <1>5, <1>6, <1>7, <1>8, <1>9, Zenon DEF CoapInv

\* A call begins, or is dropped before it has the session.
LEMMA WaitingCoap ==
    ASSUME CoapInv, NEW c \in Callers, ~Active(c), NEW r \in Calls,
           r.pc \in {"idle", "lock"}, r.ans = None, call' = [call EXCEPT ![c] = r],
           begun' \in 0..MaxCalls,
           UNCHANGED <<lock, ctl, acc, next, up, down, reader, pushed, evq, watch, wedged, oks>>
    PROVE  CoapInv'
<1>1. /\ call' \in [Callers -> Calls] /\ call'[c] = r
      /\ \A e \in Callers : e # c => call'[e] = call[e]
  BY CallStep, Zenon DEF CoapInv
<1>2. \A e \in Callers : Active(e)' => e # c /\ Active(e) BY <1>1, Zenon DEF Active
<1>3. Locked'
  <2>1. Locked BY Zenon DEF CoapInv, TypeOK
  <2> QED BY <1>1, <2>1, Zenon DEF Locked, Active
<1>4. TypeOK' BY <1>1, <1>3, Zenon DEF CoapInv, TypeOK
<1>5. Places' /\ Counters' /\ Network' /\ Behind'
  BY <1>1, Zenon DEF CoapInv, Places, Counters, Network, Behind
<1>6. ASSUME NEW e \in Callers, Active(e)' PROVE Current(e)'
  BY <1>1, <1>2, <1>6, Zenon DEF CoapInv, Current
<1>7. OwnResponse' BY <1>1, SMTT(30) DEF CoapInv, OwnResponse
<1> QED BY <1>4, <1>5, <1>6, <1>7, Zenon DEF CoapInv

\* A call whose request is under way goes on with it.
LEMMA ExchangeCoap ==
    ASSUME CoapInv, NEW c \in Callers, Active(c), NEW r \in Calls,
           r.pc \in {"send", "wait"}, r.ans = call[c].ans, r.n = call[c].n,
           r.pc = "send" => r.tries < MAX_TRANSMISSIONS,
           call' = [call EXCEPT ![c] = r],
           next' \in Nat, next' >= next, up' \subseteq Requests,
           \A m \in up' : m \in up \/ m = Frame(c),
           UNCHANGED <<lock, ctl, acc, down, reader, pushed, evq, watch, begun, wedged, oks>>,
           Current(c)'
    PROVE  CoapInv'
<1>1. /\ call' \in [Callers -> Calls] /\ call'[c] = r
      /\ \A e \in Callers : e # c => call'[e] = call[e]
  BY CallStep, Zenon DEF CoapInv
<1>2. /\ lock = c /\ Current(c) /\ \A e \in Callers : Active(e) => e = c
  BY OneActive, Zenon
<1>3. \A e \in Callers : Active(e)' => e = c BY <1>1, <1>2, Zenon DEF Active
<1>4. Locked'
  <2>1. Locked BY Zenon DEF CoapInv, TypeOK
  <2> QED BY <1>1, <1>2, <2>1, Zenon DEF Locked
<1>5. TypeOK' BY <1>1, <1>4, Zenon DEF CoapInv, TypeOK
<1>6. Places' /\ Counters' /\ Behind'
  BY <1>1, Zenon DEF CoapInv, Places, Counters, Behind
<1>7. Network'
  <2>1. /\ next \in Nat /\ up \subseteq Requests /\ down \subseteq Responses
        /\ call[c] \in Calls /\ ctl.send \in Nat
    BY Zenon DEF CoapInv, TypeOK
  <2>2. call[c].tok \in Nat /\ call[c].n \in Nat BY <2>1, Zenon DEF Calls
  <2>3. Frame(c).tok < next /\ Frame(c).n < ctl.send BY <1>2, <2>1, <2>2 DEF Current, Frame
  <2>4. \A m \in up' : m.tok < next' /\ m.n < ctl.send
    BY <2>1, <2>2, <2>3 DEF CoapInv, Network, Requests, Frame
  <2>5. \A d \in down : d.tok < next' BY <2>1 DEF CoapInv, Network, Responses
  <2> QED BY <2>4, <2>5, SMTT(30) DEF CoapInv, Network
<1>8. OwnResponse' BY <1>1, Zenon DEF CoapInv, OwnResponse
<1> QED BY <1>3, <1>5, <1>6, <1>7, <1>8, Zenon DEF CoapInv

\* The session is locked and the request sealed.
LEMMA SealCoap ==
    ASSUME CoapInv, NEW c \in Callers, Seal(c)
    PROVE  CoapInv'
<1> DEFINE r == [NoCall EXCEPT !.pc = "send", !.n = ctl.send, !.tok = next]
<1>1. /\ ctl \in [send : Nat, recv : Nat, event : Nat] /\ next \in Nat /\ acc.recv \in Nat
      /\ acc.recv <= ctl.send /\ ctl.recv <= acc.send /\ lock = Free /\ Locked
      /\ up \subseteq Requests /\ down \subseteq Responses
  BY Zenon DEF Seal, CoapInv, TypeOK
<1>2. /\ r \in Calls /\ r.pc = "send" /\ r.ans = None /\ r.n = ctl.send /\ r.tok = next
      /\ r.blk = 0 /\ r.tries = 0
  <2>1. ctl.send \in Nat /\ next \in Nat BY <1>1, Zenon
  <2>2. r \in Calls BY <2>1, NoCallTypes, Zenon
  <2> QED BY <2>2, Zenon DEF NoCall
<1>3. /\ call' = [call EXCEPT ![c] = r] /\ lock' = c /\ next' = next + 1
      /\ ctl' = [ctl EXCEPT !.send = @ + 1]
      /\ UNCHANGED <<acc, up, down, reader, pushed, evq, watch, begun, wedged, oks>>
  BY Zenon DEF Seal, seal_request, net, events, history
<1> HIDE DEF r
<1>4. /\ call' \in [Callers -> Calls] /\ call'[c] = r
      /\ \A e \in Callers : e # c => call'[e] = call[e]
  BY <1>2, <1>3, CallStep, Zenon DEF CoapInv
<1>5. /\ ctl' \in [send : Nat, recv : Nat, event : Nat] /\ ctl'.send = ctl.send + 1
      /\ ctl'.recv = ctl.recv /\ ctl'.event = ctl.event
  BY <1>1, <1>3
<1>6. \A e \in Callers : Active(e)' => e = c
  BY CoapAssumption, <1>1, <1>4, Zenon DEF Active, Locked, Free
<1>7. TypeOK'
  <2>1. Locked' BY CoapAssumption, <1>1, <1>2, <1>3, <1>4 DEF Locked, Free
  <2> QED BY <1>1, <1>3, <1>4, <1>5, <2>1, SMTT(30) DEF CoapInv, TypeOK
<1>8. Places' /\ Counters'
  <2>1. 0 < MAX_TRANSMISSIONS BY CoapAssumption
  <2> QED BY <1>2, <1>3, <1>4, <2>1, Zenon DEF CoapInv, Places, Counters
<1>9. Network'
  <2>1. \A m \in up : m.tok < next' /\ m.n < ctl'.send
    BY <1>1, <1>3, <1>5 DEF CoapInv, Network, Requests
  <2>2. \A d \in down : d.tok < next' BY <1>1, <1>3 DEF CoapInv, Network, Responses
  <2> QED BY <1>3, <2>1, <2>2, Zenon DEF CoapInv, Network
<1>10. Current(c)'
  <2>1. \A m \in up : m.tok # next BY <1>1 DEF CoapInv, Network, Requests
  <2>2. \A d \in down : d.tok # next BY <1>1 DEF CoapInv, Network, Responses
  <2> QED BY <1>1, <1>2, <1>3, <1>4, <1>5, <2>1, <2>2 DEF Current
<1>11. Behind'
  <2>1. lock' # Free BY CoapAssumption, <1>3, Zenon DEF Free
  <2>2. ctl.recv <= ctl.send /\ ctl.recv \in Nat /\ ctl.send \in Nat
    BY <1>1 DEF CoapInv, Counters
  <2>3. wedged => ctl.recv < ctl.send BY <1>1, <2>2 DEF CoapInv, Behind
  <2> QED BY <1>3, <1>5, <2>1, <2>2, <2>3 DEF Behind
<1>12. OwnResponse' BY <1>2, <1>4, Zenon DEF CoapInv, OwnResponse
<1> QED BY <1>6, <1>7, <1>8, <1>9, <1>10, <1>11, <1>12, Zenon DEF CoapInv

\* The response is opened: it answers the request under way.
LEMMA OpenCoap ==
    ASSUME CoapInv, NEW c \in Callers, NEW d \in down, Open(c, d)
    PROVE  CoapInv' /\ ~wedged
<1>1. Active(c) /\ d.tok = call[c].tok /\ d.k # None /\ d.k = ctl.recv
  BY Zenon DEF Open, Routed, Active
<1>2. /\ lock = c /\ lock # Free /\ Current(c) /\ \A e \in Callers : Active(e) => e = c
  BY <1>1, OneActive, Zenon
<1>3. d.n = call[c].n /\ d.k = call[c].n /\ d.k < acc.recv
  BY <1>1, <1>2, SMTT(30) DEF Current, CoapInv, Network
<1>4. /\ ctl \in [send : Nat, recv : Nat, event : Nat] /\ acc.recv = acc.send
      /\ call[c].n \in Nat /\ acc.recv \in Nat /\ oks \in Nat
  BY Zenon DEF CoapInv, TypeOK, Counters, Calls
<1>5. ctl.recv + 1 = ctl.send BY <1>1, <1>2, <1>3, Zenon DEF Current
<1>6. ~wedged BY <1>2, <1>4, <1>5 DEF CoapInv, Behind
<1> DEFINE r == [NoCall EXCEPT !.n = call[c].n, !.ans = d.n]
<1>7. r \in Calls /\ r.pc = "idle" /\ r.n = call[c].n /\ r.ans = call[c].n
  <2>1. r = [NoCall EXCEPT !.n = call[c].n, !.ans = call[c].n] BY <1>3, Zenon
  <2>2. r \in Calls BY <1>4, <2>1, NoCallTypes, Zenon
  <2> QED BY <2>1, <2>2, Zenon DEF NoCall
<1>8. /\ call' = [call EXCEPT ![c] = r] /\ lock' = Free /\ oks' = oks + 1
      /\ ctl' = [ctl EXCEPT !.recv = @ + 1]
      /\ UNCHANGED <<acc, next, up, down, reader, pushed, evq, watch, begun, wedged>>
  BY Zenon DEF Open, open_response, net, events
<1> HIDE DEF r
<1>9. /\ call' \in [Callers -> Calls] /\ call'[c] = r
      /\ \A e \in Callers : e # c => call'[e] = call[e]
  BY <1>7, <1>8, CallStep, Zenon DEF CoapInv
<1>10. /\ ctl' \in [send : Nat, recv : Nat, event : Nat] /\ ctl'.recv = ctl.recv + 1
       /\ ctl'.send = ctl.send /\ ctl'.event = ctl.event
  BY <1>4, <1>8
<1>11. \A e \in Callers : ~Active(e)' BY <1>2, <1>7, <1>9, Zenon DEF Active
<1>12. TypeOK'
  <2>1. Locked' BY CoapAssumption, <1>8, <1>11, Zenon DEF Locked, Active, Free
  <2>2. oks' \in Nat /\ ctl'.recv <= acc.send BY <1>1, <1>3, <1>4, <1>8, <1>10
  <2> QED BY <1>8, <1>9, <1>10, <2>1, <2>2, SMTT(30) DEF CoapInv, TypeOK
<1>13. Places' /\ Counters' /\ Network'
  BY <1>7, <1>8, <1>9, <1>10, Zenon DEF CoapInv, Places, Counters, Network
<1>14. Behind' BY <1>6, <1>8, Zenon DEF Behind
<1>15. OwnResponse' BY <1>7, <1>9, Zenon DEF CoapInv, OwnResponse
<1> QED BY <1>6, <1>11, <1>12, <1>13, <1>14, <1>15, Zenon DEF CoapInv

\* Every step of post_secure, its cancellation included.
LEMMA CallCoap ==
    ASSUME CoapInv, NEW c \in Callers,
           \/ Begin(c) \/ Seal(c) \/ Transmit(c) \/ AckTimeout(c) \/ SendFails(c) \/ Cancel(c)
           \/ \E d \in down : NextBlock(c, d) \/ Open(c, d) \/ Refused(c, d)
    PROVE  CoapInv'
<1> USE DEF net, events, history
<1>a. /\ call[c] \in Calls /\ next \in Nat /\ begun \in 0..MaxCalls
      /\ up \subseteq Requests /\ down \subseteq Responses
  BY Zenon DEF CoapInv, TypeOK
<1>b. /\ call[c].tok \in Nat /\ call[c].n \in Nat /\ call[c].blk \in Nat
      /\ call[c].tries \in 0..MAX_TRANSMISSIONS
  BY <1>a, SMTT(60) DEF Calls
<1>1. CASE Begin(c)
  <2> DEFINE r == [NoCall EXCEPT !.pc = "lock"]
  <2>1. r \in Calls BY <1>b, NoCallTypes, Zenon
  <2>2. r.pc = "lock" /\ r.ans = None BY Zenon DEF NoCall
  <2>3. /\ call' = [call EXCEPT ![c] = r] /\ ~Active(c) /\ begun < MaxCalls
        /\ begun' = begun + 1
        /\ UNCHANGED <<lock, ctl, acc, next, up, down, reader, pushed, evq, watch, wedged, oks>>
    BY <1>1, Zenon DEF Begin, Active
  <2>4. begun' \in 0..MaxCalls BY CoapAssumption, <1>a, <2>3
  <2> HIDE DEF r
  <2> QED BY <2>1, <2>2, <2>3, <2>4, WaitingCoap, Zenon
<1>2. CASE Seal(c) BY <1>2, SealCoap, Zenon
<1>3. CASE Transmit(c)
  <2> DEFINE r == [call[c] EXCEPT !.pc = "wait", !.tries = call[c].tries + 1]
  <2>1. call[c].pc = "send" /\ Active(c) BY <1>3, Zenon DEF Transmit, Active
  <2>2. call[c].tries < MAX_TRANSMISSIONS BY <2>1, Zenon DEF CoapInv, Places
  <2>3. call[c].tries + 1 \in 0..MAX_TRANSMISSIONS BY CoapAssumption, <1>b, <2>2
  <2>4. r \in Calls BY <1>a, <1>b, <2>3, CallTypes, Zenon
  <2>5. /\ r.pc = "wait" /\ r.ans = call[c].ans /\ r.n = call[c].n /\ r.tok = call[c].tok
        /\ r.blk = call[c].blk
    BY <1>a, Zenon DEF Calls
  <2>6. /\ up' = up \cup {Frame(c)}
        /\ UNCHANGED <<lock, ctl, acc, next, down, reader, pushed, evq, watch, begun, wedged, oks>>
    BY <1>3, Zenon DEF Transmit
  <2>7. call' = [call EXCEPT ![c] = r] BY <1>3, <1>a, Zenon DEF Transmit, CoapInv, TypeOK, Calls
  <2>8. Frame(c) \in Requests BY <1>b, SMTT(30) DEF Frame, Requests
  <2> HIDE DEF r
  <2>9. Current(c)'
    <3>1. Current(c) BY <2>1, OneActive, SMTT(30)
    <3>2. call'[c] = r BY <2>4, <2>7, CallStep, Zenon DEF CoapInv
    <3>3. \A m \in up' : m.tok = call[c].tok => m.n = call[c].n /\ m.blk = call[c].blk
      BY <2>6, <3>1, SMTT(30) DEF Current, Frame
    <3>4. /\ call'[c].tok = call[c].tok /\ call'[c].n = call[c].n
          /\ call'[c].blk = call[c].blk
      BY <2>5, <3>2, Zenon
    <3>5. next' = next /\ ctl' = ctl /\ acc' = acc /\ down' = down BY <2>6, Zenon
    <3> QED BY <3>1, <3>3, <3>4, <3>5, ZenonT(30) DEF Current
  <2>10. next' \in Nat /\ next' >= next /\ up' \subseteq Requests BY <1>a, <2>6, <2>8
  <2> QED BY <2>1, <2>4, <2>5, <2>6, <2>7, <2>9, <2>10, ExchangeCoap, Zenon
<1>4. CASE AckTimeout(c)
  <2>1. call[c].pc = "wait" /\ Active(c) BY <1>4, Zenon DEF AckTimeout, Active
  <2>2. CASE call[c].tries < MAX_TRANSMISSIONS
    <3> DEFINE r == [call[c] EXCEPT !.pc = "send"]
    <3>1. r \in Calls BY <1>a, <1>b, CallTypes, Zenon
    <3>2. /\ r.pc = "send" /\ r.ans = call[c].ans /\ r.n = call[c].n /\ r.tok = call[c].tok
          /\ r.blk = call[c].blk /\ r.tries = call[c].tries
      BY <1>a, Zenon DEF Calls
    <3>3. call' = [call EXCEPT ![c] = r]
      BY <1>4, <1>a, <2>2, Zenon DEF AckTimeout, CoapInv, TypeOK, Calls
    <3>4. UNCHANGED <<lock, ctl, acc, next, up, down, reader, pushed, evq, watch,
                      begun, wedged, oks>>
      BY <1>4, <2>2, Zenon DEF AckTimeout
    <3> HIDE DEF r
    <3>5. Current(c)'
      <4>1. Current(c) BY <2>1, OneActive, SMTT(30)
      <4>2. call'[c] = r BY <3>1, <3>3, CallStep, Zenon DEF CoapInv
      <4>3. /\ call'[c].tok = call[c].tok /\ call'[c].n = call[c].n
            /\ call'[c].blk = call[c].blk
        BY <3>2, <4>2, Zenon
      <4>4. next' = next /\ ctl' = ctl /\ acc' = acc /\ up' = up /\ down' = down
        BY <3>4, Zenon
      <4> QED BY <4>1, <4>3, <4>4, ZenonT(30) DEF Current
    <3>6. next' \in Nat /\ next' >= next /\ up' \subseteq Requests BY <1>a, <3>4
    <3> QED BY <2>1, <2>2, <3>1, <3>2, <3>3, <3>4, <3>5, <3>6, ExchangeCoap, Zenon
  <2>3. CASE ~(call[c].tries < MAX_TRANSMISSIONS)
    BY <1>4, <2>1, <2>3, FailCoap, Zenon DEF AckTimeout
  <2> QED BY <2>2, <2>3, SMTT(30)
<1>5. CASE SendFails(c) BY <1>5, FailCoap, Zenon DEF SendFails, Active
<1>6. CASE Cancel(c)
  <2>1. CASE call[c].pc = "lock"
    <3>1. /\ call' = [call EXCEPT ![c] = NoCall] /\ ~Active(c)
          /\ UNCHANGED <<lock, ctl, acc, next, up, down, reader, pushed, evq, watch,
                         begun, wedged, oks>>
      BY <1>6, <2>1, Zenon DEF Cancel, Active
    <3>2. NoCall \in Calls BY <1>b, NoCallTypes, Zenon
    <3>3. NoCall.pc = "idle" /\ NoCall.ans = None BY Zenon DEF NoCall
    <3> QED BY <1>a, <3>1, <3>2, <3>3, WaitingCoap, Zenon
  <2>2. CASE call[c].pc # "lock" BY <1>6, <2>2, FailCoap, Zenon DEF Cancel, Active
  <2> QED BY <2>1, <2>2, Zenon
<1>7. ASSUME NEW d \in down, NextBlock(c, d) PROVE CoapInv'
  <2> DEFINE r == [call[c] EXCEPT !.pc = "send", !.tok = next, !.tries = 0,
                                  !.blk = call[c].blk + 1]
  <2>1. Active(c) /\ d.tok = call[c].tok /\ d.k # None /\ d.more
    BY <1>7, Zenon DEF NextBlock, Routed, Active
  <2>2. Current(c) BY <2>1, OneActive, SMTT(30)
  <2>3. d.k = call[c].n /\ d.k < acc.recv /\ (acc.cache.k # None => acc.cache.k >= d.k)
    BY <2>1, <2>2, SMTT(120) DEF Current, CoapInv, Network
  <2>4. acc.recv = ctl.send /\ (acc.cache.k # None => acc.cache.k = call[c].n)
    <3>1. /\ acc.recv \in Nat /\ ctl.send \in Nat /\ acc.recv <= ctl.send
          /\ acc.cache.k \in Nat \cup {None}
      BY Zenon DEF CoapInv, TypeOK, Caches
    <3>2. acc.cache.k # None => acc.cache.k < acc.recv BY Zenon DEF CoapInv, Counters
    <3>3. call[c].n + 1 = ctl.send BY <2>2, SMTT(30) DEF Current
    <3> QED BY <1>b, <2>3, <3>1, <3>2, <3>3, SMTT(60)
  <2>5. r \in Calls
    <3>1. 0 \in 0..MAX_TRANSMISSIONS /\ call[c].blk + 1 \in Nat BY CoapAssumption, <1>b, SMTT(30)
    <3> QED BY <1>a, <3>1, CallTypes, Zenon
  <2>6. /\ r.pc = "send" /\ r.ans = call[c].ans /\ r.n = call[c].n /\ r.tok = next
        /\ r.tries = 0
    BY <1>a, Zenon DEF Calls
  <2>7. call' = [call EXCEPT ![c] = r] BY <1>7, <1>a, Zenon DEF NextBlock, CoapInv, TypeOK, Calls
  <2>8. /\ next' = next + 1
        /\ UNCHANGED <<lock, ctl, acc, up, down, reader, pushed, evq, watch, begun, wedged, oks>>
    BY <1>7, Zenon DEF NextBlock
  <2> HIDE DEF r
  <2>9. Current(c)'
    <3>1. call'[c] = r BY <2>5, <2>7, CallStep, Zenon DEF CoapInv
    <3>2. \A m \in up : m.tok # next BY <1>a, SMTT(60) DEF CoapInv, Network, Requests
    <3>3. \A e \in down : e.tok # next BY <1>a DEF CoapInv, Network, Responses
    <3> QED BY <1>a, <2>2, <2>4, <2>6, <2>8, <3>1, <3>2, <3>3, SMTT(60) DEF Current
  <2>10. next' \in Nat /\ next' >= next /\ up' \subseteq Requests BY <1>a, <2>8
  <2>11. 0 < MAX_TRANSMISSIONS BY CoapAssumption
  <2> QED BY <2>1, <2>5, <2>6, <2>7, <2>8, <2>9, <2>10, <2>11, ExchangeCoap, Zenon
<1>8. ASSUME NEW d \in down, Open(c, d) PROVE CoapInv' BY <1>8, OpenCoap, Zenon
<1>9. ASSUME NEW d \in down, Refused(c, d) PROVE CoapInv'
  BY <1>9, FailCoap, SMTT(30) DEF Refused, Routed, Active
<1> QED BY <1>1, <1>2, <1>3, <1>4, <1>5, <1>6, <1>7, <1>8, <1>9, Zenon

\* The record of a response.
LEMMA ResponseTypes ==
    ASSUME NEW t \in Nat, NEW n \in Nat \cup {None}, NEW k \in Nat \cup {None},
           NEW b \in BOOLEAN
    PROVE  [tok |-> t, n |-> n, k |-> k, more |-> b] \in Responses
  BY Zenon DEF Responses

\* The accessory answers the request m, whenever that was sent, with d: it
\* is a refusal, or it answers the request that its counter names.
Answer(m, d) ==
    /\ d.tok = m.tok
    /\ d.k # None => d.n = d.k /\ d.k < acc'.recv
    /\ d.k # None /\ d.more /\ acc'.cache.k # None => acc'.cache.k >= d.k
    /\ d.k # None => \A c \in Callers : Active(c) /\ call[c].tok = m.tok => d.k = call[c].n

\* Its counters move together, and its cache changes with them or is cleared.
Accepted ==
    /\ acc' \in [recv : Nat, send : Nat, event : Nat, kind : Accessories, cache : Caches]
    /\ acc'.recv = acc'.send /\ acc'.recv >= acc.recv /\ acc'.recv <= ctl.send
    /\ acc'.event = acc.event
    /\ acc'.cache.k # None => acc'.cache.n = acc'.cache.k /\ acc'.cache.k < acc'.recv
    /\ \/ acc'.cache = acc.cache \/ acc'.cache.k = None
       \/ acc'.cache.k = acc.recv /\ acc.recv < ctl.send

\* Any such answer leaves the invariant true.
LEMMA AnswerCoap ==
    ASSUME CoapInv, NEW m \in up, NEW d \in Responses, down' = down \cup {d},
           Answer(m, d), Accepted,
           UNCHANGED <<lock, ctl, call, next, up, reader, pushed, evq, watch, begun, wedged, oks>>
    PROVE  CoapInv'
<1>1. /\ acc.recv \in Nat /\ acc.send \in Nat /\ ctl.recv \in Nat /\ ctl.send \in Nat
      /\ acc.recv = acc.send /\ ctl.recv <= acc.send /\ acc.recv <= ctl.send
      /\ down \subseteq Responses
  BY Zenon DEF CoapInv, TypeOK, Counters
<1>2. acc'.recv \in Nat /\ acc'.send \in Nat /\ acc'.recv = acc'.send /\ acc'.recv >= acc.recv
  BY Zenon DEF Accepted
<1>3. TypeOK'
  <2>1. ctl.recv <= acc'.send /\ down' \subseteq Responses BY <1>1, <1>2
  <2>2. Locked' BY Zenon DEF CoapInv, TypeOK, Locked
  <2> QED BY <2>1, <2>2, Zenon DEF CoapInv, TypeOK, Accepted
<1>4. Places' BY Zenon DEF CoapInv, Places, Accepted
<1>5. Counters' BY Zenon DEF Counters, Accepted
<1>6. Behind' /\ OwnResponse' BY Zenon DEF CoapInv, Behind, OwnResponse
<1>7. Network'
  <2>1. \A e \in up : e.tok < next /\ e.n < ctl.send BY Zenon DEF CoapInv, Network
  <2>2. ASSUME NEW e \in down
        PROVE  /\ e.tok < next
               /\ e.k # None => e.n = e.k /\ e.k < acc'.recv
               /\ e.k # None /\ e.more /\ acc'.cache.k # None => acc'.cache.k >= e.k
    <3>1. /\ e.tok < next /\ (e.k # None => e.n = e.k /\ e.k < acc.recv)
          /\ (e.k # None /\ e.more /\ acc.cache.k # None => acc.cache.k >= e.k)
      BY Zenon DEF CoapInv, Network
    <3>2. e.k \in Nat \cup {None} BY <1>1, Zenon DEF Responses
    <3>3. e.k # None => e.k < acc'.recv /\ e.k <= acc.recv /\ acc.recv >= e.k
      BY <1>1, <1>2, <3>1, <3>2 DEF None
    <3> QED BY <3>1, <3>3, Zenon DEF Accepted
  <2>3. /\ d.tok < next /\ (d.k # None => d.n = d.k /\ d.k < acc'.recv)
        /\ (d.k # None /\ d.more /\ acc'.cache.k # None => acc'.cache.k >= d.k)
    BY <2>1, Zenon DEF Answer
  <2> QED BY <2>1, <2>2, <2>3, Zenon DEF Network
<1>8. ASSUME NEW c \in Callers, Active(c)' PROVE Current(c)'
  <2>1. Active(c) /\ Current(c) BY <1>8, Zenon DEF Active, CoapInv
  <2>2. \A e \in down' : e.tok = call[c].tok /\ e.k # None => e.k = call[c].n
    BY <2>1, Zenon DEF Current, Answer
  <2>3. call[c].blk > 0 =>
            acc'.recv = ctl.send /\ (acc'.cache.k # None => acc'.cache.k = call[c].n)
    BY <1>1, <1>2, <2>1, SMTT(30) DEF Current, Accepted
  <2> QED BY <2>1, <2>2, <2>3, Zenon DEF Current
<1> QED BY <1>3, <1>4, <1>5, <1>6, <1>7, <1>8, Zenon DEF CoapInv

\* The accessory serves, refuses, or sends a further block.
LEMMA AccessoryCoap ==
    ASSUME CoapInv, NEW m \in up, Receive(m)
    PROVE  CoapInv'
<1> USE DEF net, events, history
<1>0. m \in Requests /\ m.tok \in Nat /\ m.n \in Nat /\ m.n < ctl.send
  BY Zenon DEF CoapInv, TypeOK, Network, Requests
<1>a. /\ acc \in [recv : Nat, send : Nat, event : Nat, kind : Accessories, cache : Caches]
      /\ acc.recv = acc.send /\ acc.recv <= ctl.send /\ ctl.send \in Nat
      /\ acc.cache.k # None => acc.cache.n = acc.cache.k /\ acc.cache.k < acc.recv
  BY Zenon DEF CoapInv, TypeOK, Counters
<1>b. acc.cache.k \in Nat \cup {None} /\ acc.cache.n \in Nat /\ acc.cache.size \in Nat
  BY <1>a, Zenon DEF Caches
<1>c. \A c \in Callers : Active(c) /\ call[c].tok = m.tok =>
          m.n = call[c].n /\ m.blk = call[c].blk
  BY SMTT(30) DEF CoapInv, Current
<1>1. CASE Serve(m)
  <2>1. PICK b \in Blocks : SendResponse(m, acc.send, b) BY <1>1, Zenon DEF Serve
  <2> DEFINE more == b > 1
             cache == IF more THEN [k |-> acc.send, n |-> m.n, size |-> b] ELSE acc.cache
             d == [tok |-> m.tok, n |-> m.n, k |-> acc.send, more |-> more]
  <2>2. m.n = acc.recv BY <1>1, Zenon DEF Serve
  <2>3. UNCHANGED <<lock, ctl, call, next, up, reader, pushed, evq, watch, begun, wedged, oks>>
    BY <1>1, Zenon DEF Serve
  <2>4. acc' = [acc EXCEPT !.recv = acc.recv + 1, !.send = acc.send + 1, !.cache = cache]
    BY <2>1, <1>a, Zenon DEF SendResponse
  <2>5. down' = down \cup {d} BY <2>1, Zenon DEF SendResponse
  <2>6. more \in BOOLEAN /\ b \in Nat BY CoapAssumption
  <2>7. /\ cache \in Caches /\ (cache = acc.cache \/ cache.k = acc.recv)
        /\ cache.k # None => cache.n = cache.k /\ cache.k < acc.recv + 1
        /\ more => cache.k = acc.recv
    <3>1. CASE more BY <1>0, <1>a, <2>2, <2>6, <3>1, SMTT(30) DEF Caches
    <3>2. CASE ~more BY <1>a, <1>b, <3>2
    <3> QED BY <3>1, <3>2, SMTT(60)
  <2> HIDE DEF cache
  <2>8. /\ acc' \in [recv : Nat, send : Nat, event : Nat, kind : Accessories, cache : Caches]
        /\ acc'.recv = acc.recv + 1 /\ acc'.send = acc.send + 1 /\ acc'.event = acc.event
        /\ acc'.cache = cache
    <3>1. acc.recv + 1 \in Nat /\ acc.send + 1 \in Nat /\ cache \in Caches BY <1>a, <2>7
    <3>2. acc \in [recv : Nat, send : Nat, event : Nat, kind : Accessories, cache : Caches]
      BY <1>a, Zenon
    <3> QED BY <2>4, <3>1, <3>2, Zenon
  <2>9. d \in Responses
    <3>1. acc.send \in Nat BY <1>a, Zenon
    <3> QED BY <1>0, <2>6, <3>1, ResponseTypes, Zenon
  <2>10. d.tok = m.tok /\ d.n = m.n /\ d.k = acc.recv /\ (d.more => more) BY <1>a, Zenon
  <2> HIDE DEF d, more
  <2>11. acc.recv \in Nat /\ acc.recv # None BY <1>a DEF None
  <2>12. Answer(m, d) BY <1>a, <1>c, <2>2, <2>7, <2>8, <2>10, <2>11 DEF Answer
  <2>13. Accepted BY <1>0, <1>a, <2>2, <2>7, <2>8, <2>11 DEF Accepted
  <2> QED BY <2>3, <2>5, <2>9, <2>12, <2>13, AnswerCoap, Zenon
<1>2. CASE Reject(m)
  <2> DEFINE d == [tok |-> m.tok, n |-> None, k |-> None, more |-> FALSE]
  <2>1. d \in Responses BY <1>0, ResponseTypes, Zenon
  <2>2. d.tok = m.tok /\ d.k = None BY Zenon
  <2>3. down' = down \cup {d} BY <1>2, Zenon DEF Reject
  <2>4. UNCHANGED <<lock, ctl, acc, call, next, up, reader, pushed, evq, watch, begun, wedged, oks>>
    BY <1>2, SMTT(30) DEF Reject
  <2> HIDE DEF d
  <2>5. Answer(m, d) BY <2>2, Zenon DEF Answer
  <2>6. Accepted BY <1>a, <2>4 DEF Accepted
  <2> QED BY <2>1, <2>3, <2>4, <2>5, <2>6, AnswerCoap, Zenon
<1>3. CASE ServeBlock(m)
  <2> DEFINE more == m.blk + 1 < acc.cache.size
             d == [tok |-> m.tok, n |-> acc.cache.n, k |-> acc.cache.k, more |-> more]
  <2>1. /\ m.blk > 0 /\ acc.cache.k # None
        /\ UNCHANGED <<lock, ctl, call, next, up, reader, pushed, evq, watch, begun, wedged, oks>>
    BY <1>3, Zenon DEF ServeBlock
  <2>2. down' = down \cup {d} BY <1>3, Zenon DEF ServeBlock
  <2>3. acc' = IF more THEN acc ELSE [acc EXCEPT !.cache = NoCache] BY <1>3, Zenon DEF ServeBlock
  <2>4. more \in BOOLEAN OBVIOUS
  <2> HIDE DEF more
  <2>5. d \in Responses BY <1>0, <1>b, <2>4, ResponseTypes, Zenon
  <2>6. d.tok = m.tok /\ d.n = acc.cache.n /\ d.k = acc.cache.k BY Zenon
  <2>7. NoCache \in Caches /\ NoCache.k = None BY Zenon DEF NoCache, Caches
  <2>8. /\ acc' \in [recv : Nat, send : Nat, event : Nat, kind : Accessories, cache : Caches]
        /\ acc'.recv = acc.recv /\ acc'.send = acc.send /\ acc'.event = acc.event
        /\ acc'.cache = acc.cache \/ acc'.cache.k = None
    BY <1>a, <2>3, <2>7, Zenon
  <2> HIDE DEF d
  <2>9. \A c \in Callers : Active(c) /\ call[c].tok = m.tok => acc.cache.k = call[c].n
    BY <1>c, <2>1, Zenon DEF CoapInv, Current
  <2>10. acc.recv >= acc.recv /\ acc.cache.k >= acc.cache.k BY <1>a, <1>b, <2>1
  <2>11. Answer(m, d) BY <1>a, <2>1, <2>6, <2>8, <2>9, <2>10, SMTT(30) DEF Answer
  <2>12. Accepted BY <1>a, <2>8, <2>10, Zenon DEF Accepted
  <2> QED BY <2>1, <2>2, <2>5, <2>11, <2>12, AnswerCoap, Zenon
<1> QED BY <1>1, <1>2, <1>3, Zenon DEF Receive

\* The inductive invariant of a connection over an unreliable network.
THEOREM CoapInvariant == Spec => []CoapInv
<1>1. CoapInv /\ [Next]_vars => CoapInv'
  <2> SUFFICES ASSUME CoapInv, [Next]_vars PROVE CoapInv'
    BY Zenon
  <2>1. CASE UNCHANGED vars
    <3>1. TypeOK' /\ Places' BY <2>1, SMTT(30) DEF vars, CoapInv, TypeOK, Locked, Places
    <3> QED BY <2>1, <3>1, SameExchange, Zenon DEF vars
  <2>2. CASE Next BY <2>2, EventsCoap, CallCoap, AccessoryCoap, Zenon DEF Next
  <2> QED BY <2>1, <2>2, Zenon
<1> QED BY <1>1, InitCoap, PTL DEF Spec

\* Types of the connection (the session mutex included).
THEOREM CoapTypes == Spec => []TypeOK
  BY CoapInvariant, PTL DEF CoapInv

\* A successful post_secure returns the response to its own request, for any
\* number of callers, transmissions and blocks.
THEOREM ResponsesAreOwn == Spec => []OwnResponse
  BY CoapInvariant, PTL DEF CoapInv

\* After a post_secure failed or was dropped with its request sealed, no later
\* one succeeds.
THEOREM FailuresAreFinal == Spec => FailureIsFinal
<1>1. CoapInv /\ [Next]_vars => [wedged => oks' = oks]_vars
  <2> SUFFICES ASSUME CoapInv, Next, wedged PROVE oks' = oks
    BY Zenon DEF vars, history
  <2>1. ASSUME NEW c \in Callers, NEW d \in down, Open(c, d) PROVE FALSE BY <2>1, OpenCoap, Zenon
  <2> QED BY <2>1, ZenonT(30) DEF Next, Begin, Seal, Transmit, AckTimeout, SendFails, Cancel, Fail,
        NextBlock, Refused, Receive, Serve, Reject, ServeBlock, ReadEvent, PushEvent, ReaderEnds,
        WatchTake, WatchEnds, WatchOpen, Rewatch, Quiet, vars, history
<1> QED BY <1>1, CoapInvariant, PTL DEF Spec, FailureIsFinal

-----------------------------------------------------------------------------
(* the watcher *)

\* The event the watcher has taken and not opened yet.
InHand == IF watch.pc = "lock" THEN 1 ELSE 0

\* While the event datagrams come once and in order, the event channel holds
\* the events that event_ctr is waiting for, one after the other.
InOrder ==
    watch.calm =>
        /\ \A i \in 1..Len(evq) : evq[i] = ctl.event + InHand + i - 1
        /\ watch.rx = ctl.event + InHand + Len(evq)
        /\ watch.pc = "lock" => watch.k = ctl.event
        /\ watch.pc = "stopped" => ~reader

\* Requests, cancellations and failures leave the event counter and the event
\* channel alone, and so does the accessory.
LEMMA RequestsInOrder ==
    ASSUME InOrder, UNCHANGED <<watch, evq, reader>>, ctl'.event = ctl.event
    PROVE  InOrder'
  BY Zenon DEF InOrder, InHand

\* Neither sealing a request nor opening a response moves the event counter.
LEMMA EventCounterKept ==
    ASSUME CoapInv,
           \/ \E c \in Callers :
                 \/ Begin(c) \/ Seal(c) \/ Transmit(c) \/ AckTimeout(c) \/ SendFails(c)
                 \/ Cancel(c)
                 \/ \E d \in down : NextBlock(c, d) \/ Open(c, d) \/ Refused(c, d)
           \/ \E m \in up : Receive(m)
           \/ PushEvent \/ Quiet
    PROVE  UNCHANGED <<watch, evq, reader>> /\ ctl'.event = ctl.event
<1> USE DEF net, events, history
<1>1. ctl \in [send : Nat, recv : Nat, event : Nat] BY Zenon DEF CoapInv, TypeOK
<1>2. ASSUME NEW c \in Callers, Seal(c)
      PROVE  UNCHANGED <<watch, evq, reader>> /\ ctl'.event = ctl.event
  BY <1>1, <1>2, Zenon DEF Seal, seal_request
<1>3. ASSUME NEW c \in Callers, NEW d \in down, Open(c, d)
      PROVE  UNCHANGED <<watch, evq, reader>> /\ ctl'.event = ctl.event
  BY <1>1, <1>3, Zenon DEF Open, open_response
<1>4. ASSUME NEW c \in Callers,
             \/ Begin(c) \/ Transmit(c) \/ AckTimeout(c) \/ SendFails(c) \/ Cancel(c)
             \/ \E d \in down : NextBlock(c, d) \/ Refused(c, d)
      PROVE  UNCHANGED <<watch, evq, reader, ctl>>
  BY <1>4, Zenon DEF Begin, Transmit, AckTimeout, SendFails, Cancel, NextBlock, Refused, Fail
<1>5. ASSUME (\E m \in up : Receive(m)) \/ PushEvent \/ Quiet
      PROVE  UNCHANGED <<watch, evq, reader, ctl>>
  BY <1>5, Zenon DEF Receive, Serve, Reject, ServeBlock, PushEvent, Quiet, vars
<1> QED BY <1>2, <1>3, <1>4, <1>5, Zenon

\* The reader and the watcher.
LEMMA EventsInOrder ==
    ASSUME CoapInv, InOrder,
           \/ \E k \in pushed : ReadEvent(k)
           \/ ReaderEnds \/ WatchTake \/ WatchEnds \/ WatchOpen \/ Rewatch
    PROVE  InOrder'
<1> USE DEF net, events, history
<1>0. /\ watch \in Watchers /\ evq \in Seq(Nat) /\ pushed \subseteq Nat
      /\ ctl \in [send : Nat, recv : Nat, event : Nat]
  BY Zenon DEF CoapInv, TypeOK
<1>a. watch.rx \in Nat /\ watch.k \in Nat /\ ctl.event \in Nat /\ Len(evq) \in Nat
  BY <1>0 DEF Watchers
<1>1. ASSUME NEW k \in pushed, ReadEvent(k) PROVE InOrder'
  <2>1. /\ evq' = Append(evq, k) /\ reader /\ ctl' = ctl /\ reader' = reader
    BY <1>1, Zenon DEF ReadEvent
  <2>2. /\ watch'.pc = watch.pc /\ watch'.k = watch.k /\ watch'.rx = k + 1
        /\ watch'.calm = (watch.calm /\ k = watch.rx)
    BY <1>0, <1>1, Zenon DEF ReadEvent, Watchers
  <2>3. SUFFICES ASSUME watch'.calm PROVE InOrder' BY Zenon DEF InOrder
  <2>4. watch.calm /\ k = watch.rx BY <2>2, <2>3, Zenon
  <2>5. /\ \A i \in 1..Len(evq) : evq[i] = ctl.event + InHand + i - 1
        /\ watch.rx = ctl.event + InHand + Len(evq)
        /\ watch.pc = "lock" => watch.k = ctl.event
        /\ watch.pc # "stopped"
    BY <2>1, <2>4, Zenon DEF InOrder
  <2>6. InHand' = InHand /\ InHand \in Nat BY <2>2, Zenon DEF InHand
  <2>7. Len(evq') = Len(evq) + 1 /\ k \in Nat BY <1>0, <2>1
  <2>a. k = ctl.event + InHand + Len(evq) BY <2>4, <2>5, Zenon
  <2>8. \A i \in 1..Len(evq') : evq'[i] = ctl.event + InHand + i - 1
    <3> SUFFICES ASSUME NEW i \in 1..Len(evq') PROVE evq'[i] = ctl.event + InHand + i - 1
      BY Zenon
    <3>1. CASE i = Len(evq) + 1
      <4>1. evq'[i] = k BY <1>0, <2>1, <3>1
      <4> QED BY <1>a, <2>6, <2>a, <3>1, <4>1
    <3>2. CASE i # Len(evq) + 1
      <4>1. i \in 1..Len(evq) BY <1>a, <2>7, <3>2
      <4>2. evq'[i] = evq[i] BY <1>0, <2>1, <4>1
      <4> QED BY <2>5, <4>1, <4>2, Zenon
    <3> QED BY <3>1, <3>2, Zenon
  <2>9. k + 1 = ctl.event + InHand + Len(evq') BY <1>a, <2>6, <2>7, <2>a
  <2> QED BY <2>1, <2>2, <2>5, <2>6, <2>8, <2>9, Zenon DEF InOrder
<1>2. CASE ReaderEnds BY <1>2, Zenon DEF ReaderEnds, InOrder, InHand
<1>3. CASE WatchTake
  <2>1. /\ watch.pc = "recv" /\ evq # <<>> /\ evq' = Tail(evq) /\ ctl' = ctl
        /\ reader' = reader
    BY <1>3, Zenon DEF WatchTake
  <2>2. /\ watch'.pc = "lock" /\ watch'.k = Head(evq) /\ watch'.rx = watch.rx
        /\ watch'.calm = watch.calm
    BY <1>0, <1>3, Zenon DEF WatchTake, Watchers
  <2>3. SUFFICES ASSUME watch.calm PROVE InOrder' BY <2>2, Zenon DEF InOrder
  <2>4. /\ \A i \in 1..Len(evq) : evq[i] = ctl.event + i - 1
        /\ watch.rx = ctl.event + Len(evq)
    BY <1>a, <2>1, <2>3 DEF InOrder, InHand
  <2>5. /\ Len(evq') = Len(evq) - 1 /\ Head(evq) = evq[1] /\ Len(evq) > 0
        /\ \A i \in 1..Len(evq') : evq'[i] = evq[i + 1]
    BY <1>0, <2>1
  <2>6. InHand' = 1 BY <2>2, Zenon DEF InHand
  <2>7. Head(evq) = ctl.event BY <1>a, <2>4, <2>5
  <2>8. \A i \in 1..Len(evq') : evq'[i] = ctl.event + 1 + i - 1 BY <1>a, <2>4, <2>5
  <2> QED BY <1>a, <2>1, <2>2, <2>4, <2>5, <2>6, <2>7, <2>8 DEF InOrder
<1>4. CASE WatchEnds
  <2>1. /\ watch.pc = "recv" /\ ~reader /\ ctl' = ctl /\ evq' = evq /\ reader' = reader
    BY <1>4, Zenon DEF WatchEnds
  <2>2. /\ watch'.pc = "stopped" /\ watch'.rx = watch.rx /\ watch'.calm = watch.calm
    BY <1>0, <1>4, Zenon DEF WatchEnds, Watchers
  <2> QED BY <2>1, <2>2, Zenon DEF InOrder, InHand
<1>5. CASE WatchOpen
  <2>1. watch.pc = "lock" /\ evq' = evq /\ reader' = reader BY <1>5, Zenon DEF WatchOpen
  <2>2. CASE watch.k = ctl.event
    <3>1. ctl'.event = ctl.event + 1 BY <1>0, <1>5, <2>2, Zenon DEF WatchOpen, open_event
    <3>2. watch'.pc = "recv" /\ watch'.rx = watch.rx /\ watch'.calm = watch.calm
      BY <1>0, <1>5, <2>2, Zenon DEF WatchOpen, Watchers
    <3>3. InHand = 1 /\ InHand' = 0 BY <2>1, <3>2, Zenon DEF InHand
    <3> QED BY <1>a, <2>1, <3>1, <3>2, <3>3 DEF InOrder
  <2>3. CASE watch.k # ctl.event
    <3>1. ~watch.calm BY <2>1, <2>3, Zenon DEF InOrder
    <3>2. watch'.calm = watch.calm BY <1>0, <1>5, <2>3, Zenon DEF WatchOpen, Watchers
    <3> QED BY <3>1, <3>2, Zenon DEF InOrder
  <2> QED BY <2>2, <2>3, Zenon
<1>6. CASE Rewatch
  <2>1. /\ watch.pc # "recv" /\ ctl' = ctl /\ evq' = evq /\ reader' = reader
    BY <1>6, Zenon DEF Rewatch
  <2>2. /\ watch'.pc = "recv" /\ watch'.rx = watch.rx
        /\ watch'.calm = (watch.calm /\ watch.pc # "lock")
    BY <1>0, <1>6, Zenon DEF Rewatch, Watchers
  <2> QED BY <2>1, <2>2, Zenon DEF InOrder, InHand
<1> QED BY <1>1, <1>2, <1>3, <1>4, <1>5, <1>6, Zenon

\* Requests, cancellations and failures of post_secure never stop the watcher:
\* with event datagrams once and in order, and no watcher replaced with an event
\* in hand, it stops only after the reader, however deep the event channel is.
THEOREM WatcherKeepsGoing == Spec => []WatcherGoesOn
<1>1. Init => InOrder BY DEF Init, InOrder, InHand, NewSession
<1>2. CoapInv /\ InOrder /\ [Next]_vars => InOrder'
  <2> SUFFICES ASSUME CoapInv, InOrder, [Next]_vars PROVE InOrder'
    BY Zenon
  <2>1. CASE UNCHANGED vars BY <2>1, RequestsInOrder, Zenon DEF vars
  <2>2. CASE Next BY <2>2, EventCounterKept, RequestsInOrder, EventsInOrder, Zenon DEF Next
  <2> QED BY <2>1, <2>2, Zenon
<1>3. InOrder => WatcherGoesOn BY Zenon DEF InOrder, WatcherGoesOn
<1> QED BY <1>1, <1>2, <1>3, CoapInvariant, PTL DEF Spec

=============================================================================
