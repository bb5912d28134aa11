------------------------------ MODULE Discovery ------------------------------
(***************************************************************************)
(* Looking for accessories: discover, discover_until and pair_with_payload *)
(* of crates/hap-controller/src/controller.rs, collect_until, and the      *)
(* scans below them, discover and discover_stream of                       *)
(* crates/hap-transport/src/discovery.rs, scan and scan_stream of          *)
(* crates/hap-ble/src/discovery.rs, and discover of                        *)
(* crates/hap-thread/src/discovery.rs.                                     *)
(*                                                                         *)
(* One call is made.  "until" is discover_until: for each transport a scan *)
(* task with a bounded channel to a forwarder, the forwarders with one     *)
(* bounded channel to collect_until.  "payload" is pair_with_payload, in   *)
(* rounds of discover, which waits for both scans.  "thread" is discover   *)
(* of hap-thread.  Time is a clock in units of which a round has Window    *)
(* and the call Timeout.                                                   *)
(***************************************************************************)
EXTENDS Adverts

CONSTANTS
    Calls,        \* the calls that may be made
    Sightings,    \* mDNS records and advertisements that may be heard
    Labels,       \* setup labels: the accessory's device, and its URI
    Wanted,       \* devices for which the caller's `stop` says true
    Capacity,     \* 16: of each channel
    SCAN_WINDOW, Timeout,
    MaxHeard      \* bound on the sightings of a window, for each call

Transports == {"ip", "ble", "thread"}

\* An id or a peripheral address is of one accessory.
ASSUME DiscoveryAssumption ==
    /\ Calls \subseteq {"until", "payload", "thread"}
    /\ Capacity \in Nat \ {0} /\ SCAN_WINDOW \in Nat /\ Timeout \in Nat
    /\ \A s \in Sightings : s.via \in Transports
    /\ \A s, u \in Sightings : \A r \in Records(s), q \in Records(u) :
          /\ DOMAIN r.id = {"dev", "case"}
          /\ s.via = u.via /\ r.key = q.key => r.id.dev = q.id.dev

\* A label says its accessory's code and category, and the setup id if it has
\* one.  The accessory announces that category, and with a hash the label's setup
\* id; no other accessory has that setup id.
SetupId(label) == SubSeq(label.uri.text, PayloadChars + 1, Len(label.uri.text))
ASSUME LabelAssumption ==
    \A label \in Labels :
        /\ label.uri.text \in Seq(Int) /\ PayloadChars \in Nat
        /\ label.has_id <=> PayloadChars < Len(label.uri.text)
        /\ label.number \in 0 .. CodeSpan - 1 /\ label.code = padded(label.number)
        /\ label.flags \in 0 .. 15 /\ label.category \in 0 .. CategorySpan - 1 /\ label.above \in Nat
        /\ Value(SubSeq(label.uri.text, 1, PayloadChars))
             = label.number + CodeSpan * (label.flags + 16 * (label.category + CategorySpan * label.above))
        /\ \A s \in Sightings : \A r \in Records(s) :
              LET own == \E id \in {r.id, upper(r.id)} : setup_hash(SetupId(label), id) \in r.setup_hash
              IN  s.via \in {"ip", "ble"} =>
                    IF r.id.dev = label.dev
                    THEN r.category = label.category /\ (label.has_id /\ r.setup_hash # {} => own)
                    ELSE label.has_id => ~own

VARIABLES
    call,        \* which call, and the label it was given
    clock,
    closes,      \* when the scans of this window end
    src,         \* the scans
    chan,        \* channels from scan tasks to forwarders
    fwd,         \* the forwarders
    merged,      \* the channel to collect_until
    col,         \* collect_until: where it is, ids seen, what it returns
    ambiguous,   \* last_ambiguous of pair_with_payload
    result,      \* what the call returned
    heard        \* history: records of this window, in the order heard

channelVars == <<chan, fwd, merged, col>>
discoveryVars == <<call, clock, closes, src, chan, fwd, merged, col, ambiguous, result, heard>>

Used == IF call.kind = "thread" THEN {"thread"} ELSE {"ip", "ble"}
Streaming == call.kind = "until"
Pending == [tag |-> "pending"]

Scan(pc) == [pc |-> pc, seen |-> {}, item |-> {}, found |-> {}]
Scans(started) == [t \in Transports |-> Scan(IF t \in started THEN "listen" ELSE "off")]
Ended(t) == src[t].pc \in {"off", "done"}
\* The receiver of a scan task's channel is gone, as is collect_until's.
ReceiverGone(t) == fwd[t].pc = "done"
Returned == result # Pending

\* A call starts: whichever scans can be started are, and the call fails if
\* none can (the first window of pair_with_payload is like the others).
DiscoveryInit ==
    \E kind \in Calls, label \in Labels, started \in SUBSET Transports :
        /\ kind = "payload" \/ label = CHOOSE l \in Labels : TRUE
        /\ call = [kind |-> kind, label |-> label,
                   payload |-> IF kind = "payload" THEN parse_payload(label.uri) ELSE {}]
        /\ started \subseteq Used
        /\ clock = 0
        /\ closes = IF kind = "payload" /\ SCAN_WINDOW < Timeout THEN SCAN_WINDOW ELSE Timeout
        /\ src = Scans(started)
        /\ fwd = [t \in Transports |->
                     [pc |-> IF kind = "until" /\ t \in started THEN "recv" ELSE "done",
                      item |-> {}]]
        /\ chan = [t \in Transports |-> <<>>] /\ merged = <<>>
        /\ col = [pc |-> IF kind = "until" THEN "recv" ELSE "off", seen |-> {}, out |-> <<>>]
        /\ ambiguous = {}
        /\ result = IF started = {} \/ (kind = "payload" /\ call.payload = {})
                    THEN [tag |-> "error"] ELSE Pending
        /\ heard = <<>>

\* No call is being made.
NoCall ==
    /\ call = [kind |-> "none", payload |-> {}]
    /\ clock = 0 /\ closes = 0 /\ src = Scans({})
    /\ fwd = [t \in Transports |-> [pc |-> "done", item |-> {}]]
    /\ chan = [t \in Transports |-> <<>>] /\ merged = <<>>
    /\ col = [pc |-> "off", seen |-> {}, out |-> <<>>]
    /\ ambiguous = {} /\ result = [tag |-> "ok"] /\ heard = <<>>

-----------------------------------------------------------------------------
(* The scans *)

\* An event of the browse or the scan.  A stream sends what is new to it; a
\* blocking scan keeps it, mDNS the last record of an id, BLE the first.
Hear(t, r) ==
    LET s     == src[t]
        known == r.key \in s.seen
        kept  == IF t = "ble" THEN IF known THEN s.found ELSE s.found \cup {r}
                 ELSE {q \in s.found : q.key # r.key} \cup {r}
    IN  /\ s.pc = "listen"
        /\ Len(heard) < MaxHeard[call.kind]
        /\ heard' = Append(heard, r)
        /\ src' = [src EXCEPT ![t] =
                      IF ~Streaming THEN [s EXCEPT !.seen = @ \cup {r.key}, !.found = kept]
                      ELSE IF known THEN s
                      ELSE [s EXCEPT !.seen = @ \cup {r.key}, !.pc = "send", !.item = {r}]]
        /\ UNCHANGED <<call, clock, closes, channelVars, ambiguous, result>>

\* The window closes, the stream ends by itself, or a streaming task sees that
\* its receiver is gone; the browse or the radio scan ends with it.
Stops(t) == src' = [src EXCEPT ![t].pc = "done"]
ElapsedOnEvent(t) ==        \* plausible fault: the wait for an event is not bounded
    /\ src[t].pc = "listen"
    /\ clock >= closes /\ heard # <<>>
    /\ Stops(t)
    /\ UNCHANGED <<call, clock, closes, channelVars, ambiguous, result, heard>>
Elapsed(t) ==
    /\ src[t].pc = "listen"
    /\ clock >= closes
    /\ Stops(t)
    /\ UNCHANGED <<call, clock, closes, channelVars, ambiguous, result, heard>>
StreamEnds(t) ==
    /\ src[t].pc = "listen"
    /\ Stops(t)
    /\ UNCHANGED <<call, clock, closes, channelVars, ambiguous, result, heard>>
SeesClosed(t) ==
    /\ Streaming
    /\ src[t].pc = "listen"
    /\ ReceiverGone(t)
    /\ Stops(t)
    /\ UNCHANGED <<call, clock, closes, channelVars, ambiguous, result, heard>>

\* Plausible fault: a full channel drops the accessory.
SendsOrDrops(t) ==
    /\ src[t].pc = "send"
    /\ IF ReceiverGone(t) THEN Stops(t) /\ UNCHANGED chan
       ELSE /\ \E r \in src[t].item :
                  chan' = IF Len(chan[t]) < Capacity
                          THEN [chan EXCEPT ![t] = Append(@, r)] ELSE chan
            /\ src' = [src EXCEPT ![t].pc = "listen", ![t].item = {}]
    /\ UNCHANGED <<call, clock, closes, fwd, merged, col, ambiguous, result, heard>>

\* tx.send(acc).await: waits for room; fails when the receiver is gone.
Sends(t) ==
    /\ src[t].pc = "send"
    /\ IF ReceiverGone(t) THEN Stops(t) /\ UNCHANGED chan
       ELSE /\ Len(chan[t]) < Capacity
            /\ \E r \in src[t].item : chan' = [chan EXCEPT ![t] = Append(@, r)]
            /\ src' = [src EXCEPT ![t].pc = "listen", ![t].item = {}]
    /\ UNCHANGED <<call, clock, closes, fwd, merged, col, ambiguous, result, heard>>

ScanTask(t) == Elapsed(t) \/ SeesClosed(t) \/ Sends(t)

-----------------------------------------------------------------------------
(* discover_until: forwarders and collect_until *)

\* recv: the next accessory, or None when the scan task is gone and all was
\* taken.
ForwarderReceives(t) ==
    /\ fwd[t].pc = "recv"
    /\ IF chan[t] # <<>>
       THEN /\ fwd' = [fwd EXCEPT ![t] = [pc |-> "send", item |-> {Head(chan[t])}]]
            /\ chan' = [chan EXCEPT ![t] = Tail(@)]
       ELSE /\ Ended(t)
            /\ fwd' = [fwd EXCEPT ![t].pc = "done"]
            /\ UNCHANGED chan
    /\ UNCHANGED <<call, clock, closes, src, merged, col, ambiguous, result, heard>>

ForwarderSends(t) ==
    /\ fwd[t].pc = "send"
    /\ IF col.pc = "returned"
       THEN fwd' = [fwd EXCEPT ![t] = [pc |-> "done", item |-> {}]] /\ UNCHANGED merged
       ELSE /\ Len(merged) < Capacity
            /\ \E r \in fwd[t].item : merged' = Append(merged, r)
            /\ fwd' = [fwd EXCEPT ![t] = [pc |-> "recv", item |-> {}]]
    /\ UNCHANGED <<call, clock, closes, src, chan, col, ambiguous, result, heard>>

Forwarder(t) == ForwarderReceives(t) \/ ForwarderSends(t)

\* to_ascii_lowercase.
Seen(id) == lower(id)

\* One turn of collect_until, or its return when every sender is gone.
Collect ==
    /\ col.pc = "recv"
    /\ ~Returned
    /\ IF merged # <<>>
       THEN LET d   == Head(merged)
                hit == d.id.dev \in Wanted
            IN  /\ merged' = Tail(merged)
                /\ IF Seen(d.id) \in col.seen THEN UNCHANGED <<col, result>>
                   ELSE /\ col' = [pc |-> IF hit THEN "returned" ELSE "recv",
                                   seen |-> col.seen \cup {Seen(d.id)},
                                   out |-> Append(col.out, d)]
                        /\ result' = IF hit THEN [tag |-> "ok"] ELSE result
       ELSE /\ \A t \in Used : fwd[t].pc = "done"
            /\ col' = [col EXCEPT !.pc = "returned"]
            /\ result' = [tag |-> "ok"]
            /\ UNCHANGED merged
    /\ UNCHANGED <<call, clock, closes, src, chan, fwd, ambiguous, heard>>

-----------------------------------------------------------------------------
(* pair_with_payload, and discover of hap-thread *)

Found == UNION {src[t].found : t \in Used}
RoundOver == ~Streaming /\ ~Returned /\ \A t \in Used : Ended(t)

\* pair: pair_ip refuses a code that has not eight digits, pair_ble hands it on.
Pair(d, code) ==
    IF d.via = "ip" /\ normalize_setup_code(code) = {} THEN [tag |-> "invalid_code"]
    ELSE [tag |-> "pair", accessory |-> d, code |-> code]

ThreadReturns ==
    /\ call.kind = "thread" /\ RoundOver
    /\ result' = [tag |-> "ok"]
    /\ UNCHANGED <<call, clock, closes, src, channelVars, ambiguous, heard>>

\* The selection after a round, and the return if it is one accessory or the
\* time is over.
Select ==
    /\ call.kind = "payload" /\ RoundOver
    /\ \E payload \in call.payload :
        LET s == select_match(Found, payload)
            last == IF s.tag = "ambiguous" THEN s.ids ELSE ambiguous
        IN  /\ s.tag = "one" \/ clock >= Timeout
            /\ ambiguous' = last
            /\ \/ /\ s.tag = "one"
                  /\ \E d \in s.one : result' = Pair(d, payload.setup_code)
               \/ /\ s.tag # "one"
                  /\ result' = IF last = {} THEN [tag |-> "no_match"]
                               ELSE [tag |-> "ambiguous", ids |-> last]
    /\ UNCHANGED <<call, clock, closes, src, channelVars, heard>>

\* The selection found no single accessory and there is time for another round.
NextRound(started) ==
    /\ call.kind = "payload" /\ RoundOver
    /\ clock < Timeout
    /\ \E payload \in call.payload :
        LET s == select_match(Found, payload)
        IN  /\ s.tag # "one"
            /\ ambiguous' = IF s.tag = "ambiguous" THEN s.ids ELSE ambiguous
    /\ closes' = IF clock + SCAN_WINDOW < Timeout THEN clock + SCAN_WINDOW ELSE Timeout
    /\ src' = Scans(started)
    /\ heard' = <<>>
    /\ result' = IF started = {} THEN [tag |-> "error"] ELSE result
    /\ UNCHANGED <<call, clock, channelVars>>

Tick ==
    /\ clock < Timeout
    /\ ~Returned \/ \E t \in Used : ~Ended(t)
    /\ clock' = clock + 1
    /\ UNCHANGED <<call, closes, src, channelVars, ambiguous, result, heard>>

DiscoveryNext ==
    \/ \E s \in Sightings : \E r \in Records(s) : s.via \in Used /\ Hear(s.via, r)
    \/ \E t \in Used : ScanTask(t) \/ StreamEnds(t) \/ Forwarder(t)
    \/ Collect \/ ThreadReturns \/ Select
    \/ \E started \in SUBSET Used : NextRound(started)
    \/ Tick

DiscoverySpec == DiscoveryInit /\ [][DiscoveryNext]_discoveryVars

\* The runtime polls a runnable task and time passes.  Nothing is assumed of
\* what is heard, nor of the scans' ending by themselves.
DiscoveryFairness ==
    /\ \A t \in Transports : WF_discoveryVars(ScanTask(t)) /\ WF_discoveryVars(Forwarder(t))
    /\ WF_discoveryVars(Collect) /\ WF_discoveryVars(ThreadReturns) /\ WF_discoveryVars(Select)
    /\ WF_discoveryVars(\E started \in SUBSET Used : NextRound(started))
    /\ WF_discoveryVars(Tick)

-----------------------------------------------------------------------------
(* Properties *)

\* discover_until returns an accessory once, however many transports and
\* peripheral addresses it was heard on and in whatever case its id was
\* announced, and returns at the first one `stop` accepts: that one is the last.
\* And nothing heard is lost on the way.  If `stop` accepts nothing, discover_until
\* returns every accessory that a scan heard, through channels that fill up and
\* tasks that end in any order.  A blocking scan has the newest record of every
\* id (mDNS), or the first advertisement of every peripheral (BLE).
EachReturnedOnce ==
    /\ \A i, j \in DOMAIN col.out :
          /\ i # j => lower(col.out[i].id) # lower(col.out[j].id)
          /\ col.out[i].id.dev \in Wanted => i = Len(col.out) /\ col.pc = "returned"
    /\ Streaming /\ col.pc = "returned" /\ {d.id.dev : d \in Range(col.out)} \cap Wanted = {}
          => {d.id.dev : d \in Range(col.out)} = {d.id.dev : d \in Range(heard)}
    /\ ~Streaming =>
          \A t \in Transports :
              src[t].found =
                  {heard[i] : i \in {k \in DOMAIN heard :
                      /\ heard[k].via = t
                      /\ \A j \in DOMAIN heard :
                            heard[j].via = t /\ heard[j].key = heard[k].key
                                => IF t = "ble" THEN k <= j ELSE j <= k}}

\* pair_with_payload pairs an unpaired accessory, with the code of the label.
\* It is another accessory than the label's only if the label's was not heard
\* unpaired in that round, and then there was no hash to tell: it has the same
\* category and the label has no setup id or the accessory announces no hash.
\* It reports that none matches only if the last round did not hear it unpaired
\* (match_kind, select_match, SetupPayload::parse).
PayloadTarget ==
    LET label  == call.label
        missed == \A d \in Found : d.id.dev = label.dev => d.paired
    IN  /\ result.tag = "pair" =>
             LET a == result.accessory
             IN  /\ ~a.paired /\ result.code = label.code
                 /\ a.id.dev # label.dev =>
                       /\ missed
                       /\ a.category = label.category
                       /\ ~label.has_id \/ a.setup_hash = {}
        /\ result.tag = "no_match" => missed
        /\ result.tag = "invalid_code" => Len(label.code) # CodeDigits

\* The call returned and the tasks it started have ended.
CallOver == Returned /\ \A t \in Transports : Ended(t) /\ fwd[t].pc = "done"

\* The call returns, and after it every scan task and forwarder it started
\* ends: no browse and no radio scan is left behind.
DiscoveryEnds == <>CallOver

=============================================================================
