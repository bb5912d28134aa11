----------------------------- MODULE ScanProofs -----------------------------
(***************************************************************************)
(* Proofs about ScanGate, for any set of connectors, and about Discovery,  *)
(* for any advertisements, wanted accessories and channel capacities.      *)
(*                                                                         *)
(* Discovery.  DiscoveryInv follows what was heard: until collect_until    *)
(* returns, every accessory heard is in a channel, in the hand of a task,  *)
(* or among those collected, under its own id; a forwarder that ended has  *)
(* left nothing behind.  So collect_until has them all when every sender   *)
(* is gone.  pair_with_payload decides after a round, when its scans have  *)
(* ended, so what it decided on stays; that the payload is read as the     *)
(* label has it is arithmetic on the fields.                               *)
(*                                                                         *)
(* ScanGate.  GateInv adds to the invariants where exactly the scan task   *)
(* holds its stream and where its flag is set.                             *)
(***************************************************************************)
EXTENDS ScanGate, Discovery, TLAPS

-----------------------------------------------------------------------------
(* Discovery *)

\* What scans can hear, and what they count duplicates by.
Recs == UNION {Records(s) : s \in Sightings}
Keys == {r.key : r \in Recs}

ScanRecords == [pc : {"off", "listen", "send", "done"}, seen : SUBSET Keys,
                item : SUBSET Recs, found : SUBSET Recs]
ForwarderRecords == [pc : {"recv", "send", "done"}, item : SUBSET Recs]
CollectRecords == [pc : {"off", "recv", "returned"},
                   seen : SUBSET {lower(r.id) : r \in Recs}, out : Seq(Recs)]
DiscoveryTypes ==
    /\ call.kind \in {"until", "payload", "thread"}
    /\ src \in [Transports -> ScanRecords] /\ fwd \in [Transports -> ForwarderRecords]
    /\ chan \in [Transports -> Seq(Recs)] /\ merged \in Seq(Recs) /\ heard \in Seq(Recs)
    /\ col \in CollectRecords

\* collect_until knows the ids of what it returns, and stops at the first that
\* the caller wants.
Collected ==
    /\ col.seen = {lower(r.id) : r \in Range(col.out)}
    /\ \A i, j \in DOMAIN col.out :
          /\ i # j => lower(col.out[i].id) # lower(col.out[j].id)
          /\ col.out[i].id.dev \in Wanted => i = Len(col.out) /\ col.pc = "returned"

\* An accessory between the scans and collect_until.
Carried(t) == Range(chan[t]) \cup fwd[t].item \cup src[t].item
InFlight == Range(merged) \cup UNION {Carried(t) : t \in Transports}

Running == Streaming /\ col.pc # "returned"

\* Until collect_until returns, a task holds the accessory it is sending and no
\* other, and a forwarder ends only after its scan, with nothing left.
Channel(t) ==
    /\ t \notin Used => src[t].pc = "off" /\ fwd[t].pc = "done"
    /\ Running => /\ \A r, q \in src[t].item : r = q
                  /\ \A r, q \in fwd[t].item : r = q
                  /\ src[t].pc # "send" => src[t].item = {}
                  /\ fwd[t].pc # "send" => fwd[t].item = {}
                  /\ fwd[t].pc = "done" => chan[t] = <<>> /\ Ended(t)
Channels == \A t \in Transports : Channel(t)

\* Every accessory heard is on its way, until a wanted one makes the rest
\* pointless.
OnItsWay ==
    /\ Running => \A h \in Range(heard) :
                     \E r \in InFlight \cup Range(col.out) : r.id.dev = h.id.dev
    /\ Streaming => InFlight \cup Range(col.out) \subseteq Range(heard)
    /\ Streaming /\ col.pc = "returned" /\ (\A r \in Range(col.out) : r.id.dev \notin Wanted) =>
          /\ \A t \in Transports : Ended(t)
          /\ \A h \in Range(heard) : \E r \in Range(col.out) : r.id.dev = h.id.dev

\* A scan knows what it heard, by the key it counts duplicates by.
KnownKeys ==
    /\ \A h \in Range(heard) : h.via \in Used
    /\ \A t \in Transports : src[t].seen = {h.key : h \in {g \in Range(heard) : g.via = t}}

\* What a blocking scan keeps of what was heard.
Kept(h, t, k) ==
    /\ h[k].via = t
    /\ \A j \in DOMAIN h : h[j].via = t /\ h[j].key = h[k].key
                               => IF t = "ble" THEN k <= j ELSE j <= k
Newest(h, t) == {h[i] : i \in {k \in DOMAIN h : Kept(h, t, k)}}
Blocking ==
    ~Streaming => /\ col.pc = "off" /\ col.out = <<>>
                  /\ \A t \in Transports : src[t].found = Newest(heard, t)

DiscoveryInv ==
    DiscoveryTypes /\ Collected /\ Channels /\ OnItsWay /\ KnownKeys /\ Blocking

-----------------------------------------------------------------------------
(* facts that the steps share *)

\* What a sequence has after an element is appended, and without its first.
LEMMA AppendSet ==
    ASSUME NEW S, NEW s \in Seq(S), NEW x \in S
    PROVE  Append(s, x) \in Seq(S) /\ Range(Append(s, x)) = Range(s) \cup {x}
<1>1. /\ Append(s, x) \in Seq(S) /\ Len(Append(s, x)) = Len(s) + 1 /\ Len(s) \in Nat
      /\ DOMAIN s = 1..Len(s) /\ DOMAIN Append(s, x) = 1..(Len(s) + 1)
      /\ Append(s, x)[Len(s) + 1] = x /\ \A i \in 1..Len(s) : Append(s, x)[i] = s[i]
  OBVIOUS
<1>2. Range(Append(s, x)) \subseteq Range(s) \cup {x} BY <1>1 DEF Range
<1>3. Range(s) \cup {x} \subseteq Range(Append(s, x))
  <2>1. \A i \in 1..Len(s) : i \in 1..(Len(s) + 1) BY <1>1
  <2>2. Len(s) + 1 \in 1..(Len(s) + 1) BY <1>1
  <2> QED BY <1>1, <2>1, <2>2, Zenon DEF Range
<1> QED BY <1>1, <1>2, <1>3, Zenon

LEMMA HeadSet ==
    ASSUME NEW S, NEW s \in Seq(S), s # <<>>
    PROVE  /\ Head(s) \in S /\ Tail(s) \in Seq(S)
           /\ Range(s) = Range(Tail(s)) \cup {Head(s)}
<1>1. /\ Len(s) \in Nat /\ Len(s) # 0 /\ Head(s) = s[1] /\ Tail(s) \in Seq(S)
      /\ DOMAIN s = 1..Len(s) /\ DOMAIN Tail(s) = 1..(Len(s) - 1)
      /\ \A i \in 1..(Len(s) - 1) : Tail(s)[i] = s[i + 1]
  OBVIOUS
<1>2. 1 \in DOMAIN s /\ Head(s) \in S BY <1>1
<1>3. \A i \in DOMAIN Tail(s) : i + 1 \in DOMAIN s BY <1>1
<1>4. \A k \in DOMAIN s : k # 1 => k - 1 \in DOMAIN Tail(s) /\ Tail(s)[k - 1] = s[k] BY <1>1
<1>5. Range(s) \subseteq Range(Tail(s)) \cup {Head(s)}
  <2>1. ASSUME NEW k \in DOMAIN s PROVE s[k] \in Range(Tail(s)) \cup {Head(s)}
    <3>1. CASE k = 1 BY <1>1, <3>1, Zenon
    <3>2. CASE k # 1
      <4>1. Tail(s)[k - 1] \in Range(Tail(s)) BY <1>4, <3>2, Zenon DEF Range
      <4> QED BY <1>4, <3>2, <4>1, Zenon
    <3> QED BY <3>1, <3>2, Zenon
  <2> QED BY <2>1, Zenon DEF Range
<1>6. Range(Tail(s)) \cup {Head(s)} \subseteq Range(s) BY <1>1, <1>2, <1>3 DEF Range
<1> QED BY <1>1, <1>2, <1>5, <1>6, Zenon

\* The elements of an empty sequence and of a typed one.
LEMMA SetOf ==
    /\ Range(<<>>) = {}
    /\ \A S : \A s \in Seq(S) : Range(s) \subseteq S
  BY DEF Range

\* A record says how it was heard, and what its accessory is.
LEMMA RecordFacts ==
    /\ \A s \in Sightings : s.via \in Transports /\ \A r \in Records(s) : r.via = s.via
    /\ \A r \in Recs : r.via \in Transports /\ r.key \in Keys
    /\ \A r, q \in Recs : r.via = q.via /\ r.key = q.key => r.id.dev = q.id.dev
    /\ \A r, q \in Recs : lower(r.id) = lower(q.id) => r.id.dev = q.id.dev
<1>1. ASSUME NEW s \in Sightings, NEW r \in Records(s)
      PROVE  r.via = s.via /\ s.via \in Transports
  <2>0. s.via \in Transports BY DiscoveryAssumption, Zenon
  <2>1. CASE s.via = "ip" BY <2>0, <2>1 DEF Records, parse_txt
  <2>2. CASE s.via = "thread"
    <3>1. PICK a \in addresses(s.resolved, "v6") : r \in parse_thread_txt(s.txt, a)
      BY <2>2, Zenon DEF Records
    <3>2. PICK q \in parse_txt(s.txt, a) : r = [q EXCEPT !.via = "thread", !.setup_hash = {}]
      BY <3>1, Zenon DEF parse_thread_txt
    <3>3. r.via = "thread" BY <3>2, Zenon DEF parse_txt
    <3> QED BY <2>0, <2>2, <3>3, Zenon
  <2>3. CASE s.via = "ble" BY <2>0, <2>3 DEF Records, parse_hap_advert
  <2> QED BY <2>0, <2>1, <2>2, <2>3, Zenon DEF Transports
<1>2. \A r \in Recs : r.via \in Transports /\ r.key \in Keys BY <1>1, Zenon DEF Recs, Keys
<1>3. ASSUME NEW r \in Recs, NEW q \in Recs, r.via = q.via, r.key = q.key
      PROVE  r.id.dev = q.id.dev
  <2>1. PICK s \in Sightings : r \in Records(s) BY Zenon DEF Recs
  <2>2. PICK u \in Sightings : q \in Records(u) BY Zenon DEF Recs
  <2> QED BY <1>1, <1>3, <2>1, <2>2, DiscoveryAssumption
<1>4. ASSUME NEW r \in Recs, NEW q \in Recs, lower(r.id) = lower(q.id)
      PROVE  r.id.dev = q.id.dev
  <2>1. DOMAIN r.id = {"dev", "case"} /\ DOMAIN q.id = {"dev", "case"}
    BY DiscoveryAssumption DEF Recs
  <2>2. lower(r.id).dev = r.id.dev /\ lower(q.id).dev = q.id.dev BY <2>1, Zenon DEF lower
  <2> QED BY <1>4, <2>2, Zenon
<1> QED BY <1>1, <1>2, <1>3, <1>4, DiscoveryAssumption, Zenon

\* The types, field by field.
LEMMA DiscoveryFacts ==
    ASSUME DiscoveryInv
    PROVE  /\ src \in [Transports -> ScanRecords] /\ fwd \in [Transports -> ForwarderRecords]
           /\ chan \in [Transports -> Seq(Recs)] /\ merged \in Seq(Recs) /\ heard \in Seq(Recs)
           /\ \A t \in Transports :
                 /\ src[t] \in ScanRecords /\ src[t].pc \in {"off", "listen", "send", "done"}
                 /\ src[t].seen \in SUBSET Keys /\ src[t].item \in SUBSET Recs
                 /\ src[t].found \in SUBSET Recs
                 /\ fwd[t] \in ForwarderRecords /\ fwd[t].pc \in {"recv", "send", "done"}
                 /\ fwd[t].item \in SUBSET Recs /\ chan[t] \in Seq(Recs)
           /\ col \in CollectRecords /\ col.pc \in {"off", "recv", "returned"}
           /\ col.out \in Seq(Recs) /\ col.seen \in SUBSET {lower(r.id) : r \in Recs}
           /\ Used \subseteq Transports
<1>1. /\ src \in [Transports -> ScanRecords] /\ fwd \in [Transports -> ForwarderRecords]
      /\ chan \in [Transports -> Seq(Recs)] /\ merged \in Seq(Recs) /\ heard \in Seq(Recs)
      /\ col \in CollectRecords
  BY Zenon DEF DiscoveryInv, DiscoveryTypes
<1>2. ASSUME NEW t \in Transports
      PROVE  /\ src[t] \in ScanRecords /\ fwd[t] \in ForwarderRecords /\ chan[t] \in Seq(Recs)
             /\ src[t].pc \in {"off", "listen", "send", "done"} /\ src[t].seen \in SUBSET Keys
             /\ src[t].item \in SUBSET Recs /\ src[t].found \in SUBSET Recs
             /\ fwd[t].pc \in {"recv", "send", "done"} /\ fwd[t].item \in SUBSET Recs
  <2>1. src[t] \in ScanRecords /\ fwd[t] \in ForwarderRecords /\ chan[t] \in Seq(Recs) BY <1>1, Zenon
  <2> QED BY <2>1, Zenon DEF ScanRecords, ForwarderRecords
<1>3. /\ col.pc \in {"off", "recv", "returned"} /\ col.out \in Seq(Recs)
      /\ col.seen \in SUBSET {lower(r.id) : r \in Recs}
  BY <1>1, Zenon DEF CollectRecords
<1>4. Used \subseteq Transports BY Zenon DEF Used, Transports
<1> QED BY <1>1, <1>2, <1>3, <1>4, Zenon

\* A step that changes neither what was heard nor what collect_until has, and
\* loses nothing that is still wanted.
LEMMA StepAlong ==
    ASSUME DiscoveryInv, UNCHANGED <<call, col, heard>>,
           DiscoveryTypes', Channels',
           \A t \in Transports : src'[t].seen = src[t].seen /\ src'[t].found = src[t].found,
           \A t \in Transports : Ended(t) => Ended(t)',
           InFlight' \subseteq InFlight, Running => InFlight \subseteq InFlight'
    PROVE  DiscoveryInv'
<1>1. Streaming' = Streaming /\ Used' = Used /\ Running' = Running BY Zenon DEF Streaming, Used, Running
<1>2. Collected' BY Zenon DEF DiscoveryInv, Collected
<1>3. OnItsWay'
  <2>1. Running => \A h \in Range(heard) :
                      \E r \in InFlight' \cup Range(col.out) : r.id.dev = h.id.dev
    BY Zenon DEF DiscoveryInv, OnItsWay
  <2>2. Streaming => InFlight' \cup Range(col.out) \subseteq Range(heard)
    BY Zenon DEF DiscoveryInv, OnItsWay
  <2>3. Streaming /\ col.pc = "returned" /\ (\A r \in Range(col.out) : r.id.dev \notin Wanted) =>
          /\ \A t \in Transports : Ended(t)'
          /\ \A h \in Range(heard) : \E r \in Range(col.out) : r.id.dev = h.id.dev
    BY Zenon DEF DiscoveryInv, OnItsWay
  <2> QED BY <1>1, <2>1, <2>2, <2>3, Zenon DEF OnItsWay
<1>4. KnownKeys' BY <1>1, Zenon DEF DiscoveryInv, KnownKeys
<1>5. Blocking' BY <1>1, Zenon DEF DiscoveryInv, Blocking
<1> QED BY <1>2, <1>3, <1>4, <1>5, Zenon DEF DiscoveryInv

\* A channel that a step leaves alone.
LEMMA OtherChannel ==
    ASSUME DiscoveryInv, UNCHANGED <<call, col>>, NEW u \in Transports,
           src'[u] = src[u], fwd'[u] = fwd[u], chan'[u] = chan[u]
    PROVE  Channel(u)'
<1>1. Used' = Used /\ Running' = Running BY Zenon DEF Used, Running, Streaming
<1>2. Ended(u)' = Ended(u) BY Zenon DEF Ended
<1> QED BY <1>1, <1>2 DEF DiscoveryInv, Channels, Channel

\* A scan ends: its window, its stream or its receiver is gone.
LEMMA StopsKeeps ==
    ASSUME DiscoveryInv, NEW t \in Used, Stops(t),
           src[t].pc = "listen" \/ ~Running,
           UNCHANGED <<call, chan, fwd, merged, col, heard>>
    PROVE  DiscoveryInv'
<1>f. DiscoveryFacts!2 BY DiscoveryFacts, Zenon
<1>0. t \in Transports BY <1>f, Zenon
<1>1. src' = [src EXCEPT ![t].pc = "done"] BY Zenon DEF Stops
<1>2. \A u \in Transports :
        /\ u # t => src'[u] = src[u]
        /\ src'[u].seen = src[u].seen /\ src'[u].found = src[u].found
        /\ src'[u].item = src[u].item
  BY <1>0, <1>1, <1>f, Zenon DEF ScanRecords
<1>3. src'[t].pc = "done" BY <1>0, <1>1, <1>f, Zenon DEF ScanRecords
<1>4. DiscoveryTypes'
  <2>1. src' \in [Transports -> ScanRecords] BY <1>0, <1>1, <1>f DEF ScanRecords
  <2> QED BY <2>1, Zenon DEF DiscoveryInv, DiscoveryTypes
<1>5. \A u \in Transports : Ended(u) => Ended(u)' BY <1>2, <1>3, Zenon DEF Ended
<1>6. InFlight' = InFlight BY <1>2 DEF InFlight, Carried
<1>7. Channels'
  <2>1. Used' = Used /\ Running' = Running BY Zenon DEF Used, Running, Streaming
  <2>2. ASSUME NEW u \in Transports, Running, src'[u].pc # "send" PROVE src'[u].item = {}
    BY <2>2, <1>2 DEF DiscoveryInv, Channels, Channel
  <2> QED BY <1>2, <1>5, <2>1, <2>2 DEF DiscoveryInv, Channels, Channel
<1> QED BY <1>2, <1>4, <1>5, <1>6, <1>7, StepAlong, Zenon

\* tx.send of a scan task.
LEMMA SendsKeeps ==
    ASSUME DiscoveryInv, NEW t \in Used, Sends(t)
    PROVE  DiscoveryInv'
<1>f. DiscoveryFacts!2 BY DiscoveryFacts, Zenon
<1>0. t \in Transports /\ src[t].pc = "send" BY <1>f, Zenon DEF Sends
<1>u. UNCHANGED <<call, fwd, merged, col, heard>> BY Zenon DEF Sends
<1>1. CASE ReceiverGone(t)
  <2>1. Stops(t) /\ chan' = chan BY <1>1, Zenon DEF Sends
  <2>2. ~Running BY <1>0, <1>1, Zenon DEF DiscoveryInv, Channels, Channel, ReceiverGone, Ended
  <2> QED BY <1>u, <2>1, <2>2, StopsKeeps, Zenon
<1>2. CASE ~ReceiverGone(t)
  <2>1. PICK r \in src[t].item : chan' = [chan EXCEPT ![t] = Append(chan[t], r)]
    BY <1>2, Zenon DEF Sends
  <2>2. src' = [src EXCEPT ![t].pc = "listen", ![t].item = {}] BY <1>2, Zenon DEF Sends
  <2>3. r \in Recs BY <1>0, <1>f, Zenon
  <2>4. \A u \in Transports :
          /\ u # t => src'[u] = src[u] /\ chan'[u] = chan[u]
          /\ src'[u].seen = src[u].seen /\ src'[u].found = src[u].found
    BY <1>0, <1>f, <2>1, <2>2, Zenon DEF ScanRecords
  <2>5. /\ src'[t].pc = "listen" /\ src'[t].item = {}
        /\ chan'[t] = Append(chan[t], r)
    BY <1>0, <1>f, <2>1, <2>2, Zenon DEF ScanRecords
  <2>6. /\ src' \in [Transports -> ScanRecords] /\ chan' \in [Transports -> Seq(Recs)]
        /\ Range(chan'[t]) = Range(chan[t]) \cup {r}
    <3>1. Append(chan[t], r) \in Seq(Recs) /\ Range(Append(chan[t], r)) = Range(chan[t]) \cup {r}
      BY <1>0, <1>f, <2>3, AppendSet
    <3>2. src' \in [Transports -> ScanRecords]
      <4>1. src \in [Transports -> ScanRecords] BY <1>f, Zenon
      <4> QED BY <1>0, <2>2, <4>1 DEF ScanRecords
    <3> QED BY <1>0, <1>f, <2>1, <2>5, <3>1, <3>2, Zenon
  <2>7. DiscoveryTypes' BY <1>u, <2>6, Zenon DEF DiscoveryInv, DiscoveryTypes
  <2>8. \A u \in Transports : Ended(u) => Ended(u)' BY <1>0, <2>4, Zenon DEF Ended
  <2>9. Used' = Used /\ Running' = Running BY <1>u, Zenon DEF Used, Running, Streaming
  <2>10. Channels'
    <3>1. fwd[t].pc # "done" BY <1>2, Zenon DEF ReceiverGone
    <3>2. ASSUME NEW u \in Transports, u # t
          PROVE  Channel(u)'
      BY <3>2, <1>u, <2>4, OtherChannel, Zenon
    <3>3. /\ t \in Used'
          /\ Running' => /\ \A x, q \in src'[t].item : x = q
                         /\ \A x, q \in fwd'[t].item : x = q
                         /\ src'[t].pc # "send" => src'[t].item = {}
                         /\ fwd'[t].pc # "send" => fwd'[t].item = {}
                         /\ fwd'[t].pc # "done"
      BY <1>0, <1>u, <2>5, <2>9, <3>1, Zenon DEF DiscoveryInv, Channels, Channel
    <3>4. Channel(t)' BY <3>3, Zenon DEF Channel
    <3> QED BY <3>2, <3>4, Zenon DEF Channels
  <2>11. Carried(t)' \subseteq Carried(t) /\ (Running => Carried(t) \subseteq Carried(t)')
    <3>1. Running => src[t].item \subseteq {r} BY <1>0, Zenon DEF DiscoveryInv, Channels, Channel
    <3> QED BY <1>u, <2>5, <2>6, <3>1, Zenon DEF Carried
  <2>12. \A u \in Transports : u # t => Carried(u)' = Carried(u) BY <1>u, <2>4, Zenon DEF Carried
  <2>13. InFlight' \subseteq InFlight /\ (Running => InFlight \subseteq InFlight')
    BY <1>u, <2>11, <2>12, Zenon DEF InFlight
  <2> QED BY <1>u, <2>4, <2>7, <2>8, <2>10, <2>13, StepAlong, Zenon
<1> QED BY <1>1, <1>2, Zenon

\* rx.recv of a forwarder.
LEMMA ForwarderReceivesKeeps ==
    ASSUME DiscoveryInv, NEW t \in Used, ForwarderReceives(t)
    PROVE  DiscoveryInv'
<1>f. DiscoveryFacts!2 BY DiscoveryFacts, Zenon
<1>0. t \in Transports /\ fwd[t].pc = "recv" BY <1>f, Zenon DEF ForwarderReceives
<1>u. UNCHANGED <<call, src, merged, col, heard>> BY Zenon DEF ForwarderReceives
<1>1. Used' = Used /\ Running' = Running BY <1>u, Zenon DEF Used, Running, Streaming
<1>2. \A u \in Transports : Ended(u)' = Ended(u) BY <1>u, Zenon DEF Ended
<1>3. CASE chan[t] # <<>>
  <2>1. /\ fwd' = [fwd EXCEPT ![t] = [pc |-> "send", item |-> {Head(chan[t])}]]
        /\ chan' = [chan EXCEPT ![t] = Tail(chan[t])]
    BY <1>3, Zenon DEF ForwarderReceives
  <2>2. /\ Head(chan[t]) \in Recs /\ Tail(chan[t]) \in Seq(Recs)
        /\ Range(chan[t]) = Range(Tail(chan[t])) \cup {Head(chan[t])}
    BY <1>0, <1>f, <1>3, HeadSet, Zenon
  <2>3. /\ fwd'[t] = [pc |-> "send", item |-> {Head(chan[t])}] /\ chan'[t] = Tail(chan[t])
        /\ \A u \in Transports : u # t => fwd'[u] = fwd[u] /\ chan'[u] = chan[u]
    BY <1>0, <1>f, <2>1, Zenon
  <2>4. fwd'[t].pc = "send" /\ fwd'[t].item = {Head(chan[t])} BY <2>3
  <2>5. fwd' \in [Transports -> ForwarderRecords] /\ chan' \in [Transports -> Seq(Recs)]
    BY <1>0, <1>f, <2>1, <2>2, Zenon DEF ForwarderRecords
  <2>6. DiscoveryTypes' BY <1>u, <2>5, Zenon DEF DiscoveryInv, DiscoveryTypes
  <2>7. Channels'
    <3>1. ASSUME NEW u \in Transports, u # t
          PROVE  Channel(u)'
      BY <3>1, <1>u, <2>3, OtherChannel, Zenon
    <3>2. /\ t \in Used'
          /\ Running' => /\ \A x, q \in src'[t].item : x = q
                         /\ \A x, q \in fwd'[t].item : x = q
                         /\ src'[t].pc # "send" => src'[t].item = {}
                         /\ fwd'[t].pc = "send"
      BY <1>0, <1>u, <1>1, <2>4, Zenon DEF DiscoveryInv, Channels, Channel
    <3>3. Channel(t)' BY <3>2, Zenon DEF Channel
    <3> QED BY <3>1, <3>3, Zenon DEF Channels
  <2>8. Carried(t)' \subseteq Carried(t) /\ (Running => Carried(t) \subseteq Carried(t)')
    <3>1. Running => fwd[t].item = {} BY <1>0, Zenon DEF DiscoveryInv, Channels, Channel
    <3> QED BY <1>u, <2>2, <2>3, <2>4, <3>1, Zenon DEF Carried
  <2>9. \A u \in Transports : u # t => Carried(u)' = Carried(u) BY <1>u, <2>3, Zenon DEF Carried
  <2>10. InFlight' \subseteq InFlight /\ (Running => InFlight \subseteq InFlight')
    BY <1>u, <2>8, <2>9, Zenon DEF InFlight
  <2> QED BY <1>u, <1>2, <2>6, <2>7, <2>10, StepAlong, Zenon
<1>4. CASE chan[t] = <<>>
  <2>1. fwd' = [fwd EXCEPT ![t].pc = "done"] /\ chan' = chan /\ Ended(t)
    BY <1>4, Zenon DEF ForwarderReceives
  <2>2. /\ fwd'[t].pc = "done" /\ fwd'[t].item = fwd[t].item
        /\ \A u \in Transports : u # t => fwd'[u] = fwd[u]
    BY <1>0, <1>f, <2>1, Zenon DEF ForwarderRecords
  <2>3. fwd' \in [Transports -> ForwarderRecords]
    BY <1>0, <1>f, <2>1 DEF ForwarderRecords
  <2>4. DiscoveryTypes' BY <1>u, <2>1, <2>3, Zenon DEF DiscoveryInv, DiscoveryTypes
  <2>5. Channels'
    <3>1. ASSUME NEW u \in Transports, u # t
          PROVE  Channel(u)'
      BY <3>1, <1>u, <2>1, <2>2, OtherChannel, Zenon
    <3>2. /\ t \in Used'
          /\ Running' => /\ \A x, q \in src'[t].item : x = q
                         /\ fwd'[t].item = {}
                         /\ src'[t].pc # "send" => src'[t].item = {}
                         /\ chan'[t] = <<>> /\ Ended(t)'
      BY <1>0, <1>u, <1>1, <1>2, <1>4, <2>1, <2>2, Zenon DEF DiscoveryInv, Channels, Channel
    <3>3. Channel(t)' BY <3>2, Zenon DEF Channel
    <3> QED BY <3>1, <3>3, Zenon DEF Channels
  <2>6. \A u \in Transports : Carried(u)' = Carried(u) BY <1>u, <2>1, <2>2, Zenon DEF Carried
  <2>7. InFlight' = InFlight BY <1>u, <2>6, Zenon DEF InFlight
  <2> QED BY <1>u, <1>2, <2>4, <2>5, <2>7, StepAlong, Zenon
<1> QED BY <1>3, <1>4, Zenon

\* tx.send of a forwarder.
LEMMA ForwarderSendsKeeps ==
    ASSUME DiscoveryInv, NEW t \in Used, ForwarderSends(t)
    PROVE  DiscoveryInv'
<1>f. DiscoveryFacts!2 BY DiscoveryFacts, Zenon
<1>0. t \in Transports /\ fwd[t].pc = "send" BY <1>f, Zenon DEF ForwarderSends
<1>u. UNCHANGED <<call, src, chan, col, heard>> BY Zenon DEF ForwarderSends
<1>1. Used' = Used /\ Running' = Running BY <1>u, Zenon DEF Used, Running, Streaming
<1>2. \A u \in Transports : Ended(u)' = Ended(u) BY <1>u, Zenon DEF Ended
<1>3. PICK pc \in {"recv", "done"} :
        /\ fwd' = [fwd EXCEPT ![t] = [pc |-> pc, item |-> {}]]
        /\ col.pc # "returned" => pc = "recv"
  BY Zenon DEF ForwarderSends
<1>4. /\ fwd'[t] = [pc |-> pc, item |-> {}]
      /\ \A u \in Transports : u # t => fwd'[u] = fwd[u]
  BY <1>0, <1>f, <1>3, Zenon
<1>5. fwd'[t].pc = pc /\ fwd'[t].item = {} BY <1>4
<1>6. fwd' \in [Transports -> ForwarderRecords] BY <1>0, <1>f, <1>3, Zenon DEF ForwarderRecords
<1>7. merged' \in Seq(Recs) /\ (\/ merged' = merged /\ ~Running
                                \/ \E r \in fwd[t].item : Range(merged') = Range(merged) \cup {r})
  <2>1. CASE col.pc = "returned"
    <3>1. merged' = merged BY <2>1, Zenon DEF ForwarderSends
    <3> QED BY <1>f, <2>1, <3>1, Zenon DEF Running
  <2>2. CASE col.pc # "returned"
    <3>1. PICK r \in fwd[t].item : merged' = Append(merged, r) BY <2>2, Zenon DEF ForwarderSends
    <3>2. r \in Recs BY <1>0, <1>f, Zenon
    <3>3. Append(merged, r) \in Seq(Recs) /\ Range(Append(merged, r)) = Range(merged) \cup {r}
      BY <1>f, <3>2, AppendSet
    <3> QED BY <3>1, <3>3, Zenon
  <2> QED BY <2>1, <2>2, Zenon
<1>8. DiscoveryTypes' BY <1>u, <1>6, <1>7, Zenon DEF DiscoveryInv, DiscoveryTypes
<1>9. Channels'
  <2>1. ASSUME NEW u \in Transports, u # t
        PROVE  Channel(u)'
      BY <2>1, <1>u, <1>4, OtherChannel, Zenon
  <2>2. Running' => fwd'[t].pc = "recv" BY <1>1, <1>3, <1>5, Zenon DEF Running
  <2>3. /\ t \in Used'
        /\ Running' => /\ \A x, q \in src'[t].item : x = q
                       /\ fwd'[t].item = {}
                       /\ src'[t].pc # "send" => src'[t].item = {}
                       /\ fwd'[t].pc # "done"
    BY <1>0, <1>u, <1>1, <1>5, <2>2, Zenon DEF DiscoveryInv, Channels, Channel
  <2>4. Channel(t)' BY <2>3, Zenon DEF Channel
  <2> QED BY <2>1, <2>4, Zenon DEF Channels
<1>10. \A u \in Transports : u # t => Carried(u)' = Carried(u) BY <1>u, <1>4, Zenon DEF Carried
<1>11. /\ Carried(t)' \subseteq Carried(t)
       /\ Carried(t) = Carried(t)' \cup fwd[t].item
  BY <1>u, <1>5, Zenon DEF Carried
<1>12. InFlight' \subseteq InFlight
  BY <1>0, <1>7, <1>10, <1>11, Zenon DEF InFlight
<1>13. Running => InFlight \subseteq InFlight'
  <2>1. ASSUME Running, NEW x \in fwd[t].item PROVE x \in Range(merged')
    BY <1>0, <1>7, <2>1, Zenon DEF DiscoveryInv, Channels, Channel
  <2>2. Running => Range(merged) \subseteq Range(merged') BY <1>7, Zenon
  <2> QED BY <1>0, <1>10, <1>11, <2>1, <2>2, Zenon DEF InFlight
<1> QED BY <1>u, <1>2, <1>8, <1>9, <1>12, <1>13, StepAlong, Zenon

\* A step outside the channels and the scans.
LEMMA StillKeeps ==
    ASSUME DiscoveryInv, UNCHANGED <<call, src, chan, fwd, merged, col, heard>>
    PROVE  DiscoveryInv'
<1>1. Used' = Used /\ Running' = Running BY Zenon DEF Used, Running, Streaming
<1>2. \A u \in Transports : Ended(u)' = Ended(u) BY Zenon DEF Ended
<1>3. DiscoveryTypes' BY Zenon DEF DiscoveryInv, DiscoveryTypes
<1>4. Channels' BY <1>1, <1>2, Zenon DEF DiscoveryInv, Channels, Channel
<1>5. InFlight' = InFlight BY Zenon DEF InFlight, Carried
<1> QED BY <1>2, <1>3, <1>4, <1>5, StepAlong, Zenon

\* One turn of collect_until.
LEMMA CollectKeeps ==
    ASSUME DiscoveryInv, Collect
    PROVE  DiscoveryInv'
<1>f. DiscoveryFacts!2 BY DiscoveryFacts, Zenon
<1>0. col.pc = "recv" /\ Streaming BY Zenon DEF Collect, DiscoveryInv, Blocking
<1>u. UNCHANGED <<call, src, chan, fwd, heard>> BY Zenon DEF Collect
<1>r. Running BY <1>0, Zenon DEF Running
<1>1. Used' = Used /\ Streaming' BY <1>0, <1>u, Zenon DEF Used, Streaming
<1>2. \A t \in Transports : Ended(t)' = Ended(t) /\ Carried(t)' = Carried(t)
  BY <1>u, Zenon DEF Ended, Carried
<1>3. Channels' BY <1>r, <1>u, <1>1, <1>2, Zenon DEF DiscoveryInv, Channels, Channel
<1>4. KnownKeys' BY <1>u, <1>1, Zenon DEF DiscoveryInv, KnownKeys
<1>5. Blocking' BY <1>1, Zenon DEF Blocking
<1>6. CASE merged = <<>>
  <2>1. col' = [col EXCEPT !.pc = "returned"] /\ merged' = merged
        /\ \A t \in Used : fwd[t].pc = "done"
    BY <1>6, Zenon DEF Collect
  <2>2. /\ col'.pc = "returned" /\ col'.out = col.out /\ col'.seen = col.seen
        /\ col' \in CollectRecords
    BY <1>f, <2>1, Zenon DEF CollectRecords
  <2>3. \A t \in Transports : fwd[t].pc = "done" BY <2>1, Zenon DEF DiscoveryInv, Channels, Channel
  <2>4. \A t \in Transports : Ended(t) /\ chan[t] = <<>> /\ fwd[t].item = {}
    BY <1>r, <2>3, Zenon DEF DiscoveryInv, Channels, Channel
  <2>5. \A t \in Transports : src[t].item = {}
    BY <1>r, <2>4, Zenon DEF DiscoveryInv, Channels, Channel, Ended
  <2>6. InFlight = {} /\ InFlight' = {}
    BY <1>2, <1>6, <2>1, <2>4, <2>5, SetOf, SMTT(30) DEF InFlight, Carried
  <2>7. OnItsWay'
    <3>1. \A h \in Range(heard) : \E r \in Range(col.out) : r.id.dev = h.id.dev
      BY <1>r, <2>6, Zenon DEF DiscoveryInv, OnItsWay
    <3>2. Range(col.out) \subseteq Range(heard) BY <1>0, Zenon DEF DiscoveryInv, OnItsWay
    <3>3. ~Running' BY <2>2, Zenon DEF Running
    <3> QED BY <1>u, <1>2, <2>2, <2>4, <2>6, <3>1, <3>2, <3>3, Zenon DEF OnItsWay
  <2>8. Collected' BY <2>2, Zenon DEF DiscoveryInv, Collected
  <2>9. DiscoveryTypes' BY <1>u, <2>1, <2>2, Zenon DEF DiscoveryInv, DiscoveryTypes
  <2> QED BY <1>3, <1>4, <1>5, <2>7, <2>8, <2>9, Zenon DEF DiscoveryInv
<1>7. CASE merged # <<>>
  <2> DEFINE d == Head(merged)
  <2>1. merged' = Tail(merged) BY <1>7, Zenon DEF Collect
  <2>2. d \in Recs /\ Tail(merged) \in Seq(Recs) /\ Range(merged) = Range(merged') \cup {d}
    BY <1>f, <1>7, <2>1, HeadSet, Zenon
  <2>3. InFlight = InFlight' \cup {d} BY <1>2, <2>2, Zenon DEF InFlight
  <2>4. /\ \A h \in Range(heard) : \E r \in InFlight \cup Range(col.out) : r.id.dev = h.id.dev
        /\ InFlight \cup Range(col.out) \subseteq Range(heard)
    BY <1>0, <1>r, Zenon DEF DiscoveryInv, OnItsWay
  <2>5. Range(col.out) \subseteq Recs BY <1>f, SetOf, Zenon
  <2>6. CASE lower(d.id) \in col.seen
    <3>1. col' = col BY <1>7, <2>6, Zenon DEF Collect, Seen
    <3>2. PICK q \in Range(col.out) : lower(q.id) = lower(d.id)
      BY <2>6, Zenon DEF DiscoveryInv, Collected
    <3>3. q.id.dev = d.id.dev BY <2>2, <2>5, <3>2, RecordFacts, Zenon
    <3>4. OnItsWay'
      <4>1. \A h \in Range(heard) : \E r \in InFlight' \cup Range(col.out) : r.id.dev = h.id.dev
        BY <2>3, <2>4, <3>2, <3>3, Zenon
      <4>2. InFlight' \cup Range(col.out) \subseteq Range(heard) BY <2>3, <2>4, Zenon
      <4> QED BY <1>0, <1>u, <3>1, <4>1, <4>2, Zenon DEF OnItsWay
    <3>5. Collected' BY <3>1, Zenon DEF DiscoveryInv, Collected
    <3>6. DiscoveryTypes' BY <1>u, <2>1, <2>2, <3>1, Zenon DEF DiscoveryInv, DiscoveryTypes
    <3> QED BY <1>3, <1>4, <1>5, <3>4, <3>5, <3>6, Zenon DEF DiscoveryInv
  <2>7. CASE lower(d.id) \notin col.seen
    <3> DEFINE pc == IF d.id.dev \in Wanted THEN "returned" ELSE "recv"
    <3>1. col' = [pc |-> pc, seen |-> col.seen \cup {lower(d.id)}, out |-> Append(col.out, d)]
      BY <1>7, <2>7, Zenon DEF Collect, Seen
    <3>2. /\ Append(col.out, d) \in Seq(Recs)
          /\ Range(Append(col.out, d)) = Range(col.out) \cup {d}
      BY <1>f, <2>2, AppendSet
    <3> HIDE DEF d
    <3>3. /\ col'.pc = pc /\ col'.seen = col.seen \cup {lower(d.id)}
          /\ col'.out = Append(col.out, d)
      BY <3>1, Zenon
    <3>4. Range(col'.out) = Range(col.out) \cup {d} BY <3>2, <3>3, Zenon
    <3>5. OnItsWay'
      <4>1. InFlight' \cup Range(col'.out) = InFlight \cup Range(col.out) BY <2>3, <3>4, Zenon
      <4>2. d.id.dev \in Wanted \/ col'.pc # "returned" BY <3>3, Zenon
      <4>3. d \in Range(col'.out) BY <3>4, Zenon
      <4> HIDE DEF pc
      <4> QED BY <1>u, <2>4, <4>1, <4>2, <4>3, Zenon DEF OnItsWay
    <3>6. Collected'
      <4>1. col'.seen = {lower(r.id) : r \in Range(col'.out)}
        BY <3>3, <3>4, Zenon DEF DiscoveryInv, Collected
      <4>2. /\ Len(col.out) \in Nat /\ DOMAIN col.out = 1..Len(col.out)
            /\ DOMAIN col'.out = 1..(Len(col.out) + 1) /\ Len(col'.out) = Len(col.out) + 1
            /\ col'.out[Len(col.out) + 1] = d
            /\ \A i \in 1..Len(col.out) : col'.out[i] = col.out[i]
        BY <1>f, <2>2, <3>3
      <4>3. \A i \in DOMAIN col.out : lower(col.out[i].id) \in col.seen
        BY Zenon DEF DiscoveryInv, Collected, Range
      <4>4. \A i \in DOMAIN col.out : col.out[i].id.dev \notin Wanted
        BY <1>0, Zenon DEF DiscoveryInv, Collected
      <4>5. ASSUME NEW i \in DOMAIN col'.out, NEW j \in DOMAIN col'.out, i # j
            PROVE  lower(col'.out[i].id) # lower(col'.out[j].id)
        <5>1. \A k \in DOMAIN col'.out : k \in DOMAIN col.out \/ k = Len(col.out) + 1
          BY <4>2
        <5>2. CASE i \in DOMAIN col.out /\ j \in DOMAIN col.out
          BY <4>2, <4>5, <5>2, Zenon DEF DiscoveryInv, Collected
        <5>3. CASE i = Len(col.out) + 1 /\ j \in DOMAIN col.out
          BY <2>7, <4>2, <4>3, <5>3, Zenon
        <5>4. CASE j = Len(col.out) + 1 /\ i \in DOMAIN col.out
          BY <2>7, <4>2, <4>3, <5>4, Zenon
        <5> QED BY <4>5, <5>1, <5>2, <5>3, <5>4, Zenon
      <4>6. ASSUME NEW i \in DOMAIN col'.out, col'.out[i].id.dev \in Wanted
            PROVE  i = Len(col'.out) /\ col'.pc = "returned"
        <5>1. i = Len(col.out) + 1 BY <4>2, <4>4, <4>6
        <5> QED BY <3>3, <4>2, <4>6, <5>1, Zenon
      <4> QED BY <4>1, <4>5, <4>6, Zenon DEF Collected
    <3>7. DiscoveryTypes'
      <4>1. col' \in CollectRecords BY <1>f, <2>2, <3>1, <3>2, Zenon DEF CollectRecords
      <4> QED BY <1>u, <2>1, <2>2, <4>1, Zenon DEF DiscoveryInv, DiscoveryTypes
    <3> QED BY <1>3, <1>4, <1>5, <3>5, <3>6, <3>7, Zenon DEF DiscoveryInv
  <2> QED BY <2>6, <2>7, Zenon
<1> QED BY <1>6, <1>7, Zenon

-----------------------------------------------------------------------------
(* what is heard *)

\* A record more: mDNS keeps it in place of the one it had, BLE only if the
\* peripheral is new.
LEMMA NewestAppend ==
    ASSUME NEW h \in Seq(Recs), NEW r \in Recs, NEW t \in Transports
    PROVE  /\ r.via # t => Newest(Append(h, r), t) = Newest(h, t)
           /\ r.via = t /\ t = "ble" /\ (\E i \in DOMAIN h : h[i].via = t /\ h[i].key = r.key)
                 => Newest(Append(h, r), t) = Newest(h, t)
           /\ r.via = t /\ t = "ble" /\ (\A i \in DOMAIN h : h[i].via = t => h[i].key # r.key)
                 => Newest(Append(h, r), t) = Newest(h, t) \cup {r}
           /\ r.via = t /\ t # "ble"
                 => Newest(Append(h, r), t) = {q \in Newest(h, t) : q.key # r.key} \cup {r}
<1> DEFINE a == Append(h, r)
           n == Len(h) + 1
<1>1. /\ n \in Nat /\ n \notin DOMAIN h /\ a[n] = r
      /\ DOMAIN a = DOMAIN h \cup {n} /\ DOMAIN h \subseteq Nat
      /\ \A i \in DOMAIN h : a[i] = h[i] /\ i < n
  OBVIOUS
<1> HIDE DEF a, n
<1>2. \A i, j \in DOMAIN a : i \in Nat /\ j \in Nat BY <1>1, Zenon
<1>3. CASE r.via # t
  <2>1. \A k \in DOMAIN h : Kept(a, t, k) <=> Kept(h, t, k) BY <1>1, <1>3, Zenon DEF Kept
  <2>2. ~Kept(a, t, n) BY <1>1, <1>3, Zenon DEF Kept
  <2>3. Newest(a, t) = Newest(h, t) BY <1>1, <2>1, <2>2, Zenon DEF Newest
  <2> QED BY <1>3, <2>3, Zenon DEF a
<1>4. CASE r.via = t /\ t = "ble"
  <2>1. \A k \in DOMAIN h : Kept(a, t, k) <=> Kept(h, t, k)
    <3>1. \A k \in DOMAIN h : k <= n BY <1>1
    <3> QED BY <1>1, <1>4, <3>1, Zenon DEF Kept
  <2>2. Kept(a, t, n) <=> \A i \in DOMAIN h : h[i].via = t => h[i].key # r.key
    <3>1. \A k \in DOMAIN h : ~(n <= k) BY <1>1
    <3>2. n <= n BY <1>1
    <3> QED BY <1>1, <1>4, <3>1, <3>2, Zenon DEF Kept
  <2>3. Newest(a, t) = Newest(h, t) \cup (IF Kept(a, t, n) THEN {r} ELSE {})
    BY <1>1, <2>1, Zenon DEF Newest
  <2> QED BY <1>4, <2>2, <2>3, Zenon DEF a
<1>5. CASE r.via = t /\ t # "ble"
  <2>1. \A k \in DOMAIN h : Kept(a, t, k) <=> Kept(h, t, k) /\ h[k].key # r.key
    <3>1. \A k \in DOMAIN h : ~(n <= k) BY <1>1
    <3> QED BY <1>1, <1>5, <3>1, Zenon DEF Kept
  <2>2. Kept(a, t, n)
    <3>1. \A k \in DOMAIN a : k <= n BY <1>1
    <3> QED BY <1>1, <1>5, <3>1, Zenon DEF Kept
  <2>3. Newest(a, t) \subseteq {q \in Newest(h, t) : q.key # r.key} \cup {r}
    BY <1>1, <2>1 DEF Newest
  <2>4. {q \in Newest(h, t) : q.key # r.key} \cup {r} \subseteq Newest(a, t)
    BY <1>1, <2>1, <2>2, Zenon DEF Newest
  <2> QED BY <1>5, <2>3, <2>4, Zenon DEF a
<1> QED BY <1>3, <1>4, <1>5, Zenon

\* An event of a browse or of a scan.
LEMMA HearKeeps ==
    ASSUME DiscoveryInv, NEW s \in Sightings, NEW r \in Records(s), s.via \in Used,
           Hear(s.via, r)
    PROVE  DiscoveryInv'
<1> DEFINE t == s.via
<1>f. DiscoveryFacts!2 BY DiscoveryFacts, Zenon
<1>r. r \in Recs /\ r.via = t /\ r.key \in Keys BY RecordFacts, Zenon DEF Recs
<1>0. t \in Transports /\ t \in Used /\ src[t].pc = "listen" BY <1>f, Zenon DEF Hear
<1>u. UNCHANGED <<call, chan, fwd, merged, col>> /\ heard' = Append(heard, r)
  BY Zenon DEF Hear, channelVars
<1>1. Used' = Used /\ Running' = Running /\ Streaming' = Streaming
  BY <1>u, Zenon DEF Used, Running, Streaming
<1>2. heard' \in Seq(Recs) /\ Range(heard') = Range(heard) \cup {r}
  <2>1. heard \in Seq(Recs) BY <1>f, Zenon
  <2> QED BY <1>r, <1>u, <2>1, AppendSet
<1>3. Range(heard) \subseteq Recs BY <1>f, SetOf, Zenon
<1> DEFINE known == r.key \in src[t].seen
           kept == IF t = "ble" THEN IF known THEN src[t].found ELSE src[t].found \cup {r}
                   ELSE {q \in src[t].found : q.key # r.key} \cup {r}
           new == IF ~Streaming
                  THEN [src[t] EXCEPT !.seen = src[t].seen \cup {r.key}, !.found = kept]
                  ELSE IF known THEN src[t]
                  ELSE [src[t] EXCEPT !.seen = src[t].seen \cup {r.key},
                                      !.pc = "send", !.item = {r}]
<1>4. src' = [src EXCEPT ![t] = new] BY Zenon DEF Hear
<1>5. /\ kept \in SUBSET Recs /\ src[t].seen \cup {r.key} \in SUBSET Keys
      /\ known \in BOOLEAN
  <2>1. src[t].seen \subseteq Keys /\ src[t].found \subseteq Recs BY <1>0, <1>f, Zenon
  <2> QED BY <1>r, <2>1
<1> HIDE DEF kept, known
<1>6. /\ new \in ScanRecords
      /\ new.seen = src[t].seen \cup {r.key}
      /\ new.item = (IF Streaming /\ ~known THEN {r} ELSE src[t].item)
      /\ new.pc = (IF Streaming /\ ~known THEN "send" ELSE "listen")
      /\ new.found = (IF Streaming THEN src[t].found ELSE kept)
  <2>1. CASE ~Streaming BY <1>0, <1>f, <1>5, <2>1 DEF ScanRecords
  <2>2. CASE Streaming /\ known BY <1>0, <1>f, <1>5, <2>2, Zenon DEF known
  <2>3. CASE Streaming /\ ~known BY <1>0, <1>f, <1>r, <1>5, <2>3 DEF ScanRecords
  <2> QED BY <1>5, <2>1, <2>2, <2>3, Zenon
<1> HIDE DEF new, t
<1>7. src' \in [Transports -> ScanRecords] /\ src'[t] = new
      /\ \A u \in Transports : u # t => src'[u] = src[u]
  BY <1>0, <1>f, <1>4, <1>6, Zenon
<1>8. DiscoveryTypes' BY <1>u, <1>2, <1>7, Zenon DEF DiscoveryInv, DiscoveryTypes
<1>9. Collected' BY <1>u, Zenon DEF DiscoveryInv, Collected
<1>10. \A u \in Transports : Ended(u)' = Ended(u) BY <1>0, <1>6, <1>7 DEF Ended
<1>11. Channels'
  <2>1. ASSUME NEW u \in Transports, u # t
        PROVE  Channel(u)'
      BY <2>1, <1>u, <1>7, OtherChannel, Zenon
  <2>2. Running => src[t].item = {} BY <1>0, Zenon DEF DiscoveryInv, Channels, Channel
  <2>3. ~Ended(t) BY <1>0, Zenon DEF Ended
  <2>4. Running' => /\ \A x, q \in src'[t].item : x = q
                    /\ src'[t].pc # "send" => src'[t].item = {}
    BY <1>1, <1>6, <1>7, <2>2, Zenon
  <2>5. Running' => /\ \A x, q \in fwd'[t].item : x = q
                    /\ fwd'[t].pc # "send" => fwd'[t].item = {}
                    /\ fwd'[t].pc # "done"
    BY <1>0, <1>u, <1>1, <2>3, Zenon DEF DiscoveryInv, Channels, Channel
  <2>6. Channel(t)' BY <1>0, <1>1, <2>4, <2>5, Zenon DEF Channel
  <2> QED BY <2>1, <2>6, Zenon DEF Channels
<1>12. KnownKeys'
  <2>1. \A h \in Range(heard') : h.via \in Used'
    BY <1>0, <1>1, <1>2, <1>r, Zenon DEF DiscoveryInv, KnownKeys
  <2>2. ASSUME NEW u \in Transports, u # t
        PROVE  src'[u].seen = {h.key : h \in {g \in Range(heard') : g.via = u}}
    <3>1. {g \in Range(heard') : g.via = u} = {g \in Range(heard) : g.via = u} BY <2>2, <1>2, <1>r, Zenon
    <3>2. src'[u].seen = src[u].seen BY <2>2, <1>7, Zenon
    <3> QED BY <3>1, <3>2, Zenon DEF DiscoveryInv, KnownKeys
  <2>3. src'[t].seen = {h.key : h \in {g \in Range(heard') : g.via = t}}
    <3>1. {g \in Range(heard') : g.via = t} = {g \in Range(heard) : g.via = t} \cup {r}
      BY <1>2, <1>r, Zenon
    <3>2. src'[t].seen = src[t].seen \cup {r.key} BY <1>6, <1>7, Zenon
    <3>3. src[t].seen = {h.key : h \in {g \in Range(heard) : g.via = t}}
      BY <1>0, Zenon DEF DiscoveryInv, KnownKeys
    <3> QED BY <3>1, <3>2, <3>3
  <2> QED BY <2>1, <2>2, <2>3, Zenon DEF KnownKeys
<1>13. known <=> \E h \in Range(heard) : h.via = t /\ h.key = r.key
  <2>1. src[t].seen = {h.key : h \in {g \in Range(heard) : g.via = t}}
    BY <1>0, Zenon DEF DiscoveryInv, KnownKeys
  <2> QED BY <2>1, Zenon DEF known
<1>14. OnItsWay'
  <2>1. \A u \in Transports : u # t => Carried(u)' = Carried(u) BY <1>u, <1>7, Zenon DEF Carried
  <2>2. Streaming => /\ Carried(t)' \subseteq Carried(t) \cup {r}
                     /\ ~known => r \in Carried(t)'
    BY <1>u, <1>6, <1>7, Zenon DEF Carried
  <2>3. Running => Carried(t) \subseteq Carried(t)'
    <3>1. Running => src[t].item = {} BY <1>0, Zenon DEF DiscoveryInv, Channels, Channel
    <3> QED BY <1>u, <1>7, <3>1, Zenon DEF Carried
  <2>4. /\ Streaming => InFlight' \subseteq InFlight \cup {r}
        /\ Streaming /\ ~known => r \in InFlight'
        /\ Running => InFlight \subseteq InFlight'
    BY <1>0, <1>u, <2>1, <2>2, <2>3 DEF InFlight
  <2>5. ASSUME Running
        PROVE  \A h \in Range(heard') : \E q \in InFlight' \cup Range(col.out) : q.id.dev = h.id.dev
    <3>1. \A h \in Range(heard) : \E q \in InFlight' \cup Range(col.out) : q.id.dev = h.id.dev
      BY <2>4, <2>5, Zenon DEF DiscoveryInv, OnItsWay
    <3>2. \E q \in InFlight' \cup Range(col.out) : q.id.dev = r.id.dev
      <4>1. CASE known
        <5>1. PICK h \in Range(heard) : h.via = t /\ h.key = r.key BY <1>13, <4>1, Zenon
        <5>2. h.id.dev = r.id.dev BY <1>3, <1>r, <5>1, RecordFacts
        <5> QED BY <3>1, <5>2, Zenon
      <4>2. CASE ~known BY <2>4, <2>5, <4>2, Zenon DEF Running
      <4> QED BY <4>1, <4>2, Zenon
    <3> QED BY <1>2, <3>1, <3>2, Zenon
  <2>6. Streaming => InFlight' \cup Range(col.out) \subseteq Range(heard')
    BY <1>2, <2>4, Zenon DEF DiscoveryInv, OnItsWay
  <2>7. ~(Streaming /\ col.pc = "returned" /\ \A q \in Range(col.out) : q.id.dev \notin Wanted)
    BY <1>0, Zenon DEF DiscoveryInv, OnItsWay, Ended
  <2> QED BY <1>u, <1>1, <2>5, <2>6, <2>7, Zenon DEF OnItsWay
<1>15. Blocking'
  <2>1. SUFFICES ASSUME ~Streaming, NEW u \in Transports PROVE src'[u].found = Newest(heard', u)
    BY <1>u, <1>1, Zenon DEF DiscoveryInv, Blocking
  <2>0. heard \in Seq(Recs) /\ heard' = Append(heard, r) BY <1>f, <1>u, Zenon
  <2>2. src[u].found = Newest(heard, u) BY <2>1, Zenon DEF DiscoveryInv, Blocking
  <2>3. CASE u # t
    <3>1. Newest(heard', u) = Newest(heard, u) BY <1>r, <2>0, <2>3, NewestAppend, Zenon
    <3> QED BY <1>7, <2>2, <2>3, <3>1, Zenon
  <2>4. CASE u = t
    <3>1. known <=> \E i \in DOMAIN heard : heard[i].via = t /\ heard[i].key = r.key
      BY <1>13, Zenon DEF Range
    <3>2. src'[u].found = kept BY <1>6, <1>7, <2>1, <2>4, Zenon
    <3>3. CASE t # "ble"
      <4>1. Newest(heard', u) = {q \in Newest(heard, u) : q.key # r.key} \cup {r}
        BY <1>r, <2>0, <2>4, <3>3, NewestAppend
      <4> QED BY <2>2, <2>4, <3>2, <3>3, <4>1, Zenon DEF kept
    <3>4. CASE t = "ble" /\ known
      <4>1. Newest(heard', u) = Newest(heard, u)
        BY <1>r, <2>0, <2>4, <3>1, <3>4, NewestAppend, Zenon
      <4> QED BY <2>2, <2>4, <3>2, <3>4, <4>1, Zenon DEF kept
    <3>5. CASE t = "ble" /\ ~known
      <4>1. \A i \in DOMAIN heard : heard[i].via = t => heard[i].key # r.key BY <3>1, <3>5, Zenon
      <4>2. Newest(heard', u) = Newest(heard, u) \cup {r}
        BY <1>r, <2>0, <2>4, <3>5, <4>1, NewestAppend
      <4> QED BY <2>2, <2>4, <3>2, <3>5, <4>2, Zenon DEF kept
    <3> QED BY <1>5, <3>3, <3>4, <3>5, Zenon
  <2> QED BY <2>3, <2>4, Zenon
<1> QED BY <1>8, <1>9, <1>11, <1>12, <1>14, <1>15, Zenon DEF DiscoveryInv

\* Scans that have heard nothing.
LEMMA FreshScans ==
    ASSUME NEW started
    PROVE  /\ Scans(started) \in [Transports -> ScanRecords]
           /\ \A t \in Transports :
                 /\ Scans(started)[t].pc = (IF t \in started THEN "listen" ELSE "off")
                 /\ Scans(started)[t].seen = {} /\ Scans(started)[t].item = {}
                 /\ Scans(started)[t].found = {}
<1>1. \A pc : /\ Scan(pc).pc = pc /\ Scan(pc).seen = {} /\ Scan(pc).item = {}
              /\ Scan(pc).found = {}
  BY Zenon DEF Scan
<1>2. Scan("listen") \in ScanRecords /\ Scan("off") \in ScanRecords BY Zenon DEF Scan, ScanRecords
<1> QED BY <1>1, <1>2, Zenon DEF Scans

\* Another round of pair_with_payload.
LEMMA NextRoundKeeps ==
    ASSUME DiscoveryInv, NEW started \in SUBSET Used, NextRound(started)
    PROVE  DiscoveryInv'
<1>f. DiscoveryFacts!2 BY DiscoveryFacts, Zenon
<1>0. call.kind = "payload" /\ ~Streaming BY Zenon DEF NextRound, Streaming
<1>u. UNCHANGED <<call, chan, fwd, merged, col>> /\ heard' = <<>> /\ src' = Scans(started)
  BY Zenon DEF NextRound, channelVars
<1>1. Used' = Used /\ ~Streaming' /\ ~Running' BY <1>0, <1>u, Zenon DEF Used, Running, Streaming
<1>2. heard' \in Seq(Recs) /\ Range(heard') = {} BY <1>u, SetOf
<1>3. DiscoveryTypes' BY <1>u, <1>2, FreshScans, Zenon DEF DiscoveryInv, DiscoveryTypes
<1>4. Collected' BY <1>u, Zenon DEF DiscoveryInv, Collected
<1>5. Channels'
  <2>1. ASSUME NEW t \in Transports, t \notin Used PROVE src'[t].pc = "off" /\ fwd'[t].pc = "done"
    <3>1. src'[t].pc = "off" BY <2>1, <1>u, FreshScans, Zenon
    <3> QED BY <2>1, <1>u, <3>1, Zenon DEF DiscoveryInv, Channels, Channel
  <2> QED BY <1>1, <2>1, Zenon DEF Channels, Channel
<1>6. OnItsWay' BY <1>1, Zenon DEF OnItsWay
<1>7. KnownKeys' BY <1>u, <1>2, FreshScans DEF KnownKeys
<1>8. Blocking'
  <2>1. DOMAIN heard' = {} BY <1>u
  <2>2. \A t \in Transports : Newest(heard', t) = {} BY <2>1, Zenon DEF Newest
  <2>3. \A t \in Transports : src'[t].found = {} BY <1>u, FreshScans, Zenon
  <2>4. col'.pc = "off" /\ col'.out = <<>> BY <1>0, <1>u, Zenon DEF DiscoveryInv, Blocking
  <2> QED BY <2>2, <2>3, <2>4, Zenon DEF Blocking
<1> QED BY <1>3, <1>4, <1>5, <1>6, <1>7, <1>8, Zenon DEF DiscoveryInv

LEMMA DiscoveryInitially == DiscoveryInit => DiscoveryInv
<1> SUFFICES ASSUME DiscoveryInit PROVE DiscoveryInv BY Zenon
<1>1. PICK kind \in Calls, label \in Labels, started \in SUBSET Transports :
        /\ call = [kind |-> kind, label |-> label,
                   payload |-> IF kind = "payload" THEN parse_payload(label.uri) ELSE {}]
        /\ started \subseteq Used /\ src = Scans(started)
        /\ fwd = [t \in Transports |->
                     [pc |-> IF kind = "until" /\ t \in started THEN "recv" ELSE "done",
                      item |-> {}]]
        /\ chan = [t \in Transports |-> <<>>] /\ merged = <<>> /\ heard = <<>>
        /\ col = [pc |-> IF kind = "until" THEN "recv" ELSE "off", seen |-> {}, out |-> <<>>]
  BY Zenon DEF DiscoveryInit
<1>k. call.kind = kind BY <1>1, Zenon
<1>2. kind \in {"until", "payload", "thread"} BY DiscoveryAssumption, Zenon
<1>3. /\ col.pc = (IF kind = "until" THEN "recv" ELSE "off") /\ col.seen = {} /\ col.out = <<>>
      /\ col \in CollectRecords
  BY <1>1, SMTT(30) DEF CollectRecords
<1>4. /\ fwd \in [Transports -> ForwarderRecords] /\ chan \in [Transports -> Seq(Recs)]
      /\ \A t \in Transports :
            /\ fwd[t].item = {} /\ chan[t] = <<>>
            /\ fwd[t].pc = IF kind = "until" /\ t \in started THEN "recv" ELSE "done"
  <2>1. chan \in [Transports -> Seq(Recs)] /\ \A t \in Transports : chan[t] = <<>> BY <1>1
  <2>2. fwd \in [Transports -> ForwarderRecords] BY <1>1, Zenon DEF ForwarderRecords
  <2> QED BY <1>1, <2>1, <2>2, Zenon
<1>5. DiscoveryTypes
  <2>1. src \in [Transports -> ScanRecords] BY <1>1, FreshScans, Zenon
  <2>2. merged \in Seq(Recs) /\ heard \in Seq(Recs) BY <1>1
  <2> QED BY <1>k, <1>2, <1>3, <1>4, <2>1, <2>2, Zenon DEF DiscoveryTypes
<1>6. Collected BY <1>3, SetOf, SMTT(30) DEF Collected
<1>7. ASSUME NEW t \in Transports PROVE Ended(t) <=> t \notin started
  <2>1. src[t].pc = IF t \in started THEN "listen" ELSE "off" BY <1>1, FreshScans, Zenon
  <2> QED BY <2>1, Zenon DEF Ended
<1>8. Channels
  <2>1. ASSUME NEW t \in Transports, t \notin Used PROVE src[t].pc = "off" /\ fwd[t].pc = "done"
    BY <2>1, <1>1, <1>4, FreshScans, Zenon
  <2>2. ASSUME NEW t \in Transports, Running, fwd[t].pc = "done" PROVE Ended(t)
    BY <2>2, <1>k, <1>4, <1>7, Zenon DEF Running, Streaming
  <2>3. \A t \in Transports : src[t].item = {} BY <1>1, FreshScans, Zenon
  <2> QED BY <1>4, <2>1, <2>2, <2>3, Zenon DEF Channels, Channel
<1>9. Range(heard) = {} /\ Range(merged) = {} /\ Range(col.out) = {} BY <1>1, <1>3, SetOf, Zenon
<1>10. InFlight = {}
  <2>1. \A t \in Transports : src[t].item = {} BY <1>1, FreshScans, Zenon
  <2> QED BY <1>4, <1>9, <2>1, SetOf DEF InFlight, Carried
<1>11. OnItsWay BY <1>k, <1>3, <1>9, <1>10, Zenon DEF OnItsWay, Streaming
<1>12. KnownKeys
  <2>1. \A t \in Transports : src[t].seen = {} BY <1>1, FreshScans, Zenon
  <2> QED BY <1>9, <2>1, Zenon DEF KnownKeys
<1>13. Blocking
  <2>1. DOMAIN heard = {} BY <1>1
  <2>2. \A t \in Transports : Newest(heard, t) = {} BY <2>1, Zenon DEF Newest
  <2> QED BY <1>1, <1>k, <1>3, <2>2, FreshScans DEF Blocking, Streaming
<1> QED BY <1>5, <1>6, <1>8, <1>11, <1>12, <1>13, Zenon DEF DiscoveryInv

\* The invariant holds of every call: discover_until with its tasks and
\* channels of any capacity, and the rounds of blocking scans.
THEOREM DiscoveryInvariant == DiscoverySpec => []DiscoveryInv
<1>1. DiscoveryInit => DiscoveryInv BY DiscoveryInitially, Zenon
<1>2. DiscoveryInv /\ [DiscoveryNext]_discoveryVars => DiscoveryInv'
  <2> SUFFICES ASSUME DiscoveryInv, [DiscoveryNext]_discoveryVars PROVE DiscoveryInv' BY Zenon
  <2>1. ASSUME NEW s \in Sightings, NEW r \in Records(s), s.via \in Used, Hear(s.via, r)
        PROVE  DiscoveryInv'
    BY <2>1, HearKeeps, Zenon
  <2>2. ASSUME NEW t \in Used, Elapsed(t) \/ SeesClosed(t) \/ StreamEnds(t) PROVE DiscoveryInv'
    <3>1. Stops(t) /\ src[t].pc = "listen" /\ UNCHANGED <<call, chan, fwd, merged, col, heard>>
      BY <2>2, Zenon DEF Elapsed, SeesClosed, StreamEnds, channelVars
    <3> QED BY <3>1, StopsKeeps, Zenon
  <2>3. ASSUME NEW t \in Used, Sends(t) PROVE DiscoveryInv' BY <2>3, SendsKeeps, Zenon
  <2>4. ASSUME NEW t \in Used, ForwarderReceives(t) PROVE DiscoveryInv'
    BY <2>4, ForwarderReceivesKeeps, Zenon
  <2>5. ASSUME NEW t \in Used, ForwarderSends(t) PROVE DiscoveryInv'
    BY <2>5, ForwarderSendsKeeps, Zenon
  <2>6. CASE Collect BY <2>6, CollectKeeps, Zenon
  <2>7. CASE ThreadReturns \/ Select \/ Tick \/ UNCHANGED discoveryVars
    <3>1. UNCHANGED <<call, src, chan, fwd, merged, col, heard>>
      BY <2>7, Zenon DEF ThreadReturns, Select, Tick, discoveryVars, channelVars
    <3> QED BY <3>1, StillKeeps, Zenon
  <2>8. ASSUME NEW started \in SUBSET Used, NextRound(started) PROVE DiscoveryInv'
    BY <2>8, NextRoundKeeps, Zenon
  <2> QED BY <2>1, <2>2, <2>3, <2>4, <2>5, <2>6, <2>7, <2>8, Zenon
        DEF DiscoveryNext, ScanTask, Forwarder
<1> QED BY <1>1, <1>2, PTL DEF DiscoverySpec

\* discover_until returns an accessory once and the wanted one last, and if
\* nothing is wanted it returns all that was heard; a blocking scan keeps the
\* newest mDNS record of an id and the first advertisement of a peripheral.
THEOREM NothingHeardIsLost == DiscoverySpec => []EachReturnedOnce
<1>1. DiscoveryInv => EachReturnedOnce
  <2> SUFFICES ASSUME DiscoveryInv PROVE EachReturnedOnce BY Zenon
  <2>1. \A i, j \in DOMAIN col.out :
          /\ i # j => lower(col.out[i].id) # lower(col.out[j].id)
          /\ col.out[i].id.dev \in Wanted => i = Len(col.out) /\ col.pc = "returned"
    BY Zenon DEF DiscoveryInv, Collected
  <2>2. ASSUME Streaming, col.pc = "returned", {d.id.dev : d \in Range(col.out)} \cap Wanted = {}
        PROVE  {d.id.dev : d \in Range(col.out)} = {d.id.dev : d \in Range(heard)}
    <3>1. \A r \in Range(col.out) : r.id.dev \notin Wanted BY <2>2, Zenon
    <3>2. \A h \in Range(heard) : \E r \in Range(col.out) : r.id.dev = h.id.dev
      BY <2>2, <3>1, Zenon DEF DiscoveryInv, OnItsWay
    <3>3. Range(col.out) \subseteq Range(heard) BY <2>2, Zenon DEF DiscoveryInv, OnItsWay
    <3> QED BY <3>2, <3>3, Zenon
  <2>3. ASSUME ~Streaming, NEW t \in Transports PROVE src[t].found = Newest(heard, t)
    BY <2>3, Zenon DEF DiscoveryInv, Blocking
  <2> QED BY <2>1, <2>2, <2>3, Zenon DEF EachReturnedOnce, Newest, Kept
<1> QED BY <1>1, DiscoveryInvariant, PTL

-----------------------------------------------------------------------------
(* what a label says *)

LEMMA Quotient ==
    ASSUME NEW n \in Nat \ {0}, NEW q \in Nat, NEW r \in 0 .. n - 1
    PROVE  (q * n + r) \div n = q /\ (q * n + r) % n = r
  OBVIOUS

\* The fields of a payload are found where the label has them.
LEMMA CodeField ==
    ASSUME NEW c \in 0 .. CodeSpan - 1, NEW x \in Nat
    PROVE  Field(c + CodeSpan * x, 1, CodeSpan) = c
<1>1. CodeSpan \in Nat \ {0} BY AdvertsAssumption, Zenon
<1>2. c + CodeSpan * x = x * CodeSpan + c /\ c + CodeSpan * x \in Nat BY <1>1
<1>3. (c + CodeSpan * x) \div 1 = c + CodeSpan * x BY <1>2
<1> QED BY <1>1, <1>2, <1>3, Quotient, Zenon DEF Field

LEMMA CategoryField ==
    ASSUME NEW c \in 0 .. CodeSpan - 1, NEW f \in 0 .. 15, NEW k \in 0 .. CategorySpan - 1, NEW a \in Nat
    PROVE  category_of(c + CodeSpan * (f + 16 * (k + CategorySpan * a))) = k
<1>1. CodeSpan \in Nat \ {0} BY AdvertsAssumption, Zenon
<1>2. PICK h \in Nat \ {0} : CategorySpan = 2 * h BY AdvertsAssumption
<1>3. PICK k1 \in 0 .. h - 1, k0 \in 0 .. 1 : k = 2 * k1 + k0
  <2>1. k \div 2 \in 0 .. h - 1 /\ k % 2 \in 0 .. 1 /\ k = 2 * (k \div 2) + (k % 2) BY <1>2
  <2> QED BY <2>1, Zenon
<1> DEFINE low  == CodeSpan * 16
           half == a * h + k1
           rest == c + CodeSpan * f
           full == c + CodeSpan * (f + 16 * (k + CategorySpan * a))
<1>4. half \in Nat BY <1>2, <1>3
<1>5. low \in Nat \ {0} /\ low * 2 \in Nat \ {0} BY <1>1
<1>6. rest \in 0 .. low - 1
  <2>1. c \in Nat /\ CodeSpan * f \in Nat /\ CodeSpan * f <= CodeSpan * 15 /\ c < CodeSpan BY <1>1
  <2> QED BY <1>1, <2>1
<1>7. k + CategorySpan * a = 2 * half + k0
  <2>1. CategorySpan * a = 2 * (a * h) BY <1>2
  <2> QED BY <1>2, <1>3, <2>1
<1>8. full = (2 * half + k0) * low + rest
  <2>1. full = c + CodeSpan * (f + 16 * (2 * half + k0)) BY <1>7, Zenon
  <2>2. PICK w \in Nat : w = 2 * half + k0 BY <1>3, <1>4
  <2>3. CodeSpan * (f + 16 * w) = CodeSpan * f + w * (CodeSpan * 16) BY <1>1, <2>2
  <2> HIDE DEF half
  <2> QED BY <1>1, <2>1, <2>2, <2>3
<1>9. full = half * (low * 2) + (k0 * low + rest)
  <2> HIDE DEF half, low, rest, full
  <2>1. (2 * half + k0) * low = half * (low * 2) + k0 * low BY <1>3, <1>4, <1>5
  <2> QED BY <1>3, <1>4, <1>5, <1>6, <1>8, <2>1
<1>10. k0 * low + rest \in 0 .. (low * 2) - 1
  <2> HIDE DEF low, rest
  <2>1. k0 = 0 \/ k0 = 1 BY <1>3
  <2> QED BY <1>5, <1>6, <2>1
<1>11. category_of(full) = ((full \div (low * 2)) % (CategorySpan \div 2)) * 2 + ((full \div low) % 2)
  BY Zenon DEF category_of, Field
<1> HIDE DEF half, low, rest, full
<1>12. full \div low = 2 * half + k0
  <2>1. 2 * half + k0 \in Nat BY <1>3, <1>4
  <2> QED BY <1>5, <1>6, <1>8, <2>1, Quotient, Zenon
<1>13. full \div (low * 2) = half
  <2>1. PICK n \in Nat \ {0} : n = low * 2 BY <1>5, Zenon
  <2>2. PICK r \in 0 .. n - 1 : r = k0 * low + rest BY <1>10, <2>1, Zenon
  <2>3. full = half * n + r BY <1>9, <2>1, <2>2, Zenon
  <2> QED BY <1>4, <2>1, <2>3, Quotient
<1>14. (2 * half + k0) % 2 = k0 BY <1>3, <1>4
<1>15. half % h = k1 BY <1>2, <1>3, Quotient, Zenon DEF half
<1>16. CategorySpan \div 2 = h BY <1>2
<1>17. category_of(full) = k1 * 2 + k0 BY <1>11, <1>12, <1>13, <1>14, <1>15, <1>16, Zenon
<1> QED BY <1>3, <1>17 DEF full

\* SetupPayload::parse gives what the label says, or an error.
THEOREM PayloadParsed ==
    ASSUME NEW label \in Labels, NEW p \in parse_payload(label.uri)
    PROVE  /\ p.setup_code = label.code /\ p.category = label.category
           /\ p.setup_id = IF label.has_id THEN {SetupId(label)} ELSE {}
<1> DEFINE full == Value(SubSeq(label.uri.text, 1, PayloadChars))
<1>1. /\ label.number \in 0 .. CodeSpan - 1 /\ label.flags \in 0 .. 15
      /\ label.category \in 0 .. CategorySpan - 1 /\ label.above \in Nat
      /\ label.code = padded(label.number)
      /\ full = label.number + CodeSpan * (label.flags + 16 * (label.category + CategorySpan * label.above))
  BY LabelAssumption, Zenon
<1>2. /\ p.setup_code = padded(Field(full, 1, CodeSpan)) /\ p.category = category_of(full)
      /\ p.setup_id = IF SetupId(label) = <<>> THEN {} ELSE {SetupId(label)}
  <2>1. PICK flags :
          p = [setup_code |-> padded(Field(full, 1, CodeSpan)), category |-> category_of(full),
               setup_id |-> IF SetupId(label) = <<>> THEN {} ELSE {SetupId(label)}, flags |-> flags]
    BY Zenon DEF parse_payload, SetupId
  <2> QED BY <2>1, Zenon
<1>3. label.flags + 16 * (label.category + CategorySpan * label.above) \in Nat
  <2>1. CategorySpan \in Nat BY AdvertsAssumption
  <2>2. CategorySpan * label.above \in Nat BY <1>1, <2>1
  <2>3. label.category \in Nat /\ label.flags \in Nat BY <1>1
  <2> QED BY <2>2, <2>3
<1> HIDE DEF full
<1>4. Field(full, 1, CodeSpan) = label.number BY <1>1, <1>3, CodeField, Zenon
<1>5. category_of(full) = label.category BY <1>1, CategoryField
<1>6. SetupId(label) = <<>> <=> ~label.has_id
  <2>1. /\ label.uri.text \in Seq(Int) /\ PayloadChars \in Nat
        /\ label.has_id <=> PayloadChars < Len(label.uri.text)
    BY LabelAssumption, Zenon
  <2>2. PICK text \in Seq(Int) : text = label.uri.text BY <2>1, Zenon
  <2>3. SubSeq(text, PayloadChars + 1, Len(text)) = <<>> <=> ~(PayloadChars < Len(text))
    <3>1. PICK rest : rest = SubSeq(text, PayloadChars + 1, Len(text)) BY Zenon
    <3>2. rest \in Seq(Int) /\ Len(text) \in Nat BY <2>1, <3>1
    <3>3. Len(rest) = IF PayloadChars + 1 <= Len(text) THEN Len(text) - PayloadChars ELSE 0 BY <2>1, <3>1
    <3>4. rest = <<>> <=> Len(rest) = 0 BY <3>2
    <3> QED BY <2>1, <3>1, <3>2, <3>3, <3>4
  <2> QED BY <2>1, <2>2, <2>3, Zenon DEF SetupId
<1> QED BY <1>1, <1>2, <1>4, <1>5, <1>6, Zenon

-----------------------------------------------------------------------------
(* the accessory selected *)

TheOne(found, p, s, a) ==
    /\ s.one = {a} /\ ~a.paired
    /\ \/ match_kind(p, a) = "exact"
       \/ /\ match_kind(p, a) = "category"
          /\ \A d \in found : ~d.paired /\ match_kind(p, d) \in {"exact", "category"} => d = a

\* select_match takes one accessory that matches exactly, or the only one that
\* matches at all; it says none only if none matches.
LEMMA Selected ==
    ASSUME NEW found, NEW p, NEW s, s = select_match(found, p)
    PROVE  /\ s.tag = "one" => \E a \in found : TheOne(found, p, s, a)
           /\ s.tag = "none" => \A d \in found : ~d.paired => match_kind(p, d) \notin {"exact", "category"}
           /\ s.tag = "ambiguous" => s.ids # {}
           /\ s.tag \in {"one", "none", "ambiguous"}
<1> DEFINE of(kind) == {d \in found : ~d.paired /\ match_kind(p, d) = kind}
           best == IF of("exact") # {} THEN of("exact") ELSE of("category")
<1>1. select_match(found, p) =
        CASE best = {} -> [tag |-> "none", ids |-> {}, one |-> {}]
          [] \E d \in best : best = {d} -> [tag |-> "one", ids |-> {}, one |-> best]
          [] OTHER -> [tag |-> "ambiguous", ids |-> {d.id : d \in best}, one |-> {}]
  BY Zenon DEF select_match
<1>2. \A d : d \in of("exact") <=> d \in found /\ ~d.paired /\ match_kind(p, d) = "exact" BY Zenon
<1>3. \A d : d \in of("category") <=> d \in found /\ ~d.paired /\ match_kind(p, d) = "category" BY Zenon
<1> HIDE DEF of
<1>4. of("exact") # {} => best = of("exact") BY Zenon
<1>5. of("exact") = {} => best = of("category") BY Zenon
<1> HIDE DEF best
<1>6. CASE best = {}
  <2>1. s.tag = "none" BY <1>1, <1>6
  <2>2. of("exact") = {} BY <1>4, <1>6, Zenon
  <2>3. of("category") = {} BY <1>5, <1>6, <2>2, Zenon
  <2>4. \A d \in found : ~d.paired => match_kind(p, d) \notin {"exact", "category"}
    BY <1>2, <1>3, <2>2, <2>3, Zenon
  <2> QED BY <2>1, <2>4, Zenon
<1>7. CASE \E d \in best : best = {d}
  <2>1. PICK a \in best : best = {a} BY <1>7, Zenon
  <2>2. best # {} BY <1>7, Zenon
  <2>3. s.tag = "one" /\ s.one = {a} BY <1>1, <1>7, <2>1, <2>2
  <2>4. CASE of("exact") # {}
    <3>1. a \in of("exact") BY <1>4, <2>4, Zenon
    <3>2. a \in found /\ ~a.paired /\ match_kind(p, a) = "exact" BY <1>2, <3>1, Zenon
    <3>3. TheOne(found, p, s, a) BY <2>3, <3>2, Zenon DEF TheOne
    <3> QED BY <2>3, <3>2, <3>3, Zenon
  <2>5. CASE of("exact") = {}
    <3>1. of("category") = {a} BY <1>5, <2>1, <2>5, Zenon
    <3>2. a \in found /\ ~a.paired /\ match_kind(p, a) = "category" BY <1>3, <3>1, Zenon
    <3>3. \A d \in found : ~d.paired /\ match_kind(p, d) \in {"exact", "category"} => d \in of("category")
      BY <1>2, <1>3, <2>5, Zenon
    <3>4. \A d \in found : ~d.paired /\ match_kind(p, d) \in {"exact", "category"} => d = a
      BY <3>1, <3>3, Zenon
    <3>5. TheOne(found, p, s, a) BY <2>3, <3>2, <3>4, Zenon DEF TheOne
    <3> QED BY <2>3, <3>2, <3>5, Zenon
  <2> QED BY <2>4, <2>5, Zenon
<1>8. CASE best # {} /\ ~(\E d \in best : best = {d})
  <2>1. s.tag = "ambiguous" /\ s.ids = {d.id : d \in best} BY <1>1, <1>8
  <2>2. s.ids # {} BY <1>8, <2>1, Zenon
  <2> QED BY <2>1, <2>2, Zenon
<1> QED BY <1>6, <1>7, <1>8, Zenon

\* What blocking scans have found was heard over IP or BLE.
LEMMA FoundFacts ==
    ASSUME DiscoveryInv, call.kind = "payload"
    PROVE  /\ Found \subseteq Recs
           /\ \A d \in Found : d.via \in {"ip", "ble"}
<1>1. Used = {"ip", "ble"} /\ ~Streaming BY Zenon DEF Used, Streaming
<1>2. heard \in Seq(Recs) BY DiscoveryFacts, Zenon
<1>3. \A t \in Transports : src[t].found = Newest(heard, t) BY <1>1, Zenon DEF DiscoveryInv, Blocking
<1>4. Found = Newest(heard, "ip") \cup Newest(heard, "ble") BY <1>1, <1>3, Zenon DEF Found, Transports
<1> DEFINE All == {heard[i] : i \in 1 .. Len(heard)}
<1>5. Found \subseteq All /\ All \subseteq Recs
  <2>1. DOMAIN heard = 1 .. Len(heard) BY <1>2
  <2>2. \A t : Newest(heard, t) \subseteq All BY <2>1, Zenon DEF Newest
  <2> QED BY <1>2, <1>4, <2>2
<1>7. \A d \in Found : d.via \in {"ip", "ble"} BY <1>4, Zenon DEF Newest, Kept
<1> QED BY <1>5, <1>7, Zenon

\* How a record matches the payload of a label.
LEMMA MatchFacts ==
    ASSUME NEW label \in Labels, NEW p \in parse_payload(label.uri), NEW d \in Recs, d.via \in {"ip", "ble"}
    PROVE  /\ d.id.dev = label.dev => match_kind(p, d) \in {"exact", "category"}
           /\ d.id.dev # label.dev /\ match_kind(p, d) = "exact" => FALSE
           /\ match_kind(p, d) = "category" => d.category = label.category /\ (~label.has_id \/ d.setup_hash = {})
<1> DEFINE own == \E id \in {d.id, upper(d.id)} : setup_hash(SetupId(label), id) \in d.setup_hash
<1>1. p.category = label.category /\ p.setup_id = IF label.has_id THEN {SetupId(label)} ELSE {}
  BY PayloadParsed, Zenon
<1>2. PICK s \in Sightings : d \in Records(s) BY Zenon DEF Recs
<1>3. s.via \in {"ip", "ble"} BY <1>2, RecordFacts, Zenon
<1>4. IF d.id.dev = label.dev
      THEN d.category = label.category /\ (label.has_id /\ d.setup_hash # {} => own)
      ELSE label.has_id => ~own
  BY <1>2, <1>3, LabelAssumption, Zenon
<1> HIDE DEF own
<1>5. CASE label.has_id /\ d.setup_hash # {}
  <2>1. p.setup_id = {SetupId(label)} /\ p.setup_id # {} BY <1>1, <1>5, Zenon
  <2>2. match_kind(p, d) = IF own THEN "exact" ELSE "none" BY <1>5, <2>1, Zenon DEF match_kind, own
  <2> QED BY <1>4, <1>5, <2>2, Zenon
<1>6. CASE ~(label.has_id /\ d.setup_hash # {})
  <2>1. match_kind(p, d) = IF d.category = label.category THEN "category" ELSE "none"
    BY <1>1, <1>6, Zenon DEF match_kind
  <2> QED BY <1>4, <1>6, <2>1, Zenon
<1> QED BY <1>5, <1>6, Zenon

-----------------------------------------------------------------------------
\* What pair_with_payload returned, and when it did no scan was under way any
\* more: what was found in that round stays.
Decided == result.tag \in {"pair", "no_match", "ambiguous", "invalid_code"}
PayloadInv ==
    /\ PayloadTarget
    /\ Decided => call.kind = "payload" /\ \A t \in Used : Ended(t)
    /\ call.kind = "payload" => call.label \in Labels /\ call.payload = parse_payload(call.label.uri)

LEMMA Undecided ==
    ASSUME ~Decided
    PROVE  PayloadTarget
BY Zenon DEF Decided, PayloadTarget

LEMMA PayloadKept ==
    ASSUME PayloadInv, UNCHANGED <<call, result>>, \A t \in Used : Ended(t) => src'[t] = src[t]
    PROVE  PayloadInv'
<1>1. Used' = Used /\ Decided' = Decided BY Zenon DEF Used, Decided
<1>2. CASE Decided
  <2>1. \A t \in Used : Ended(t) /\ src'[t] = src[t] BY <1>2, Zenon DEF PayloadInv
  <2>2. Found' = Found BY <1>1, <2>1, Zenon DEF Found
  <2>3. PayloadTarget' BY <2>2, Zenon DEF PayloadInv, PayloadTarget
  <2>4. \A t \in Used' : Ended(t)' BY <1>1, <2>1, Zenon DEF Ended
  <2> QED BY <1>1, <2>3, <2>4, Zenon DEF PayloadInv
<1>3. CASE ~Decided
  <2>1. PayloadTarget' BY <1>1, <1>3, Undecided, Zenon DEF PayloadTarget, Decided
  <2> QED BY <1>1, <1>3, <2>1, Zenon DEF PayloadInv
<1> QED BY <1>2, <1>3, Zenon

LEMMA PayloadUndecided ==
    ASSUME PayloadInv, call' = call, ~Decided'
    PROVE  PayloadInv'
<1>1. PayloadTarget' BY Zenon DEF PayloadTarget, Decided
<1> QED BY <1>1, Zenon DEF PayloadInv

LEMMA SelectKeeps ==
    ASSUME DiscoveryInv, PayloadInv, Select
    PROVE  PayloadInv'
<1>0. /\ call.kind = "payload" /\ RoundOver /\ UNCHANGED <<call, src, heard>>
      /\ call.label \in Labels /\ call.payload = parse_payload(call.label.uri)
  BY Zenon DEF Select, PayloadInv
<1>1. PICK p \in parse_payload(call.label.uri) :
        LET s == select_match(Found, p)
            last == IF s.tag = "ambiguous" THEN s.ids ELSE ambiguous
        IN  \/ /\ s.tag = "one"
               /\ \E d \in s.one : result' = Pair(d, p.setup_code)
            \/ /\ s.tag # "one"
               /\ result' = IF last = {} THEN [tag |-> "no_match"] ELSE [tag |-> "ambiguous", ids |-> last]
  BY <1>0, Zenon DEF Select
<1>2. PICK s : s = select_match(Found, p) BY Zenon
<1> DEFINE label == call.label
           missed == \A d \in Found : d.id.dev = label.dev => d.paired
<1>3. Found \subseteq Recs /\ \A d \in Found : d.via \in {"ip", "ble"}
  BY <1>0, FoundFacts, Zenon
<1>4. \A d \in Found : d.id.dev = label.dev => match_kind(p, d) \in {"exact", "category"}
  BY <1>0, <1>3, MatchFacts, Zenon
<1>5. Found' = Found /\ Used' = Used /\ \A t \in Used' : Ended(t)'
  BY <1>0, Zenon DEF Found, Used, RoundOver, Ended
<1>6. call' = call /\ call'.label = call.label BY <1>0, Zenon
<1>7. p.setup_code = label.code BY <1>0, PayloadParsed, Zenon
<1>8. CASE s.tag = "one"
  <2>0. PICK a \in Found : TheOne(Found, p, s, a) BY <1>2, <1>8, Selected, Zenon
  <2>1. /\ a \in Found /\ s.one = {a} /\ ~a.paired
        /\ \/ match_kind(p, a) = "exact"
           \/ /\ match_kind(p, a) = "category"
              /\ \A d \in Found : ~d.paired /\ match_kind(p, d) \in {"exact", "category"} => d = a
    BY <2>0, Zenon DEF TheOne
  <2>2. result' = Pair(a, p.setup_code) BY <1>1, <1>2, <1>8, <2>1, Zenon
  <2>3. \/ result' = [tag |-> "invalid_code"] /\ normalize_setup_code(p.setup_code) = {}
        \/ result' = [tag |-> "pair", accessory |-> a, code |-> p.setup_code]
    BY <2>2, Zenon DEF Pair
  <2>4. ASSUME a.id.dev # label.dev
        PROVE  missed /\ a.category = label.category /\ (~label.has_id \/ a.setup_hash = {})
    <3>1. match_kind(p, a) = "category" BY <1>0, <1>3, <2>1, <2>4, MatchFacts, Zenon
    <3>2. a.category = label.category /\ (~label.has_id \/ a.setup_hash = {})
      BY <1>0, <1>3, <3>1, MatchFacts, Zenon
    <3>3. missed BY <1>4, <2>1, <2>4, <3>1, Zenon
    <3> QED BY <3>2, <3>3, Zenon
  <2>5. CASE result' = [tag |-> "invalid_code"] /\ normalize_setup_code(p.setup_code) = {}
    <3>1. result'.tag = "invalid_code" BY <2>5, Zenon
    <3>2. Len(label.code) # CodeDigits BY <1>7, <2>5, Zenon DEF normalize_setup_code
    <3>3. PayloadTarget' BY <1>6, <3>1, <3>2, Zenon DEF PayloadTarget
    <3> QED BY <1>0, <1>5, <1>6, <3>3, Zenon DEF PayloadInv
  <2>6. CASE result' = [tag |-> "pair", accessory |-> a, code |-> p.setup_code]
    <3>1. result'.tag = "pair" /\ result'.accessory = a /\ result'.code = p.setup_code BY <2>6, Zenon
    <3>2. PayloadTarget' BY <1>5, <1>6, <1>7, <2>1, <2>4, <3>1, Zenon DEF PayloadTarget
    <3> QED BY <1>0, <1>5, <1>6, <3>2, Zenon DEF PayloadInv
  <2> QED BY <2>3, <2>5, <2>6, Zenon
<1>9. CASE s.tag # "one"
  <2>1. s.tag = "none" \/ (s.tag = "ambiguous" /\ s.ids # {}) BY <1>2, <1>9, Selected, Zenon
  <2>2. s.tag = "none" => missed
    <3>1. s.tag = "none" => \A d \in Found : ~d.paired => match_kind(p, d) \notin {"exact", "category"}
      BY <1>2, Selected, Zenon
    <3> QED BY <1>4, <3>1, Zenon
  <2>3. PICK last : /\ last = IF s.tag = "ambiguous" THEN s.ids ELSE ambiguous
                    /\ result' = IF last = {} THEN [tag |-> "no_match"] ELSE [tag |-> "ambiguous", ids |-> last]
    BY <1>1, <1>2, <1>9, Zenon
  <2>5. CASE last = {}
    <3>1. s.tag = "none" BY <2>1, <2>3, <2>5, Zenon
    <3>2. result'.tag = "no_match" BY <2>3, <2>5, Zenon
    <3>3. PayloadTarget' BY <1>5, <1>6, <2>2, <3>1, <3>2, Zenon DEF PayloadTarget
    <3> QED BY <1>0, <1>5, <1>6, <3>3, Zenon DEF PayloadInv
  <2>6. CASE last # {}
    <3>1. result'.tag = "ambiguous" BY <2>3, <2>6, Zenon
    <3>2. PayloadTarget' BY <3>1, Zenon DEF PayloadTarget
    <3> QED BY <1>0, <1>5, <1>6, <3>2, Zenon DEF PayloadInv
  <2> QED BY <2>5, <2>6, Zenon
<1> QED BY <1>8, <1>9, Zenon

LEMMA PayloadInitially == DiscoveryInit => PayloadInv
<1> SUFFICES ASSUME DiscoveryInit PROVE PayloadInv BY Zenon
<1>1. PICK kind \in Calls, label \in Labels :
         /\ call = [kind |-> kind, label |-> label,
                    payload |-> IF kind = "payload" THEN parse_payload(label.uri) ELSE {}]
         /\ result = [tag |-> "error"] \/ result = Pending
  BY Zenon DEF DiscoveryInit
<1>2. ~Decided BY <1>1 DEF Decided, Pending
<1>3. call.kind = "payload" => call.label \in Labels /\ call.payload = parse_payload(call.label.uri)
  BY <1>1, Zenon
<1> QED BY <1>2, <1>3, Undecided, Zenon DEF PayloadInv

\* pair_with_payload pairs the label's accessory whenever a round heard it
\* unpaired, with the code of the label, and another only where no hash can tell
\* (SetupPayload::parse, match_kind, select_match), for any label, any
\* accessories around and any number of rounds.
THEOREM PayloadFindsItsAccessory == DiscoverySpec => []PayloadTarget
<1>1. DiscoveryInit => PayloadInv BY PayloadInitially, Zenon
<1>2. DiscoveryInv /\ PayloadInv /\ [DiscoveryNext]_discoveryVars => PayloadInv'
  <2> SUFFICES ASSUME DiscoveryInv, PayloadInv, [DiscoveryNext]_discoveryVars PROVE PayloadInv' BY Zenon
  <2>0. src \in [Transports -> ScanRecords] /\ Used \subseteq Transports BY DiscoveryFacts, Zenon
  <2>1. ASSUME NEW t \in Used, NEW r, Hear(t, r) PROVE PayloadInv'
    <3>1. src[t].pc = "listen" /\ UNCHANGED <<call, result>> BY <2>1, Zenon DEF Hear
    <3>2. ~Ended(t) BY <3>1, Zenon DEF Ended
    <3>3. \A u \in Used : u # t => src'[u] = src[u] BY <2>0, <2>1, Zenon DEF Hear
    <3> QED BY <3>1, <3>2, <3>3, PayloadKept, Zenon
  <2>2. ASSUME NEW t \in Used, ScanTask(t) \/ StreamEnds(t) PROVE PayloadInv'
    <3>1. src[t].pc \in {"listen", "send"} /\ UNCHANGED <<call, result>>
      BY <2>2, Zenon DEF ScanTask, StreamEnds, Elapsed, SeesClosed, Sends
    <3>2. ~Ended(t) BY <3>1, Zenon DEF Ended
    <3>3. \A u \in Used : u # t => src'[u] = src[u]
      BY <2>0, <2>2, Zenon DEF ScanTask, StreamEnds, Elapsed, SeesClosed, Sends, Stops
    <3> QED BY <3>1, <3>2, <3>3, PayloadKept, Zenon
  <2>3. ASSUME NEW t \in Used, Forwarder(t) PROVE PayloadInv'
    <3>1. UNCHANGED <<call, result, src>> BY <2>3, Zenon DEF Forwarder, ForwarderReceives, ForwarderSends
    <3> QED BY <3>1, PayloadKept, Zenon
  <2>4. CASE Tick \/ UNCHANGED discoveryVars
    <3>1. UNCHANGED <<call, result, src>> BY <2>4, Zenon DEF Tick, discoveryVars
    <3> QED BY <3>1, PayloadKept, Zenon
  <2>5. CASE Collect
    <3>1. UNCHANGED <<call, src>> /\ (result' = result \/ result' = [tag |-> "ok"])
      BY <2>5, Zenon DEF Collect
    <3>2. CASE result' = result BY <3>1, <3>2, PayloadKept, Zenon
    <3>3. CASE result' = [tag |-> "ok"]
      <4>1. ~Decided' BY <3>3, Zenon DEF Decided
      <4> QED BY <3>1, <4>1, PayloadUndecided, Zenon
    <3> QED BY <3>1, <3>2, <3>3, Zenon
  <2>6. CASE ThreadReturns
    <3>1. call' = call /\ result' = [tag |-> "ok"] BY <2>6, Zenon DEF ThreadReturns
    <3>2. ~Decided' BY <3>1, Zenon DEF Decided
    <3> QED BY <3>1, <3>2, PayloadUndecided, Zenon
  <2>7. CASE Select BY <2>7, SelectKeeps, Zenon
  <2>8. ASSUME NEW started \in SUBSET Used, NextRound(started) PROVE PayloadInv'
    <3>1. call' = call /\ result = Pending /\ (result' = result \/ result' = [tag |-> "error"])
      BY <2>8, Zenon DEF NextRound, RoundOver, Returned
    <3>2. ~Decided' BY <3>1 DEF Decided, Pending
    <3> QED BY <3>1, <3>2, PayloadUndecided, Zenon
  <2> QED BY <2>1, <2>2, <2>3, <2>4, <2>5, <2>6, <2>7, <2>8, Zenon DEF DiscoveryNext
<1>3. PayloadInv => PayloadTarget BY Zenon DEF PayloadInv
<1> QED BY <1>1, <1>2, <1>3, DiscoveryInvariant, PTL DEF DiscoverySpec

-----------------------------------------------------------------------------
(* ScanGate *)

\* Where the scan task holds its scan stream, and where the flag is set.
ScanTaskInv ==
    /\ stream   <=> (scan \in {"opened", "live", "stop", "end"})
    /\ scanning <=> (scan \in {"live", "stop", "end", "clear", "quit"})

GateInv == TypeOK /\ PauseStands /\ NoLostWakeup /\ ScanTaskInv

\* The invariant holds at the start.
LEMMA InitGateInv == Init => GateInv
  BY NoOneAssumption, Zenon
  DEF Init, GateInv, TypeOK, PauseStands, NoLostWakeup, ScanTaskInv,
      ScanStates, ConnStates, Guarding

\* A step of the scan task, which never touches the mutex or a connector.
LEMMA ScanStepGateInv == GateInv /\ ScanStep => GateInv'
<1> SUFFICES ASSUME GateInv, ScanStep PROVE GateInv'
  BY Zenon
<1> USE DEF GateInv, TypeOK, PauseStands, NoLostWakeup, ScanTaskInv,
            ScanStates, Guarding, connVars
<1>1. CASE ScanCheck     BY <1>1, Zenon DEF ScanCheck
<1>2. CASE ScanWake      BY <1>2, Zenon DEF ScanWake
<1>3. CASE ScanOpens     BY <1>3, Zenon DEF ScanOpens
<1>4. CASE ScanFails     BY <1>4, Zenon DEF ScanFails
<1>5. CASE ScanReports   BY <1>5, Zenon DEF ScanReports
<1>6. CASE ScanSeesPause BY <1>6, Zenon DEF ScanSeesPause
<1>7. CASE ScanEnds      BY <1>7, Zenon DEF ScanEnds
<1>8. CASE ScanDrops     BY <1>8, Zenon DEF ScanDrops
<1>9. CASE ScanClears    BY <1>9, Zenon DEF ScanClears
<1> QED BY <1>1, <1>2, <1>3, <1>4, <1>5, <1>6, <1>7, <1>8, <1>9, Zenon DEF ScanStep

\* A step of a connector, which never touches the scan task's own state: the
\* mutex makes the connector that withdraws the pause the only one that
\* relies on it.
LEMMA ConnStepGateInv ==
    ASSUME NEW c \in Connectors, GateInv, ConnStep(c)
    PROVE  GateInv'
<1> USE NoOneAssumption
    DEF GateInv, TypeOK, PauseStands, NoLostWakeup, ScanTaskInv,
        ConnStates, Guarding, scanVars
<1>1. CASE Pause(c)         BY <1>1 DEF Pause
<1>2. CASE Acquire(c)
  <2>1. \A d \in Connectors : ~ Guarding(d) /\ conn[d] # "dropping"
    BY <1>2, Zenon DEF Acquire
  <2>2. conn' = [conn EXCEPT ![c] = "ack"] /\ lock' = c /\ pause' /\ ~ seen'
    BY <1>2, Zenon DEF Acquire
  <2>3. TypeOK'
    BY <1>2, <2>1, <2>2, Zenon DEF Acquire
  <2>4. PauseStands'
    BY <2>1, <2>2, Zenon
  <2>5. NoLostWakeup' /\ ScanTaskInv'
    BY <1>2, Zenon DEF Acquire
  <2> QED BY <2>3, <2>4, <2>5, Zenon
<1>3. CASE AckSeen(c)       BY <1>3 DEF AckSeen
<1>4. CASE AckTimeout(c)    BY <1>4 DEF AckTimeout
<1>5. CASE CancelWait(c)    BY <1>5 DEF CancelWait
<1>6. CASE DropGuard(c)
  <2>1. \A d \in Connectors : Guarding(d) => d = c
    BY <1>6, Zenon DEF DropGuard
  <2>2. conn' = [conn EXCEPT ![c] = "dropping"] /\ lock' = lock
    BY <1>6, Zenon DEF DropGuard
  <2>3. TypeOK'
    BY <1>6, <2>2, ZenonT(30) DEF DropGuard
  <2>4. \A d \in Connectors : ~ Guarding(d)'
    BY <2>1, <2>2, Zenon
  <2>5. PauseStands'
    BY <2>4, Zenon
  <2>6. NoLostWakeup' /\ ScanTaskInv'
    BY <1>6, Zenon DEF DropGuard
  <2> QED BY <2>3, <2>5, <2>6, Zenon
<1>7. CASE ReleasePermit(c) BY <1>7, Zenon DEF ReleasePermit
<1> QED BY <1>1, <1>2, <1>3, <1>4, <1>5, <1>6, <1>7, Zenon DEF ConnStep

\* GateInv is an invariant of the gate, whatever the number of connectors.
THEOREM GateInvariant == Spec => []GateInv
<1>1. GateInv /\ [Next]_vars => GateInv'
  <2> SUFFICES ASSUME GateInv, [Next]_vars PROVE GateInv'
    BY Zenon
  <2>1. CASE ScanStep BY <2>1, ScanStepGateInv, Zenon
  <2>2. CASE \E c \in Connectors : ConnStep(c) BY <2>2, ConnStepGateInv, Zenon
  <2>3. CASE UNCHANGED vars
    BY <2>3, Zenon DEF vars, GateInv, TypeOK, PauseStands, NoLostWakeup, ScanTaskInv,
                Guarding
  <2> QED BY <2>1, <2>2, <2>3, Zenon DEF Next
<1> QED BY InitGateInv, <1>1, PTL DEF Spec

\* The types are kept, and the gate mutex belongs to the caller of pause()
\* whose guard exists or is being dropped.
THEOREM GateTypes == Spec => []TypeOK
  BY GateInvariant, PTL DEF GateInv

\* ScanGate::pause keeps its promise to concurrent connects: the pause stands
\* as long as a guard exists, and two guards never do.
THEOREM PauseAlwaysStands == Spec => []PauseStands
  BY GateInvariant, PTL DEF GateInv

\* The watch channels of the gate lose no wake-up: the scan task neither
\* sleeps through a resume nor runs on with a pause already consumed.
THEOREM WakeupsAreKept == Spec => []NoLostWakeup
  BY GateInvariant, PTL DEF GateInv

\* The scanning flag follows the scan stream of watch_adverts.
THEOREM FlagIsHonest == Spec => []FlagCoversStream
<1>1. GateInv => FlagCoversStream
  BY Zenon DEF GateInv, ScanTaskInv, FlagCoversStream
<1> QED BY <1>1, GateInvariant, PTL

=============================================================================
