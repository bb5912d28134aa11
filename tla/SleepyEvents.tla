---------------------------- MODULE SleepyEvents ----------------------------
(***************************************************************************)
(* Events of a sleepy BLE accessory: the advert task and the catch-up poll *)
(* task of watch_sleepy_events_with_source                                 *)
(* (crates/hap-ble/src/accessory.rs), and the pump of SleepyWatch that     *)
(* delivers events and persists the GSN, with restarts from the store      *)
(* (crates/hap-controller/src/sleepy.rs).                                  *)
(*                                                                         *)
(* The accessory numbers its changes; the Global State Number (GSN) it     *)
(* advertises is the number modulo Modulus.  The variables hold the        *)
(* numbers themselves, and every comparison the code makes is made modulo  *)
(* Modulus.  A value is the number of the change that produced it.         *)
(* Advertisements are lost, repeated and reordered.                        *)
(***************************************************************************)
EXTENDS Integers, Sequences

CONSTANTS
    Iids,          \* watched characteristics, all of them poll targets
    Modulus,       \* 2^16 in the code
    Window,        \* forward window of broadcast candidates, 100 in the code
    StaleAge,      \* how many changes old an advertisement may be
    Starts,        \* numbers the accessory may be at when the watch is armed
    MaxChanges, MaxRestarts

ASSUME SleepyAssumption ==
    /\ Modulus \in Nat /\ Modulus > 2 /\ Window \in Nat /\ StaleAge \in Nat
    /\ 2 * Window < Modulus /\ 2 * StaleAge < Modulus
    /\ Iids \subseteq Nat /\ Starts \subseteq Nat /\ MaxChanges \in Nat /\ MaxRestarts \in Nat

VARIABLES
    num,       \* number of the accessory's last change
    latest,    \* number of the last change of each characteristic
    air,       \* advertisements that may still be received
    last,      \* last_gsn
    emitted,   \* the dedup map
    adv,       \* the broadcast the advert task is about to emit
    pollch,    \* the watch channel to the poll task
    poll,      \* the poll task
    evq,       \* the broadcast channel of events
    pump,      \* the pump: receiving, or about to persist
    shown,     \* the value of the last event delivered for each characteristic
    saved,     \* the persisted GSN
    log, twice,  \* <<iid, number>> emitted since the last restart; one twice
    lossy,     \* something happened that may cost an event
    restarts

sleepyVars == <<num, latest, air, last, emitted, adv, pollch, poll, evq, pump, shown,
                saved, log, twice, lossy, restarts>>
device == <<num, latest, air>>
ghosts == <<log, twice>>

-----------------------------------------------------------------------------
Absent == -1
NoAdv  == [iid |-> Absent, num |-> 0]
NoRead == [iid |-> Absent, val |-> 0]
NoPoll == [num |-> 0, todo |-> {}, read |-> NoRead]

\* Plausible fault: plain comparison, without the wrap-around.
gsn_is_greater(new, old) == new % Modulus > old % Modulus

\* gsn_is_newer: the forward distance is in the first half of the range.
gsn_is_newer(new, old) ==
    LET diff == (new - old) % Modulus IN diff # 0 /\ 2 * diff < Modulus

SleepyTypeOK ==
    /\ num \in Nat /\ latest \in [Iids -> Nat] /\ last \in Nat /\ saved \in Nat
    /\ air \subseteq [kind : {"regular", "broadcast"}, num : Nat, iid : Iids \cup {Absent}]
    /\ emitted \in [Iids -> Nat \cup {Absent}]
    /\ adv \in [iid : Iids \cup {Absent}, num : Nat]
    /\ pollch \in [num : Nat, fresh : BOOLEAN]
    /\ poll \in [num : Nat, todo : SUBSET Iids,
                 read : [iid : Iids \cup {Absent}, val : Nat]]
    /\ evq \in Seq([iid : Iids, val : Nat])
    /\ pump \in {"recv", "save"} /\ shown \in [Iids -> Nat]
    /\ twice \in BOOLEAN /\ lossy \in BOOLEAN /\ restarts \in 0..MaxRestarts
    /\ last <= num   \* the handle never runs ahead of the accessory

\* A watch armed with the persisted GSN of an accessory that has not changed
\* since.
SleepyInit ==
    /\ num \in Starts /\ latest = [i \in Iids |-> 0] /\ air = {}
    /\ last = num /\ emitted = [i \in Iids |-> Absent] /\ adv = NoAdv
    /\ pollch = [num |-> 0, fresh |-> FALSE] /\ poll = NoPoll
    /\ evq = <<>> /\ pump = "recv" /\ shown = [i \in Iids |-> 0] /\ saved = num
    /\ log = {} /\ twice = FALSE /\ lossy = FALSE /\ restarts = 0

-----------------------------------------------------------------------------
(* the accessory *)

\* A characteristic changes: the GSN is bumped, the regular advertisement
\* shows it and an encrypted broadcast may carry the value.
Change(i) ==
    /\ num < MaxChanges
    /\ num' = num + 1
    /\ latest' = [latest EXCEPT ![i] = num + 1]
    /\ \E kinds \in {{"regular"}, {"regular", "broadcast"}} :
          air' = {a \in air : a.num >= num + 1 - StaleAge}
                 \cup [kind : kinds, num : {num + 1}, iid : {i}]
    /\ UNCHANGED <<last, emitted, adv, pollch, poll, evq, pump, shown, saved,
                   ghosts, lossy, restarts>>

-----------------------------------------------------------------------------
(* dedup_should_emit and the event channel *)

\* Exactly one emission per (iid, gsn), by the map alone.
ShouldEmit(i, n) == emitted[i] = Absent \/ (emitted[i] - n) % Modulus # 0

\* A newer value of the characteristic is delivered or on its way.
Overtaken(i, v) ==
    shown[i] > v \/ \E k \in 1..Len(evq) : evq[k].iid = i /\ evq[k].val > v

\* Emit value v of change n unless it is a repetition, which is also how an
\* entry looks that the GSN has come around to.
Emit(i, n, v) ==
    IF ShouldEmit(i, n)
    THEN /\ emitted' = IF emitted[i] = Absent \/ gsn_is_newer(n, emitted[i])
                       THEN [emitted EXCEPT ![i] = n] ELSE emitted
         /\ evq' = Append(evq, [iid |-> i, val |-> v])
         /\ twice' = (twice \/ <<i, n>> \in log) /\ log' = log \cup {<<i, n>>}
         /\ lossy' = (lossy \/ Overtaken(i, v))
    ELSE lossy' = (lossy \/ emitted[i] # n) /\ UNCHANGED <<emitted, evq, ghosts>>

-----------------------------------------------------------------------------
(* the advert task *)

\* A regular (0x06) advertisement: a newer GSN is handed to the poll task.
Regular(a) ==
    /\ adv = NoAdv /\ a.kind = "regular"
    /\ gsn_is_newer(a.num, last)
    /\ last' = a.num
    /\ pollch' = [num |-> a.num, fresh |-> TRUE]
    /\ UNCHANGED <<device, emitted, adv, poll, evq, pump, shown, saved, ghosts,
                   lossy, restarts>>

\* BroadcastKey: the GSN is the nonce of a broadcast, so it opens under the GSN
\* it was sealed for and no other.  The key and the advertising id bound with
\* it are those of the one accessory watched.
seal(gsn, plaintext) == [gsn |-> gsn, plaintext |-> plaintext]

open(gsn, sealed) == IF sealed.gsn = gsn THEN <<sealed.plaintext>> ELSE <<>>

\* The accessory repeats the GSN inside, with the characteristic.
Payload(a) == seal(a.num % Modulus, [gsn |-> a.num % Modulus, iid |-> a.iid])

\* The candidate GSNs: the next, the current one, and the forward window.
Candidates == {(last + d) % Modulus : d \in 0..Window}

\* An encrypted broadcast (0x11) opens under a candidate newer than last_gsn.
\* A change it jumps over is not in it, and no poll is triggered for it; nor
\* for its own if the characteristic is unknown or the value does not decode.
BroadcastHeard(a) ==
    /\ adv = NoAdv /\ a.kind = "broadcast"
    /\ \E gsn \in Candidates :
          LET pt == open(gsn, Payload(a)) IN
          /\ pt # <<>> /\ pt[1].gsn = gsn /\ gsn_is_newer(gsn, last)
          /\ last' = a.num
          /\ adv' \in {[iid |-> pt[1].iid, num |-> a.num], NoAdv}
    /\ lossy' = (lossy \/ a.num # last + 1 \/ adv' = NoAdv)
    /\ UNCHANGED <<device, emitted, pollch, poll, evq, pump, shown, saved, ghosts,
                   restarts>>

\* ... and its value is emitted.
BroadcastEmit ==
    /\ adv # NoAdv
    /\ Emit(adv.iid, adv.num, adv.num)
    /\ adv' = NoAdv
    /\ UNCHANGED <<device, last, pollch, poll, pump, shown, saved, restarts>>

-----------------------------------------------------------------------------
(* the poll task *)

\* Plausible fault: the bump is looked at and not marked seen.
PollTakeKeeps ==
    /\ poll = NoPoll /\ pollch.fresh
    /\ poll' = [NoPoll EXCEPT !.num = pollch.num, !.todo = Iids]
    /\ UNCHANGED <<device, last, emitted, adv, pollch, evq, pump, shown, saved,
                   ghosts, lossy, restarts>>

\* poll_rx.changed(): take the newest bump; older ones are coalesced.
PollTake ==
    /\ poll = NoPoll /\ pollch.fresh
    /\ poll' = [NoPoll EXCEPT !.num = pollch.num, !.todo = Iids]
    /\ pollch' = [pollch EXCEPT !.fresh = FALSE]
    /\ UNCHANGED <<device, last, emitted, adv, evq, pump, shown, saved, ghosts,
                   lossy, restarts>>

\* The task is idle again after its last target.
Rest(todo) == IF todo = {} THEN NoPoll ELSE [poll EXCEPT !.todo = todo, !.read = NoRead]

\* read_char_raw of one target returns a value,
PollRead(i) ==
    /\ i \in poll.todo /\ poll.read = NoRead
    /\ poll' = [poll EXCEPT !.read = [iid |-> i, val |-> latest[i]]]
    /\ UNCHANGED <<device, last, emitted, adv, pollch, evq, pump, shown, saved,
                   ghosts, lossy, restarts>>

\* or fails, which is logged.
PollReadFails(i) ==
    /\ i \in poll.todo /\ poll.read = NoRead
    /\ poll' = Rest(poll.todo \ {i})
    /\ lossy' = TRUE
    /\ UNCHANGED <<device, last, emitted, adv, pollch, evq, pump, shown, saved,
                   ghosts, restarts>>

\* Plausible fault: the task stops at the first target that was emitted.
PollEmitStops ==
    /\ poll.read # NoRead
    /\ Emit(poll.read.iid, poll.num, poll.read.val)
    /\ poll' = NoPoll
    /\ UNCHANGED <<device, last, adv, pollch, pump, shown, saved, restarts>>

\* The value read is emitted under the GSN that triggered the poll.
PollEmit ==
    /\ poll.read # NoRead
    /\ Emit(poll.read.iid, poll.num, poll.read.val)
    /\ poll' = Rest(poll.todo \ {poll.read.iid})
    /\ UNCHANGED <<device, last, adv, pollch, pump, shown, saved, restarts>>

-----------------------------------------------------------------------------
(* the pump of SleepyWatch, and restarts *)

\* An event reaches the watch's own stream.
Deliver ==
    /\ pump = "recv" /\ evq # <<>>
    /\ shown' = [shown EXCEPT ![Head(evq).iid] = Head(evq).val]
    /\ evq' = Tail(evq)
    /\ pump' = "save"
    /\ UNCHANGED <<device, last, emitted, adv, pollch, poll, saved, ghosts, lossy,
                   restarts>>

\* broadcast_state() is persisted; an error of the store is ignored.
Save ==
    /\ pump = "save"
    /\ saved' \in {saved, last}
    /\ pump' = "recv"
    /\ UNCHANGED <<device, last, emitted, adv, pollch, poll, evq, shown, ghosts,
                   lossy, restarts>>

\* The process ends anywhere and the watch is armed again from the store.  A
\* change the store covers and the stream never showed will not be polled for.
Restart ==
    /\ restarts < MaxRestarts /\ restarts' = restarts + 1
    /\ last' = saved /\ emitted' = [i \in Iids |-> Absent] /\ adv' = NoAdv
    /\ pollch' = [num |-> 0, fresh |-> FALSE] /\ poll' = NoPoll
    /\ evq' = <<>> /\ pump' = "recv"
    /\ log' = {} /\ lossy' = (lossy \/ \E i \in Iids :
                                 latest[i] <= saved /\ shown[i] < latest[i])
    /\ UNCHANGED <<device, shown, saved, twice>>

-----------------------------------------------------------------------------
Finished == num = MaxChanges /\ UNCHANGED sleepyVars

SleepyNext ==
    \/ \E a \in air : Regular(a) \/ BroadcastHeard(a)
    \/ \E i \in Iids : Change(i) \/ PollRead(i) \/ PollReadFails(i)
    \/ BroadcastEmit \/ PollTake \/ PollEmit \/ Deliver \/ Save \/ Restart \/ Finished

SleepySpec == SleepyInit /\ [][SleepyNext]_sleepyVars

\* The accessory goes on advertising its current state, which is received at
\* last; the three tasks are polled, and a read returns.
SleepyFairSpec ==
    /\ SleepySpec
    /\ WF_sleepyVars(\E a \in air : a.num = num /\ Regular(a)) /\ WF_sleepyVars(BroadcastEmit)
    /\ WF_sleepyVars(PollTake \/ PollEmit \/ \E i \in Iids : PollRead(i) \/ PollReadFails(i))
    /\ WF_sleepyVars(Deliver \/ Save)

-----------------------------------------------------------------------------
(* Properties *)

\* The documented guarantee of dedup_should_emit, which rests on last_gsn
\* being monotone: no event is emitted twice for one (iid, gsn) between two
\* restarts, whatever advertisements are repeated or late.
ExactlyOnce == ~twice

\* Where a value may still be on its way to the stream.
StillDue(i) ==
    \/ last < latest[i] \/ pollch.fresh \/ i \in poll.todo \/ adv.iid = i
    \/ \E k \in 1..Len(evq) : evq[k].iid = i

\* A change the stream has not shown is still accounted for somewhere, unless
\* a read failed, a broadcast jumped over it, was not understood or overtook a
\* poll, the dedup map held the same GSN from a whole turn before, or the store
\* was ahead of the stream at a restart: nothing else loses an event.
AccountedFor ==
    lossy \/ \A i \in Iids : shown[i] < latest[i] => StillDue(i)

\* ... and the stream catches up with the accessory.
CaughtUp ==
    \A i \in Iids : shown[i] < latest[i] ~> (shown[i] = latest[i] \/ lossy)

=============================================================================
