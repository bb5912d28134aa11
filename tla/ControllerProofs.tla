-------------------------- MODULE ControllerProofs --------------------------
(***************************************************************************)
(* Proofs about Controller, for any accessories, identities, pairings and  *)
(* crashes, and about SleepyEvents, the events the controller's watch of   *)
(* a sleepy accessory delivers, for any characteristics, GSN width, window *)
(* and number of changes and restarts.                                     *)
(*                                                                         *)
(* Controller.  The two halves of a pairing fall apart only in the ways    *)
(* Controller names.  What makes the properties inductive is what the      *)
(* operation under way knows.  A pair past Pair Setup knows that the       *)
(* accessory trusts the pairing it made, unless the accessory was reset    *)
(* since, and that a record still in the store is of a pairing severed     *)
(* before.  A removal past its request knows that a pairing that still     *)
(* stands is already counted as orphaned.  A save_state knows that the     *)
(* record it loaded is of the pairing stored now, since nothing exclusive  *)
(* runs beside it.                                                         *)
(*                                                                         *)
(* SleepyEvents.  An advertisement that serial order calls newer than      *)
(* last_gsn really is, because those that may still be received are less   *)
(* than half a turn old.  So every change is let in at most once between   *)
(* two restarts, as a bump for the poll task or as a broadcast, and each   *)
(* of the two emits it once per characteristic.                            *)
(***************************************************************************)
EXTENDS Controller, SleepyEvents, TLAPS

-----------------------------------------------------------------------------
(* SleepyEvents *)

\* What is in the air is recent, and belongs to the characteristic that
\* changed.
InAir ==
    \A a \in air : /\ a.num <= num /\ a.num >= num - StaleAge /\ a.iid \in Iids
                   /\ a.num <= latest[a.iid]
                   /\ \A i \in Iids : i # a.iid => latest[i] # a.num

\* No value is from the future.
Values ==
    /\ saved <= num
    /\ \A i \in Iids : latest[i] <= num /\ shown[i] <= latest[i]
    /\ adv # NoAdv => adv.iid \in Iids /\ adv.num <= latest[adv.iid]
    /\ poll.read # NoRead => /\ poll.read.iid \in poll.todo
                             /\ poll.read.val <= latest[poll.read.iid]
    /\ \A k \in 1..Len(evq) : evq[k].val <= latest[evq[k].iid]

\* What is still to be emitted was let in, by one way only, and was not
\* emitted before.
Once ==
    /\ ~twice
    /\ log \subseteq Iids \X Nat /\ \A e \in log : e[2] <= last
    /\ \A i \in Iids : emitted[i] # Absent => <<i, emitted[i]>> \in log
    /\ pollch.fresh => pollch.num <= last /\ \A i \in Iids : <<i, pollch.num>> \notin log
    /\ poll.todo # {} =>
          /\ poll.num <= last /\ \A i \in poll.todo : <<i, poll.num>> \notin log
          /\ pollch.fresh => pollch.num # poll.num
    /\ adv # NoAdv =>
          /\ adv.num <= last /\ <<adv.iid, adv.num>> \notin log
          /\ pollch.fresh => pollch.num # adv.num
          /\ poll.todo # {} => poll.num # adv.num

\* The stream will have shown v when the events in the channel are delivered.
EndsAt(i, v) ==
    \/ \E k \in 1..Len(evq) : /\ evq[k].iid = i /\ evq[k].val = v
                              /\ \A m \in 1..Len(evq) : m > k => evq[m].iid # i
    \/ shown[i] = v /\ \A m \in 1..Len(evq) : evq[m].iid # i

\* The last value of a characteristic has not been let in, or will be read, or
\* is about to be emitted, or is what the stream ends at.
OnItsWay(i) ==
    \/ last < latest[i] \/ pollch.fresh
    \/ i \in poll.todo /\ (poll.read.iid = i => poll.read.val = latest[i])
    \/ adv.iid = i /\ adv.num = latest[i]
    \/ EndsAt(i, latest[i])

NothingLost == lossy \/ \A i \in Iids : OnItsWay(i)

SleepyInv == SleepyTypeOK /\ InAir /\ Values /\ Once /\ NothingLost

-----------------------------------------------------------------------------
(* serial arithmetic *)

\* A number less than one turn below zero.
LEMMA ModBelow ==
    ASSUME NEW x \in Int, x < 0, x + Modulus > 0
    PROVE  x % Modulus = x + Modulus
  BY SleepyAssumption

\* The remainder is the only one.
LEMMA ModUnique ==
    ASSUME NEW a \in Int, NEW e \in 0..Modulus - 1, NEW z \in Int, z = Modulus * a + e
    PROVE  z % Modulus = e
<1> DEFINE b == z \div Modulus
           f == z % Modulus
<1>1. Modulus \in Nat /\ Modulus > 2 BY SleepyAssumption, Zenon
<1>2. b \in Int /\ f \in 0..Modulus - 1 /\ z = Modulus * b + f BY <1>1
<1> HIDE DEF b, f
<1>3. Modulus * (a - b) = f - e BY <1>1, <1>2
<1>4. a - b >= 1 => Modulus * (a - b) >= Modulus BY <1>1, <1>2
<1>5. a - b <= -1 => Modulus * (a - b) <= -Modulus BY <1>1, <1>2
<1>6. a - b = 0 BY <1>1, <1>2, <1>3, <1>4, <1>5
<1>7. f = e BY <1>1, <1>2, <1>3, <1>6
<1> QED BY <1>7, Zenon DEF f

\* Reducing a number first changes no difference.
LEMMA ModDiff ==
    ASSUME NEW x \in Int, NEW y \in Int
    PROVE  ((x % Modulus) - y) % Modulus = (x - y) % Modulus
<1> DEFINE q == x \div Modulus
           r == x % Modulus
           d == (r - y) \div Modulus
           e == (r - y) % Modulus
<1>1. Modulus \in Nat /\ Modulus > 2 BY SleepyAssumption, Zenon
<1>2. q \in Int /\ r \in Int /\ x = Modulus * q + r BY <1>1
<1> HIDE DEF q, r
<1>3. d \in Int /\ e \in 0..Modulus - 1 /\ r - y = Modulus * d + e BY <1>1, <1>2
<1> HIDE DEF d, e
<1>4. x - y = Modulus * (q + d) + e BY <1>1, <1>2, <1>3
<1>5. (x - y) % Modulus = e
  <2>1. q + d \in Int /\ x - y \in Int BY <1>2, <1>3
  <2> QED BY <1>3, <1>4, <2>1, ModUnique, Zenon
<1> QED BY <1>5, Zenon DEF e, r

\* gsn_is_newer never takes an advertisement that may still be in the air for
\* newer when it is not.
LEMMA NewerIsGreater ==
    ASSUME NEW n \in Nat, NEW l \in Nat, n >= l - StaleAge, gsn_is_newer(n, l)
    PROVE  n > l
<1> SUFFICES ASSUME n <= l PROVE FALSE
  OBVIOUS
<1>1. Modulus \in Nat /\ Modulus > 2 /\ StaleAge \in Nat /\ 2 * StaleAge < Modulus
  BY SleepyAssumption, Zenon
<1>2. (n - l) % Modulus # 0 /\ 2 * ((n - l) % Modulus) < Modulus BY Zenon DEF gsn_is_newer
<1>3. CASE n = l
  <2>1. n - l = 0 /\ 0 % Modulus = 0 BY <1>1, <1>3
  <2> QED BY <1>2, <2>1, Zenon
<1>4. CASE n < l
  <2>1. n - l \in Int /\ n - l < 0 /\ n - l + Modulus > 0 BY <1>1, <1>4
  <2>2. (n - l) % Modulus = n - l + Modulus BY <2>1, ModBelow, Zenon
  <2> QED BY <1>1, <1>2, <1>4, <2>2
<1> QED BY <1>3, <1>4

-----------------------------------------------------------------------------
(* facts that the steps share *)

Adverts == [kind : {"regular", "broadcast"}, num : Nat, iid : Iids \cup {Absent}]
Events  == [iid : Iids, val : Nat]
Reads   == [iid : Iids \cup {Absent}, val : Nat]

\* The types of the state, one by one.
LEMMA Facts ==
    ASSUME SleepyInv
    PROVE  /\ num \in Nat /\ latest \in [Iids -> Nat] /\ last \in Nat /\ saved \in Nat
           /\ air \subseteq Adverts /\ emitted \in [Iids -> Nat \cup {Absent}]
           /\ adv \in [iid : Iids \cup {Absent}, num : Nat] /\ adv.num \in Nat
           /\ pollch \in [num : Nat, fresh : BOOLEAN] /\ pollch.num \in Nat
           /\ poll \in [num : Nat, todo : SUBSET Iids, read : Reads]
           /\ poll.num \in Nat /\ poll.todo \subseteq Iids /\ poll.read \in Reads
           /\ evq \in Seq(Events) /\ Len(evq) \in Nat
           /\ \A k \in 1..Len(evq) : evq[k] \in Events /\ evq[k].iid \in Iids /\ evq[k].val \in Nat
           /\ shown \in [Iids -> Nat] /\ last <= num /\ saved <= num
           /\ Absent \notin Iids /\ Absent \notin Nat /\ Absent = NoAdv.iid /\ Absent = NoRead.iid
<1>1. SleepyTypeOK BY Zenon DEF SleepyInv
<1>2. /\ evq \in Seq(Events) /\ poll \in [num : Nat, todo : SUBSET Iids, read : Reads]
      /\ air \subseteq Adverts
  BY <1>1, Zenon DEF SleepyTypeOK, Events, Reads, Adverts
<1>3. Len(evq) \in Nat /\ \A k \in 1..Len(evq) : evq[k] \in Events BY <1>2
<1>4. \A k \in 1..Len(evq) : evq[k].iid \in Iids /\ evq[k].val \in Nat BY <1>3, Zenon DEF Events
<1>5. /\ Absent \notin Nat /\ Absent \notin Iids /\ Absent = NoAdv.iid /\ Absent = NoRead.iid
  BY SleepyAssumption DEF Absent, NoAdv, NoRead
<1>6. saved <= num BY Zenon DEF SleepyInv, Values
<1> QED BY <1>1, <1>2, <1>3, <1>4, <1>5, <1>6, Zenon DEF SleepyTypeOK

\* Emit: what is emitted is new, and it is dropped only when something is lost.
LEMMA EmitOnce ==
    ASSUME SleepyInv, NEW i \in Iids, NEW n \in Nat, NEW v \in Nat, Emit(i, n, v),
           n <= last, v <= latest[i], <<i, n>> \notin log, UNCHANGED <<latest, last>>
    PROVE  /\ emitted' \in [Iids -> Nat \cup {Absent}] /\ evq' \in Seq(Events)
           /\ twice' = FALSE /\ lossy' \in BOOLEAN
           /\ log \subseteq log' /\ log' \subseteq log \cup {<<i, n>>}
           /\ log' \subseteq Iids \X Nat /\ \A e \in log' : e[2] <= last
           /\ \A j \in Iids : emitted'[j] # Absent => <<j, emitted'[j]>> \in log'
           /\ \A k \in 1..Len(evq') : evq'[k].val <= latest[evq'[k].iid]
           /\ lossy' \/ (~lossy /\ ~Overtaken(i, v) /\ evq' = Append(evq, [iid |-> i, val |-> v]))
<1>1. /\ emitted \in [Iids -> Nat \cup {Absent}] /\ evq \in Seq(Events) /\ Len(evq) \in Nat
      /\ lossy \in BOOLEAN /\ twice = FALSE
      /\ log \subseteq Iids \X Nat /\ \A e \in log : e[2] <= last
      /\ \A j \in Iids : emitted[j] # Absent => <<j, emitted[j]>> \in log
      /\ \A k \in 1..Len(evq) : evq[k].val <= latest[evq[k].iid]
  BY Facts, Zenon DEF SleepyInv, SleepyTypeOK, Once, Values
<1>2. CASE ShouldEmit(i, n)
  <2>1. /\ emitted' = [emitted EXCEPT ![i] = n] \/ emitted' = emitted
        /\ evq' = Append(evq, [iid |-> i, val |-> v])
        /\ twice' = (twice \/ <<i, n>> \in log) /\ log' = log \cup {<<i, n>>}
        /\ lossy' = (lossy \/ Overtaken(i, v))
    BY <1>2, Zenon DEF Emit
  <2>2. emitted' \in [Iids -> Nat \cup {Absent}] BY <1>1, <2>1, Zenon
  <2>3. [iid |-> i, val |-> v] \in Events BY Zenon DEF Events
  <2>4. /\ evq' \in Seq(Events) /\ Len(evq') = Len(evq) + 1
        /\ \A k \in 1..Len(evq) : evq'[k] = evq[k]
        /\ evq'[Len(evq) + 1] = [iid |-> i, val |-> v]
    BY <1>1, <2>1, <2>3
  <2>5. twice' = FALSE BY <1>1, <2>1, Zenon
  <2>6. lossy' \in BOOLEAN BY <2>1, Zenon
  <2>7. log' \subseteq Iids \X Nat /\ \A e \in log' : e[2] <= last
    <3>1. <<i, n>>[2] = n BY Zenon
    <3> QED BY <1>1, <2>1, <3>1
  <2>8. ASSUME NEW j \in Iids, emitted'[j] # Absent PROVE <<j, emitted'[j]>> \in log'
    <3>1. CASE j = i /\ emitted' = [emitted EXCEPT ![i] = n]
      <4>1. emitted'[j] = n BY <1>1, <3>1, Zenon
      <4> QED BY <2>1, <3>1, <4>1
    <3>2. CASE ~(j = i /\ emitted' = [emitted EXCEPT ![i] = n])
      <4>1. emitted'[j] = emitted[j] BY <1>1, <2>1, <3>2, Zenon
      <4> QED BY <1>1, <2>1, <2>8, <4>1, Zenon
    <3> QED BY <3>1, <3>2, Zenon
  <2>9. ASSUME NEW k \in 1..Len(evq') PROVE evq'[k].val <= latest[evq'[k].iid]
    <3>1. CASE k = Len(evq) + 1 BY <2>4, <3>1
    <3>2. CASE k # Len(evq) + 1
      <4>1. k \in 1..Len(evq) BY <1>1, <2>4, <3>2
      <4> QED BY <1>1, <2>4, <4>1, Zenon
    <3> QED BY <3>1, <3>2, Zenon
  <2>10. lossy' \/ (~lossy /\ ~Overtaken(i, v) /\ evq' = Append(evq, [iid |-> i, val |-> v]))
    BY <2>1, Zenon
  <2> QED BY <2>1, <2>2, <2>4, <2>5, <2>6, <2>7, <2>8, <2>9, <2>10, Zenon
<1>3. CASE ~ShouldEmit(i, n)
  <2>1. lossy' = (lossy \/ emitted[i] # n) /\ UNCHANGED <<emitted, evq, log, twice>>
    BY <1>3, Zenon DEF Emit, ghosts
  <2>2. emitted[i] # n
    <3>1. emitted[i] # Absent BY <1>3, Zenon DEF ShouldEmit
    <3> QED BY <1>1, <3>1, Zenon
  <2>3. lossy' = TRUE BY <2>1, <2>2, Zenon
  <2> QED BY <1>1, <2>1, <2>3, Zenon
<1> QED BY <1>2, <1>3, Zenon

\* The stream after an event more.
LEMMA EndsAppend ==
    ASSUME SleepyInv, NEW i \in Iids, NEW v \in Nat, evq' = Append(evq, [iid |-> i, val |-> v]),
           shown' = shown
    PROVE  /\ EndsAt(i, v)'
           /\ \A j \in Iids, x \in Nat : j # i /\ EndsAt(j, x) => EndsAt(j, x)'
           /\ \A x \in Nat : EndsAt(i, x) /\ x > v => Overtaken(i, v)
<1>1. evq \in Seq(Events) /\ Len(evq) \in Nat BY Facts, Zenon
<1>2. [iid |-> i, val |-> v] \in Events BY Zenon DEF Events
<1>3. /\ Len(evq') = Len(evq) + 1 /\ \A k \in 1..Len(evq) : evq'[k] = evq[k]
      /\ evq'[Len(evq) + 1].iid = i /\ evq'[Len(evq) + 1].val = v
  BY <1>1, <1>2
<1>4. EndsAt(i, v)' BY <1>1, <1>3 DEF EndsAt
<1>5. ASSUME NEW j \in Iids, NEW x \in Nat, j # i, EndsAt(j, x) PROVE EndsAt(j, x)'
  <2>1. \A m \in 1..Len(evq') : m \in 1..Len(evq) \/ m = Len(evq) + 1 BY <1>1, <1>3
  <2>2. CASE \E k \in 1..Len(evq) : /\ evq[k].iid = j /\ evq[k].val = x
                                    /\ \A m \in 1..Len(evq) : m > k => evq[m].iid # j
    <3>1. PICK k \in 1..Len(evq) : /\ evq[k].iid = j /\ evq[k].val = x
                                   /\ \A m \in 1..Len(evq) : m > k => evq[m].iid # j
      BY <2>2, Zenon
    <3>2. k \in 1..Len(evq') /\ evq'[k].iid = j /\ evq'[k].val = x BY <1>1, <1>3, <3>1
    <3>3. \A m \in 1..Len(evq') : m > k => evq'[m].iid # j BY <1>3, <1>5, <2>1, <3>1, Zenon
    <3> QED BY <3>2, <3>3, Zenon DEF EndsAt
  <2>3. CASE shown[j] = x /\ \A m \in 1..Len(evq) : evq[m].iid # j
    <3>1. \A m \in 1..Len(evq') : evq'[m].iid # j BY <1>3, <1>5, <2>1, <2>3, Zenon
    <3> QED BY <2>3, <3>1, Zenon DEF EndsAt
  <2> QED BY <1>5, <2>2, <2>3, Zenon DEF EndsAt
<1>6. \A x \in Nat : EndsAt(i, x) /\ x > v => Overtaken(i, v) BY Zenon DEF EndsAt, Overtaken
<1> QED BY <1>4, <1>5, <1>6, Zenon

-----------------------------------------------------------------------------
(* the steps *)

\* A watch is armed.
LEMMA InitSleepy == SleepyInit => SleepyInv
<1> SUFFICES ASSUME SleepyInit PROVE SleepyInv
  BY Zenon
<1> USE SleepyAssumption
<1>1. /\ num \in Nat /\ last = num /\ saved = num /\ air = {} /\ evq = <<>> /\ log = {}
      /\ adv = NoAdv /\ poll = NoPoll /\ restarts = 0 /\ pump = "recv"
      /\ pollch = [num |-> 0, fresh |-> FALSE] /\ twice = FALSE /\ lossy = FALSE
      /\ latest = [i \in Iids |-> 0] /\ shown = [i \in Iids |-> 0]
      /\ emitted = [i \in Iids |-> Absent]
  BY Zenon DEF SleepyInit
<1>2. /\ poll.read = NoRead /\ poll.todo = {} /\ poll.num = 0
      /\ poll \in [num : Nat, todo : SUBSET Iids, read : [iid : Iids \cup {Absent}, val : Nat]]
  BY <1>1, Zenon DEF NoPoll, NoRead
<1>3. adv \in [iid : Iids \cup {Absent}, num : Nat] BY <1>1, Zenon DEF NoAdv
<1>4. pollch.fresh = FALSE /\ pollch \in [num : Nat, fresh : BOOLEAN] BY <1>1, Zenon
<1>5. SleepyTypeOK
  <2>1. twice \in BOOLEAN /\ lossy \in BOOLEAN BY <1>1, Zenon
  <2>2. evq \in Seq([iid : Iids, val : Nat]) BY <1>1
  <2> QED BY <1>1, <1>2, <1>3, <1>4, <2>1, <2>2 DEF SleepyTypeOK
<1>6. InAir BY <1>1, Zenon DEF InAir
<1>7. Values BY <1>1, <1>2 DEF Values
<1>8. Once BY <1>1, <1>2, <1>4, Zenon DEF Once
<1>9. NothingLost
  <2>1. \A i \in Iids : shown[i] = latest[i] BY <1>1, Zenon
  <2>2. \A m \in 1..Len(evq) : FALSE BY <1>1
  <2>3. \A i \in Iids : EndsAt(i, latest[i]) BY <2>1, <2>2, Zenon DEF EndsAt
  <2> QED BY <2>3, Zenon DEF NothingLost, OnItsWay
<1> QED BY <1>5, <1>6, <1>7, <1>8, <1>9, Zenon DEF SleepyInv

\* A characteristic changes.
LEMMA ChangeSleepy ==
    ASSUME SleepyInv, NEW i \in Iids, Change(i)
    PROVE  SleepyInv'
<1>1. /\ num' = num + 1 /\ latest' = [latest EXCEPT ![i] = num + 1]
      /\ UNCHANGED <<last, emitted, adv, pollch, poll, evq, pump, shown, saved, log, twice,
                     lossy, restarts>>
  BY Zenon DEF Change, ghosts
<1>2. PICK kinds \in {{"regular"}, {"regular", "broadcast"}} :
         air' = {a \in air : a.num >= num + 1 - StaleAge}
                \cup [kind : kinds, num : {num + 1}, iid : {i}]
  BY Zenon DEF Change
<1>3. /\ num \in Nat /\ latest \in [Iids -> Nat] /\ last \in Nat /\ saved \in Nat
      /\ last <= num /\ saved <= num /\ air \subseteq Adverts /\ StaleAge \in Nat
      /\ poll.todo \subseteq Iids /\ poll.read \in Reads
  BY Facts, SleepyAssumption, Zenon
<1>4. /\ latest' \in [Iids -> Nat] /\ latest'[i] = num + 1
      /\ \A j \in Iids : j # i => latest'[j] = latest[j]
  BY <1>1, <1>3
<1>5. \A j \in Iids : latest[j] <= num /\ latest[j] <= latest'[j] /\ latest'[j] <= num'
  <2>1. \A j \in Iids : latest[j] <= num BY Zenon DEF SleepyInv, Values
  <2> QED BY <1>1, <1>3, <1>4, <2>1
<1>6. ASSUME NEW a \in air' 
      PROVE  \/ a \in air /\ a.num >= num' - StaleAge
             \/ a \in Adverts /\ a.num = num + 1 /\ a.iid = i
  <2>1. CASE a \in [kind : kinds, num : {num + 1}, iid : {i}] BY <1>3, <2>1 DEF Adverts
  <2>2. CASE a \in air /\ a.num >= num + 1 - StaleAge
    <3>1. a.num \in Nat BY <1>3, <2>2, Zenon DEF Adverts
    <3>2. a.num >= num' - StaleAge BY <1>1, <1>3, <2>2, <3>1
    <3> QED BY <2>2, <3>2, Zenon
  <2> QED BY <1>2, <2>1, <2>2, Zenon
<1>7. SleepyTypeOK'
  <2>1. air' \subseteq Adverts BY <1>3, <1>6, Zenon
  <2>2. num' \in Nat /\ last' <= num' BY <1>1, <1>3
  <2> QED BY <1>1, <1>4, <2>1, <2>2, Zenon DEF SleepyInv, SleepyTypeOK, Adverts
<1>8. InAir'
  <2> SUFFICES ASSUME NEW a \in air'
               PROVE  /\ a.num <= num' /\ a.num >= num' - StaleAge /\ a.iid \in Iids
                      /\ a.num <= latest'[a.iid]
                      /\ \A j \in Iids : j # a.iid => latest'[j] # a.num
    BY Zenon DEF InAir
  <2>1. CASE a \in air /\ a.num >= num' - StaleAge
    <3>1. /\ a.num <= num /\ a.iid \in Iids /\ a.num <= latest[a.iid]
          /\ \A j \in Iids : j # a.iid => latest[j] # a.num
      BY <2>1, Zenon DEF SleepyInv, InAir
    <3>2. a.num \in Nat BY <1>3, <2>1, Zenon DEF Adverts
    <3>3. latest[a.iid] \in Nat /\ latest'[a.iid] \in Nat /\ latest[a.iid] <= latest'[a.iid]
      BY <1>3, <1>4, <1>5, <3>1, Zenon
    <3>4. a.num <= num' /\ a.num # num + 1 /\ a.num <= latest'[a.iid]
      BY <1>1, <1>3, <3>1, <3>2, <3>3
    <3> QED BY <1>4, <2>1, <3>1, <3>4, Zenon
  <2>2. CASE a \in Adverts /\ a.num = num + 1 /\ a.iid = i
    <3>1. \A j \in Iids : j # i => latest'[j] # num + 1
      <4>1. \A j \in Iids : latest[j] \in Nat BY <1>3, Zenon
      <4> QED BY <1>3, <1>4, <1>5, <4>1
    <3> QED BY <1>1, <1>3, <1>4, <2>2, <3>1
  <2> QED BY <1>6, <2>1, <2>2, Zenon
<1>9. Values'
  <2>1. ASSUME NEW j \in Iids, NEW x \in Nat, x <= latest[j] PROVE x <= latest'[j]
    <3>1. latest[j] \in Nat /\ latest'[j] \in Nat BY <1>3, <1>4, Zenon
    <3> QED BY <1>5, <2>1, <3>1
  <2>2. saved' <= num' BY <1>1, <1>3
  <2>3. \A j \in Iids : latest'[j] <= num' /\ shown'[j] <= latest'[j]
    <3>1. \A j \in Iids : shown[j] \in Nat /\ shown[j] <= latest[j]
      BY Facts, Zenon DEF SleepyInv, Values
    <3> QED BY <1>1, <1>5, <2>1, <3>1, Zenon
  <2>4. adv' # NoAdv => adv'.iid \in Iids /\ adv'.num <= latest'[adv'.iid]
    BY <1>1, <2>1, Facts, Zenon DEF SleepyInv, Values
  <2>5. poll'.read # NoRead => /\ poll'.read.iid \in poll'.todo
                               /\ poll'.read.val <= latest'[poll'.read.iid]
    <3>1. poll.read.val \in Nat BY <1>3, Zenon DEF Reads
    <3> QED BY <1>1, <1>3, <2>1, <3>1, Zenon DEF SleepyInv, Values
  <2>6. \A k \in 1..Len(evq') : evq'[k].val <= latest'[evq'[k].iid]
    BY <1>1, <2>1, Facts, Zenon DEF SleepyInv, Values
  <2> QED BY <2>2, <2>3, <2>4, <2>5, <2>6, Zenon DEF Values
<1>10. Once' BY <1>1, Zenon DEF SleepyInv, Once
<1>11. NothingLost'
  <2>1. last' < latest'[i] BY <1>1, <1>3, <1>4
  <2>2. \A j \in Iids : j # i /\ EndsAt(j, latest[j]) => EndsAt(j, latest[j])'
    BY <1>1, <1>4, Zenon DEF EndsAt
  <2>3. \A j \in Iids : j # i /\ OnItsWay(j) => OnItsWay(j)'
    BY <1>1, <1>4, <2>2, Zenon DEF OnItsWay
  <2> QED BY <1>1, <2>1, <2>3, Zenon DEF SleepyInv, NothingLost, OnItsWay
<1> QED BY <1>7, <1>8, <1>9, <1>10, <1>11, Zenon DEF SleepyInv

\* A regular advertisement is let in.
LEMMA RegularSleepy ==
    ASSUME SleepyInv, NEW a \in air, Regular(a)
    PROVE  SleepyInv'
<1>1. /\ adv = NoAdv /\ gsn_is_newer(a.num, last) /\ last' = a.num
      /\ pollch' = [num |-> a.num, fresh |-> TRUE]
      /\ UNCHANGED <<num, latest, air, emitted, adv, poll, evq, pump, shown, saved, log, twice,
                     lossy, restarts>>
  BY Zenon DEF Regular, device, ghosts
<1>2. /\ num \in Nat /\ last \in Nat /\ last <= num /\ a.num \in Nat /\ a.num <= num
      /\ a.num >= num - StaleAge /\ StaleAge \in Nat
  <2>1. a \in Adverts BY Facts, Zenon
  <2> QED BY <2>1, Facts, SleepyAssumption, Zenon DEF SleepyInv, InAir, Adverts
<1>3. a.num > last
  <2>1. a.num >= last - StaleAge BY <1>2
  <2> QED BY <1>1, <1>2, <2>1, NewerIsGreater, Zenon
<1>4. pollch'.num = a.num /\ pollch'.fresh = TRUE /\ pollch' \in [num : Nat, fresh : BOOLEAN]
  BY <1>1, <1>2, Zenon
<1>5. SleepyTypeOK' BY <1>1, <1>2, <1>4, Zenon DEF SleepyInv, SleepyTypeOK
<1>6. InAir' BY <1>1, Zenon DEF SleepyInv, InAir
<1>7. Values' BY <1>1, Zenon DEF SleepyInv, Values
<1>8. Once'
  <2>1. log \subseteq Iids \X Nat /\ \A e \in log : e[2] <= last BY Zenon DEF SleepyInv, Once
  <2>2. \A e \in log : e[2] \in Nat BY <2>1, Zenon
  <2>3. \A e \in log : e[2] <= last' /\ e[2] # a.num BY <1>1, <1>2, <1>3, <2>1, <2>2
  <2>4. \A i \in Iids : <<i, a.num>> \notin log
    <3>1. \A i \in Iids : <<i, a.num>>[2] = a.num BY Zenon
    <3> QED BY <2>3, <3>1, Zenon
  <2>5. poll.todo # {} => /\ poll.num <= last' /\ \A i \in poll.todo : <<i, poll.num>> \notin log
                          /\ a.num # poll.num
    <3>1. poll.num \in Nat BY Facts, Zenon
    <3> QED BY <1>1, <1>2, <1>3, <3>1 DEF SleepyInv, Once
  <2> QED BY <1>1, <1>2, <1>4, <2>1, <2>3, <2>4, <2>5 DEF SleepyInv, Once
<1>9. NothingLost' BY <1>4, Zenon DEF NothingLost, OnItsWay
<1> QED BY <1>5, <1>6, <1>7, <1>8, <1>9, Zenon DEF SleepyInv

\* An encrypted broadcast is let in.  The next change was the one of its
\* characteristic, so it jumps over nothing but what it carries.
LEMMA BroadcastSleepy ==
    ASSUME SleepyInv, NEW a \in air, BroadcastHeard(a)
    PROVE  SleepyInv'
<1>1. /\ adv = NoAdv /\ lossy' = (lossy \/ a.num # last + 1 \/ adv' = NoAdv)
      /\ UNCHANGED <<num, latest, air, emitted, pollch, poll, evq, pump, shown, saved, log,
                     twice, restarts>>
  BY Zenon DEF BroadcastHeard, device, ghosts
<1>2. PICK gsn \in Candidates :
         LET pt == open(gsn, Payload(a)) IN
         /\ pt # <<>> /\ pt[1].gsn = gsn /\ gsn_is_newer(gsn, last)
         /\ last' = a.num /\ adv' \in {[iid |-> pt[1].iid, num |-> a.num], NoAdv}
  BY Zenon DEF BroadcastHeard
<1>3. gsn = a.num % Modulus /\ adv' \in {[iid |-> a.iid, num |-> a.num], NoAdv}
  <2>1. Payload(a).gsn = a.num % Modulus /\ Payload(a).plaintext.iid = a.iid
    BY Zenon DEF Payload, seal
  <2>2. Payload(a).gsn = gsn BY <1>2, Zenon DEF open
  <2>3. open(gsn, Payload(a))[1] = Payload(a).plaintext BY <2>2, Zenon DEF open
  <2> QED BY <1>2, <2>1, <2>2, <2>3, Zenon
<1>4. /\ num \in Nat /\ last \in Nat /\ last <= num /\ a.num \in Nat /\ a.num <= num
      /\ a.num >= num - StaleAge /\ StaleAge \in Nat /\ a.iid \in Iids
      /\ a.num <= latest[a.iid] /\ \A i \in Iids : i # a.iid => latest[i] # a.num
  <2>1. a \in Adverts BY Facts, Zenon
  <2> QED BY <2>1, Facts, SleepyAssumption, Zenon DEF SleepyInv, InAir, Adverts
<1>5. a.num > last
  <2>1. a.num >= last - StaleAge BY <1>4
  <2>2. ((a.num % Modulus) - last) % Modulus = (a.num - last) % Modulus
    <3>1. a.num \in Int /\ last \in Int BY <1>4
    <3> QED BY <3>1, ModDiff, Zenon
  <2>3. gsn_is_newer(a.num, last) BY <1>2, <1>3, <2>2, Zenon DEF gsn_is_newer
  <2> QED BY <1>4, <2>1, <2>3, NewerIsGreater, Zenon
<1>6. last' = a.num BY <1>2, Zenon
<1>7. /\ adv' \in [iid : Iids \cup {Absent}, num : Nat]
      /\ adv' # NoAdv => adv'.iid = a.iid /\ adv'.num = a.num
  <2>1. NoAdv \in [iid : Iids \cup {Absent}, num : Nat] BY Zenon DEF NoAdv
  <2> QED BY <1>3, <1>4, <2>1
<1>8. SleepyTypeOK'
  <2>1. lossy' \in BOOLEAN BY <1>1, Zenon
  <2> QED BY <1>1, <1>4, <1>6, <1>7, <2>1, Zenon DEF SleepyInv, SleepyTypeOK
<1>9. InAir' BY <1>1, Zenon DEF SleepyInv, InAir
<1>10. Values' BY <1>1, <1>4, <1>7, Zenon DEF SleepyInv, Values
<1>11. Once'
  <2>1. log \subseteq Iids \X Nat /\ \A e \in log : e[2] <= last BY Zenon DEF SleepyInv, Once
  <2>2. \A e \in log : e[2] \in Nat BY <2>1, Zenon
  <2>3. \A e \in log : e[2] <= last' /\ e[2] # a.num BY <1>4, <1>5, <1>6, <2>1, <2>2
  <2>4. <<a.iid, a.num>> \notin log
    <3>1. <<a.iid, a.num>>[2] = a.num BY Zenon
    <3> QED BY <2>3, <3>1, Zenon
  <2>5. poll.todo # {} => /\ poll.num <= last' /\ \A i \in poll.todo : <<i, poll.num>> \notin log
                          /\ a.num # poll.num
    <3>1. poll.num \in Nat BY Facts, Zenon
    <3> QED BY <1>4, <1>5, <1>6, <3>1 DEF SleepyInv, Once
  <2>6. pollch.fresh => /\ pollch.num <= last' /\ \A i \in Iids : <<i, pollch.num>> \notin log
                        /\ a.num # pollch.num
    <3>1. pollch.num \in Nat BY Facts, Zenon
    <3> QED BY <1>4, <1>5, <1>6, <3>1 DEF SleepyInv, Once
  <2>7. adv' # NoAdv => adv'.num <= last' /\ <<adv'.iid, adv'.num>> \notin log
    BY <1>4, <1>6, <1>7, <2>4
  <2> QED BY <1>1, <1>7, <2>1, <2>3, <2>5, <2>6, <2>7, Zenon DEF SleepyInv, Once
<1>12. NothingLost'
  <2> SUFFICES ASSUME ~lossy', NEW i \in Iids PROVE OnItsWay(i)'
    BY Zenon DEF NothingLost
  <2>1. ~lossy /\ a.num = last + 1 /\ adv' # NoAdv BY <1>1, Zenon
  <2>2. OnItsWay(i) BY <2>1, Zenon DEF SleepyInv, NothingLost
  <2>3. latest[i] \in Nat /\ adv.iid # i BY <1>1, Facts, Zenon
  <2>4. CASE last < latest[i]
    <3>1. CASE i = a.iid
      <4>1. last' < latest[i] \/ latest[i] = a.num BY <1>4, <1>6, <2>1, <2>3, <2>4
      <4> QED BY <1>1, <1>7, <2>1, <3>1, <4>1, Zenon DEF OnItsWay
    <3>2. CASE i # a.iid
      <4>1. last' < latest[i] BY <1>4, <1>6, <2>1, <2>3, <2>4, <3>2
      <4> QED BY <1>1, <4>1, Zenon DEF OnItsWay
    <3> QED BY <3>1, <3>2, Zenon
  <2>5. CASE EndsAt(i, latest[i])
    <3>1. EndsAt(i, latest[i])' BY <1>1, <2>5, Zenon DEF EndsAt
    <3> QED BY <1>1, <3>1, Zenon DEF OnItsWay
  <2> QED BY <1>1, <2>2, <2>3, <2>4, <2>5, Zenon DEF OnItsWay
<1> QED BY <1>8, <1>9, <1>10, <1>11, <1>12, Zenon DEF SleepyInv

\* What a task that emits value v of change n leaves alone, and what it keeps of
\* its own place.
EmitFrame ==
    /\ UNCHANGED <<num, latest, air, last, pollch, pump, shown, saved, restarts>>
    /\ adv' \in {adv, NoAdv}
    /\ poll' \in [num : Nat, todo : SUBSET Iids, read : Reads]
    /\ poll'.todo \subseteq poll.todo /\ (poll'.todo # {} => poll'.num = poll.num)
    /\ poll'.read \in {poll.read, NoRead}
    /\ poll'.read # NoRead => poll'.todo = poll.todo
\* The change was let in once.
EmitFresh(i, n) ==
    /\ n <= last /\ <<i, n>> \notin log
    /\ pollch.fresh => pollch.num # n
    /\ adv' # NoAdv => <<adv'.iid, adv'.num>> # <<i, n>>
    /\ \A j \in poll'.todo : <<j, poll.num>> # <<i, n>>
\* What was on its way still is, unless it is emitted.
EmitDue(i, v) ==
    \A j \in Iids : OnItsWay(j) =>
        \/ last < latest[j] \/ pollch.fresh
        \/ j \in poll'.todo /\ (poll'.read.iid = j => poll'.read.val = latest[j])
        \/ adv'.iid = j /\ adv'.num = latest[j]
        \/ EndsAt(j, latest[j])
        \/ j = i /\ v = latest[i]

\* A value is emitted, by either task: nothing is emitted twice, and a value
\* that is not the last one is emitted after the last one only with a loss.
LEMMA EmitSleepy ==
    ASSUME SleepyInv, NEW i \in Iids, NEW n \in Nat, NEW v \in Nat, v <= latest[i],
           Emit(i, n, v), EmitFrame, EmitFresh(i, n), EmitDue(i, v)
    PROVE  SleepyInv'
<1>1. /\ emitted' \in [Iids -> Nat \cup {Absent}] /\ evq' \in Seq(Events)
      /\ twice' = FALSE /\ lossy' \in BOOLEAN
      /\ log \subseteq log' /\ log' \subseteq log \cup {<<i, n>>}
      /\ log' \subseteq Iids \X Nat /\ \A e \in log' : e[2] <= last
      /\ \A j \in Iids : emitted'[j] # Absent => <<j, emitted'[j]>> \in log'
      /\ \A k \in 1..Len(evq') : evq'[k].val <= latest[evq'[k].iid]
      /\ lossy' \/ (~lossy /\ ~Overtaken(i, v) /\ evq' = Append(evq, [iid |-> i, val |-> v]))
  <2>1. n <= last /\ <<i, n>> \notin log BY Zenon DEF EmitFresh
  <2>2. UNCHANGED <<latest, last>> BY Zenon DEF EmitFrame
  <2> QED BY <2>1, <2>2, EmitOnce, Zenon
<1>2. SleepyTypeOK'
  <2>1. adv' \in [iid : Iids \cup {Absent}, num : Nat]
    <3>1. NoAdv \in [iid : Iids \cup {Absent}, num : Nat] BY Zenon DEF NoAdv
    <3> QED BY <3>1, Facts, Zenon DEF EmitFrame
  <2>2. twice' \in BOOLEAN BY <1>1, Zenon
  <2> QED BY <1>1, <2>1, <2>2, Zenon DEF EmitFrame, SleepyInv, SleepyTypeOK, Events, Reads
<1>3. InAir' BY Zenon DEF EmitFrame, SleepyInv, InAir
<1>4. Values' BY <1>1, Zenon DEF EmitFrame, SleepyInv, Values
<1>5. Once'
  <2>1. pollch'.fresh =>
           pollch'.num <= last' /\ \A j \in Iids : <<j, pollch'.num>> \notin log'
    BY <1>1, Zenon DEF EmitFrame, EmitFresh, SleepyInv, Once
  <2>2. poll'.todo # {} =>
           /\ poll'.num <= last' /\ \A j \in poll'.todo : <<j, poll'.num>> \notin log'
           /\ pollch'.fresh => pollch'.num # poll'.num
    BY <1>1, Zenon DEF EmitFrame, EmitFresh, SleepyInv, Once
  <2>3. adv' # NoAdv =>
           /\ adv'.num <= last' /\ <<adv'.iid, adv'.num>> \notin log'
           /\ pollch'.fresh => pollch'.num # adv'.num
           /\ poll'.todo # {} => poll'.num # adv'.num
    BY <1>1, Zenon DEF EmitFrame, EmitFresh, SleepyInv, Once
  <2> QED BY <1>1, <2>1, <2>2, <2>3, Zenon DEF EmitFrame, Once
<1>6. NothingLost'
  <2> SUFFICES ASSUME ~lossy', NEW j \in Iids PROVE OnItsWay(j)'
    BY Zenon DEF NothingLost
  <2>1. ~lossy /\ ~Overtaken(i, v) /\ evq' = Append(evq, [iid |-> i, val |-> v]) BY <1>1, Zenon
  <2>f. shown' = shown /\ latest' = latest BY Zenon DEF EmitFrame
  <2>2. /\ EndsAt(i, v)'
        /\ \A x \in Nat : j # i /\ EndsAt(j, x) => EndsAt(j, x)'
        /\ \A x \in Nat : EndsAt(i, x) /\ x > v => Overtaken(i, v)
    BY <2>1, <2>f, EndsAppend, Zenon
  <2>3. OnItsWay(j) BY <2>1, Zenon DEF SleepyInv, NothingLost
  <2>4. latest[j] \in Nat /\ latest[i] \in Nat BY Facts, Zenon
  <2>5. CASE EndsAt(j, latest[j])
    <3>1. CASE j # i
      <4>1. EndsAt(j, latest[j])' BY <2>2, <2>4, <2>5, <2>f, <3>1, Zenon DEF EndsAt
      <4> QED BY <4>1, Zenon DEF OnItsWay
    <3>2. CASE j = i
      <4>1. ~(latest[i] > v) BY <2>1, <2>2, <2>4, <2>5, <3>2, Zenon
      <4>2. v = latest[i] BY <2>4, <4>1
      <4>3. EndsAt(j, latest[j])' BY <2>2, <2>f, <3>2, <4>2, Zenon DEF EndsAt
      <4> QED BY <4>3, Zenon DEF OnItsWay
    <3> QED BY <3>1, <3>2, Zenon
  <2>6. CASE j = i /\ v = latest[i]
    <3>1. EndsAt(j, latest[j])' BY <2>2, <2>6, <2>f, Zenon DEF EndsAt
    <3> QED BY <3>1, Zenon DEF OnItsWay
  <2>7. \/ last < latest[j] \/ pollch.fresh
        \/ j \in poll'.todo /\ (poll'.read.iid = j => poll'.read.val = latest[j])
        \/ adv'.iid = j /\ adv'.num = latest[j]
        \/ EndsAt(j, latest[j])
        \/ j = i /\ v = latest[i]
    BY <2>3, Zenon DEF EmitDue
  <2> QED BY <2>5, <2>6, <2>7, Zenon DEF EmitFrame, OnItsWay
<1> QED BY <1>2, <1>3, <1>4, <1>5, <1>6, Zenon DEF SleepyInv

\* The advert task emits the value of a broadcast.
LEMMA BroadcastEmitSleepy ==
    ASSUME SleepyInv, BroadcastEmit
    PROVE  SleepyInv'
<1>1. /\ adv # NoAdv /\ Emit(adv.iid, adv.num, adv.num) /\ adv' = NoAdv
      /\ UNCHANGED <<num, latest, air, last, pollch, poll, pump, shown, saved, restarts>>
  BY Zenon DEF BroadcastEmit, device
<1>2. /\ adv.iid \in Iids /\ adv.num \in Nat /\ adv.num <= last
      /\ adv.num <= latest[adv.iid] /\ <<adv.iid, adv.num>> \notin log
      /\ pollch.fresh => pollch.num # adv.num
      /\ poll.todo # {} => poll.num # adv.num
  BY <1>1, Facts, Zenon DEF SleepyInv, Values, Once
<1>3. /\ poll' \in [num : Nat, todo : SUBSET Iids, read : Reads] BY <1>1, Facts, Zenon
<1>4. EmitDue(adv.iid, adv.num) BY <1>1, Zenon DEF OnItsWay, EmitDue
<1>5. \A j \in poll'.todo : <<j, poll.num>> # <<adv.iid, adv.num>> BY <1>1, <1>2, Zenon
<1>6. EmitFrame BY <1>1, <1>3, Zenon DEF EmitFrame
<1>7. EmitFresh(adv.iid, adv.num) BY <1>1, <1>2, <1>5, Zenon DEF EmitFresh
<1> QED BY <1>1, <1>2, <1>4, <1>6, <1>7, EmitSleepy, Zenon

\* The poll task emits a value it has read.
LEMMA PollEmitSleepy ==
    ASSUME SleepyInv, PollEmit
    PROVE  SleepyInv'
<1> DEFINE i == poll.read.iid
           v == poll.read.val
           rest == poll.todo \ {i}
<1>1. /\ poll.read # NoRead /\ Emit(i, poll.num, v) /\ poll' = Rest(rest)
      /\ UNCHANGED <<num, latest, air, last, adv, pollch, pump, shown, saved, restarts>>
  BY Zenon DEF PollEmit, device
<1>2. /\ poll \in [num : Nat, todo : SUBSET Iids, read : Reads] /\ poll.read \in Reads
      /\ poll.todo \subseteq Iids
  BY Facts, Zenon
<1>3. /\ i \in poll.todo /\ i \in Iids /\ v \in Nat /\ poll.num \in Nat /\ poll.num <= last
      /\ v <= latest[i] /\ <<i, poll.num>> \notin log
      /\ pollch.fresh => pollch.num # poll.num
      /\ adv # NoAdv => poll.num # adv.num
  BY <1>1, <1>2, Zenon DEF SleepyInv, Values, Once, Reads
<1>4. /\ poll' \in [num : Nat, todo : SUBSET Iids, read : Reads] /\ poll'.read = NoRead
      /\ poll'.todo = rest /\ (poll'.todo # {} => poll'.num = poll.num)
  <2>1. NoRead \in Reads BY Zenon DEF NoRead, Reads
  <2>2. CASE rest = {} BY <1>1, <2>1, <2>2, Zenon DEF Rest, NoPoll
  <2>3. CASE rest # {} BY <1>1, <1>2, <2>1, <2>3, Zenon DEF Rest
  <2> QED BY <2>2, <2>3, Zenon
<1>5. EmitDue(i, v)
  <2>1. \A j \in Iids : NoRead.iid # j BY Facts, Zenon
  <2> QED BY <1>1, <1>4, <2>1, Zenon DEF OnItsWay, EmitDue
<1>6. \A j \in poll'.todo : <<j, poll.num>> # <<i, poll.num>> BY <1>4, Zenon
<1>7. adv' # NoAdv => <<adv'.iid, adv'.num>> # <<i, poll.num>> BY <1>1, <1>3, Zenon
<1> HIDE DEF i, v, rest
<1>8. poll'.todo \subseteq poll.todo BY <1>4, Zenon DEF rest
<1>9. EmitFrame BY <1>1, <1>4, <1>8, Zenon DEF EmitFrame
<1>10. EmitFresh(i, poll.num) BY <1>1, <1>3, <1>6, <1>7, Zenon DEF EmitFresh
<1> QED BY <1>1, <1>3, <1>5, <1>9, <1>10, EmitSleepy, Zenon

\* The poll task takes a bump.
LEMMA PollTakeSleepy ==
    ASSUME SleepyInv, PollTake
    PROVE  SleepyInv'
<1>1. /\ poll = NoPoll /\ pollch.fresh /\ poll' = [NoPoll EXCEPT !.num = pollch.num, !.todo = Iids]
      /\ pollch' = [pollch EXCEPT !.fresh = FALSE]
      /\ UNCHANGED <<num, latest, air, last, emitted, adv, evq, pump, shown, saved, log, twice,
                     lossy, restarts>>
  BY Zenon DEF PollTake, device, ghosts
<1>2. pollch \in [num : Nat, fresh : BOOLEAN] BY Facts, Zenon
<1>3. /\ poll'.num = pollch.num /\ poll'.todo = Iids /\ poll'.read = NoRead
      /\ poll' \in [num : Nat, todo : SUBSET Iids, read : Reads]
  BY <1>1, <1>2, Zenon DEF NoPoll, NoRead, Reads
<1>4. ~pollch'.fresh /\ pollch' \in [num : Nat, fresh : BOOLEAN] BY <1>1, <1>2, Zenon
<1>5. SleepyTypeOK' BY <1>1, <1>3, <1>4, Zenon DEF SleepyInv, SleepyTypeOK, Reads
<1>6. InAir' BY <1>1, Zenon DEF SleepyInv, InAir
<1>7. Values' BY <1>1, <1>3, Zenon DEF SleepyInv, Values
<1>8. Once' BY <1>1, <1>3, <1>4, Zenon DEF SleepyInv, Once
<1>9. NothingLost'
  <2>1. \A i \in Iids : NoRead.iid # i BY Facts, Zenon
  <2> QED BY <1>3, <2>1, Zenon DEF NothingLost, OnItsWay
<1> QED BY <1>5, <1>6, <1>7, <1>8, <1>9, Zenon DEF SleepyInv

\* A read returns the value the characteristic has.
LEMMA PollReadSleepy ==
    ASSUME SleepyInv, NEW i \in Iids, PollRead(i)
    PROVE  SleepyInv'
<1>1. /\ i \in poll.todo /\ poll.read = NoRead
      /\ poll' = [poll EXCEPT !.read = [iid |-> i, val |-> latest[i]]]
      /\ UNCHANGED <<num, latest, air, last, emitted, adv, pollch, evq, pump, shown, saved, log,
                     twice, lossy, restarts>>
  BY Zenon DEF PollRead, device, ghosts
<1>2. poll \in [num : Nat, todo : SUBSET Iids, read : Reads] /\ latest[i] \in Nat BY Facts, Zenon
<1>3. /\ poll'.num = poll.num /\ poll'.todo = poll.todo
      /\ poll'.read.iid = i /\ poll'.read.val = latest[i]
      /\ poll' \in [num : Nat, todo : SUBSET Iids, read : Reads]
  <2>1. [iid |-> i, val |-> latest[i]] \in Reads BY <1>2, Zenon DEF Reads
  <2> QED BY <1>1, <1>2, <2>1, Zenon
<1>4. SleepyTypeOK' BY <1>1, <1>3, Zenon DEF SleepyInv, SleepyTypeOK, Reads
<1>5. InAir' BY <1>1, Zenon DEF SleepyInv, InAir
<1>6. Values' BY <1>1, <1>2, <1>3 DEF SleepyInv, Values
<1>7. Once' BY <1>1, <1>3, Zenon DEF SleepyInv, Once
<1>8. NothingLost'
  <2>1. \A j \in Iids : EndsAt(j, latest[j]) => EndsAt(j, latest[j])' BY <1>1, Zenon DEF EndsAt
  <2>2. \A j \in Iids : OnItsWay(j) => OnItsWay(j)' BY <1>1, <1>3, <2>1, Zenon DEF OnItsWay
  <2> QED BY <1>1, <2>2, Zenon DEF SleepyInv, NothingLost
<1> QED BY <1>4, <1>5, <1>6, <1>7, <1>8, Zenon DEF SleepyInv

\* A read fails.
LEMMA PollReadFailsSleepy ==
    ASSUME SleepyInv, NEW i \in Iids, PollReadFails(i)
    PROVE  SleepyInv'
<1>1. /\ poll' = Rest(poll.todo \ {i}) /\ lossy' = TRUE
      /\ UNCHANGED <<num, latest, air, last, emitted, adv, pollch, evq, pump, shown, saved, log,
                     twice, restarts>>
  BY Zenon DEF PollReadFails, device, ghosts
<1>2. poll \in [num : Nat, todo : SUBSET Iids, read : Reads] BY Facts, Zenon
<1>3. /\ poll' \in [num : Nat, todo : SUBSET Iids, read : Reads] /\ poll'.read = NoRead
      /\ poll'.todo \subseteq poll.todo /\ (poll'.todo # {} => poll'.num = poll.num)
  <2>1. NoRead \in Reads BY Zenon DEF NoRead, Reads
  <2>2. CASE poll.todo \ {i} = {} BY <1>1, <2>1, <2>2, Zenon DEF Rest, NoPoll
  <2>3. CASE poll.todo \ {i} # {} BY <1>1, <1>2, <2>1, <2>3, Zenon DEF Rest
  <2> QED BY <2>2, <2>3, Zenon
<1>4. SleepyTypeOK'
  <2>1. lossy' \in BOOLEAN BY <1>1, Zenon
  <2> QED BY <1>1, <1>3, <2>1, Zenon DEF SleepyInv, SleepyTypeOK, Reads
<1>5. InAir' BY <1>1, Zenon DEF SleepyInv, InAir
<1>6. Values' BY <1>1, <1>3, Zenon DEF SleepyInv, Values
<1>7. Once' BY <1>1, <1>3, Zenon DEF SleepyInv, Once
<1> QED BY <1>1, <1>4, <1>5, <1>6, <1>7, Zenon DEF SleepyInv, NothingLost

\* An event is delivered: the stream still ends where it did.
LEMMA DeliverSleepy ==
    ASSUME SleepyInv, Deliver
    PROVE  SleepyInv'
<1> DEFINE h == Head(evq)
<1>1. /\ evq # <<>> /\ shown' = [shown EXCEPT ![h.iid] = h.val] /\ evq' = Tail(evq)
      /\ pump' = "save"
      /\ UNCHANGED <<num, latest, air, last, emitted, adv, pollch, poll, saved, log, twice, lossy,
                     restarts>>
  BY Zenon DEF Deliver, device, ghosts
<1>2. /\ evq \in Seq(Events) /\ Len(evq) \in Nat /\ shown \in [Iids -> Nat]
      /\ \A k \in 1..Len(evq) : evq[k].iid \in Iids /\ evq[k].val \in Nat
  BY Facts, Zenon
<1>3. /\ h = evq[1] /\ 1 \in 1..Len(evq)
      /\ evq' \in Seq(Events) /\ Len(evq') = Len(evq) - 1
      /\ \A k \in 1..Len(evq) - 1 : evq'[k] = evq[k + 1]
  BY <1>1, <1>2
<1>4. h.iid \in Iids /\ h.val \in Nat /\ h.val <= latest[h.iid]
  BY <1>2, <1>3, Zenon DEF SleepyInv, Values
<1> HIDE DEF h
<1>5. /\ shown' \in [Iids -> Nat] /\ shown'[h.iid] = h.val
      /\ \A j \in Iids : j # h.iid => shown'[j] = shown[j]
  BY <1>1, <1>2, <1>4, Zenon
<1>6. SleepyTypeOK' BY <1>1, <1>3, <1>5, Zenon DEF SleepyInv, SleepyTypeOK, Events
<1>7. InAir' BY <1>1, Zenon DEF SleepyInv, InAir
<1>8. Values'
  <2>1. \A k \in 1..Len(evq') : evq'[k].val <= latest[evq'[k].iid]
    <3>1. \A k \in 1..Len(evq') : k + 1 \in 1..Len(evq) /\ evq'[k] = evq[k + 1] BY <1>2, <1>3
    <3> QED BY <3>1, Zenon DEF SleepyInv, Values
  <2>2. \A j \in Iids : shown'[j] <= latest[j] BY <1>4, <1>5, Zenon DEF SleepyInv, Values
  <2> QED BY <1>1, <2>1, <2>2, Zenon DEF SleepyInv, Values
<1>9. Once' BY <1>1, Zenon DEF SleepyInv, Once
<1>10. ASSUME NEW j \in Iids, EndsAt(j, latest[j]) PROVE EndsAt(j, latest[j])'
  <2>1. \A m \in 1..Len(evq') : m + 1 \in 1..Len(evq) /\ evq'[m] = evq[m + 1] BY <1>2, <1>3
  <2>2. CASE shown[j] = latest[j] /\ \A m \in 1..Len(evq) : evq[m].iid # j
    <3>1. shown'[j] = latest[j] BY <1>3, <1>5, <2>2, Zenon
    <3>2. \A m \in 1..Len(evq') : evq'[m].iid # j BY <2>1, <2>2, Zenon
    <3> QED BY <1>1, <3>1, <3>2, Zenon DEF EndsAt
  <2>3. CASE \E k \in 1..Len(evq) : /\ evq[k].iid = j /\ evq[k].val = latest[j]
                                    /\ \A m \in 1..Len(evq) : m > k => evq[m].iid # j
    <3>1. PICK k \in 1..Len(evq) : /\ evq[k].iid = j /\ evq[k].val = latest[j]
                                   /\ \A m \in 1..Len(evq) : m > k => evq[m].iid # j
      BY <2>3, Zenon
    <3>2. CASE k = 1
      <4>1. shown'[j] = latest[j] BY <1>3, <1>5, <3>1, <3>2, Zenon
      <4>2. \A m \in 1..Len(evq') : m + 1 > 1 OBVIOUS
      <4>3. \A m \in 1..Len(evq') : evq'[m].iid # j BY <2>1, <3>1, <3>2, <4>2, Zenon
      <4> QED BY <1>1, <4>1, <4>3, Zenon DEF EndsAt
    <3>3. CASE k # 1
      <4>1. k - 1 \in 1..Len(evq') /\ evq'[k - 1] = evq[k] BY <1>2, <1>3, <3>3
      <4>2. \A m \in 1..Len(evq') : m > k - 1 => m + 1 > k BY <1>2
      <4>3. \A m \in 1..Len(evq') : m > k - 1 => evq'[m].iid # j BY <2>1, <3>1, <4>2, Zenon
      <4> QED BY <1>1, <3>1, <4>1, <4>3 DEF EndsAt
    <3> QED BY <3>2, <3>3, Zenon
  <2> QED BY <1>10, <2>2, <2>3, Zenon DEF EndsAt
<1>11. NothingLost'
  <2>1. \A j \in Iids : OnItsWay(j) => OnItsWay(j)' BY <1>1, <1>10, Zenon DEF OnItsWay
  <2> QED BY <1>1, <2>1, Zenon DEF SleepyInv, NothingLost
<1> QED BY <1>6, <1>7, <1>8, <1>9, <1>11, Zenon DEF SleepyInv

\* The pump persists, or fails to.
LEMMA SaveSleepy ==
    ASSUME SleepyInv, Save
    PROVE  SleepyInv'
<1>1. /\ saved' \in {saved, last} /\ pump' = "recv"
      /\ UNCHANGED <<num, latest, air, last, emitted, adv, pollch, poll, evq, shown, log, twice,
                     lossy, restarts>>
  BY Zenon DEF Save, device, ghosts
<1>2. saved' \in Nat /\ saved' <= num BY <1>1, Facts, Zenon
<1>3. SleepyTypeOK' BY <1>1, <1>2, Zenon DEF SleepyInv, SleepyTypeOK
<1>4. InAir' BY <1>1, Zenon DEF SleepyInv, InAir
<1>5. Values' BY <1>1, <1>2, Zenon DEF SleepyInv, Values
<1>6. Once' BY <1>1, Zenon DEF SleepyInv, Once
<1>7. NothingLost'
  <2>1. \A i \in Iids : EndsAt(i, latest[i]) => EndsAt(i, latest[i])' BY <1>1, Zenon DEF EndsAt
  <2>2. \A i \in Iids : OnItsWay(i) => OnItsWay(i)' BY <1>1, <2>1, Zenon DEF OnItsWay
  <2> QED BY <1>1, <2>2, Zenon DEF SleepyInv, NothingLost
<1> QED BY <1>3, <1>4, <1>5, <1>6, <1>7, Zenon DEF SleepyInv

\* The process ends and the watch is armed again from the store.
LEMMA RestartSleepy ==
    ASSUME SleepyInv, Restart
    PROVE  SleepyInv'
<1>1. /\ restarts < MaxRestarts /\ restarts' = restarts + 1 /\ last' = saved
      /\ emitted' = [i \in Iids |-> Absent] /\ adv' = NoAdv
      /\ pollch' = [num |-> 0, fresh |-> FALSE] /\ poll' = NoPoll /\ evq' = <<>>
      /\ pump' = "recv" /\ log' = {}
      /\ lossy' = (lossy \/ \E i \in Iids : latest[i] <= saved /\ shown[i] < latest[i])
      /\ UNCHANGED <<num, latest, air, shown, saved, twice>>
  BY Zenon DEF Restart, device
<1>2. /\ saved \in Nat /\ saved <= num /\ num \in Nat /\ latest \in [Iids -> Nat]
      /\ shown \in [Iids -> Nat]
  BY Facts, Zenon
<1>3. /\ poll'.read = NoRead /\ poll'.todo = {}
      /\ poll' \in [num : Nat, todo : SUBSET Iids, read : Reads]
  BY <1>1, Zenon DEF NoPoll, NoRead, Reads
<1>4. ~pollch'.fresh /\ pollch' \in [num : Nat, fresh : BOOLEAN] BY <1>1, Zenon
<1>5. SleepyTypeOK'
  <2>1. adv' \in [iid : Iids \cup {Absent}, num : Nat] BY <1>1, Zenon DEF NoAdv
  <2>2. lossy' \in BOOLEAN BY <1>1, Zenon
  <2>3. restarts' \in 0..MaxRestarts
    <3>1. restarts \in 0..MaxRestarts /\ MaxRestarts \in Nat
      BY SleepyAssumption, Zenon DEF SleepyInv, SleepyTypeOK
    <3> QED BY <1>1, <3>1
  <2>4. emitted' \in [Iids -> Nat \cup {Absent}] BY <1>1, Zenon
  <2>5. evq' \in Seq([iid : Iids, val : Nat]) BY <1>1
  <2> QED
    BY <1>1, <1>2, <1>3, <1>4, <2>1, <2>2, <2>3, <2>4, <2>5, Zenon DEF SleepyInv, SleepyTypeOK, Reads
<1>6. InAir' BY <1>1, Zenon DEF SleepyInv, InAir
<1>7. Values' BY <1>1, <1>3, SMTT(60) DEF SleepyInv, Values
<1>8. Once' BY <1>1, <1>3, <1>4, Zenon DEF SleepyInv, Once
<1>9. NothingLost'
  <2> SUFFICES ASSUME ~lossy', NEW i \in Iids PROVE OnItsWay(i)'
    BY Zenon DEF NothingLost
  <2>1. ~(latest[i] <= saved /\ shown[i] < latest[i]) BY <1>1, Zenon
  <2>2. latest[i] \in Nat /\ shown[i] \in Nat /\ shown[i] <= latest[i]
    BY <1>2, Zenon DEF SleepyInv, Values
  <2>3. saved < latest[i] \/ shown[i] = latest[i] BY <1>2, <2>1, <2>2
  <2>4. \A m \in 1..Len(evq') : FALSE BY <1>1
  <2>5. shown[i] = latest[i] => EndsAt(i, latest[i])' BY <1>1, <2>4, Zenon DEF EndsAt
  <2> QED BY <1>1, <2>3, <2>5, Zenon DEF OnItsWay
<1> QED BY <1>5, <1>6, <1>7, <1>8, <1>9, Zenon DEF SleepyInv

\* Nothing happens.
LEMMA StutterSleepy ==
    ASSUME SleepyInv, UNCHANGED sleepyVars
    PROVE  SleepyInv'
<1> USE DEF sleepyVars
<1>1. SleepyTypeOK' BY Zenon DEF SleepyInv, SleepyTypeOK
<1>2. InAir' BY Zenon DEF SleepyInv, InAir
<1>3. Values' BY Zenon DEF SleepyInv, Values
<1>4. Once' BY Zenon DEF SleepyInv, Once
<1>5. NothingLost'
  <2>1. \A i \in Iids : EndsAt(i, latest[i]) => EndsAt(i, latest[i])' BY Zenon DEF EndsAt
  <2>2. \A i \in Iids : OnItsWay(i) => OnItsWay(i)' BY <2>1, Zenon DEF OnItsWay
  <2> QED BY <2>2, Zenon DEF SleepyInv, NothingLost
<1> QED BY <1>1, <1>2, <1>3, <1>4, <1>5, Zenon DEF SleepyInv

-----------------------------------------------------------------------------
(* the theorems *)

\* last_gsn lets each change in once between restarts, and the last value of
\* every characteristic is somewhere on its way to the stream.
THEOREM SleepyInvariant == SleepySpec => []SleepyInv
<1>1. SleepyInit => SleepyInv BY InitSleepy, Zenon
<1>2. SleepyInv /\ [SleepyNext]_sleepyVars => SleepyInv'
  <2> SUFFICES ASSUME SleepyInv, [SleepyNext]_sleepyVars PROVE SleepyInv'
    BY Zenon
  <2>1. CASE UNCHANGED sleepyVars BY <2>1, StutterSleepy, Zenon
  <2>2. ASSUME NEW a \in air, Regular(a) \/ BroadcastHeard(a) PROVE SleepyInv'
    BY <2>2, RegularSleepy, BroadcastSleepy, Zenon
  <2>3. ASSUME NEW i \in Iids, Change(i) \/ PollRead(i) \/ PollReadFails(i) PROVE SleepyInv'
    BY <2>3, ChangeSleepy, PollReadSleepy, PollReadFailsSleepy, Zenon
  <2>4. CASE BroadcastEmit BY <2>4, BroadcastEmitSleepy, Zenon
  <2>5. CASE PollTake BY <2>5, PollTakeSleepy, Zenon
  <2>6. CASE PollEmit BY <2>6, PollEmitSleepy, Zenon
  <2>7. CASE Deliver BY <2>7, DeliverSleepy, Zenon
  <2>8. CASE Save BY <2>8, SaveSleepy, Zenon
  <2>9. CASE Restart BY <2>9, RestartSleepy, Zenon
  <2>10. CASE Finished BY <2>10, StutterSleepy, Zenon DEF Finished
  <2> QED BY <2>1, <2>2, <2>3, <2>4, <2>5, <2>6, <2>7, <2>8, <2>9, <2>10, Zenon DEF SleepyNext
<1> QED BY <1>1, <1>2, PTL DEF SleepySpec

\* The tasks of a sleepy watch keep their types, and last_gsn never runs ahead
\* of the accessory.
THEOREM SleepyTypes == SleepySpec => []SleepyTypeOK
<1>1. SleepyInv => SleepyTypeOK BY Zenon DEF SleepyInv
<1> QED BY <1>1, SleepyInvariant, PTL

\* The guarantee documented at dedup_should_emit: one emission per (iid, gsn)
\* between restarts, from the gating by last_gsn.
THEOREM EmittedOnce == SleepySpec => []ExactlyOnce
<1>1. SleepyInv => ExactlyOnce BY Zenon DEF SleepyInv, Once, ExactlyOnce
<1> QED BY <1>1, SleepyInvariant, PTL

\* The two tasks of watch_sleepy_events_with_source and the pump lose an event
\* in the named ways and no other.
THEOREM EveryChangeAccountedFor == SleepySpec => []AccountedFor
<1>1. SleepyInv => AccountedFor
  <2> SUFFICES ASSUME SleepyInv, ~lossy, NEW i \in Iids, shown[i] < latest[i]
               PROVE  StillDue(i)
    BY Zenon DEF AccountedFor
  <2>1. OnItsWay(i) BY Zenon DEF SleepyInv, NothingLost
  <2>2. shown[i] # latest[i]
    <3>1. shown[i] \in Nat /\ latest[i] \in Nat BY Facts, Zenon
    <3> QED BY <3>1
  <2>3. EndsAt(i, latest[i]) => \E k \in 1..Len(evq) : evq[k].iid = i BY <2>2, Zenon DEF EndsAt
  <2> QED BY <2>1, <2>3, Zenon DEF OnItsWay, StillDue
<1> QED BY <1>1, SleepyInvariant, PTL

-----------------------------------------------------------------------------
(* Controller *)

Underway ==
    /\ op.id \in Accessories /\ ctl.up /\ saving = None
    /\ \/ op.call = "pair" /\ op.at = "setup"
       \/ /\ op.call = "pair" /\ op.at \in {"verify", "save"}
          /\ op.pairing \in 1..MaxPairings
          /\ op.id \in Stored => op.id \in severed
          /\ \/ trust[op.id] = [controller |-> identity, pairing |-> op.pairing]
             \/ trust[op.id] = None /\ op.id \in severed
       \/ op.call = "remove" /\ op.at = "verify" /\ op.pairing \in 1..MaxPairings
       \/ /\ op.call = "remove" /\ op.at = "delete"
          /\ trust[op.id] # None => op.id \in orphaned

SavesCurrent ==
    saving # None =>
        /\ ctl.up /\ op = Idle
        /\ saving.id \in Stored /\ saving.stored.pairing = record[saving.id].pairing

ControllerInv ==
    /\ TypeOK
    /\ IdentityDurable /\ RecordsWork /\ NoOrphans
    /\ identity = None => Stored = {}
    /\ ctl.up => identity # None /\ ctl.identity = identity /\ ctl.cached = Stored
    /\ op = Idle \/ Underway
    /\ SavesCurrent

-----------------------------------------------------------------------------
(* types *)

\* Types hold at the start.
LEMMA InitTypes == Init => TypeOK
<1> SUFFICES ASSUME Init PROVE TypeOK BY Zenon
<1>1. ctl \in [up : BOOLEAN, identity : 1..MaxIdentities \cup {None}, cached : SUBSET Accessories]
  BY Zenon DEF Init, Closed
<1>2. op \in [call : Calls \cup {None}, id : Accessories \cup {None}, at : Places \cup {None},
             pairing : 1..MaxPairings \cup {None}]
  BY Zenon DEF Init, Idle
<1>3. generated \in 0..MaxIdentities /\ paired \in 0..MaxPairings /\ crashes \in 0..MaxCrashes
  BY ControllerAssumption DEF Init
<1> QED BY <1>1, <1>2, <1>3, Zenon DEF Init, TypeOK

\* A record of which only the GSN changes.
LEMMA GsnTypes ==
    ASSUME NEW r \in Records, NEW g \in Gsns
    PROVE  /\ [r EXCEPT !.gsn = g] \in Records /\ [r EXCEPT !.gsn = g].pairing = r.pairing
BY Zenon DEF Records

\* Every step keeps the types.
LEMMA StepTypes == ControllerInv /\ [Next]_vars => TypeOK'
<1> SUFFICES ASSUME ControllerInv, [Next]_vars PROVE TypeOK'
  BY Zenon
<1>t. TypeOK BY Zenon DEF ControllerInv
<1> USE <1>t, ControllerAssumption, NoneAssumption DEF shared, halves, counts
<1>0. Stored \subseteq Accessories /\ \A a \in Stored : record[a] \in Records
  BY Zenon DEF Stored, TypeOK
<1>u. op # Idle => op.id \in Accessories /\ ctl.identity \in 1..MaxIdentities
  BY Zenon DEF ControllerInv, Underway, TypeOK
<1>1. CASE Load BY <1>0, <1>1, Zenon DEF Load, Opened, TypeOK
<1>2. CASE Create
  <2>1. generated + 1 \in 1..MaxIdentities BY <1>2 DEF Create, TypeOK
  <2>2. CASE identity' = generated + 1 /\ Opened(generated + 1)
    <3>1. ctl' \in [up : BOOLEAN, identity : 1..MaxIdentities \cup {None}, cached : SUBSET Accessories]
      BY <1>0, <2>1, <2>2, Zenon DEF Opened
    <3>2. generated' \in 0..MaxIdentities BY <1>2, <2>1 DEF Create
    <3> QED BY <1>2, <2>1, <2>2, <3>1, <3>2, Zenon DEF Create, TypeOK
  <2>3. CASE UNCHANGED <<identity, ctl>> BY <1>2, <2>1, <2>3 DEF Create, TypeOK
  <2> QED BY <1>2, <2>2, <2>3, Zenon DEF Create
<1>3. CASE Fail BY <1>3, <1>u, Zenon DEF Fail, CutShort, MadeUnrecorded, RemovedRecorded, Idle, TypeOK
<1>4. CASE PairSetup
  <2>1. paired + 1 \in 1..MaxPairings BY <1>4 DEF PairSetup, TypeOK
  <2>2. op' \in [call : Calls \cup {None}, id : Accessories \cup {None}, at : Places \cup {None},
                 pairing : 1..MaxPairings \cup {None}]
    BY <1>4, <2>1, Zenon DEF PairSetup, Places, TypeOK
  <2>3. op # Idle BY <1>4 DEF PairSetup, At, Idle, Calls
  <2> QED BY <1>4, <1>u, <2>1, <2>2, <2>3 DEF PairSetup, Trusts, TypeOK
<1>5. CASE PairVerify BY <1>5, Zenon DEF PairVerify, Places, TypeOK
<1>6. CASE PairSave
  <2>1. op.id \in Accessories /\ op.pairing \in 1..MaxPairings
    BY <1>6 DEF PairSave, At, Idle, Calls, ControllerInv, Underway
  <2> QED BY <1>6, <2>1 DEF PairSave, Records, Gsns, Idle, TypeOK
<1>7. CASE RemoveRemote BY <1>7, Zenon DEF RemoveRemote, Places, TypeOK
<1>8. CASE RemoveUnwritten BY <1>8 DEF RemoveUnwritten, Places, TypeOK
<1>9. CASE RemoveDelete BY <1>9, Zenon DEF RemoveDelete, Forgotten, Idle, TypeOK
<1>10. CASE SaveWrite
  <2>1. [saving.stored EXCEPT !.gsn = saving.gsn] \in Records
    BY <1>10, GsnTypes, Zenon DEF SaveWrite, Savings, TypeOK
  <2> QED BY <1>10, <2>1 DEF SaveWrite, TypeOK
<1>11. CASE Crash
  <2>1. orphaned' \subseteq Accessories /\ severed' \subseteq Accessories
    <3>1. MadeUnrecorded \/ RemovedRecorded => op.id \in Accessories
      BY <1>u DEF MadeUnrecorded, RemovedRecorded, Idle, Calls
    <3> QED BY <1>11, <3>1 DEF Crash, CutShort, TypeOK
  <2>2. ctl' \in [up : BOOLEAN, identity : 1..MaxIdentities \cup {None}, cached : SUBSET Accessories]
    BY <1>11, Zenon DEF Crash, Closed
  <2>3. op' \in [call : Calls \cup {None}, id : Accessories \cup {None}, at : Places \cup {None},
                 pairing : 1..MaxPairings \cup {None}]
    BY <1>11, Zenon DEF Crash, Idle
  <2>4. handle' \in [Ble -> Gsns \cup {None}] /\ watch' \in [Ble -> Watches \cup {None}]
    BY <1>11, Zenon DEF Crash
  <2>5. waiting' \in [Ble -> Waits \cup {None}] /\ saving' \in Savings \cup {None}
    BY <1>11, Zenon DEF Crash
  <2>6. crashes' \in 0..MaxCrashes BY <1>11 DEF Crash, TypeOK
  <2> QED BY <1>11, <2>1, <2>2, <2>3, <2>4, <2>5, <2>6, Zenon DEF Crash, TypeOK
<1>12. ASSUME NEW a \in Accessories, Pair(a) \/ Remove(a) \/ Forget(a) \/ FactoryReset(a)
       PROVE  TypeOK'
  <2>1. CASE Pair(a) BY <2>1, Zenon DEF Pair, Begin, Calls, Places, TypeOK
  <2>2. CASE Remove(a) BY <1>0, <2>2, Zenon DEF Remove, Begin, Calls, Places, Records, TypeOK
  <2>3. CASE Forget(a) BY <2>3, Zenon DEF Forget, Forgotten, TypeOK
  <2>4. CASE FactoryReset(a) BY <2>4, Zenon DEF FactoryReset, TypeOK
  <2> QED BY <1>12, <2>1, <2>2, <2>3, <2>4, Zenon
<1>13. ASSUME NEW a \in Ble, Connect(a) \/ HandleSees(a) \/ HandleDrop(a) \/ SaveLoad(a)
       PROVE  TypeOK'
  <2>1. CASE Connect(a) BY <1>0, <2>1, Zenon DEF Connect, Records, TypeOK
  <2>2. CASE HandleSees(a)
    <3>1. handle[a] + 1 \in Gsns BY <2>2 DEF HandleSees, Gsns, TypeOK
    <3> QED BY <2>2, <3>1, Zenon DEF HandleSees, TypeOK
  <2>3. CASE HandleDrop(a) BY <2>3, Zenon DEF HandleDrop, TypeOK
  <2>4. CASE SaveLoad(a) BY <1>0, <2>4, Zenon DEF SaveLoad, Savings, TypeOK
  <2> QED BY <1>13, <2>1, <2>2, <2>3, <2>4, Zenon
<1>14. ASSUME NEW a \in Ble,
              WaitStart(a) \/ WaitUnreachable(a) \/ WaitRejected(a) \/ WaitConnects(a) \/ WaitDrop(a)
       PROVE  TypeOK'
  <2>1. CASE WaitStart(a)
    <3>1. record[a] \in Records BY <1>0, <2>1, Zenon DEF WaitStart
    <3>2. [pairing |-> record[a].pairing, gsn |-> record[a].gsn, failures |-> 0] \in Waits
      BY <3>1 DEF Waits, Records
    <3>3. waiting' \in [Ble -> Waits \cup {None}] BY <2>1, <3>2, Zenon DEF WaitStart, TypeOK
    <3> QED BY <2>1, <3>3, Zenon DEF WaitStart, TypeOK
  <2>2. CASE WaitUnreachable(a) BY <2>2, Zenon DEF WaitUnreachable, vars, TypeOK
  <2>3. CASE WaitRejected(a)
    <3>1. waiting[a] \in Waits BY <2>3, Zenon DEF WaitRejected, TypeOK
    <3>2. waiting[a].failures + 1 < MAX_SESSION_FAILURES
            => [waiting[a] EXCEPT !.failures = @ + 1] \in Waits
      BY <3>1 DEF Waits
    <3> DEFINE w == IF waiting[a].failures + 1 >= MAX_SESSION_FAILURES THEN None
                    ELSE [waiting[a] EXCEPT !.failures = @ + 1]
    <3>3. waiting' = [waiting EXCEPT ![a] = w] BY <2>3, Zenon DEF WaitRejected
    <3>4. w \in Waits \cup {None} BY <3>1, <3>2 DEF Waits
    <3> HIDE DEF w
    <3> QED BY <2>3, <3>3, <3>4 DEF WaitRejected, TypeOK
  <2>4. CASE WaitConnects(a) BY <2>4, Zenon DEF WaitConnects, Waits, TypeOK
  <2>5. CASE WaitDrop(a) BY <2>5, Zenon DEF WaitDrop, TypeOK
  <2> QED BY <1>14, <2>1, <2>2, <2>3, <2>4, <2>5, Zenon
<1>15. ASSUME NEW a \in Ble,
              WatchArm(a) \/ PumpEvent(a) \/ PumpSave(a) \/ WatchSees(a) \/ WatchFlush(a) \/ WatchDrop(a)
       PROVE  TypeOK'
  <2>1. CASE WatchArm(a) BY <1>0, <2>1, Zenon DEF WatchArm, Watches, Records, TypeOK
  <2>2. CASE PumpEvent(a)
    <3>1. [watch[a] EXCEPT !.snapshot = watch[a].gsn] \in Watches
      BY <2>2 DEF PumpEvent, Watches, TypeOK
    <3> QED BY <2>2, <3>1 DEF PumpEvent, TypeOK
  <2>3. CASE PumpSave(a)
    <3>1. [watch[a] EXCEPT !.snapshot = None] \in Watches /\ watch[a].snapshot \in Gsns
      BY <2>3 DEF PumpSave, Watches, TypeOK
    <3>2. a \in Stored => [record[a] EXCEPT !.gsn = watch[a].snapshot] \in Records
      BY <1>0, <3>1, GsnTypes, Zenon
    <3> QED BY <2>3, <3>1, <3>2 DEF PumpSave, Broadcast, TypeOK
  <2>4. CASE WatchSees(a)
    <3>1. [watch[a] EXCEPT !.gsn = @ + 1] \in Watches
      BY <2>4 DEF WatchSees, Watches, Gsns, TypeOK
    <3> QED BY <2>4, <3>1, Zenon DEF WatchSees, TypeOK
  <2>5. CASE WatchFlush(a)
    <3>1. a \in Stored => [record[a] EXCEPT !.gsn = watch[a].gsn] \in Records
      BY <1>0, <2>5, GsnTypes, Zenon DEF WatchFlush, Watches, TypeOK
    <3> QED BY <2>5, <3>1 DEF WatchFlush, Broadcast, TypeOK
  <2>6. CASE WatchDrop(a) BY <2>6, Zenon DEF WatchDrop, TypeOK
  <2> QED BY <1>15, <2>1, <2>2, <2>3, <2>4, <2>5, <2>6, Zenon
<1>16. CASE UNCHANGED vars BY <1>16, Zenon DEF vars, TypeOK
<1> QED
  BY <1>1, <1>2, <1>3, <1>4, <1>5, <1>6, <1>7, <1>8, <1>9, <1>10, <1>11, <1>12, <1>13, <1>14, <1>15,
     <1>16, Zenon DEF Next

-----------------------------------------------------------------------------
(* the invariant *)

\* The invariant holds at the start.
LEMMA InitInv == Init => ControllerInv
<1> SUFFICES ASSUME Init PROVE ControllerInv
  BY Zenon
<1>1. TypeOK BY InitTypes, Zenon
<1>2. Stored = {} BY Zenon DEF Init, Stored
<1>3. ~ctl.up /\ op = Idle /\ saving = None BY Zenon DEF Init, Closed
<1>4. \A a \in Accessories : trust[a] = None BY Zenon DEF Init
<1> QED
  BY <1>1, <1>2, <1>3, <1>4, Zenon
    DEF ControllerInv, IdentityDurable, RecordsWork, NoOrphans, SavesCurrent

\* A step that leaves both halves of every pairing as they are, whatever it
\* does to the GSNs, keeps the invariant.
LEMMA GsnStep ==
    ASSUME ControllerInv, TypeOK',
           UNCHANGED <<identity, trust, ctl, op, orphaned, severed>>,
           saving' = saving \/ saving' = None,
           \A a \in Accessories : (record'[a] = None) <=> (record[a] = None),
           \A a \in Stored : record'[a].pairing = record[a].pairing
    PROVE  ControllerInv'
<1>1. Stored' = Stored BY Zenon DEF Stored
<1>2. InFlight' = InFlight BY Zenon DEF InFlight, MadeUnrecorded, RemovedRecorded
<1>3. RecordsWork' BY <1>1, <1>2, Zenon DEF ControllerInv, RecordsWork
<1>4. NoOrphans' BY <1>1, <1>2, Zenon DEF ControllerInv, NoOrphans
<1>5. Underway => Underway' \/ op = Idle BY <1>1, Zenon DEF Underway
<1>6. SavesCurrent' BY <1>1, Zenon DEF ControllerInv, SavesCurrent
<1> QED BY <1>1, <1>3, <1>4, <1>5, <1>6, Zenon DEF ControllerInv, IdentityDurable

\* Opening the controller.
LEMMA OpenStep ==
    ASSUME ControllerInv, TypeOK', Load \/ Create
    PROVE  ControllerInv'
<1> USE NoneAssumption DEF shared, halves, counts
<1>1. op = Idle /\ saving = None /\ UNCHANGED <<record, trust, op, saving, halves>>
  BY Zenon DEF Load, Create, ControllerInv, Underway, SavesCurrent
<1>2. Stored' = Stored /\ InFlight' = InFlight
  BY <1>1, Zenon DEF Stored, InFlight, MadeUnrecorded, RemovedRecorded
<1>3. identity' = identity \/ identity = None BY Zenon DEF Load, Create
<1>4. identity = None => \A a \in Accessories : trust[a] = None
  <2> SUFFICES ASSUME NEW a \in Accessories, trust[a] # None PROVE identity # None
    BY Zenon
  <2>1. trust[a] \in Trusts BY Zenon DEF ControllerInv, TypeOK
  <2>2. trust[a].controller \in Nat BY <2>1, ControllerAssumption DEF Trusts
  <2>3. trust[a].controller = identity BY Zenon DEF ControllerInv, IdentityDurable
  <2> QED BY <2>2, <2>3, Zenon
<1>5. IdentityDurable' BY <1>1, <1>3, <1>4, Zenon DEF ControllerInv, IdentityDurable
<1>6. RecordsWork'
  BY <1>1, <1>2, <1>3, Zenon DEF ControllerInv, RecordsWork
<1>7. NoOrphans' BY <1>1, <1>2, Zenon DEF ControllerInv, NoOrphans
<1>8. ctl.up' => identity' # None /\ ctl.identity' = identity' /\ ctl.cached' = Stored'
  <2>1. CASE Load BY <1>2, <2>1, Zenon DEF Load, Opened
  <2>2. CASE Create
    <3>1. generated + 1 # None /\ ~ctl.up BY <2>2 DEF Create, ControllerInv, TypeOK
    <3>2. CASE identity' = generated + 1 /\ Opened(generated + 1) BY <1>2, <3>1, <3>2, Zenon DEF Opened
    <3>3. CASE ctl' = ctl BY <3>1, <3>3, Zenon
    <3> QED BY <2>2, <3>2, <3>3, Zenon DEF Create
  <2> QED BY <2>1, <2>2, Zenon
<1>9. identity' = None => Stored' = {} BY <1>2, <1>3, Zenon DEF ControllerInv
<1> QED BY <1>1, <1>5, <1>6, <1>7, <1>8, <1>9, Zenon DEF ControllerInv, SavesCurrent

\* What the operation under way knows of the halves of its pairing.
LEMMA CutShortStep ==
    ASSUME ControllerInv, TypeOK', CutShort, op # Idle, op' = Idle,
           UNCHANGED <<identity, record, trust>>, saving' = None,
           ctl' = ctl \/ ~ctl.up'
    PROVE  ControllerInv'
<1>1. Underway BY Zenon DEF ControllerInv
<1>2. Stored' = Stored BY Zenon DEF Stored
<1>3. InFlight' = {}
  BY NoneAssumption, Zenon DEF InFlight, MadeUnrecorded, RemovedRecorded, Idle, Calls
<1>4. InFlight \subseteq {op.id} BY Zenon DEF InFlight
<1>5. orphaned \subseteq orphaned' /\ severed \subseteq severed' BY Zenon DEF CutShort
<1>6. RecordsWork'
  <2> SUFFICES ASSUME NEW a \in Stored, a \notin severed'
               PROVE  trust[a] = [controller |-> identity, pairing |-> record[a].pairing]
    BY <1>2, <1>3, Zenon DEF RecordsWork
  <2>1. a \notin InFlight
    BY <1>1, <1>5, Zenon DEF InFlight, CutShort, MadeUnrecorded, RemovedRecorded, Underway
  <2> QED BY <1>5, <2>1, Zenon DEF ControllerInv, RecordsWork
<1>7. NoOrphans'
  <2> SUFFICES ASSUME NEW a \in Accessories, a \notin orphaned', trust[a] # None
               PROVE  a \in Stored
    BY <1>2, <1>3, Zenon DEF NoOrphans
  <2>1. a \notin InFlight
    BY <1>1, <1>5, Zenon DEF InFlight, CutShort, MadeUnrecorded, RemovedRecorded, Underway
  <2> QED BY <1>5, <2>1, Zenon DEF ControllerInv, NoOrphans
<1> QED BY <1>2, <1>6, <1>7, Zenon DEF ControllerInv, IdentityDurable, SavesCurrent

\* The steps of pair.
LEMMA PairStep ==
    ASSUME ControllerInv, TypeOK', PairSetup \/ PairVerify \/ PairSave
    PROVE  ControllerInv'
<1> USE NoneAssumption DEF shared, halves, counts
<1>1. Underway /\ op.call = "pair" /\ op.id \in Accessories
  BY DEF PairSetup, PairVerify, PairSave, At, Idle, Calls, ControllerInv, Underway
<1>2. ctl.up /\ ctl.identity = identity /\ ctl.cached = Stored /\ identity # None /\ saving = None
  BY <1>1, Zenon DEF ControllerInv, Underway
<1>3. UNCHANGED <<identity, saving>> BY Zenon DEF PairSetup, PairVerify, PairSave
<1>4. CASE PairSetup
  <2>1. Stored' = Stored /\ UNCHANGED <<record, ctl, orphaned, severed>>
    BY <1>4, Zenon DEF PairSetup, Stored
  <2>2. op' = [op EXCEPT !.at = "verify", !.pairing = paired + 1] BY <1>4, Zenon DEF PairSetup
  <2>3. op'.call = "pair" /\ op'.at = "verify" /\ op'.id = op.id /\ op'.pairing = paired + 1
    BY <1>1, <2>2, Zenon DEF ControllerInv, TypeOK
  <2>4. InFlight = {} /\ InFlight' = {op.id}
    BY <1>4, <2>3, <1>1, Zenon DEF PairSetup, At, InFlight, MadeUnrecorded, RemovedRecorded
  <2>5. op.id \in Stored => op.id \in severed
    <3>1. op.id \in Stored
            => [controller |-> identity, pairing |-> record[op.id].pairing] \in Trusts
      BY <1>2, Zenon DEF ControllerInv, TypeOK, Stored, Records, Trusts
    <3> QED BY <1>4, <2>4, <3>1, Zenon DEF PairSetup, ControllerInv, RecordsWork
  <2>6. trust'[op.id] = [controller |-> identity, pairing |-> paired + 1]
    BY <1>1, <1>2, <1>4, Zenon DEF PairSetup, ControllerInv, TypeOK
  <2>7. \A a \in Accessories : a # op.id => trust'[a] = trust[a]
    BY <1>4 DEF PairSetup, ControllerInv, TypeOK
  <2>8. paired + 1 \in 1..MaxPairings
    BY <1>4, ControllerAssumption DEF PairSetup, ControllerInv, TypeOK
  <2>9. Underway'
    BY <1>1, <1>2, <1>3, <2>1, <2>3, <2>5, <2>6, <2>8, Zenon DEF Underway
  <2>10. RecordsWork' BY <1>3, <2>1, <2>4, <2>7, Zenon DEF ControllerInv, RecordsWork, Stored
  <2>11. NoOrphans' BY <2>1, <2>4, <2>7, Zenon DEF ControllerInv, NoOrphans
  <2>12. IdentityDurable' BY <1>3, <2>6, <2>7 DEF ControllerInv, IdentityDurable
  <2> QED
    BY <1>2, <1>3, <2>1, <2>9, <2>10, <2>11, <2>12, Zenon DEF ControllerInv, SavesCurrent
<1>5. CASE PairVerify
  <2>1. Stored' = Stored /\ UNCHANGED <<record, trust, ctl, orphaned, severed>>
    BY <1>5, Zenon DEF PairVerify, Stored
  <2>2. op'.call = op.call /\ op'.at = "save" /\ op'.id = op.id /\ op'.pairing = op.pairing
    BY <1>5, Zenon DEF PairVerify, ControllerInv, TypeOK
  <2>3. InFlight' = InFlight
    BY <1>1, <1>5, <2>1, <2>2, Zenon DEF PairVerify, At, InFlight, MadeUnrecorded, RemovedRecorded
  <2>4. Underway' BY <1>1, <1>3, <1>5, <2>1, <2>2 DEF Underway, PairVerify, At
  <2>5. RecordsWork' /\ NoOrphans'
    BY <1>3, <2>1, <2>3, Zenon DEF ControllerInv, RecordsWork, NoOrphans
  <2> QED BY <1>2, <1>3, <2>1, <2>4, <2>5, Zenon DEF ControllerInv, IdentityDurable, SavesCurrent
<1>6. CASE PairSave
  <2>1. op.at = "save" /\ UNCHANGED trust BY <1>6, Zenon DEF PairSave, At
  <2>2. record'[op.id] = [pairing |-> op.pairing, gsn |-> 0] /\ op.pairing \in 1..MaxPairings
    BY <1>1, <1>6, <2>1 DEF PairSave, ControllerInv, TypeOK, Underway
  <2>3. record'[op.id] # None BY <2>2, ControllerAssumption DEF Records, Gsns
  <2>4. \A a \in Accessories : a # op.id => record'[a] = record[a]
    BY <1>6 DEF PairSave, ControllerInv, TypeOK
  <2>5. Stored' = Stored \cup {op.id} BY <1>1, <2>3, <2>4, Zenon DEF Stored
  <2>6. InFlight = {op.id} /\ InFlight' = {} /\ op' = Idle
    BY <1>1, <1>6, <2>1, Zenon DEF PairSave, InFlight, MadeUnrecorded, RemovedRecorded, Idle, Calls
  <2>7. ctl'.up /\ ctl'.identity = identity /\ ctl'.cached = Stored'
    BY <1>2, <1>6, <2>5, Zenon DEF PairSave, ControllerInv, TypeOK
  <2>8. RecordsWork'
    <3> SUFFICES ASSUME NEW a \in Stored', a \notin severed'
                 PROVE  trust[a] = [controller |-> identity, pairing |-> record'[a].pairing]
      BY <1>3, <2>1, <2>6, Zenon DEF RecordsWork
    <3>1. CASE a = op.id BY <1>1, <1>6, <2>1, <2>2, <3>1 DEF PairSave, Underway
    <3>2. CASE a # op.id
      BY <1>6, <2>4, <2>5, <2>6, <3>2, Zenon DEF PairSave, ControllerInv, RecordsWork, Stored
    <3> QED BY <3>1, <3>2, Zenon
  <2>9. NoOrphans' BY <1>6, <2>1, <2>5, <2>6, Zenon DEF PairSave, ControllerInv, NoOrphans
  <2> QED
    BY <1>2, <1>3, <2>1, <2>6, <2>7, <2>8, <2>9, Zenon DEF ControllerInv, IdentityDurable, SavesCurrent
<1> QED BY <1>4, <1>5, <1>6, Zenon

\* The steps of remove_pairing.
LEMMA RemoveStep ==
    ASSUME ControllerInv, TypeOK', RemoveRemote \/ RemoveUnwritten \/ RemoveDelete
    PROVE  ControllerInv'
<1> USE NoneAssumption DEF shared, halves, counts
<1>1. Underway /\ op.call = "remove" /\ op.id \in Accessories
  BY DEF RemoveRemote, RemoveUnwritten, RemoveDelete, At, Idle, Calls, ControllerInv, Underway
<1>2. ctl.up /\ ctl.identity = identity /\ ctl.cached = Stored /\ identity # None /\ saving = None
  BY <1>1, Zenon DEF ControllerInv, Underway
<1>3. UNCHANGED <<identity, saving>> BY Zenon DEF RemoveRemote, RemoveUnwritten, RemoveDelete
<1>4. CASE RemoveRemote
  <2>1. Stored' = Stored /\ UNCHANGED <<record, ctl, orphaned, severed>>
    BY <1>4, Zenon DEF RemoveRemote, Stored
  <2>2. op'.call = op.call /\ op'.at = "delete" /\ op'.id = op.id
    BY <1>4, Zenon DEF RemoveRemote, ControllerInv, TypeOK
  <2>3. trust'[op.id] = None /\ \A a \in Accessories : a # op.id => trust'[a] = trust[a]
    BY <1>1, <1>4 DEF RemoveRemote, ControllerInv, TypeOK
  <2>4. InFlight = {} /\ InFlight' = {op.id}
    BY <1>1, <1>4, <2>2, <2>3, Zenon DEF RemoveRemote, At, InFlight, MadeUnrecorded, RemovedRecorded
  <2>5. Underway' BY <1>1, <1>3, <2>1, <2>2, <2>3, Zenon DEF Underway
  <2>6. RecordsWork' BY <1>3, <2>1, <2>3, <2>4, Zenon DEF ControllerInv, RecordsWork, Stored
  <2>7. NoOrphans' BY <2>1, <2>3, <2>4, Zenon DEF ControllerInv, NoOrphans
  <2>8. IdentityDurable' BY <1>3, <2>3, Zenon DEF ControllerInv, IdentityDurable
  <2> QED BY <1>2, <1>3, <2>1, <2>5, <2>6, <2>7, <2>8, Zenon DEF ControllerInv, SavesCurrent
<1>5. CASE RemoveUnwritten
  <2>1. Stored' = Stored /\ UNCHANGED <<record, trust, ctl, severed>>
    BY <1>5, Zenon DEF RemoveUnwritten, Stored
  <2>2. op'.call = op.call /\ op'.at = "delete" /\ op'.id = op.id
    BY <1>5, Zenon DEF RemoveUnwritten, ControllerInv, TypeOK
  <2>3. trust[op.id] # None /\ orphaned' = orphaned \cup {op.id}
    <3>1. [controller |-> identity, pairing |-> op.pairing] \in Trusts
      BY <1>1, <1>2, <1>5, Zenon DEF RemoveUnwritten, At, Underway, ControllerInv, TypeOK, Trusts
    <3> QED BY <1>2, <1>5, <3>1, Zenon DEF RemoveUnwritten
  <2>4. InFlight = {} /\ InFlight' = {}
    BY <1>1, <1>5, <2>1, <2>2, <2>3, Zenon
      DEF RemoveUnwritten, At, InFlight, MadeUnrecorded, RemovedRecorded
  <2>5. Underway' BY <1>1, <1>3, <2>1, <2>2, <2>3, Zenon DEF Underway
  <2>6. RecordsWork' BY <1>3, <2>1, <2>4, Zenon DEF ControllerInv, RecordsWork
  <2>7. NoOrphans' BY <2>1, <2>3, <2>4, Zenon DEF ControllerInv, NoOrphans
  <2> QED BY <1>2, <1>3, <2>1, <2>5, <2>6, <2>7, Zenon DEF ControllerInv, IdentityDurable, SavesCurrent
<1>6. CASE RemoveDelete
  <2>1. op.at = "delete" /\ op' = Idle /\ UNCHANGED <<trust, orphaned>>
    BY <1>6, Zenon DEF RemoveDelete, At
  <2>2. record'[op.id] = None /\ \A a \in Accessories : a # op.id => record'[a] = record[a]
    BY <1>1, <1>6 DEF RemoveDelete, Forgotten, ControllerInv, TypeOK
  <2>3. Stored' = Stored \ {op.id} BY <2>2, Zenon DEF Stored
  <2>4. ctl'.up /\ ctl'.identity = identity /\ ctl'.cached = Stored'
    BY <1>2, <1>6, <2>3, Zenon DEF RemoveDelete, Forgotten, ControllerInv, TypeOK
  <2>5. InFlight \subseteq {op.id} /\ InFlight' = {}
    BY <2>1, Zenon DEF InFlight, MadeUnrecorded, RemovedRecorded, Idle, Calls
  <2>6. RecordsWork'
    BY <1>3, <1>6, <2>1, <2>2, <2>3, <2>5, Zenon DEF RemoveDelete, ControllerInv, RecordsWork, Stored
  <2>7. trust[op.id] # None => op.id \in orphaned BY <1>1, <2>1, Zenon DEF Underway
  <2>8. NoOrphans' BY <2>1, <2>3, <2>5, <2>7, Zenon DEF ControllerInv, NoOrphans
  <2> QED
    BY <1>2, <1>3, <2>1, <2>4, <2>6, <2>8, Zenon DEF ControllerInv, IdentityDurable, SavesCurrent
<1> QED BY <1>4, <1>5, <1>6, Zenon

\* An operation begins, forget_pairing and a factory reset.
LEMMA AccessoryStep ==
    ASSUME ControllerInv, TypeOK', NEW a \in Accessories,
           Pair(a) \/ Remove(a) \/ Forget(a) \/ FactoryReset(a)
    PROVE  ControllerInv'
<1> USE NoneAssumption DEF shared, halves, counts
<1>1. UNCHANGED <<identity, saving>> BY Zenon DEF Pair, Remove, Forget, FactoryReset
<1>2. CASE Pair(a) \/ Remove(a)
  <2>1. Stored' = Stored /\ UNCHANGED <<record, trust, ctl, orphaned, severed>>
    BY <1>2, Zenon DEF Pair, Remove, Stored
  <2>2. ctl.up /\ op = Idle /\ saving = None BY <1>2, Zenon DEF Pair, Remove, Exclusive
  <2>3. InFlight = {} BY <2>2, Zenon DEF InFlight, MadeUnrecorded, RemovedRecorded, Idle, Calls
  <2>4. InFlight' = {} /\ Underway'
    <3>1. CASE Pair(a)
      BY <1>1, <2>1, <2>2, <3>1, Zenon
        DEF Pair, Begin, InFlight, MadeUnrecorded, RemovedRecorded, Underway
    <3>2. CASE Remove(a)
      <4>1. record[a].pairing \in 1..MaxPairings
        BY <3>2, Zenon DEF Remove, Stored, Records, ControllerInv, TypeOK
      <4> QED
        BY <1>1, <2>1, <2>2, <3>2, <4>1, Zenon
        DEF Remove, Begin, InFlight, MadeUnrecorded, RemovedRecorded, Underway
    <3> QED BY <1>2, <3>1, <3>2, Zenon
  <2>5. RecordsWork' /\ NoOrphans'
    BY <1>1, <2>1, <2>3, <2>4, Zenon DEF ControllerInv, RecordsWork, NoOrphans
  <2> QED
    BY <1>1, <2>1, <2>2, <2>4, <2>5, Zenon DEF ControllerInv, IdentityDurable, SavesCurrent
<1>3. CASE Forget(a)
  <2>1. ctl.up /\ op = Idle /\ saving = None /\ op' = Idle /\ UNCHANGED trust
    BY <1>3, Zenon DEF Forget, Exclusive
  <2>2. record'[a] = None /\ \A b \in Accessories : b # a => record'[b] = record[b]
    BY <1>3 DEF Forget, Forgotten, ControllerInv, TypeOK
  <2>3. Stored' = Stored \ {a} BY <2>2, Zenon DEF Stored
  <2>4. ctl'.up /\ ctl'.identity = identity /\ ctl'.cached = Stored' /\ identity # None
    BY <1>3, <2>1, <2>3, Zenon DEF Forget, Forgotten, ControllerInv, TypeOK
  <2>5. InFlight = {} /\ InFlight' = {}
    BY <2>1, Zenon DEF InFlight, MadeUnrecorded, RemovedRecorded, Idle, Calls
  <2>6. RecordsWork'
    BY <1>1, <1>3, <2>1, <2>2, <2>3, <2>5, Zenon DEF Forget, ControllerInv, RecordsWork, Stored
  <2>7. NoOrphans' BY <1>3, <2>1, <2>3, <2>5, Zenon DEF Forget, ControllerInv, NoOrphans
  <2> QED
    BY <1>1, <2>1, <2>4, <2>6, <2>7, Zenon DEF ControllerInv, IdentityDurable, SavesCurrent
<1>4. CASE FactoryReset(a)
  <2>1. Stored' = Stored /\ UNCHANGED <<record, ctl, op>> BY <1>4, Zenon DEF FactoryReset, Stored
  <2>t. DOMAIN trust = Accessories BY Zenon DEF ControllerInv, TypeOK
  <2>2. trust'[a] = None /\ \A b \in Accessories : b # a => trust'[b] = trust[b]
    BY <1>4, <2>t, Zenon DEF FactoryReset
  <2>3. severed' = severed \cup {a} /\ orphaned' = orphaned \ {a} BY <1>4, Zenon DEF FactoryReset
  <2>4. \A b \in Accessories : b # a => (b \in InFlight' <=> b \in InFlight)
    BY <2>1, <2>2, Zenon DEF InFlight, MadeUnrecorded, RemovedRecorded
  <2>5. Underway => Underway' BY <1>1, <2>1, <2>2, <2>3, Zenon DEF Underway
  <2>6. RecordsWork'
    BY <1>1, <2>1, <2>2, <2>3, <2>4, Zenon DEF ControllerInv, RecordsWork, Stored
  <2>7. NoOrphans' BY <2>1, <2>2, <2>3, <2>4, Zenon DEF ControllerInv, NoOrphans
  <2>8. IdentityDurable' BY <1>1, <2>2, Zenon DEF ControllerInv, IdentityDurable
  <2>9. SavesCurrent' BY <1>1, <2>1, Zenon DEF ControllerInv, SavesCurrent
  <2> QED BY <1>1, <2>1, <2>5, <2>6, <2>7, <2>8, <2>9, Zenon DEF ControllerInv
<1> QED BY <1>2, <1>3, <1>4, Zenon

\* Handles, save_state, waits and watches change at most GSNs of the store.
LEMMA SharedStep ==
    ASSUME ControllerInv, TypeOK', NEW a \in Ble,
           \/ Connect(a) \/ HandleSees(a) \/ HandleDrop(a)
           \/ WaitStart(a) \/ WaitUnreachable(a) \/ WaitRejected(a) \/ WaitConnects(a) \/ WaitDrop(a)
           \/ WatchArm(a) \/ PumpEvent(a) \/ PumpSave(a) \/ WatchSees(a) \/ WatchFlush(a) \/ WatchDrop(a)
    PROVE  ControllerInv'
<1> USE NoneAssumption DEF shared, halves, counts
<1>1. UNCHANGED <<identity, trust, ctl, op, saving, orphaned, severed>>
  BY Zenon DEF Connect, HandleSees, HandleDrop, WaitStart, WaitUnreachable, WaitRejected, WaitConnects,
         WaitDrop, WatchArm, PumpEvent, PumpSave, WatchSees, WatchFlush, WatchDrop, vars
<1>2. record' = record \/ \E g \in Gsns : Broadcast(a, g)
  <2>1. watch[a] # None => watch[a].gsn \in Gsns /\ watch[a].snapshot \in Gsns \cup {None}
    BY Zenon DEF ControllerInv, TypeOK, Watches
  <2> QED
    BY <2>1, Zenon
      DEF Connect, HandleSees, HandleDrop, WaitStart, WaitUnreachable, WaitRejected, WaitConnects,
         WaitDrop, WatchArm, PumpEvent, PumpSave, WatchSees, WatchFlush, WatchDrop, vars
<1>3. CASE record' = record BY <1>1, <1>3, GsnStep, Zenon
<1>4. CASE \E g \in Gsns : Broadcast(a, g)
  <2> PICK g \in Gsns : Broadcast(a, g) BY <1>4, Zenon
  <2>1. CASE a \in Stored
    <3>1. record[a] \in Records /\ a \in Accessories
      BY <2>1, ControllerAssumption, Zenon DEF Stored, ControllerInv, TypeOK
    <3>2. record'[a] \in Records /\ record'[a].pairing = record[a].pairing
      BY <2>1, <3>1, GsnTypes DEF Broadcast, ControllerInv, TypeOK
    <3>3. \A b \in Accessories : b # a => record'[b] = record[b]
      BY <2>1 DEF Broadcast, ControllerInv, TypeOK
    <3>4. \A b \in Accessories : (record'[b] = None) <=> (record[b] = None)
      BY <3>1, <3>2, <3>3, Zenon
    <3>5. \A b \in Stored : record'[b].pairing = record[b].pairing BY <3>2, <3>3, Zenon DEF Stored
    <3> QED BY <1>1, <3>4, <3>5, GsnStep, Zenon
  <2>2. CASE a \notin Stored BY <1>1, <2>2, GsnStep, Zenon DEF Broadcast
  <2> QED BY <2>1, <2>2, Zenon
<1> QED BY <1>2, <1>3, <1>4, Zenon

\* save_state, whose record is the one stored since it was loaded.
LEMMA SaveStep ==
    ASSUME ControllerInv, TypeOK', SaveWrite \/ \E a \in Ble : SaveLoad(a)
    PROVE  ControllerInv'
<1> USE NoneAssumption DEF shared, halves, counts
<1>1. UNCHANGED <<identity, trust, ctl, op, orphaned, severed>> BY Zenon DEF SaveLoad, SaveWrite
<1>2. CASE SaveWrite
  <2>1. saving \in Savings /\ saving.id \in Stored /\ saving.stored.pairing = record[saving.id].pairing
    BY <1>2, Zenon DEF SaveWrite, ControllerInv, SavesCurrent, TypeOK
  <2>2. CASE UNCHANGED record BY <1>1, <1>2, <2>2, GsnStep, Zenon DEF SaveWrite
  <2>3. CASE record' = [record EXCEPT ![saving.id] = [saving.stored EXCEPT !.gsn = saving.gsn]]
    <3>1. /\ record'[saving.id] \in Records
          /\ record'[saving.id].pairing = record[saving.id].pairing
      BY <2>1, <2>3, GsnTypes DEF Stored, Savings, ControllerInv, TypeOK
    <3>2. \A b \in Accessories : b # saving.id => record'[b] = record[b]
      BY <2>3 DEF ControllerInv, TypeOK
    <3>3. \A b \in Accessories : (record'[b] = None) <=> (record[b] = None)
      BY <2>1, <3>1, <3>2, Zenon DEF Stored
    <3>4. \A b \in Stored : record'[b].pairing = record[b].pairing BY <3>1, <3>2, Zenon DEF Stored
    <3>5. saving' = None BY <1>2, Zenon DEF SaveWrite
    <3> QED BY <1>1, <3>3, <3>4, <3>5, GsnStep, Zenon
  <2> QED BY <1>2, <2>2, <2>3, Zenon DEF SaveWrite
<1>3. ASSUME NEW a \in Ble, SaveLoad(a) PROVE ControllerInv'
  <2>1. UNCHANGED record /\ Stored' = Stored BY <1>3, Zenon DEF SaveLoad, Stored
  <2>2. InFlight' = InFlight BY <1>1, Zenon DEF InFlight, MadeUnrecorded, RemovedRecorded
  <2>3. SavesCurrent' /\ op' = Idle BY <1>1, <1>3, <2>1, Zenon DEF SaveLoad, SavesCurrent
  <2>4. RecordsWork' /\ NoOrphans'
    BY <1>1, <2>1, <2>2, Zenon DEF ControllerInv, RecordsWork, NoOrphans
  <2> QED BY <1>1, <2>1, <2>3, <2>4, Zenon DEF ControllerInv, IdentityDurable
<1> QED BY <1>2, <1>3, Zenon

\* Every step keeps the invariant.
LEMMA StepInv == ControllerInv /\ [Next]_vars => ControllerInv'
<1> SUFFICES ASSUME ControllerInv, [Next]_vars PROVE ControllerInv'
  BY Zenon
<1> USE DEF shared, halves, counts
<1>1. TypeOK' BY StepTypes, Zenon
<1>2. CASE Load \/ Create BY <1>1, <1>2, OpenStep, Zenon
<1>3. CASE Fail
  <2>1. saving = None BY <1>3, Zenon DEF Fail, ControllerInv, Underway
  <2> QED BY <1>1, <1>3, <2>1, CutShortStep, Zenon DEF Fail
<1>4. CASE PairSetup \/ PairVerify \/ PairSave BY <1>1, <1>4, PairStep, Zenon
<1>5. CASE RemoveRemote \/ RemoveUnwritten \/ RemoveDelete BY <1>1, <1>5, RemoveStep, Zenon
<1>6. CASE SaveWrite BY <1>1, <1>6, SaveStep, Zenon
<1>7. CASE Crash
  <2>1. CASE op # Idle BY <1>1, <1>7, <2>1, CutShortStep, Zenon DEF Crash, Closed
  <2>2. CASE op = Idle
    <3>1. ~MadeUnrecorded /\ ~RemovedRecorded /\ op' = op /\ InFlight' = InFlight
      BY <1>7, <2>2, NoneAssumption, Zenon
      DEF Crash, MadeUnrecorded, RemovedRecorded, InFlight, Idle, Calls
    <3>2. UNCHANGED <<identity, record, trust, orphaned, severed>> /\ Stored' = Stored
      BY <1>7, <3>1, Zenon DEF Crash, CutShort, Stored
    <3>3. ~ctl'.up /\ saving' = None BY <1>7, Zenon DEF Crash, Closed
    <3>4. RecordsWork' /\ NoOrphans' BY <3>1, <3>2, Zenon DEF ControllerInv, RecordsWork, NoOrphans
    <3> QED
      BY <1>1, <2>2, <3>1, <3>2, <3>3, <3>4, Zenon DEF ControllerInv, IdentityDurable, SavesCurrent
  <2> QED BY <2>1, <2>2, Zenon
<1>8. CASE \E a \in Accessories : Pair(a) \/ Remove(a) \/ Forget(a) \/ FactoryReset(a)
  BY <1>1, <1>8, AccessoryStep, Zenon
<1>9. ASSUME NEW a \in Ble,
             \/ Connect(a) \/ HandleSees(a) \/ HandleDrop(a) \/ SaveLoad(a)
             \/ WaitStart(a) \/ WaitUnreachable(a) \/ WaitRejected(a) \/ WaitConnects(a)
             \/ WaitDrop(a)
             \/ WatchArm(a) \/ PumpEvent(a) \/ PumpSave(a) \/ WatchSees(a) \/ WatchFlush(a)
             \/ WatchDrop(a)
      PROVE  ControllerInv'
  BY <1>1, <1>9, SaveStep, SharedStep, Zenon
<1>10. CASE UNCHANGED vars BY <1>1, <1>10, GsnStep, Zenon DEF vars
<1> QED BY <1>2, <1>3, <1>4, <1>5, <1>6, <1>7, <1>8, <1>9, <1>10, Zenon DEF Next

-----------------------------------------------------------------------------
(* the theorems *)

\* The inductive invariant holds in every reachable state.
THEOREM Invariance == Spec => []ControllerInv
BY InitInv, StepInv, PTL DEF Spec

\* new() (controller.rs) saves a fresh identity before it is used: however
\* many identities, crashes and failures, an accessory trusts only the
\* identity in the store.
THEOREM IdentityIsDurable == Spec => []IdentityDurable
<1>1. ControllerInv => IdentityDurable BY Zenon DEF ControllerInv
<1> QED BY <1>1, Invariance, PTL

\* cached_ids, which paired() returns, is the ids in the store between
\* operations, for any accessories and any watches saving meanwhile.
THEOREM SnapshotIsFaithful == Spec => []SnapshotFaithful
<1>1. ControllerInv => SnapshotFaithful BY Zenon DEF ControllerInv, SnapshotFaithful
<1> QED BY <1>1, Invariance, PTL

\* A record in the store is of the pairing its accessory trusts, unless the
\* accessory was reset, or a removal or a pair is, or was left, half done.
THEOREM RecordsDoWork == Spec => []RecordsWork
<1>1. ControllerInv => RecordsWork BY Zenon DEF ControllerInv
<1> QED BY <1>1, Invariance, PTL

\* An accessory that trusts the controller has a record, unless forget_pairing
\* dropped it, a pair was cut short, or a BLE removal was never written.
THEOREM OnlyNamedOrphans == Spec => []NoOrphans
<1>1. ControllerInv => NoOrphans BY Zenon DEF ControllerInv
<1> QED BY <1>1, Invariance, PTL

=============================================================================
