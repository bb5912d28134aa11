----------------------------- MODULE Controller -----------------------------
(***************************************************************************)
(* The life of a pairing: HapController (crates/hap-controller/src/        *)
(* controller.rs) with its store, the accessories it pairs with, and the   *)
(* sleepy watches (sleepy.rs) that write to the store behind its back.     *)
(*                                                                         *)
(* The store is the one of PairingStore: each call on it takes effect at   *)
(* once or fails.  A pairing is made of two halves, what the accessory     *)
(* trusts and what the store records, and no step changes both.  pair,     *)
(* remove_pairing and forget_pairing borrow the controller exclusively;    *)
(* save_state, connects and watches share it, and waits and watches go on  *)
(* while it is borrowed.  The long-term key of an accessory is the number  *)
(* of the Pair Setup that exchanged it.                                    *)
(***************************************************************************)
EXTENDS Naturals

CONSTANTS
    Accessories, Ble,         \* those paired over BLE
    None,
    MAX_SESSION_FAILURES,     \* 3 in the code
    MaxIdentities, MaxPairings, MaxGsn, MaxCrashes

ASSUME ControllerAssumption ==
    /\ Ble \subseteq Accessories
    /\ MAX_SESSION_FAILURES \in Nat \ {0}
    /\ {MaxIdentities, MaxPairings, MaxGsn, MaxCrashes} \subseteq Nat

VARIABLES
    identity,    \* the stored controller identity
    record,      \* the stored record of each accessory
    trust,       \* the controller and the pairing each accessory trusts
    ctl,         \* the open controller
    op,          \* the exclusive operation in progress
    saving,      \* the save_state in progress
    handle,      \* the BLE handle of each accessory: its last_gsn
    watch,       \* the sleepy watch of each accessory, and what its pump holds
    waiting,     \* the connect_when_advertised of each accessory
    generated, paired, crashes,   \* identities and pairings made, crashes
    orphaned, severed             \* accessories whose halves fell apart

vars == <<identity, record, trust, ctl, op, saving, handle, watch, waiting,
          generated, paired, crashes, orphaned, severed>>
counts == <<generated, paired, crashes>>
halves == <<orphaned, severed>>
shared == <<saving, handle, watch, waiting>>

Closed == [up |-> FALSE, identity |-> None, cached |-> {}]
Idle   == [call |-> None, id |-> None, at |-> None, pairing |-> None]

\* the ids in the store
Stored == {a \in Accessories : record[a] # None}

Init ==
    /\ identity = None
    /\ record = [a \in Accessories |-> None]
    /\ trust = [a \in Accessories |-> None]
    /\ ctl = Closed /\ op = Idle /\ saving = None
    /\ handle = [a \in Ble |-> None]
    /\ watch = [a \in Ble |-> None]
    /\ waiting = [a \in Ble |-> None]
    /\ generated = 0 /\ paired = 0 /\ crashes = 0
    /\ orphaned = {} /\ severed = {}

-----------------------------------------------------------------------------
(* opening the controller *)

Opened(k) == ctl' = [up |-> TRUE, identity |-> k, cached |-> Stored]

\* the stored identity is loaded
Load ==
    /\ ~ctl.up /\ identity # None
    /\ Opened(identity)
    /\ UNCHANGED <<identity, record, trust, op, shared, counts, halves>>

\* fault: a fresh identity is used although it could not be saved
CreateAnyway ==
    /\ ~ctl.up /\ identity = None /\ generated < MaxIdentities
    /\ generated' = generated + 1
    /\ identity' \in {None, generated + 1}
    /\ Opened(generated + 1)
    /\ UNCHANGED <<record, trust, op, shared, paired, crashes, halves>>

\* or a fresh one is generated and saved; if the store fails, new() does
Create ==
    /\ ~ctl.up /\ identity = None /\ generated < MaxIdentities
    /\ generated' = generated + 1
    /\ \/ identity' = generated + 1 /\ Opened(generated + 1)
       \/ generated + 1 < MaxIdentities /\ UNCHANGED <<identity, ctl>>
    /\ UNCHANGED <<record, trust, op, shared, paired, crashes, halves>>

-----------------------------------------------------------------------------
(* the exclusive operations *)

\* &mut self: nothing else borrows the controller
Exclusive == ctl.up /\ op = Idle /\ saving = None

Begin(call, a, at, p) == op' = [call |-> call, id |-> a, at |-> at, pairing |-> p]

At(call, at) == op.call = call /\ op.at = at

\* An operation ends with an error: what it did to the accessory stays, so a
\* pairing that was made has no record and one that was removed keeps its own.
MadeUnrecorded == op.call = "pair" /\ op.at \in {"verify", "save"}
RemovedRecorded == op.call = "remove" /\ op.at = "delete" /\ trust[op.id] = None

CutShort ==
    /\ orphaned' = IF MadeUnrecorded THEN orphaned \cup {op.id} ELSE orphaned
    /\ severed' = IF RemovedRecorded THEN severed \cup {op.id} ELSE severed

\* the accessory is gone, refuses, or its answer is lost; the store fails
Fail ==
    /\ op # Idle
    /\ op' = Idle
    /\ CutShort
    /\ UNCHANGED <<identity, record, trust, ctl, shared, counts>>

\* The caller has dropped what it had open for the accessory, as
\* forget_pairing's documentation asks.
Pair(a) ==
    /\ Exclusive
    /\ a \in Ble => handle[a] = None /\ watch[a] = None /\ waiting[a] = None
    /\ Begin("pair", a, "setup", None)
    /\ UNCHANGED <<identity, record, trust, ctl, shared, counts, halves>>

\* Pair Setup: an accessory that is paired refuses it
PairSetup ==
    /\ At("pair", "setup") /\ trust[op.id] = None /\ paired < MaxPairings
    /\ paired' = paired + 1
    /\ trust' = [trust EXCEPT ![op.id] = [controller |-> ctl.identity, pairing |-> paired + 1]]
    /\ op' = [op EXCEPT !.at = "verify", !.pairing = paired + 1]
    /\ UNCHANGED <<identity, record, ctl, shared, generated, crashes, halves>>

PairVerify ==
    /\ At("pair", "verify")
    /\ trust[op.id] = [controller |-> ctl.identity, pairing |-> op.pairing]
    /\ op' = [op EXCEPT !.at = "save"]
    /\ UNCHANGED <<identity, record, trust, ctl, shared, counts, halves>>

\* fault: the record of an earlier pairing is kept
PairSaveKeepsOld ==
    /\ At("pair", "save")
    /\ record' = IF op.id \in Stored THEN record
                 ELSE [record EXCEPT ![op.id] = [pairing |-> op.pairing, gsn |-> 0]]
    /\ ctl' = [ctl EXCEPT !.cached = @ \cup {op.id}]
    /\ op' = Idle
    /\ orphaned' = orphaned \ {op.id}
    /\ severed' = IF trust[op.id] = None THEN severed ELSE severed \ {op.id}
    /\ UNCHANGED <<identity, trust, shared, counts>>

\* save_pairing replaces the record of an earlier pairing
PairSave ==
    /\ At("pair", "save")
    /\ record' = [record EXCEPT ![op.id] = [pairing |-> op.pairing, gsn |-> 0]]
    /\ ctl' = [ctl EXCEPT !.cached = @ \cup {op.id}]
    /\ op' = Idle
    /\ orphaned' = orphaned \ {op.id}
    /\ severed' = IF trust[op.id] = None THEN severed ELSE severed \ {op.id}
    /\ UNCHANGED <<identity, trust, shared, counts>>

Remove(a) ==
    /\ Exclusive /\ a \in Stored
    /\ Begin("remove", a, "verify", record[a].pairing)
    /\ UNCHANGED <<identity, record, trust, ctl, shared, counts, halves>>

\* fault: the record is deleted whatever the accessory answers
RemoveRemoteIgnored ==
    /\ At("remove", "verify")
    /\ \/ /\ trust[op.id] = [controller |-> ctl.identity, pairing |-> op.pairing]
          /\ trust' = [trust EXCEPT ![op.id] = None]
       \/ UNCHANGED trust
    /\ op' = [op EXCEPT !.at = "delete"]
    /\ UNCHANGED <<identity, record, ctl, shared, counts, halves>>

\* Pair Verify and the RemovePairing request, carried out by the accessory
RemoveRemote ==
    /\ At("remove", "verify")
    /\ trust[op.id] = [controller |-> ctl.identity, pairing |-> op.pairing]
    /\ trust' = [trust EXCEPT ![op.id] = None]
    /\ op' = [op EXCEPT !.at = "delete"]
    /\ UNCHANGED <<identity, record, ctl, shared, counts, halves>>

\* The link drops before the request is written: hap-ble takes that for the
\* accessory's teardown and reports success, and the accessory stays paired.
RemoveUnwritten ==
    /\ At("remove", "verify") /\ op.id \in Ble
    /\ trust[op.id] = [controller |-> ctl.identity, pairing |-> op.pairing]
    /\ op' = [op EXCEPT !.at = "delete"]
    /\ orphaned' = orphaned \cup {op.id}
    /\ UNCHANGED <<identity, record, trust, ctl, shared, counts, severed>>

Forgotten(a) ==
    /\ record' = [record EXCEPT ![a] = None]
    /\ ctl' = [ctl EXCEPT !.cached = @ \ {a}]

RemoveDelete ==
    /\ At("remove", "delete")
    /\ Forgotten(op.id)
    /\ op' = Idle
    /\ severed' = severed \ {op.id}
    /\ UNCHANGED <<identity, trust, shared, counts, orphaned>>

\* forget_pairing leaves the accessory alone; without a record it only drops
\* a stale entry of the snapshot
Forget(a) ==
    /\ Exclusive
    /\ Forgotten(a)
    /\ orphaned' = IF trust[a] # None THEN orphaned \cup {a} ELSE orphaned
    /\ severed' = severed \ {a}
    /\ UNCHANGED <<identity, trust, op, shared, counts>>

-----------------------------------------------------------------------------
(* handles and save_state *)

Verifies(a, p) == trust[a] = [controller |-> ctl.identity, pairing |-> p]

\* connect: the record is loaded and Pair Verify succeeds with it
Connect(a) ==
    /\ ctl.up /\ op = Idle /\ a \in Stored /\ handle[a] = None
    /\ Verifies(a, record[a].pairing)
    /\ handle' = [handle EXCEPT ![a] = record[a].gsn]
    /\ UNCHANGED <<identity, record, trust, ctl, op, saving, watch, waiting, counts, halves>>

HandleSees(a) ==
    /\ handle[a] # None /\ handle[a] < MaxGsn
    /\ handle' = [handle EXCEPT ![a] = @ + 1]
    /\ UNCHANGED <<identity, record, trust, ctl, op, saving, watch, waiting, counts, halves>>

HandleDrop(a) ==
    /\ handle[a] # None /\ (saving # None => saving.id # a)
    /\ handle' = [handle EXCEPT ![a] = None]
    /\ UNCHANGED <<identity, record, trust, ctl, op, saving, watch, waiting, counts, halves>>

\* save_state loads the record,
SaveLoad(a) ==
    /\ ctl.up /\ op = Idle /\ saving = None
    /\ handle[a] # None /\ a \in Stored
    /\ saving' = [id |-> a, stored |-> record[a], gsn |-> handle[a]]
    /\ UNCHANGED <<identity, record, trust, ctl, op, handle, watch, waiting, counts, halves>>

\* and saves the whole of it with the handle's GSN, or fails
SaveWrite ==
    /\ saving # None
    /\ \/ record' = [record EXCEPT ![saving.id] = [saving.stored EXCEPT !.gsn = saving.gsn]]
       \/ UNCHANGED record
    /\ saving' = None
    /\ UNCHANGED <<identity, trust, ctl, op, handle, watch, waiting, counts, halves>>

-----------------------------------------------------------------------------
(* connect_when_advertised: a wait that does not borrow the controller *)

WaitStart(a) ==
    /\ ctl.up /\ a \in Stored /\ waiting[a] = None /\ handle[a] = None
    /\ waiting' = [waiting EXCEPT ![a] = [pairing |-> record[a].pairing, gsn |-> record[a].gsn,
                                          failures |-> 0]]
    /\ UNCHANGED <<identity, record, trust, ctl, op, saving, handle, watch, counts, halves>>

\* fault: a failure to reach the accessory starts the count again
WaitUnreachableResets(a) ==
    /\ waiting[a] # None
    /\ waiting' = [waiting EXCEPT ![a].failures = 0]
    /\ UNCHANGED <<identity, record, trust, ctl, op, saving, handle, watch, counts, halves>>

\* the accessory went back to sleep: listen again, without limit
WaitUnreachable(a) ==
    /\ waiting[a] # None
    /\ UNCHANGED vars

\* the session could not be set up; the third time it is an error
WaitRejected(a) ==
    /\ waiting[a] # None
    /\ waiting' = [waiting EXCEPT ![a] =
                      IF waiting[a].failures + 1 >= MAX_SESSION_FAILURES THEN None
                      ELSE [waiting[a] EXCEPT !.failures = @ + 1]]
    /\ UNCHANGED <<identity, record, trust, ctl, op, saving, handle, watch, counts, halves>>

WaitConnects(a) ==
    /\ waiting[a] # None /\ Verifies(a, waiting[a].pairing)
    /\ handle' = [handle EXCEPT ![a] = waiting[a].gsn]
    /\ waiting' = [waiting EXCEPT ![a] = None]
    /\ UNCHANGED <<identity, record, trust, ctl, op, saving, watch, counts, halves>>

WaitDrop(a) ==
    /\ waiting[a] # None
    /\ waiting' = [waiting EXCEPT ![a] = None]
    /\ UNCHANGED <<identity, record, trust, ctl, op, saving, handle, watch, counts, halves>>

-----------------------------------------------------------------------------
(* sleepy watches *)

\* the watch is armed by a connect with the stored record
WatchArm(a) ==
    /\ ctl.up /\ a \in Stored /\ watch[a] = None
    /\ Verifies(a, record[a].pairing)
    /\ watch' = [watch EXCEPT ![a] = [gsn |-> record[a].gsn, snapshot |-> None]]
    /\ UNCHANGED <<identity, record, trust, ctl, op, saving, handle, waiting, counts, halves>>

\* the pump delivers an event of a GSN seen and takes the state to persist,
PumpEvent(a) ==
    /\ watch[a] # None /\ watch[a].snapshot = None /\ watch[a].gsn > 0
    /\ watch' = [watch EXCEPT ![a].snapshot = watch[a].gsn]
    /\ UNCHANGED <<identity, record, trust, ctl, op, saving, handle, waiting, counts, halves>>

Broadcast(a, gsn) ==
    record' = IF a \in Stored THEN [record EXCEPT ![a].gsn = gsn] ELSE record

\* fault: the broadcast of an absent record is inserted with a record
PumpSaveInserts(a) ==
    /\ watch[a] # None /\ watch[a].snapshot # None
    /\ record' = [record EXCEPT ![a] = [pairing |-> paired, gsn |-> watch[a].snapshot]]
    /\ watch' = [watch EXCEPT ![a].snapshot = None]
    /\ UNCHANGED <<identity, trust, ctl, op, saving, handle, waiting, counts, halves>>

\* and saves it; an error is ignored
PumpSave(a) ==
    /\ watch[a] # None /\ watch[a].snapshot # None
    /\ Broadcast(a, watch[a].snapshot) \/ UNCHANGED record
    /\ watch' = [watch EXCEPT ![a].snapshot = None]
    /\ UNCHANGED <<identity, trust, ctl, op, saving, handle, waiting, counts, halves>>

\* the advert task sees a newer GSN, whatever the pump is doing
WatchSees(a) ==
    /\ watch[a] # None /\ watch[a].gsn < MaxGsn
    /\ watch' = [watch EXCEPT ![a].gsn = @ + 1]
    /\ UNCHANGED <<identity, record, trust, ctl, op, saving, handle, waiting, counts, halves>>

\* SleepyWatch::save_state
WatchFlush(a) ==
    /\ watch[a] # None
    /\ Broadcast(a, watch[a].gsn)
    /\ UNCHANGED <<identity, trust, ctl, op, shared, counts, halves>>

\* dropping the watch aborts its task
WatchDrop(a) ==
    /\ watch[a] # None
    /\ watch' = [watch EXCEPT ![a] = None]
    /\ UNCHANGED <<identity, record, trust, ctl, op, saving, handle, waiting, counts, halves>>

-----------------------------------------------------------------------------
(* the environment *)

\* the accessory is reset to factory state
FactoryReset(a) ==
    /\ trust[a] # None
    /\ trust' = [trust EXCEPT ![a] = None]
    /\ severed' = severed \cup {a} /\ orphaned' = orphaned \ {a}
    /\ UNCHANGED <<identity, record, ctl, op, shared, counts>>

Crash ==
    /\ ctl.up /\ crashes < MaxCrashes
    /\ crashes' = crashes + 1
    /\ ctl' = Closed /\ op' = Idle /\ saving' = None
    /\ handle' = [a \in Ble |-> None] /\ watch' = [a \in Ble |-> None]
    /\ waiting' = [a \in Ble |-> None]
    /\ CutShort
    /\ UNCHANGED <<identity, record, trust, generated, paired>>

-----------------------------------------------------------------------------
Next ==
    \/ Load \/ Create \/ Fail \/ PairSetup \/ PairVerify \/ PairSave
    \/ RemoveRemote \/ RemoveUnwritten \/ RemoveDelete \/ SaveWrite \/ Crash
    \/ \E a \in Accessories : Pair(a) \/ Remove(a) \/ Forget(a) \/ FactoryReset(a)
    \/ \E a \in Ble :
          \/ Connect(a) \/ HandleSees(a) \/ HandleDrop(a) \/ SaveLoad(a)
          \/ WaitStart(a) \/ WaitUnreachable(a) \/ WaitRejected(a) \/ WaitConnects(a)
          \/ WaitDrop(a)
          \/ WatchArm(a) \/ PumpEvent(a) \/ PumpSave(a) \/ WatchSees(a) \/ WatchFlush(a)
          \/ WatchDrop(a)

Spec == Init /\ [][Next]_vars

\* A waiting accessory is reached again and again, sooner or later.
FairSpec == Spec /\ \A a \in Ble : WF_vars(WaitConnects(a) \/ WaitRejected(a))

-----------------------------------------------------------------------------
(* Properties *)

Gsns == 0..MaxGsn

Records == [pairing : 1..MaxPairings, gsn : Gsns]
Trusts  == [controller : 1..MaxIdentities, pairing : 1..MaxPairings]
Savings == [id : Ble, stored : Records, gsn : Gsns]
Watches == [gsn : Gsns, snapshot : Gsns \cup {None}]
Waits   == [pairing : 1..MaxPairings, gsn : Gsns, failures : 0..MAX_SESSION_FAILURES - 1]
Calls   == {"pair", "remove"}
Places  == {"setup", "verify", "save", "delete"}

ASSUME NoneAssumption ==
    /\ None \notin Accessories /\ None \notin Nat /\ None \notin Calls /\ None \notin Places
    /\ None \notin Records /\ None \notin Trusts /\ None \notin Savings
    /\ None \notin Watches /\ None \notin Waits

TypeOK ==
    /\ identity \in 1..MaxIdentities \cup {None}
    /\ record \in [Accessories -> Records \cup {None}]
    /\ trust \in [Accessories -> Trusts \cup {None}]
    /\ ctl \in [up : BOOLEAN, identity : 1..MaxIdentities \cup {None}, cached : SUBSET Accessories]
    /\ op \in [call : Calls \cup {None}, id : Accessories \cup {None}, at : Places \cup {None},
               pairing : 1..MaxPairings \cup {None}]
    /\ saving \in Savings \cup {None}
    /\ handle \in [Ble -> Gsns \cup {None}]
    /\ watch \in [Ble -> Watches \cup {None}]
    /\ waiting \in [Ble -> Waits \cup {None}]
    /\ generated \in 0..MaxIdentities /\ paired \in 0..MaxPairings /\ crashes \in 0..MaxCrashes
    /\ orphaned \subseteq Accessories /\ severed \subseteq Accessories

\* new() saves a fresh identity before anything uses it: whatever fails or
\* crashes, an accessory that trusts a controller trusts the identity the next
\* start will load.
IdentityDurable == \A a \in Accessories : trust[a] # None => trust[a].controller = identity

\* cached_ids, which paired() returns, agrees with the store whenever no
\* operation is in progress, although either half of every operation may fail
\* and a watch or a save_state that outlives forget_pairing goes on saving:
\* neither brings the pairing back.
SnapshotFaithful == ctl.up /\ op = Idle => ctl.cached = Stored

\* The accessories whose two halves the current operation is moving apart.
InFlight == IF MadeUnrecorded \/ RemovedRecorded THEN {op.id} ELSE {}

\* Every record works, so that connect and remove_pairing succeed with it:
\* only a factory reset, or a removal whose second half failed, leaves a
\* record of a pairing the accessory does not trust.
RecordsWork ==
    \A a \in Stored \ (severed \cup InFlight) :
        trust[a] = [controller |-> identity, pairing |-> record[a].pairing]

\* Every pairing is recorded: only forget_pairing, a pair cut short after Pair
\* Setup, or a BLE removal whose request was lost with the link, leaves an
\* accessory that trusts a controller without a record.
NoOrphans == \A a \in Accessories \ (orphaned \cup InFlight) : trust[a] # None => a \in Stored

\* A wait for an accessory that no longer trusts the pairing ends, however
\* often the accessory cannot be reached in between ("It is returned the third
\* time it happens").
RevokedWaitEnds ==
    \A a \in Ble : (waiting[a] # None /\ ~Verifies(a, waiting[a].pairing))
                     ~> (waiting[a] = None \/ Verifies(a, waiting[a].pairing))

=============================================================================
