---------------------------- MODULE BleAccessory ----------------------------
(***************************************************************************)
(* One connected BLE accessory: the reconnecting GATT link                 *)
(* (crates/hap-ble/src/bluest_gatt.rs), the encrypted session              *)
(* (session.rs, pdu.rs), Pair Verify (pairing.rs), the controller that     *)
(* builds the handle (controller.rs, verify_and_build) and the operations  *)
(* of the handle, which re-verify a session the link generation shows to   *)
(* be stale (accessory.rs).                                                *)
(*                                                                         *)
(* The accessory itself is external.  It keeps at most one session per     *)
(* link, forgets it with the link, ignores a fragment it cannot            *)
(* authenticate, gives up an answer nobody read when the next request is   *)
(* written, and answers a Pair Verify message that does not fit its state  *)
(* with an error.                                                          *)
(***************************************************************************)
EXTENDS Integers, FiniteSets

CONSTANTS
    Tasks,              \* foreground calls and background event tasks
    NoTask,             \* the session mutex is free
    Controller,         \* BleController::connect, which builds the handle
    Signatures,         \* whether protocol_info_service_iid may find a target
    Frags,              \* fragments of a request PDU
    MaxOpReconnects,    \* MAX_OP_RECONNECTS
    MaxReviveRetries,   \* MAX_REVIVE_RETRIES
    Kinds,              \* the operations each task may run: those of the handle take
                        \* it mutably, event tasks only read
    Aborts,             \* futures may be dropped, backend calls may fail
    MaxDrops, MaxOps    \* bounds: link drops, operations

AllKinds == {"read", "write", "remove", "removeOther", "enable", "query", "provision"}

ASSUME BleAssumption ==
    /\ NoTask \notin Tasks /\ Controller \notin Tasks /\ NoTask # Controller
    /\ Signatures \subseteq BOOLEAN /\ Aborts \in BOOLEAN
    /\ Frags \in Nat \ {0}
    /\ MaxOpReconnects \in Nat /\ MaxReviveRetries \in Nat \ {0}
    /\ Kinds \in [Tasks -> SUBSET AllKinds]
    /\ MaxDrops \in Nat /\ MaxOps \in Nat

VARIABLES
    link,     \* the radio link is up
    gen,      \* BluestConnection::generation
    acc,      \* the accessory's side of the link and its pairing
    nsid,     \* sessions minted so far; sessions are numbered from 1
    ses,      \* Secure: session, its counters and its generation
    lock,     \* owner of the mutex around Secure (or Controller at first)
    op,       \* the operation of the lock's owner
    applied,  \* how often the accessory carried out that operation
    want,     \* the operation each task waits to start
    res,      \* outcome of each task's last operation
    hist,     \* nonces used to seal, each with what it sealed, and the
              \* sessions an operation was broken off in
    drops, ops

vars == <<link, gen, acc, nsid, ses, lock, op, applied, want, res, hist,
          drops, ops>>

-----------------------------------------------------------------------------
(* state shapes *)

NoAnswer == [sid |-> 0, ctr |-> 0, ok |-> FALSE]
Answers  == [sid : Nat, ctr : Nat, ok : BOOLEAN]

\* hs: Pair Verify on this link, "m2" after M1, "m4" after M3.
AccStates == [sess : Nat, recv : Nat, send : Nat, hs : {"none", "m2", "m4"},
              pend : Answers, paired : BOOLEAN, sig : BOOLEAN]

\* born: the link generation when M4 arrived, which the code does not keep.
SesStates == [sid : Nat, send : Nat, recv : Nat, gen : Int, born : Int]

(***************************************************************************)
(* pc of an operation: "sweep" enumerate and build_db; "start" the         *)
(* staleness test; "m1w" .. "m3r" Pair Verify writing and reading; "seal", *)
(* "write", "read" request_secure.                                         *)
(***************************************************************************)
Handshake == {"m1w", "m1r", "m3w", "m3r"}
Pcs == {"sweep", "start", "seal", "write", "read"} \cup Handshake

NoOp == [kind |-> "none", pc |-> "start", frag |-> 0, ctr |-> 0, tries |-> 0,
         recon |-> 0, no |-> 0, gen0 |-> 0]
OpStates == [kind : AllKinds \cup {"connect", "none"}, pc : Pcs, frag : Nat,
             ctr : Nat, tries : Nat, recon : Nat, no : Nat, gen0 : Nat]

NoResult == [kind |-> "none", ok |-> FALSE]

\* What the accessory forgets with the link.
Forget(a) == [a EXCEPT !.sess = 0, !.hs = "none", !.pend = NoAnswer]

\* The handle exists: verify_and_build has returned it.
Ready == lock # Controller /\ ses.sid # 0

\* `gatt.generation().await <= s.generation`: the session is believed live.
BelievedLive == gen <= ses.gen

TypeOK ==
    /\ link \in BOOLEAN /\ gen \in Nat
    /\ acc \in AccStates /\ nsid \in Nat /\ ses \in SesStates
    /\ lock \in Tasks \cup {NoTask, Controller}
    /\ op \in OpStates /\ applied \in Nat
    /\ want \in [Tasks -> AllKinds \cup {"none"}]
    /\ res \in [Tasks -> [kind : AllKinds \cup {"none"}, ok : BOOLEAN]]
    /\ hist \in [used : SUBSET (Nat \X Nat \X Nat \X Nat \X Nat), dirty : SUBSET Nat]
    /\ drops \in Nat /\ ops \in Nat
    \* what the mutex around Secure protects is idle when nobody owns it
    /\ lock = NoTask => op = NoOp

\* A connected GATT link, no session, verify_and_build about to run.
Init ==
    /\ link = TRUE /\ gen = 0 /\ nsid = 0
    /\ acc \in [sess : {0}, recv : {0}, send : {0}, hs : {"none"},
               pend : {NoAnswer}, paired : {TRUE}, sig : Signatures]
    /\ ses = [sid |-> 0, send |-> 0, recv |-> 0, gen |-> -1, born |-> -1]
    /\ lock = Controller
    /\ op = [NoOp EXCEPT !.kind = "connect", !.pc = "sweep"]
    /\ applied = 0
    /\ want = [t \in Tasks |-> "none"]
    /\ res = [t \in Tasks |-> NoResult]
    /\ hist = [used |-> {}, dirty |-> {}]
    /\ drops = 0 /\ ops = 0

-----------------------------------------------------------------------------
(* how an operation ends or goes on *)

At(pc) == [op EXCEPT !.pc = pc, !.recon = 0]

\* The operation of a task returns: the mutex is released.
Return(ok) ==
    /\ lock' = NoTask /\ op' = NoOp /\ applied' = 0
    /\ res' = [res EXCEPT ![lock] = [kind |-> op.kind, ok |-> ok]]

\* The controller is done: the handle exists, with this session generation.
Built(g) ==
    /\ lock' = NoTask /\ op' = NoOp
    /\ ses' = [ses EXCEPT !.gen = g]
    /\ UNCHANGED <<applied, res>>

\* verify_and_build propagates an error: there is no handle.
BuildFails ==
    /\ lock' = NoTask /\ op' = NoOp
    /\ ses' = [ses EXCEPT !.sid = 0]
    /\ UNCHANGED <<applied, res>>

\* A retry of read_char_raw / write_char_raw, from the staleness test.
Retry ==
    /\ op' = [At("start") EXCEPT !.tries = op.tries + 1, !.frag = 0]
    /\ UNCHANGED <<lock, applied, res, ses>>

\* Plausible fault: one retry too many.
MayRetryOneMore(g) == op.tries < MaxReviveRetries /\ g > ses.gen

\* `attempts < MAX_REVIVE_RETRIES && gatt.generation().await > s.generation`
MayRetry(g) == op.tries + 1 < MaxReviveRetries /\ g > ses.gen

\* What the operation makes of an error that nothing below it handled: the
\* accessory leaves for the Thread network as it is provisioned, so an error of
\* that write is logged and thread_provision returns Ok.
Forgiven == op.kind = "provision"

\* read_char_raw / write_char_raw after an error: again, or give the error up.
RetryOrFail(g) == IF MayRetry(g) THEN Retry ELSE Return(Forgiven) /\ UNCHANGED ses

\* remove_pairing of this controller's own pairing: teardown-shaped errors
\* are the expected outcome.
RemoveSelfError(e) == Return(e \in {"disconnected", "crypto"}) /\ UNCHANGED ses

\* enable_broadcasts logs the error of one characteristic and goes on.
EnableError == Return(TRUE) /\ UNCHANGED ses

\* request_secure failed with error e, the link generation being g.
SecureError(e, g) ==
    CASE op.kind = "connect"     -> Built(g)
      [] op.kind = "enable"      -> EnableError
      [] op.kind = "remove"      -> RemoveSelfError(e)
      [] op.kind = "removeOther" -> Return(FALSE) /\ UNCHANGED ses
      [] OTHER                   -> RetryOrFail(g)

\* Pair Verify (or the sweep before it) failed: `?` ends the operation.
EarlyError == IF op.kind = "connect" THEN BuildFails
              ELSE Return(Forgiven) /\ UNCHANGED ses

OpError(e, g) ==
    IF op.pc \in {"write", "read"} THEN SecureError(e, g) ELSE EarlyError

-----------------------------------------------------------------------------
(* starting an operation *)

\* thread_provision is between its two writes.
Provisioning(t) == res[t].kind = "query" /\ res[t].ok

\* A caller or an event task asks for an operation and queues for the mutex.
\* thread_provision starts with the query of the Thread control point.
Call(t, k) ==
    /\ Ready /\ want[t] = "none" /\ lock # t /\ ~Provisioning(t)
    /\ ops + Cardinality({u \in Tasks : want[u] # "none" \/ Provisioning(u)}) < MaxOps
    /\ want' = [want EXCEPT ![t] = k]
    /\ res' = [res EXCEPT ![t] = NoResult]
    /\ UNCHANGED <<link, gen, acc, nsid, ses, lock, op, applied, hist, drops, ops>>

\* The query went through: thread_provision writes the dataset next, and asks
\* for the mutex again, which it has let go of.
Provision(t) ==
    /\ Provisioning(t)
    /\ want' = [want EXCEPT ![t] = "provision"]
    /\ res' = [res EXCEPT ![t] = NoResult]
    /\ UNCHANGED <<link, gen, acc, nsid, ses, lock, op, applied, hist, drops, ops>>

\* secure.lock().await
LockSecure(t) ==
    /\ want[t] # "none" /\ lock = NoTask
    /\ lock' = t
    /\ op' = [NoOp EXCEPT !.kind = want[t], !.no = ops + 1, !.gen0 = gen]
    /\ ops' = ops + 1
    /\ applied' = 0
    /\ want' = [want EXCEPT ![t] = "none"]
    /\ UNCHANGED <<link, gen, acc, nsid, ses, res, hist, drops>>


\* The staleness test of revive_if_stale.
ReviveIfStale ==
    /\ lock # NoTask /\ op.pc = "start"
    /\ op' = At(IF BelievedLive THEN "seal" ELSE "m1w")
    /\ UNCHANGED <<link, gen, acc, nsid, ses, lock, applied, want, res, hist,
                   drops, ops>>

-----------------------------------------------------------------------------
(* GATT operations: the retry loop of BluestConnection *)

AtGatt == lock # NoTask /\ op.pc \in {"sweep", "write", "read"} \cup Handshake

\* The link drops, or the handle's disconnect() takes it down.
LinkDrop ==
    /\ link /\ drops < MaxDrops
    /\ link' = FALSE /\ drops' = drops + 1
    /\ acc' = Forget(acc)
    /\ UNCHANGED <<gen, nsid, ses, lock, op, applied, want, res, hist, ops>>

\* The GATT call fails on the dropped link and reconnect() succeeds: the
\* same bytes go out again.
Reconnect ==
    /\ AtGatt /\ ~link /\ op.recon < MaxOpReconnects
    /\ gen' = gen + 1
    /\ link' = TRUE
    /\ op' = [op EXCEPT !.recon = op.recon + 1]
    /\ UNCHANGED <<acc, nsid, ses, lock, applied, want, res, hist, drops, ops>>

\* Plausible fault: the generation advances on a successful reconnect only.
ReconnectFailsUncounted ==
    /\ AtGatt /\ ~link /\ op.recon < MaxOpReconnects
    /\ link' \in BOOLEAN
    /\ OpError("disconnected", gen)
    /\ UNCHANGED <<gen, acc, nsid, want, hist, drops, ops>>

\* reconnect() fails, by error or CONNECT_TIMEOUT: the link may be up with
\* the handles not rediscovered.  The error ends the GATT call.
ReconnectFails ==
    /\ AtGatt /\ ~link /\ op.recon < MaxOpReconnects
    /\ gen' = gen + 1
    /\ link' \in BOOLEAN
    /\ OpError("disconnected", gen + 1)
    /\ UNCHANGED <<acc, nsid, want, hist, drops, ops>>

\* Plausible fault: with no attempt left, wait for the link to come back.
ReconnectWaits ==
    /\ AtGatt /\ ~link /\ op.recon >= MaxOpReconnects
    /\ UNCHANGED vars

\* reconnect_bounded has no attempt left.
ReconnectGivesUp ==
    /\ AtGatt /\ ~link /\ op.recon >= MaxOpReconnects
    /\ OpError("disconnected", gen)
    /\ UNCHANGED <<link, gen, acc, nsid, want, hist, drops, ops>>

\* A GATT error that does not mean a dropped link, or a malformed response.
BackendError ==
    /\ Aborts /\ AtGatt /\ link
    /\ OpError("backend", gen)
    /\ hist' = [hist EXCEPT !.dirty = @ \cup {ses.sid}]
    /\ UNCHANGED <<link, gen, acc, nsid, want, drops, ops>>

\* The caller drops the future of its operation, perhaps in the middle of a
\* reconnect(), which has advanced the generation first thing.
Cancel(t) ==
    /\ Aborts /\ lock = t
    /\ lock' = NoTask /\ op' = NoOp /\ applied' = 0
    /\ \/ UNCHANGED <<link, gen>>
       \/ AtGatt /\ ~link /\ op.recon < MaxOpReconnects
          /\ gen' = gen + 1 /\ link' \in BOOLEAN
    /\ hist' = [hist EXCEPT !.dirty = @ \cup {ses.sid}]
    /\ UNCHANGED <<acc, nsid, ses, want, res, drops, ops>>

\* enumerate() and build_db(): unencrypted, resumed across reconnects.
Sweep ==
    /\ AtGatt /\ link /\ op.pc = "sweep"
    /\ op' = At("m1w")
    /\ UNCHANGED <<link, gen, acc, nsid, ses, lock, applied, want, res, hist,
                   drops, ops>>

-----------------------------------------------------------------------------
(* Pair Verify over the link *)

\* The accessory's reaction to M1 and M3: M3 mints a session.
AccessoryM1 == acc' = [acc EXCEPT !.hs = IF acc.paired THEN "m2" ELSE "none"]

AccessoryM3 ==
    IF acc.hs = "m2" /\ acc.paired
    THEN /\ acc' = [acc EXCEPT !.sess = nsid + 1, !.recv = 0, !.send = 0,
                               !.hs = "m4", !.pend = NoAnswer]
         /\ nsid' = nsid + 1
    ELSE acc' = [acc EXCEPT !.hs = "none"] /\ UNCHANGED nsid

VerifyWrite ==
    /\ AtGatt /\ link
    /\ \/ op.pc = "m1w" /\ AccessoryM1 /\ UNCHANGED nsid /\ op' = At("m1r")
       \/ op.pc = "m3w" /\ AccessoryM3 /\ op' = At("m3r")
    /\ UNCHANGED <<link, gen, ses, lock, applied, want, res, hist, drops, ops>>

\* M2 arrives and is answered with M3.
VerifyM2 ==
    /\ AtGatt /\ link /\ op.pc = "m1r" /\ acc.hs = "m2"
    /\ op' = At("m3w")
    /\ UNCHANGED <<link, gen, acc, nsid, ses, lock, applied, want, res, hist,
                   drops, ops>>

\* M4 arrives: adopt the session.  revive_if_stale takes the generation here;
\* verify_and_build takes it after the generate-broadcast-key request, which
\* it skips when there is no characteristic to address.
VerifyM4 ==
    /\ AtGatt /\ link /\ op.pc = "m3r" /\ acc.hs = "m4"
    /\ ses' = [sid |-> acc.sess, send |-> 0, recv |-> 0, born |-> gen,
               gen |-> IF op.kind = "connect" /\ acc.sig THEN ses.gen ELSE gen]
    /\ IF op.kind = "connect" /\ ~acc.sig
       THEN lock' = NoTask /\ op' = NoOp
       ELSE op' = At("seal") /\ UNCHANGED lock
    /\ acc' = [acc EXCEPT !.hs = "none"]
    /\ UNCHANGED <<link, gen, nsid, applied, want, res, hist, drops, ops>>

\* The reply does not fit: the handshake fails.
VerifyFails ==
    /\ AtGatt /\ link
    /\ \/ op.pc = "m1r" /\ acc.hs # "m2"
       \/ op.pc = "m3r" /\ acc.hs # "m4"
    /\ EarlyError
    /\ UNCHANGED <<link, gen, acc, nsid, want, hist, drops, ops>>

-----------------------------------------------------------------------------
(* pdu::request_secure *)

\* Plausible fault: the counter advances when the response arrives.
SealLate ==
    /\ lock # NoTask /\ op.pc = "seal"
    /\ op' = [At("write") EXCEPT !.frag = op.frag + 1, !.ctr = ses.send]
    /\ hist' = [hist EXCEPT !.used = @ \cup {<<ses.sid, ses.send, op.no, op.tries, op.frag>>}]
    /\ ses' = [ses EXCEPT !.send = IF op.frag = 0 THEN ses.send ELSE ses.send + 1]
    /\ UNCHANGED <<link, gen, acc, nsid, lock, applied, want, res, drops, ops>>

\* session.seal of the next fragment.
Seal ==
    /\ lock # NoTask /\ op.pc = "seal"
    /\ op' = [At("write") EXCEPT !.frag = op.frag + 1, !.ctr = ses.send]
    /\ hist' = [hist EXCEPT !.used = @ \cup {<<ses.sid, ses.send, op.no, op.tries, op.frag>>}]
    /\ ses' = [ses EXCEPT !.send = ses.send + 1]
    /\ UNCHANGED <<link, gen, acc, nsid, lock, applied, want, res, drops, ops>>

\* The accessory authenticates a fragment, and carries the request out with
\* the last one: it answers, or it rejects the request with a status; a
\* removed pairing may take the session with it before the answer is sealed.
AccessoryTakes(last) ==
    LET taken == [acc EXCEPT !.recv = acc.recv + 1, !.pend = NoAnswer]
        answer(ok) == [taken EXCEPT !.send = acc.send + 1,
                         !.pend = [sid |-> acc.sess, ctr |-> acc.send, ok |-> ok]]
    IN \/ ~last /\ acc' = taken /\ UNCHANGED applied
       \/ last /\ acc' = answer(FALSE) /\ UNCHANGED applied
       \/ /\ last /\ applied' = applied + 1
          /\ IF op.kind = "remove"
             THEN \/ acc' = [answer(TRUE) EXCEPT !.paired = FALSE]
                  \/ acc' = [Forget(taken) EXCEPT !.paired = FALSE]
             ELSE acc' = answer(TRUE)

\* Whether the accessory can open the fragment being written.
Authentic == acc.sess # 0 /\ acc.sess = ses.sid /\ acc.recv = op.ctr

\* gatt.write of the sealed fragment goes through.
WriteFragment ==
    /\ AtGatt /\ link /\ op.pc = "write"
    /\ IF Authentic THEN AccessoryTakes(op.frag = Frags)
       ELSE acc' = [acc EXCEPT !.pend = NoAnswer] /\ UNCHANGED applied
    /\ op' = At(IF op.frag < Frags THEN "seal" ELSE "read")
    /\ UNCHANGED <<link, gen, nsid, ses, lock, want, res, hist, drops, ops>>

\* The accessory gets the fragment and the link drops before the write is
\* acknowledged: gatt.write will reconnect and write the same bytes again.
WriteFragmentUnacked ==
    /\ AtGatt /\ link /\ op.pc = "write" /\ op.frag = Frags /\ Authentic
    /\ drops < MaxDrops
    /\ link' = FALSE /\ drops' = drops + 1
    /\ applied' = applied + 1
    /\ acc' = [Forget(acc) EXCEPT !.paired = acc.paired /\ op.kind # "remove"]
    /\ UNCHANGED <<gen, nsid, ses, lock, op, want, res, hist, ops>>

\* session.open succeeds on the answer that is there to be read.
Opens == acc.pend # NoAnswer /\ acc.pend.sid = ses.sid /\ acc.pend.ctr = ses.recv

\* `resp.status != 0` is an error of write and remove_pairing; enable and
\* thread_provision log it and a read finds no value in it.
OkStatus == acc.pend.ok \/ op.kind = "enable" \/ Forgiven

\* gatt.read and session.open succeed: the operation has its response.
ReadResponse ==
    /\ AtGatt /\ link /\ op.pc = "read" /\ Opens
    /\ acc' = [acc EXCEPT !.pend = NoAnswer]
    /\ IF op.kind = "connect"
       THEN /\ lock' = NoTask /\ op' = NoOp
            /\ ses' = [ses EXCEPT !.recv = ses.recv + 1, !.gen = gen]
            /\ UNCHANGED <<applied, res>>
       ELSE /\ Return(OkStatus)
            /\ ses' = [ses EXCEPT !.recv = ses.recv + 1]
    /\ UNCHANGED <<link, gen, nsid, want, hist, drops, ops>>

\* What is read does not open under the session: a crypto error.
ReadGarbage ==
    /\ AtGatt /\ link /\ op.pc = "read" /\ ~Opens
    /\ acc' = [acc EXCEPT !.pend = NoAnswer]
    /\ OpError("crypto", gen)
    /\ UNCHANGED <<link, gen, nsid, want, hist, drops, ops>>

-----------------------------------------------------------------------------
OpStep ==
    \/ ReviveIfStale \/ Reconnect \/ ReconnectFails \/ ReconnectGivesUp
    \/ BackendError \/ Sweep \/ VerifyWrite \/ VerifyM2 \/ VerifyM4
    \/ VerifyFails \/ Seal \/ WriteFragment \/ WriteFragmentUnacked
    \/ ReadResponse \/ ReadGarbage

\* Every operation has returned and no new one may be called, or the
\* connection was never made.
Finished == lock = NoTask /\ UNCHANGED vars

Next ==
    \/ OpStep \/ LinkDrop \/ Finished
    \/ \E t \in Tasks : LockSecure(t) \/ Provision(t) \/ Cancel(t) \/ \E k \in Kinds[t] : Call(t, k)

Spec == Init /\ [][Next]_vars

\* The runtime polls the running operation, and its GATT calls return: every
\* one is bounded by CONNECT_TIMEOUT or answered by the backend.
FairSpec == Spec /\ WF_vars(OpStep) /\ \A t \in Tasks : WF_vars(LockSecure(t) \/ Provision(t))

-----------------------------------------------------------------------------
(* Properties *)

\* The reason for the link generation ("When the connection's generation
\* advances past this, the accessory has dropped the session and it must be
\* re-minted"): on a live link to an accessory that is still paired, a
\* session the handle believes live is the one the accessory holds.
SessionCurrent ==
    Ready /\ link /\ acc.paired /\ BelievedLive => acc.sess = ses.sid

\* The same of a session that is recorded with the generation its Pair Verify
\* ended in, whatever dropped, failed to reconnect or was cancelled since; and
\* between operations it is usable unless one of them was cancelled or failed by
\* the backend in it: both ends agree on both counters, whatever the link did in
\* the middle of earlier operations.
SessionInStep ==
    ses.gen = ses.born =>
        /\ SessionCurrent
        /\ Ready /\ link /\ acc.paired /\ BelievedLive /\ lock = NoTask /\ ses.sid \notin hist.dirty
              => acc.recv = ses.send /\ acc.send = ses.recv

\* A write is carried out again only over another link, and never more often
\* than MAX_REVIVE_RETRIES allows.
RepeatsBounded ==
    /\ applied <= 1 + gen - op.gen0
    /\ applied <= MaxReviveRetries

\* No nonce of a session key seals two different fragments, across retries,
\* reconnects, re-verifications and cancelled operations.
NonceFresh ==
    \A u, v \in hist.used : u[1] = v[1] /\ u[2] = v[2] => u = v

\* The reconnect and re-verify loops always come to an end: an operation that
\* has the session returns.
OpsReturn == \A t \in Tasks : lock = t ~> lock # t

=============================================================================
