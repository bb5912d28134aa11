------------------------- MODULE BleAccessoryProofs -------------------------
(***************************************************************************)
(* Proofs about BleAccessory, for any tasks, fragments, retries, drops and *)
(* operations.                                                             *)
(*                                                                         *)
(* The link generation names a link: it advances before a link that went   *)
(* down is up again.  A session that was verified in the generation of the *)
(* link that is up is therefore the accessory's, and its counters move     *)
(* together, until an operation is broken off in it.                       *)
(***************************************************************************)
EXTENDS BleAccessory, TLAPS

Secured == {"seal", "write", "read"}

\* Who runs which operation, and when there is a session.
Roles ==
    /\ op.kind = "connect" <=> lock = Controller
    /\ lock \in Tasks => op.kind \in AllKinds /\ op.pc # "sweep" /\ ses.sid # 0
    /\ lock = Controller => /\ op.pc # "start" /\ op.tries = 0 /\ op.gen0 = 0
                            /\ op.pc \in Secured <=> ses.sid # 0
    /\ lock = Controller \/ ses.sid = 0 =>
          \A t \in Tasks : want[t] = "none" /\ ~Provisioning(t)

\* The handle's generation of its session is the one it was verified in or a
\* later one; it is verified anew only in a later one.
Generations ==
    /\ ses.born <= gen /\ ses.gen <= gen
    /\ lock # Controller /\ ses.sid # 0 => ses.born <= ses.gen
    /\ op.pc \in Handshake => ses.sid = 0 \/ ses.gen < gen
    /\ link /\ gen = ses.born /\ acc.paired /\ ses.sid # 0 => acc.sess = ses.sid

\* A session that was minted and not adopted is new.
Minted ==
    /\ ses.sid <= nsid /\ acc.sess <= nsid
    /\ acc.hs = "m4" => /\ acc.sess = nsid /\ acc.recv = 0 /\ acc.send = 0
                        /\ ses.sid < nsid /\ \A u \in hist.used : u[1] < nsid
    /\ \A u \in hist.used : u[1] # 0 /\ u[1] <= nsid /\ (u[1] = ses.sid => u[2] < ses.send)

\* The session is the accessory's and no operation was broken off in it.
Synced ==
    link /\ gen = ses.born /\ acc.paired /\ ses.sid # 0 /\ ses.sid \notin hist.dirty

\* The counters of such a session move together.
InStep ==
    Synced =>
        /\ acc.send = IF op.pc = "read" THEN ses.recv + 1 ELSE ses.recv
        /\ ses.send = IF op.pc = "write" THEN acc.recv + 1 ELSE acc.recv
        /\ op.pc = "write" => op.ctr = acc.recv
        /\ op.pc = "read" => acc.pend.sid = ses.sid /\ acc.pend.ctr = ses.recv

\* The request of the present attempt has not been carried out.
Pending ==
    \/ op.pc \in {"sweep", "start", "seal"} \cup Handshake
    \/ op.pc = "write" /\ (op.frag < Frags \/ acc.sess = ses.sid)

\* Every attempt carries the request out at most once, and the next attempt is
\* made in a later generation.
Repeats ==
    /\ op.tries < MaxReviveRetries
    /\ op.pc \notin {"write", "read"} => op.frag < Frags
    /\ op.pc = "write" => op.frag <= Frags
    /\ applied <= op.tries + 1
    /\ lock # NoTask /\ Pending => applied <= op.tries
    /\ lock \in Tasks =>
          /\ op.gen0 <= gen
          /\ op.pc \in Secured =>
                op.gen0 <= ses.gen /\ applied <= 1 + ses.gen - op.gen0
          /\ op.pc \in Secured /\ Pending => applied <= ses.gen - op.gen0
          /\ op.pc \notin Secured => applied <= gen - op.gen0

BleInv ==
    TypeOK /\ Roles /\ Generations /\ Minted /\ InStep /\ Repeats /\ NonceFresh

-----------------------------------------------------------------------------
(* facts that the steps share *)

\* The types of the state, field by field.
LEMMA Facts ==
    ASSUME BleInv
    PROVE  /\ link \in BOOLEAN /\ gen \in Nat /\ nsid \in Nat /\ applied \in Nat
           /\ acc \in AccStates /\ acc.sess \in Nat /\ acc.recv \in Nat /\ acc.send \in Nat
           /\ acc.paired \in BOOLEAN /\ acc.sig \in BOOLEAN /\ acc.pend \in Answers
           /\ acc.hs \in {"none", "m2", "m4"}
           /\ ses \in SesStates /\ ses.sid \in Nat /\ ses.send \in Nat /\ ses.recv \in Nat
           /\ ses.gen \in Int /\ ses.born \in Int
           /\ lock \in Tasks \cup {NoTask, Controller}
           /\ op \in OpStates /\ op.kind \in AllKinds \cup {"connect", "none"} /\ op.pc \in Pcs
           /\ op.frag \in Nat /\ op.ctr \in Nat /\ op.tries \in Nat /\ op.no \in Nat
           /\ op.gen0 \in Nat
           /\ hist \in [used : SUBSET (Nat \X Nat \X Nat \X Nat \X Nat), dirty : SUBSET Nat]
           /\ NoTask \notin Tasks /\ Controller \notin Tasks /\ NoTask # Controller
           /\ Frags \in Nat \ {0} /\ MaxReviveRetries \in Nat \ {0}
<1>1. TypeOK BY Zenon DEF BleInv
<1>2. acc \in AccStates /\ ses \in SesStates /\ op \in OpStates BY <1>1, Zenon DEF TypeOK
<1>3. /\ acc.sess \in Nat /\ acc.recv \in Nat /\ acc.send \in Nat /\ acc.pend \in Answers
      /\ acc.hs \in {"none", "m2", "m4"}
  BY <1>2, Zenon DEF AccStates
<1>4. acc.paired \in BOOLEAN /\ acc.sig \in BOOLEAN BY <1>2, Zenon DEF AccStates
<1>5. /\ ses.sid \in Nat /\ ses.send \in Nat /\ ses.recv \in Nat /\ ses.gen \in Int
      /\ ses.born \in Int
  BY <1>2, Zenon DEF SesStates
<1>6. /\ op.kind \in AllKinds \cup {"connect", "none"} /\ op.pc \in Pcs
      /\ op.frag \in Nat /\ op.ctr \in Nat /\ op.tries \in Nat /\ op.no \in Nat
      /\ op.gen0 \in Nat
  BY <1>2, Zenon DEF OpStates
<1> QED BY <1>1, <1>2, <1>3, <1>4, <1>5, <1>6, BleAssumption, Zenon DEF TypeOK

\* An operation goes on at another place.
LEMMA AtFields ==
    ASSUME BleInv, NEW p \in Pcs
    PROVE  /\ At(p) \in OpStates /\ At(p).pc = p /\ At(p).kind = op.kind
           /\ At(p).frag = op.frag /\ At(p).ctr = op.ctr /\ At(p).tries = op.tries
           /\ At(p).no = op.no /\ At(p).gen0 = op.gen0
<1>1. op \in OpStates BY Facts, Zenon
<1> QED BY <1>1, Zenon DEF At, OpStates

\* No operation.
LEMMA NoOpFields ==
    /\ NoOp \in OpStates /\ NoOp.pc = "start" /\ NoOp.kind = "none" /\ NoOp.frag = 0
    /\ NoOp.tries = 0 /\ NoOp.gen0 = 0 /\ NoOp.ctr = 0
  BY Zenon DEF NoOp, OpStates, Pcs

\* The accessory forgets.
LEMMA ForgetFields ==
    ASSUME NEW a \in AccStates
    PROVE  /\ Forget(a) \in AccStates /\ Forget(a).sess = 0 /\ Forget(a).hs = "none"
           /\ Forget(a).paired = a.paired /\ Forget(a).recv = a.recv /\ Forget(a).send = a.send
<1>1. NoAnswer \in Answers
  <2>1. FALSE \in BOOLEAN /\ 0 \in Nat BY Zenon
  <2> QED BY <2>1, Zenon DEF NoAnswer, Answers
<1>2. 0 \in Nat /\ "none" \in {"none", "m2", "m4"} BY Zenon
<1> QED BY <1>1, <1>2, Zenon DEF Forget, AccStates

-----------------------------------------------------------------------------
(* the steps *)

\* A connected link, and no session.
LEMMA InitBle == Init => BleInv
<1> SUFFICES ASSUME Init PROVE BleInv
  BY Zenon
<1> USE BleAssumption
<1>1. /\ link = TRUE /\ gen = 0 /\ nsid = 0 /\ lock = Controller /\ applied = 0
      /\ want = [t \in Tasks |-> "none"] /\ res = [t \in Tasks |-> NoResult]
      /\ drops = 0 /\ ops = 0
  BY Zenon DEF Init
<1>2. /\ ses \in SesStates /\ ses.sid = 0 /\ ses.gen = -1 /\ ses.born = -1
  BY DEF Init, SesStates
<1>3. /\ op \in OpStates /\ op.kind = "connect" /\ op.pc = "sweep" /\ op.tries = 0
      /\ op.gen0 = 0 /\ op.frag = 0
  BY Zenon DEF Init, NoOp, OpStates, Pcs
<1>4. acc \in AccStates /\ acc.sess = 0 /\ acc.hs = "none"
  <2>1. NoAnswer \in Answers
    <3>1. FALSE \in BOOLEAN /\ 0 \in Nat BY Zenon
    <3> QED BY <3>1, Zenon DEF NoAnswer, Answers
  <2>2. acc \in [sess : {0}, recv : {0}, send : {0}, hs : {"none"},
                pend : {NoAnswer}, paired : {TRUE}, sig : Signatures]
    BY Zenon DEF Init
  <2>3. acc.sess = 0 /\ acc.hs = "none" BY <2>2, Zenon
  <2>4. {0} \subseteq Nat /\ {"none"} \subseteq {"none", "m2", "m4"} OBVIOUS
  <2>5. {NoAnswer} \subseteq Answers /\ {TRUE} \subseteq BOOLEAN BY <2>1, Zenon
  <2>6. acc \in AccStates BY <2>2, <2>4, <2>5, Zenon DEF AccStates
  <2> QED BY <2>3, <2>6, Zenon
<1>5. /\ hist \in [used : SUBSET (Nat \X Nat \X Nat \X Nat \X Nat), dirty : SUBSET Nat]
      /\ hist.used = {} /\ hist.dirty = {}
  BY Zenon DEF Init
<1>6. NoResult \in [kind : AllKinds \cup {"none"}, ok : BOOLEAN] /\ NoResult.kind = "none"
  BY Zenon DEF NoResult
<1>7. TypeOK
  <2>1. link \in BOOLEAN BY <1>1, Zenon
  <2>2. res \in [Tasks -> [kind : AllKinds \cup {"none"}, ok : BOOLEAN]] BY <1>1, <1>6, Zenon
  <2> QED BY <1>1, <1>2, <1>3, <1>4, <1>5, <2>1, <2>2, Zenon DEF TypeOK
<1>8. Roles
  <2>1. \A t \in Tasks : want[t] = "none" /\ ~Provisioning(t)
    BY <1>1, <1>6, Zenon DEF Provisioning
  <2> QED BY <1>1, <1>2, <1>3, <2>1, Zenon DEF Roles, Secured
<1>9. Generations BY <1>1, <1>2, <1>3 DEF Generations
<1>10. Minted BY <1>1, <1>2, <1>4, <1>5 DEF Minted
<1>11. InStep BY <1>2, Zenon DEF InStep, Synced
<1>12. Repeats BY <1>1, <1>3 DEF Repeats
<1>13. NonceFresh BY <1>5, Zenon DEF NonceFresh
<1> QED BY <1>7, <1>8, <1>9, <1>10, <1>11, <1>12, <1>13, Zenon DEF BleInv

\* The link drops.
LEMMA DropBle ==
    ASSUME BleInv, LinkDrop
    PROVE  BleInv'
<1>1. /\ link' = FALSE /\ drops' = drops + 1 /\ acc' = Forget(acc)
      /\ UNCHANGED <<gen, nsid, ses, lock, op, applied, want, res, hist, ops>>
  BY Zenon DEF LinkDrop
<1>2. /\ acc' \in AccStates /\ acc'.sess = 0 /\ acc'.hs = "none"
  BY <1>1, Facts, ForgetFields, Zenon
<1>3. TypeOK'
  <2>1. link' \in BOOLEAN BY <1>1, Zenon
  <2>2. drops' \in Nat BY <1>1 DEF BleInv, TypeOK
  <2> QED BY <1>1, <1>2, <2>1, <2>2, Zenon DEF BleInv, TypeOK
<1>4. Roles' BY <1>1, Zenon DEF BleInv, Roles, Provisioning
<1>5. Generations' BY <1>1, Zenon DEF BleInv, Generations
<1>6. Minted' BY <1>1, <1>2, Facts DEF BleInv, Minted
<1>7. InStep' BY <1>1, Zenon DEF InStep, Synced
<1>8. Repeats'
  <2>1. lock # NoTask /\ op.pc = "write" /\ acc'.sess = ses.sid => FALSE
    BY <1>2, Facts, Zenon DEF BleInv, Roles, Secured
  <2>2. lock' # NoTask /\ Pending' => Pending BY <1>1, <2>1, Zenon DEF Pending
  <2> QED BY <1>1, <2>2, Facts, Zenon DEF BleInv, Repeats
<1>9. NonceFresh' BY <1>1, Zenon DEF BleInv, NonceFresh
<1> QED BY <1>3, <1>4, <1>5, <1>6, <1>7, <1>8, <1>9, Zenon DEF BleInv

\* reconnect() brings a new link up, in a new generation.
LEMMA ReconnectBle ==
    ASSUME BleInv, Reconnect
    PROVE  BleInv'
<1>1. /\ gen' = gen + 1 /\ link' = TRUE /\ lock # NoTask
      /\ op' = [op EXCEPT !.recon = op.recon + 1]
      /\ UNCHANGED <<acc, nsid, ses, lock, applied, want, res, hist, drops, ops>>
  BY Zenon DEF Reconnect, AtGatt
<1>2. /\ op' \in OpStates /\ op'.pc = op.pc /\ op'.kind = op.kind /\ op'.frag = op.frag
      /\ op'.ctr = op.ctr /\ op'.tries = op.tries /\ op'.gen0 = op.gen0
  <2>1. op \in OpStates BY Facts, Zenon
  <2> QED BY <1>1, <2>1 DEF OpStates
<1>3. gen \in Nat /\ ses.gen \in Int /\ ses.born \in Int BY Facts, Zenon
<1>4. TypeOK'
  <2>1. link' \in BOOLEAN BY <1>1, Zenon
  <2>2. gen' \in Nat BY <1>1, <1>3
  <2> QED BY <1>1, <1>2, <2>1, <2>2, Zenon DEF BleInv, TypeOK
<1>5. Roles' BY <1>1, <1>2, Zenon DEF BleInv, Roles, Provisioning
<1>6. Generations' BY <1>1, <1>2, <1>3 DEF BleInv, Generations
<1>7. Minted' BY <1>1, Zenon DEF BleInv, Minted
<1>8. InStep' BY <1>1, <1>3 DEF BleInv, Generations, InStep, Synced
<1>9. Repeats'
  <2>1. Pending' <=> Pending BY <1>1, <1>2, Zenon DEF Pending
  <2> QED BY <1>1, <1>2, <1>3, <2>1, Facts DEF BleInv, Repeats
<1>10. NonceFresh' BY <1>1, Zenon DEF BleInv, NonceFresh
<1> QED BY <1>4, <1>5, <1>6, <1>7, <1>8, <1>9, <1>10, Zenon DEF BleInv

\* A task asks for an operation, or for the second half of one.
LEMMA WantBle ==
    ASSUME BleInv, NEW t \in Tasks, NEW k \in AllKinds,
           lock # Controller /\ ses.sid # 0,
           want' = [want EXCEPT ![t] = k], res' = [res EXCEPT ![t] = NoResult],
           UNCHANGED <<link, gen, acc, nsid, ses, lock, op, applied, hist, drops, ops>>
    PROVE  BleInv'
<1>1. NoResult \in [kind : AllKinds \cup {"none"}, ok : BOOLEAN] BY Zenon DEF NoResult
<1>2. /\ want' \in [Tasks -> AllKinds \cup {"none"}]
      /\ res' \in [Tasks -> [kind : AllKinds \cup {"none"}, ok : BOOLEAN]]
  BY <1>1, Zenon DEF BleInv, TypeOK
<1>3. TypeOK' BY <1>2, Zenon DEF BleInv, TypeOK
<1>4. Roles' BY Zenon DEF BleInv, Roles
<1>5. Generations' BY Zenon DEF BleInv, Generations
<1>6. Minted' BY Zenon DEF BleInv, Minted
<1>7. InStep' BY Zenon DEF BleInv, InStep, Synced
<1>8. Repeats' BY Zenon DEF BleInv, Repeats, Pending
<1>9. NonceFresh' BY Zenon DEF BleInv, NonceFresh
<1> QED BY <1>3, <1>4, <1>5, <1>6, <1>7, <1>8, <1>9, Zenon DEF BleInv

\* A caller queues for the session.
LEMMA CallBle ==
    ASSUME BleInv, NEW t \in Tasks, NEW k \in Kinds[t], Call(t, k)
    PROVE  BleInv'
<1>1. k \in AllKinds BY BleAssumption, Zenon
<1> QED BY <1>1, WantBle, Zenon DEF Call, Ready

\* thread_provision queues for the session again.
LEMMA ProvisionBle ==
    ASSUME BleInv, NEW t \in Tasks, Provision(t)
    PROVE  BleInv'
<1>1. lock # Controller /\ ses.sid # 0 BY Zenon DEF Provision, BleInv, Roles
<1>2. "provision" \in AllKinds BY Zenon DEF AllKinds
<1> QED BY <1>1, <1>2, WantBle, Zenon DEF Provision

\* A task gets the session.
LEMMA LockBle ==
    ASSUME BleInv, NEW t \in Tasks, LockSecure(t)
    PROVE  BleInv'
<1>1. /\ want[t] # "none" /\ lock = NoTask /\ lock' = t /\ ops' = ops + 1 /\ applied' = 0
      /\ op' = [NoOp EXCEPT !.kind = want[t], !.no = ops + 1, !.gen0 = gen]
      /\ want' = [want EXCEPT ![t] = "none"]
      /\ UNCHANGED <<link, gen, acc, nsid, ses, res, hist, drops>>
  BY Zenon DEF LockSecure
<1>2. /\ want \in [Tasks -> AllKinds \cup {"none"}] /\ ops \in Nat /\ gen \in Nat
      /\ MaxReviveRetries \in Nat \ {0} /\ Frags \in Nat \ {0}
      /\ NoTask # Controller /\ Controller \notin Tasks /\ NoTask \notin Tasks
  BY BleAssumption, Zenon DEF BleInv, TypeOK
<1>3. /\ op' \in OpStates /\ op'.pc = "start" /\ op'.kind = want[t] /\ op'.kind \in AllKinds
      /\ op'.frag = 0 /\ op'.tries = 0 /\ op'.gen0 = gen
  <2>1. want[t] \in AllKinds BY <1>1, <1>2, Zenon
  <2>2. op' = [kind |-> want[t], pc |-> "start", frag |-> 0, ctr |-> 0, tries |-> 0,
               recon |-> 0, no |-> ops + 1, gen0 |-> gen]
    BY <1>1, Zenon DEF NoOp
  <2>3. "start" \in Pcs /\ ops + 1 \in Nat BY <1>2 DEF Pcs
  <2>4. op' \in OpStates BY <1>2, <2>1, <2>2, <2>3, Zenon DEF OpStates
  <2> QED BY <2>1, <2>2, <2>4, Zenon
<1>4. op = NoOp /\ op.pc = "start" BY <1>1, NoOpFields, Zenon DEF BleInv, TypeOK
<1>5. TypeOK'
  <2>1. /\ want' \in [Tasks -> AllKinds \cup {"none"}] /\ ops' \in Nat BY <1>1, <1>2
  <2> QED BY <1>1, <1>2, <1>3, <2>1, Zenon DEF BleInv, TypeOK
<1>6. Roles'
  <2>1. ses.sid # 0 BY <1>1, <1>2, Zenon DEF BleInv, Roles
  <2>2. op'.kind # "connect" BY <1>3, Zenon DEF AllKinds
  <2> QED BY <1>1, <1>2, <1>3, <2>1, <2>2, Zenon DEF Roles
<1>7. Generations' BY <1>1, <1>2, <1>3, Zenon DEF BleInv, Generations, Handshake
<1>8. Minted' BY <1>1, Zenon DEF BleInv, Minted
<1>9. InStep' BY <1>1, <1>3, <1>4, Zenon DEF BleInv, InStep, Synced
<1>10. Repeats' BY <1>1, <1>2, <1>3 DEF Repeats, Secured
<1>11. NonceFresh' BY <1>1, Zenon DEF BleInv, NonceFresh
<1> QED BY <1>5, <1>6, <1>7, <1>8, <1>9, <1>10, <1>11, Zenon DEF BleInv

\* The staleness test.
LEMMA ReviveBle ==
    ASSUME BleInv, ReviveIfStale
    PROVE  BleInv'
<1> DEFINE p == IF BelievedLive THEN "seal" ELSE "m1w"
<1>1. /\ lock # NoTask /\ op.pc = "start" /\ op' = At(p)
      /\ UNCHANGED <<link, gen, acc, nsid, ses, lock, applied, want, res, hist, drops, ops>>
  BY Zenon DEF ReviveIfStale
<1>2. p \in Pcs /\ p \in {"seal", "m1w"} BY Zenon DEF Pcs, Handshake
<1>3. /\ op' \in OpStates /\ op'.pc = p /\ op'.kind = op.kind /\ op'.frag = op.frag
      /\ op'.ctr = op.ctr /\ op'.tries = op.tries /\ op'.gen0 = op.gen0
  BY <1>1, <1>2, AtFields, Zenon
<1>4. lock \in Tasks /\ gen \in Nat /\ ses.gen \in Int /\ op.gen0 \in Nat /\ applied \in Nat
  BY <1>1, Facts, Zenon DEF BleInv, Roles
<1>5. (p = "seal" => gen <= ses.gen) /\ (p = "m1w" => ses.gen < gen) BY <1>4 DEF BelievedLive
<1> HIDE DEF p
<1>6. TypeOK' BY <1>1, <1>3, Zenon DEF BleInv, TypeOK
<1>7. Roles' BY <1>1, <1>2, <1>3, <1>4, Facts, Zenon DEF BleInv, Roles, Provisioning
<1>8. Generations' BY <1>1, <1>2, <1>3, <1>5, Zenon DEF BleInv, Generations, Handshake
<1>9. Minted' BY <1>1, Zenon DEF BleInv, Minted
<1>10. InStep' BY <1>1, <1>2, <1>3, Zenon DEF BleInv, InStep, Synced
<1>11. Repeats'
  <2>1. ses.gen <= gen BY Zenon DEF BleInv, Generations
  <2>2. Pending BY <1>1, Zenon DEF Pending
  <2>3. p \in Secured => gen = ses.gen BY <1>2, <1>4, <1>5, <2>1 DEF Secured
  <2>4. p \notin {"write", "read"} BY <1>2, Zenon
  <2>5. op.pc \notin Secured BY <1>1, Zenon DEF Secured
  <2> QED BY <1>1, <1>3, <1>4, <2>2, <2>3, <2>4, <2>5 DEF BleInv, Repeats
<1>12. NonceFresh' BY <1>1, Zenon DEF BleInv, NonceFresh
<1> QED BY <1>6, <1>7, <1>8, <1>9, <1>10, <1>11, <1>12, Zenon DEF BleInv

\* The sweep of the controller is over.
LEMMA SweepBle ==
    ASSUME BleInv, Sweep
    PROVE  BleInv'
<1>1. /\ lock # NoTask /\ op.pc = "sweep" /\ op' = At("m1w")
      /\ UNCHANGED <<link, gen, acc, nsid, ses, lock, applied, want, res, hist, drops, ops>>
  BY Zenon DEF Sweep, AtGatt
<1>2. "m1w" \in Pcs BY Zenon DEF Pcs, Handshake
<1>3. /\ op' \in OpStates /\ op'.pc = "m1w" /\ op'.kind = op.kind /\ op'.frag = op.frag
      /\ op'.tries = op.tries /\ op'.gen0 = op.gen0
  BY <1>1, <1>2, AtFields, Zenon
<1>4. lock = Controller /\ ses.sid = 0 /\ Controller \notin Tasks
  BY <1>1, Facts, Zenon DEF BleInv, Roles, Secured
<1>5. TypeOK' BY <1>1, <1>3, Zenon DEF BleInv, TypeOK
<1>6. Roles' BY <1>1, <1>3, <1>4, Zenon DEF BleInv, Roles, Provisioning, Secured
<1>7. Generations' BY <1>1, <1>4, Zenon DEF BleInv, Generations
<1>8. Minted' BY <1>1, Zenon DEF BleInv, Minted
<1>9. InStep' BY <1>1, <1>4, Zenon DEF InStep, Synced
<1>10. Repeats'
  <2>1. Pending BY <1>1, Zenon DEF Pending
  <2> QED BY <1>1, <1>3, <1>4, <2>1, Zenon DEF BleInv, Repeats
<1>11. NonceFresh' BY <1>1, Zenon DEF BleInv, NonceFresh
<1> QED BY <1>5, <1>6, <1>7, <1>8, <1>9, <1>10, <1>11, Zenon DEF BleInv

-----------------------------------------------------------------------------
(* operations that fail *)

\* The operation of a task is over, with an outcome or without.
Freed ==
    /\ lock' = NoTask /\ op' = NoOp /\ applied' = 0 /\ UNCHANGED ses
    /\ res' \in [Tasks -> [kind : AllKinds \cup {"none"}, ok : BOOLEAN]]

\* What is left of an operation that met an error in generation g: a handle,
\* no handle, an outcome, or another attempt.
Ended(g) ==
    \/ lock = Controller /\ Built(g)
    \/ lock = Controller /\ BuildFails
    \/ lock \in Tasks /\ Freed
    \/ lock \in Tasks /\ op.pc \in {"write", "read"} /\ MayRetry(g) /\ Retry

\* A task that returns leaves the mutex free and an outcome.
LEMMA ReturnFrees ==
    ASSUME BleInv, lock \in Tasks, NEW ok \in BOOLEAN, Return(ok), UNCHANGED ses
    PROVE  Freed
<1>1. op.kind \in AllKinds BY Zenon DEF BleInv, Roles
<1>2. [kind |-> op.kind, ok |-> ok] \in [kind : AllKinds \cup {"none"}, ok : BOOLEAN]
  BY <1>1, Zenon
<1>3. res \in [Tasks -> [kind : AllKinds \cup {"none"}, ok : BOOLEAN]] BY Zenon DEF BleInv, TypeOK
<1>4. res' = [res EXCEPT ![lock] = [kind |-> op.kind, ok |-> ok]] BY Zenon DEF Return
<1>5. res' \in [Tasks -> [kind : AllKinds \cup {"none"}, ok : BOOLEAN]] BY <1>2, <1>3, <1>4, Zenon
<1> QED BY <1>5, Zenon DEF Return, Freed

\* An error of the sweep or of Pair Verify ends the operation.
LEMMA EarlyErrorEnds ==
    ASSUME BleInv, lock # NoTask, NEW g, EarlyError
    PROVE  Ended(g)
<1>1. CASE op.kind = "connect"
  <2>1. lock = Controller /\ BuildFails BY <1>1, Zenon DEF EarlyError, BleInv, Roles
  <2> QED BY <2>1, Zenon DEF Ended
<1>2. CASE op.kind # "connect"
  <2>1. lock \in Tasks BY <1>2, Facts, Zenon DEF BleInv, Roles
  <2>2. Return(Forgiven) /\ UNCHANGED ses BY <1>2, Zenon DEF EarlyError
  <2>3. Forgiven \in BOOLEAN BY Zenon DEF Forgiven
  <2>4. Freed BY <2>1, <2>2, <2>3, ReturnFrees, Zenon
  <2> QED BY <2>1, <2>4, Zenon DEF Ended
<1> QED BY <1>1, <1>2, Zenon

\* So does any error that is not answered by another attempt.
LEMMA OpErrorEnds ==
    ASSUME BleInv, lock # NoTask, NEW e, NEW g, OpError(e, g)
    PROVE  Ended(g)
<1>1. CASE op.pc \notin {"write", "read"}
  <2>1. EarlyError BY <1>1, Zenon DEF OpError
  <2> QED BY <2>1, EarlyErrorEnds, Zenon
<1>2. CASE op.pc \in {"write", "read"}
  <2>1. SecureError(e, g) BY <1>2, Zenon DEF OpError
  <2>2. CASE op.kind = "connect"
    <3>1. lock = Controller /\ Built(g) BY <2>1, <2>2, Zenon DEF SecureError, BleInv, Roles
    <3> QED BY <3>1, Zenon DEF Ended
  <2>3. CASE op.kind # "connect"
    <3>1. lock \in Tasks BY <2>3, Facts, Zenon DEF BleInv, Roles
    <3>2. \/ EnableError \/ RemoveSelfError(e) \/ RetryOrFail(g)
          \/ Return(FALSE) /\ UNCHANGED ses
      <4>1. CASE op.kind = "enable" BY <2>1, <4>1, Zenon DEF SecureError, EnableError
      <4>2. CASE op.kind = "remove" BY <2>1, <4>2, Zenon DEF SecureError, RemoveSelfError
      <4>3. CASE op.kind = "removeOther" BY <2>1, <4>3, Zenon DEF SecureError
      <4>4. CASE op.kind \notin {"enable", "remove", "removeOther"}
        BY <2>1, <2>3, <4>4, Zenon DEF SecureError
      <4> QED BY <4>1, <4>2, <4>3, <4>4, Zenon
    <3>3. CASE EnableError
      <4>1. TRUE \in BOOLEAN BY Zenon
      <4>2. Freed BY <3>1, <3>3, <4>1, ReturnFrees, Zenon DEF EnableError
      <4> QED BY <3>1, <4>2, Zenon DEF Ended
    <3>4. CASE RemoveSelfError(e)
      <4>1. (e \in {"disconnected", "crypto"}) \in BOOLEAN OBVIOUS
      <4>2. Freed BY <3>1, <3>4, <4>1, ReturnFrees, Zenon DEF RemoveSelfError
      <4> QED BY <3>1, <4>2, Zenon DEF Ended
    <3>5. CASE Return(FALSE) /\ UNCHANGED ses
      <4>1. FALSE \in BOOLEAN BY Zenon
      <4>2. Freed BY <3>1, <3>5, <4>1, ReturnFrees, Zenon
      <4> QED BY <3>1, <4>2, Zenon DEF Ended
    <3>6. CASE RetryOrFail(g)
      <4>1. CASE MayRetry(g) BY <1>2, <3>1, <3>6, <4>1, Zenon DEF RetryOrFail, Ended
      <4>2. CASE ~MayRetry(g)
        <5>1. Return(Forgiven) /\ UNCHANGED ses BY <3>6, <4>2, Zenon DEF RetryOrFail
        <5>2. Forgiven \in BOOLEAN BY Zenon DEF Forgiven
        <5>3. Freed BY <3>1, <5>1, <5>2, ReturnFrees, Zenon
        <5> QED BY <3>1, <5>3, Zenon DEF Ended
      <4> QED BY <4>1, <4>2, Zenon
    <3> QED BY <3>2, <3>3, <3>4, <3>5, <3>6, Zenon
  <2> QED BY <2>2, <2>3, Zenon
<1> QED BY <1>1, <1>2, Zenon

\* An error ends an operation.  The session is out of step from then on, or it
\* is one that is not in step.
LEMMA EndedBle ==
    ASSUME BleInv, lock # NoTask, NEW g \in {gen, gen + 1}, Ended(g), gen' = g,
           link' \in BOOLEAN, g = gen => link' = link,
           acc' \in AccStates, acc'.sess = acc.sess, acc'.hs = acc.hs, acc'.recv = acc.recv,
           acc'.send = acc.send, acc'.paired = acc.paired,
           hist' \in [used : SUBSET (Nat \X Nat \X Nat \X Nat \X Nat), dirty : SUBSET Nat],
           hist'.used = hist.used, hist.dirty \subseteq hist'.dirty,
           ~Synced \/ g # gen \/ ses.sid \in hist'.dirty,
           UNCHANGED <<nsid, want, drops, ops>>
    PROVE  BleInv'
<1>1. /\ gen \in Nat /\ nsid \in Nat /\ applied \in Nat /\ ses \in SesStates /\ ses.sid \in Nat
      /\ ses.gen \in Int /\ ses.born \in Int /\ op.tries \in Nat /\ op.gen0 \in Nat
      /\ NoTask \notin Tasks /\ Controller \notin Tasks /\ NoTask # Controller
      /\ Frags \in Nat \ {0} /\ MaxReviveRetries \in Nat \ {0}
      /\ lock \in Tasks \cup {NoTask, Controller}
  BY Facts, Zenon
<1>2. g \in Nat /\ gen <= g BY <1>1
<1>3. NonceFresh' BY Zenon DEF BleInv, NonceFresh
<1>4. ASSUME ses'.sid \in {ses.sid, 0}, ses'.born = ses.born PROVE InStep'
  <2> SUFFICES ASSUME Synced' PROVE FALSE
    BY Zenon DEF InStep
  <2>1. link' /\ g = ses.born /\ acc.paired /\ ses'.sid = ses.sid /\ ses.sid # 0
        /\ ses.sid \notin hist'.dirty
    BY <1>4, Zenon DEF Synced
  <2>2. g = gen
    <3>1. ses.born <= gen BY Zenon DEF BleInv, Generations
    <3> QED BY <1>1, <2>1, <3>1
  <2> QED BY <2>1, <2>2, Zenon DEF Synced
<1>5. ASSUME ses'.sid \in {ses.sid, 0}, ses'.send = ses.send PROVE Minted'
  BY <1>1, <1>5 DEF BleInv, Minted
<1>6. ASSUME ses'.sid \in {ses.sid, 0}, ses'.born = ses.born
      PROVE  link' /\ gen' = ses'.born /\ acc'.paired /\ ses'.sid # 0 => acc'.sess = ses'.sid
  <2>1. ses.born <= gen BY Zenon DEF BleInv, Generations
  <2>2. gen' = ses.born => g = gen BY <1>1, <2>1
  <2> QED BY <1>6, <2>2, Zenon DEF BleInv, Generations
<1>7. CASE lock = Controller /\ (Built(g) \/ BuildFails)
  <2>1. /\ lock' = NoTask /\ op' = NoOp /\ UNCHANGED <<applied, res>>
        /\ ses' = [ses EXCEPT !.gen = g] \/ ses' = [ses EXCEPT !.sid = 0]
    BY <1>7, Zenon DEF Built, BuildFails
  <2>2. /\ ses' \in SesStates /\ ses'.sid \in {ses.sid, 0} /\ ses'.born = ses.born
        /\ ses'.send = ses.send /\ ses'.gen \in {g, ses.gen}
        /\ ses'.sid # 0 => ses'.gen = g
    BY <1>1, <1>2, <2>1 DEF SesStates
  <2>3. TypeOK' BY <1>2, <2>1, <2>2, NoOpFields, Zenon DEF BleInv, TypeOK
  <2>4. Roles'
    <3>1. \A t \in Tasks : want'[t] = "none" /\ ~Provisioning(t)'
      BY <1>7, <2>1, Zenon DEF BleInv, Roles, Provisioning
    <3> QED BY <1>1, <2>1, <3>1, NoOpFields, Zenon DEF Roles
  <2>5. Generations'
    <3>1. op'.pc \notin Handshake BY <2>1, NoOpFields, Zenon DEF Handshake
    <3>2. ses.born <= gen /\ ses.gen <= gen BY Zenon DEF BleInv, Generations
    <3>3. ses'.born <= gen' /\ ses'.gen <= gen' /\ (ses'.sid # 0 => ses'.born <= ses'.gen)
      BY <1>1, <1>2, <2>2, <3>2
    <3> QED BY <1>6, <2>2, <3>1, <3>3, Zenon DEF Generations
  <2>6. Repeats'
    <3>1. applied <= 1 BY <1>1, <1>7 DEF BleInv, Roles, Repeats
    <3> QED BY <1>1, <2>1, <3>1, NoOpFields DEF Repeats
  <2> QED BY <1>3, <1>4, <1>5, <2>2, <2>3, <2>4, <2>5, <2>6, Zenon DEF BleInv
<1>8. CASE lock \in Tasks /\ Freed
  <2>1. /\ lock' = NoTask /\ op' = NoOp /\ applied' = 0 /\ ses' = ses
        /\ res' \in [Tasks -> [kind : AllKinds \cup {"none"}, ok : BOOLEAN]]
    BY <1>8, Zenon DEF Freed
  <2>2. ses.sid # 0 BY <1>8, Zenon DEF BleInv, Roles
  <2>3. TypeOK' BY <1>1, <1>2, <2>1, NoOpFields, Zenon DEF BleInv, TypeOK
  <2>4. Roles' BY <1>1, <2>1, <2>2, NoOpFields, Zenon DEF Roles
  <2>5. Generations'
    <3>1. op'.pc \notin Handshake BY <2>1, NoOpFields, Zenon DEF Handshake
    <3>2. ses.born <= gen /\ ses.gen <= gen /\ ses.born <= ses.gen
      BY <1>1, <1>8, <2>2, Zenon DEF BleInv, Generations
    <3>3. ses.born <= g /\ ses.gen <= g BY <1>1, <1>2, <3>2
    <3> QED BY <1>6, <2>1, <3>1, <3>2, <3>3, Zenon DEF Generations
  <2>6. Repeats' BY <1>1, <2>1, NoOpFields DEF Repeats
  <2> QED BY <1>3, <1>4, <1>5, <2>1, <2>3, <2>4, <2>5, <2>6, Zenon DEF BleInv
<1>9. CASE lock \in Tasks /\ op.pc \in {"write", "read"} /\ MayRetry(g) /\ Retry
  <2>1. /\ op' = [At("start") EXCEPT !.tries = op.tries + 1, !.frag = 0]
        /\ UNCHANGED <<lock, applied, res, ses>> /\ op.tries + 1 < MaxReviveRetries
        /\ g > ses.gen
    BY <1>9, Zenon DEF Retry, MayRetry
  <2>2. "start" \in Pcs BY Zenon DEF Pcs
  <2>3. /\ op' \in OpStates /\ op'.pc = "start" /\ op'.kind = op.kind /\ op'.frag = 0
        /\ op'.tries = op.tries + 1 /\ op'.gen0 = op.gen0
    <3>1. op \in OpStates BY Facts, Zenon
    <3>2. /\ At("start") \in OpStates /\ At("start").pc = "start"
          /\ At("start").kind = op.kind /\ At("start").gen0 = op.gen0
      BY <2>2, <3>1, AtFields, Zenon
    <3>3. op.tries + 1 \in Nat BY <1>1
    <3> DEFINE a == At("start")
    <3> HIDE DEF a
    <3>4. /\ op' = [a EXCEPT !.tries = op.tries + 1, !.frag = 0] /\ a \in OpStates
          /\ a.pc = "start" /\ a.kind = op.kind /\ a.gen0 = op.gen0
      BY <2>1, <3>2, Zenon DEF a
    <3> QED BY <3>3, <3>4, Zenon DEF OpStates
  <2>4. TypeOK' BY <1>1, <1>2, <1>9, <2>1, <2>3, Zenon DEF BleInv, TypeOK
  <2>5. Roles' BY <1>1, <1>9, <2>1, <2>3, Zenon DEF BleInv, Roles, Provisioning
  <2>6. Generations'
    <3>1. op'.pc \notin Handshake BY <2>3, Zenon DEF Handshake
    <3>2. ses.born <= gen /\ ses.gen <= gen BY Zenon DEF BleInv, Generations
    <3>3. ses.born <= g /\ ses.gen <= g BY <1>1, <1>2, <3>2
    <3> QED BY <1>6, <2>1, <3>1, <3>3, Zenon DEF BleInv, Generations
  <2>7. Repeats'
    <3>1. /\ applied <= op.tries + 1 /\ op.gen0 <= ses.gen /\ applied <= 1 + ses.gen - op.gen0
      BY <1>9, Zenon DEF BleInv, Repeats, Secured
    <3>2. applied <= g - op.gen0 /\ op.gen0 <= g BY <1>1, <1>2, <2>1, <3>1
    <3> QED BY <1>1, <2>1, <2>3, <3>1, <3>2 DEF Repeats, Secured
  <2> QED BY <1>3, <1>4, <1>5, <2>1, <2>4, <2>5, <2>6, <2>7, Zenon DEF BleInv
<1> QED BY <1>7, <1>8, <1>9, Zenon DEF Ended

\* The session is stale, or there is none, while Pair Verify runs.
LEMMA HandshakeIsOut ==
    ASSUME BleInv, lock # NoTask, op.pc \in Handshake
    PROVE  ses.sid = 0 \/ ses.born < gen
<1>1. ses.sid = 0 \/ ses.gen < gen BY Zenon DEF BleInv, Generations
<1>2. lock = Controller => ses.sid = 0 BY Zenon DEF BleInv, Roles, Secured, Handshake
<1>3. lock # Controller /\ ses.sid # 0 => ses.born <= ses.gen BY Zenon DEF BleInv, Generations
<1> QED BY <1>1, <1>2, <1>3, Facts

\* The generation has advanced although there is no new link.
LEMMA ReconnectFailsBle ==
    ASSUME BleInv, ReconnectFails
    PROVE  BleInv'
<1>1. /\ lock # NoTask /\ OpError("disconnected", gen + 1) /\ gen' = gen + 1
      /\ link' \in BOOLEAN /\ UNCHANGED <<acc, nsid, want, hist, drops, ops>>
  BY Zenon DEF ReconnectFails, AtGatt
<1>2. Ended(gen + 1) BY <1>1, OpErrorEnds, Zenon
<1>3. gen + 1 # gen BY Facts
<1> QED BY <1>1, <1>2, <1>3, Facts, EndedBle, Zenon

\* There is no link, so no session is in step.
LEMMA ReconnectGivesUpBle ==
    ASSUME BleInv, ReconnectGivesUp
    PROVE  BleInv'
<1>1. /\ lock # NoTask /\ OpError("disconnected", gen) /\ ~link
      /\ UNCHANGED <<link, gen, acc, nsid, want, hist, drops, ops>>
  BY Zenon DEF ReconnectGivesUp, AtGatt
<1>2. Ended(gen) BY <1>1, OpErrorEnds, Zenon
<1>3. ~Synced BY <1>1, Zenon DEF Synced
<1> QED BY <1>1, <1>2, <1>3, Facts, EndedBle, Zenon

\* The session is recorded as one an operation was broken off in.
LEMMA Broken ==
    ASSUME BleInv, hist' = [hist EXCEPT !.dirty = @ \cup {ses.sid}]
    PROVE  /\ hist' \in [used : SUBSET (Nat \X Nat \X Nat \X Nat \X Nat), dirty : SUBSET Nat]
           /\ hist'.used = hist.used /\ hist.dirty \subseteq hist'.dirty
           /\ ses.sid \in hist'.dirty
<1>1. /\ hist \in [used : SUBSET (Nat \X Nat \X Nat \X Nat \X Nat), dirty : SUBSET Nat]
      /\ ses.sid \in Nat
  BY Facts, Zenon
<1> QED BY <1>1, Zenon

\* The backend fails a GATT call.
LEMMA BackendErrorBle ==
    ASSUME BleInv, BackendError
    PROVE  BleInv'
<1>1. /\ lock # NoTask /\ OpError("backend", gen)
      /\ hist' = [hist EXCEPT !.dirty = @ \cup {ses.sid}]
      /\ UNCHANGED <<link, gen, acc, nsid, want, drops, ops>>
  BY Zenon DEF BackendError, AtGatt
<1>2. Ended(gen) BY <1>1, OpErrorEnds, Zenon
<1> QED BY <1>1, <1>2, Broken, Facts, EndedBle, Zenon

\* The future of an operation is dropped, perhaps while it reconnects.
LEMMA CancelBle ==
    ASSUME BleInv, NEW t \in Tasks, Cancel(t)
    PROVE  BleInv'
<1>1. /\ lock = t /\ lock' = NoTask /\ op' = NoOp /\ applied' = 0
      /\ hist' = [hist EXCEPT !.dirty = @ \cup {ses.sid}]
      /\ UNCHANGED <<acc, nsid, ses, want, res, drops, ops>>
      /\ \/ gen' = gen /\ link' = link
         \/ gen' = gen + 1 /\ link' \in BOOLEAN
  BY Zenon DEF Cancel
<1>2. lock # NoTask BY <1>1, Facts, Zenon
<1>3. \A g : Ended(g) BY <1>1, Zenon DEF Ended, Freed, BleInv, TypeOK
<1>4. CASE gen' = gen /\ link' = link
  BY <1>1, <1>2, <1>3, <1>4, Broken, Facts, EndedBle, Zenon
<1>5. CASE gen' = gen + 1 /\ link' \in BOOLEAN
  <2>1. gen + 1 # gen BY Facts
  <2> QED BY <1>1, <1>2, <1>3, <1>5, <2>1, Broken, Facts, EndedBle, Zenon
<1> QED BY <1>1, <1>4, <1>5, Zenon

\* Pair Verify fails: the session stays the stale one.
LEMMA VerifyFailsBle ==
    ASSUME BleInv, VerifyFails
    PROVE  BleInv'
<1>1. /\ lock # NoTask /\ EarlyError /\ op.pc \in {"m1r", "m3r"}
      /\ UNCHANGED <<link, gen, acc, nsid, want, hist, drops, ops>>
  BY Zenon DEF VerifyFails, AtGatt
<1>2. Ended(gen) BY <1>1, EarlyErrorEnds, Zenon
<1>3. ses.sid = 0 \/ ses.born < gen BY <1>1, HandshakeIsOut, Zenon DEF Handshake
<1>4. ~Synced BY <1>3, Facts DEF Synced
<1> QED BY <1>1, <1>2, <1>4, Facts, EndedBle, Zenon

\* What the accessory had to say is read or given up.
LEMMA AnswerGone ==
    ASSUME BleInv, acc' = [acc EXCEPT !.pend = NoAnswer]
    PROVE  /\ acc' \in AccStates /\ acc'.sess = acc.sess /\ acc'.hs = acc.hs
           /\ acc'.recv = acc.recv /\ acc'.send = acc.send /\ acc'.paired = acc.paired
<1>1. NoAnswer \in Answers
  <2>1. FALSE \in BOOLEAN /\ 0 \in Nat BY Zenon
  <2> QED BY <2>1, Zenon DEF NoAnswer, Answers
<1>2. acc \in AccStates BY Facts, Zenon
<1> QED BY <1>1, <1>2, Zenon DEF AccStates

\* In a session that is in step the response opens, so it is another one.
LEMMA ReadGarbageBle ==
    ASSUME BleInv, ReadGarbage
    PROVE  BleInv'
<1>1. /\ lock # NoTask /\ OpError("crypto", gen) /\ op.pc = "read" /\ ~Opens
      /\ acc' = [acc EXCEPT !.pend = NoAnswer]
      /\ UNCHANGED <<link, gen, nsid, want, hist, drops, ops>>
  BY Zenon DEF ReadGarbage, AtGatt
<1>2. Ended(gen) BY <1>1, OpErrorEnds, Zenon
<1>3. ~Synced
  <2> SUFFICES ASSUME Synced PROVE FALSE BY Zenon
  <2>1. acc.pend.sid = ses.sid /\ acc.pend.ctr = ses.recv /\ ses.sid # 0
    BY <1>1, Zenon DEF BleInv, InStep, Synced
  <2>2. acc.pend # NoAnswer BY <2>1 DEF NoAnswer
  <2> QED BY <1>1, <2>1, <2>2, Zenon DEF Opens
<1> QED BY <1>1, <1>2, <1>3, AnswerGone, Facts, EndedBle, Zenon

-----------------------------------------------------------------------------
(* Pair Verify *)

\* Pair Verify goes on: the accessory may have minted a session, which is not
\* the handle's yet.
LEMMA VerifyGoesOn ==
    ASSUME BleInv, lock # NoTask, op.pc \in Handshake, NEW p \in Handshake, op' = At(p),
           acc' \in AccStates, nsid' \in {nsid, nsid + 1}, acc'.sess <= nsid',
           acc'.hs = "m4" => /\ acc'.sess = nsid' /\ acc'.recv = 0 /\ acc'.send = 0
                             /\ nsid' = nsid + 1,
           UNCHANGED <<link, gen, ses, lock, applied, want, res, hist, drops, ops>>
    PROVE  BleInv'
<1>1. /\ gen \in Nat /\ nsid \in Nat /\ ses.sid \in Nat /\ ses.born \in Int
      /\ NoTask \notin Tasks /\ Controller \notin Tasks
      /\ lock \in Tasks \cup {NoTask, Controller}
  BY Facts, Zenon
<1>2. p \in Pcs /\ p \notin Secured /\ p \notin {"start", "sweep"}
  BY Zenon DEF Handshake, Pcs, Secured
<1>3. /\ op' \in OpStates /\ op'.pc = p /\ op'.kind = op.kind /\ op'.frag = op.frag
      /\ op'.tries = op.tries /\ op'.gen0 = op.gen0
  BY <1>2, AtFields, Zenon
<1>4. op.pc \notin Secured /\ op.pc \notin {"start", "sweep"} BY Zenon DEF Handshake, Secured
<1>5. ses.sid = 0 \/ ses.born < gen BY HandshakeIsOut, Zenon
<1>6. ses.sid = 0 \/ gen # ses.born BY <1>1, <1>5
<1>7. TypeOK' BY <1>1, <1>3 DEF BleInv, TypeOK
<1>8. Roles' BY <1>1, <1>2, <1>3, <1>4, Zenon DEF BleInv, Roles, Provisioning
<1>9. Generations' BY <1>3, <1>6, Zenon DEF BleInv, Generations
<1>10. Minted'
  <2>1. ses.sid <= nsid /\ \A u \in hist.used : u[1] # 0 /\ u[1] <= nsid
    BY Zenon DEF BleInv, Minted
  <2>2. \A u \in hist.used : u[1] \in Nat BY Zenon DEF BleInv, TypeOK
  <2>3. ses.sid <= nsid' /\ \A u \in hist.used : u[1] <= nsid' BY <1>1, <2>1, <2>2
  <2>4. nsid' = nsid + 1 => ses.sid < nsid' /\ \A u \in hist.used : u[1] < nsid'
    BY <1>1, <2>1, <2>2
  <2> QED BY <2>3, <2>4, Zenon DEF BleInv, Minted
<1>11. InStep' BY <1>6, Zenon DEF InStep, Synced
<1>12. Repeats'
  <2>1. Pending BY Zenon DEF Pending
  <2>2. p \notin {"write", "read"} BY Zenon DEF Handshake
  <2>3. op.pc \notin {"write", "read"} BY Zenon DEF Handshake
  <2> QED BY <1>2, <1>3, <1>4, <2>1, <2>2, <2>3, Zenon DEF BleInv, Repeats
<1>13. NonceFresh' BY Zenon DEF BleInv, NonceFresh
<1> QED BY <1>7, <1>8, <1>9, <1>10, <1>11, <1>12, <1>13, Zenon DEF BleInv

\* M1 and M3 are written.
LEMMA VerifyWriteBle ==
    ASSUME BleInv, VerifyWrite
    PROVE  BleInv'
<1>1. /\ lock # NoTask
      /\ UNCHANGED <<link, gen, ses, lock, applied, want, res, hist, drops, ops>>
  BY Zenon DEF VerifyWrite, AtGatt
<1>2. acc \in AccStates /\ acc.sess \in Nat /\ nsid \in Nat BY Facts, Zenon
<1>3. acc.sess <= nsid BY Zenon DEF BleInv, Minted
<1>4. CASE op.pc = "m1w" /\ AccessoryM1 /\ UNCHANGED nsid /\ op' = At("m1r")
  <2>1. /\ acc' \in AccStates /\ acc'.sess = acc.sess /\ acc'.hs # "m4"
    <3>1. \E h \in {"none", "m2"} : acc' = [acc EXCEPT !.hs = h] BY <1>4, Zenon DEF AccessoryM1
    <3> QED BY <1>2, <3>1, Zenon DEF AccStates
  <2>2. "m1w" \in Handshake /\ "m1r" \in Handshake BY Zenon DEF Handshake
  <2> QED BY <1>1, <1>2, <1>3, <1>4, <2>1, <2>2, VerifyGoesOn, Zenon
<1>5. CASE op.pc = "m3w" /\ AccessoryM3 /\ op' = At("m3r")
  <2>1. "m3w" \in Handshake /\ "m3r" \in Handshake BY Zenon DEF Handshake
  <2>2. CASE acc.hs = "m2" /\ acc.paired
    <3>1. /\ nsid' = nsid + 1
          /\ acc' = [acc EXCEPT !.sess = nsid + 1, !.recv = 0, !.send = 0,
                                !.hs = "m4", !.pend = NoAnswer]
      BY <1>5, <2>2, Zenon DEF AccessoryM3
    <3>2. NoAnswer \in Answers
      <4>1. FALSE \in BOOLEAN /\ 0 \in Nat BY Zenon
      <4> QED BY <4>1, Zenon DEF NoAnswer, Answers
    <3>3. nsid + 1 \in Nat /\ 0 \in Nat /\ "m4" \in {"none", "m2", "m4"} BY <1>2
    <3>4. /\ acc' \in AccStates /\ acc'.sess = nsid + 1 /\ acc'.recv = 0 /\ acc'.send = 0
      BY <1>2, <3>1, <3>2, <3>3, Zenon DEF AccStates
    <3>5. acc'.sess <= nsid' BY <1>2, <3>1, <3>4
    <3> QED BY <1>1, <1>5, <2>1, <3>1, <3>4, <3>5, VerifyGoesOn, Zenon
  <2>3. CASE ~(acc.hs = "m2" /\ acc.paired)
    <3>1. nsid' = nsid /\ acc' = [acc EXCEPT !.hs = "none"]
      BY <1>5, <2>3, Zenon DEF AccessoryM3
    <3>2. acc' \in AccStates /\ acc'.sess = acc.sess /\ acc'.hs # "m4"
      BY <1>2, <3>1, Zenon DEF AccStates
    <3> QED BY <1>1, <1>2, <1>3, <1>5, <2>1, <3>1, <3>2, VerifyGoesOn, Zenon
  <2> QED BY <2>2, <2>3, Zenon
<1> QED BY <1>4, <1>5, Zenon DEF VerifyWrite

\* M2 is answered.
LEMMA VerifyM2Ble ==
    ASSUME BleInv, VerifyM2
    PROVE  BleInv'
<1>1. /\ lock # NoTask /\ op.pc = "m1r" /\ acc.hs = "m2" /\ op' = At("m3w")
      /\ UNCHANGED <<link, gen, acc, nsid, ses, lock, applied, want, res, hist, drops, ops>>
  BY Zenon DEF VerifyM2, AtGatt
<1>2. "m1r" \in Handshake /\ "m3w" \in Handshake BY Zenon DEF Handshake
<1>3. acc' \in AccStates /\ acc'.sess <= nsid' BY <1>1, Facts, Zenon DEF BleInv, Minted
<1> QED BY <1>1, <1>2, <1>3, VerifyGoesOn, Zenon

\* M4 arrives: the session is new, and both its counters are at zero on both ends.
LEMMA VerifyM4Ble ==
    ASSUME BleInv, VerifyM4
    PROVE  BleInv'
<1>1. /\ lock # NoTask /\ op.pc = "m3r" /\ acc.hs = "m4"
      /\ acc' = [acc EXCEPT !.hs = "none"]
      /\ ses' = [sid |-> acc.sess, send |-> 0, recv |-> 0, born |-> gen,
                 gen |-> IF op.kind = "connect" /\ acc.sig THEN ses.gen ELSE gen]
      /\ UNCHANGED <<link, gen, nsid, applied, want, res, hist, drops, ops>>
  BY Zenon DEF VerifyM4, AtGatt
<1>2. \/ op.kind = "connect" /\ ~acc.sig /\ lock' = NoTask /\ op' = NoOp
      \/ ~(op.kind = "connect" /\ ~acc.sig) /\ op' = At("seal") /\ lock' = lock
  BY Zenon DEF VerifyM4
<1>3. /\ gen \in Nat /\ nsid \in Nat /\ ses.sid \in Nat /\ ses.gen \in Int /\ acc.sess \in Nat
      /\ acc \in AccStates /\ applied \in Nat /\ op.tries \in Nat /\ op.gen0 \in Nat
      /\ NoTask \notin Tasks /\ Controller \notin Tasks /\ NoTask # Controller
      /\ lock \in Tasks \cup {NoTask, Controller} /\ Frags \in Nat \ {0}
      /\ MaxReviveRetries \in Nat \ {0}
  BY Facts, Zenon
<1>4. /\ acc' \in AccStates /\ acc'.sess = acc.sess /\ acc'.recv = acc.recv
      /\ acc'.send = acc.send /\ acc'.hs = "none"
  <2>1. "none" \in {"none", "m2", "m4"} BY Zenon
  <2> QED BY <1>1, <1>3, <2>1, Zenon DEF AccStates
<1>5. /\ acc.sess = nsid /\ acc.recv = 0 /\ acc.send = 0 /\ ses.sid < nsid
      /\ \A u \in hist.used : u[1] < nsid
  BY <1>1, Zenon DEF BleInv, Minted
<1>6. /\ ses'.sid = nsid /\ ses'.send = 0 /\ ses'.recv = 0 /\ ses'.born = gen
      /\ ses'.gen \in {ses.gen, gen} /\ (op.kind # "connect" \/ ~acc.sig => ses'.gen = gen)
  BY <1>1, <1>5, Zenon
<1>7. nsid # 0 BY <1>3, <1>5
<1>8. ses' \in SesStates
  <2>1. gen \in Int /\ 0 \in Nat BY <1>3
  <2> QED BY <1>1, <1>3, <2>1, Zenon DEF SesStates
<1>9. "seal" \in Pcs /\ "seal" \in Secured /\ "seal" \notin Handshake
  BY Zenon DEF Pcs, Secured, Handshake
<1>10. /\ op' \in OpStates
       /\ \/ lock' = NoTask /\ op' = NoOp /\ lock = Controller /\ op'.pc = "start" /\ ses'.gen = gen
          \/ /\ lock' = lock /\ op'.pc = "seal" /\ op'.kind = op.kind /\ op'.frag = op.frag
             /\ op'.tries = op.tries /\ op'.gen0 = op.gen0
             /\ lock # Controller => ses'.gen = gen
  BY <1>2, <1>6, <1>9, AtFields, NoOpFields, SMTT(30) DEF BleInv, Roles
<1>11. TypeOK' BY <1>1, <1>2, <1>3, <1>4, <1>8, <1>10, Zenon DEF BleInv, TypeOK
<1>12. Roles'
  <2>1. lock = Controller => \A t \in Tasks : want[t] = "none" /\ ~Provisioning(t)
    BY Zenon DEF BleInv, Roles
  <2>2. op.kind = "connect" <=> lock = Controller BY Zenon DEF BleInv, Roles
  <2>3. CASE lock' = NoTask /\ op' = NoOp
    BY <1>3, <1>6, <1>7, <2>3, NoOpFields, Zenon DEF Roles
  <2>4. CASE lock' = lock /\ op'.pc = "seal" /\ op'.kind = op.kind /\ op'.tries = op.tries
             /\ op'.gen0 = op.gen0
    BY <1>1, <1>3, <1>6, <1>7, <1>9, <2>1, <2>2, <2>4, Zenon DEF BleInv, Roles, Provisioning
  <2> QED BY <1>10, <2>3, <2>4, Zenon
<1>13. Generations'
  <2>1. ses.gen <= gen BY Zenon DEF BleInv, Generations
  <2>2. op'.pc \notin Handshake BY <1>9, <1>10, Zenon DEF Handshake
  <2>3. ses'.born <= gen' /\ ses'.gen <= gen' BY <1>1, <1>3, <1>6, <2>1
  <2>4. lock' # Controller => ses'.born <= ses'.gen BY <1>3, <1>6, <1>10
  <2> QED BY <1>4, <1>5, <1>6, <2>2, <2>3, <2>4, Zenon DEF Generations
<1>14. Minted'
  <2>1. \A u \in hist.used : u[1] \in Nat BY Zenon DEF BleInv, TypeOK
  <2>2. \A u \in hist.used : u[1] # nsid /\ u[1] <= nsid BY <1>3, <1>5, <2>1
  <2>3. nsid <= nsid BY <1>3
  <2> QED BY <1>1, <1>4, <1>5, <1>6, <2>2, <2>3, Zenon DEF BleInv, Minted
<1>15. InStep' BY <1>4, <1>5, <1>6, <1>10, Zenon DEF InStep
<1>16. Repeats'
  <2>1. Pending /\ op.pc \notin Secured /\ op.pc \notin {"write", "read"}
    BY <1>1, Zenon DEF Pending, Handshake, Secured
  <2>2. applied <= op.tries /\ op.tries < MaxReviveRetries /\ op.frag < Frags
    BY <1>1, <2>1, Zenon DEF BleInv, Repeats
  <2>3. CASE lock' = NoTask /\ op' = NoOp /\ lock = Controller
    <3>1. op.tries = 0 BY <2>3, Zenon DEF BleInv, Roles
    <3> QED BY <1>1, <1>3, <2>2, <2>3, <3>1, NoOpFields DEF Repeats
  <2>4. CASE /\ lock' = lock /\ op'.pc = "seal" /\ op'.frag = op.frag
             /\ op'.tries = op.tries /\ op'.gen0 = op.gen0
             /\ lock # Controller => ses'.gen = gen
    <3>1. lock \in Tasks => op.gen0 <= gen /\ applied <= gen - op.gen0
      BY <2>1, Zenon DEF BleInv, Repeats
    <3>2. lock \in Tasks => applied <= 1 + gen - op.gen0 BY <1>3, <3>1
    <3>3. applied <= op.tries + 1 BY <1>3, <2>2
    <3> QED BY <1>1, <1>3, <2>2, <2>4, <3>1, <3>2, <3>3, Zenon DEF Repeats
  <2> QED BY <1>10, <2>3, <2>4, Zenon
<1>17. NonceFresh' BY <1>1, Zenon DEF BleInv, NonceFresh
<1> QED BY <1>11, <1>12, <1>13, <1>14, <1>15, <1>16, <1>17, Zenon DEF BleInv

-----------------------------------------------------------------------------
(* request_secure *)

\* The send counter names a nonce that no fragment of the session had.
LEMMA SealBle ==
    ASSUME BleInv, Seal
    PROVE  BleInv'
<1> DEFINE new == <<ses.sid, ses.send, op.no, op.tries, op.frag>>
<1>1. /\ lock # NoTask /\ op.pc = "seal"
      /\ op' = [At("write") EXCEPT !.frag = op.frag + 1, !.ctr = ses.send]
      /\ hist' = [hist EXCEPT !.used = @ \cup {new}]
      /\ ses' = [ses EXCEPT !.send = ses.send + 1]
      /\ UNCHANGED <<link, gen, acc, nsid, lock, applied, want, res, drops, ops>>
  BY Zenon DEF Seal
<1>2. /\ nsid \in Nat /\ ses \in SesStates /\ ses.sid \in Nat /\ ses.send \in Nat
      /\ op.frag \in Nat /\ op.no \in Nat /\ op.tries \in Nat /\ Frags \in Nat \ {0}
      /\ hist \in [used : SUBSET (Nat \X Nat \X Nat \X Nat \X Nat), dirty : SUBSET Nat]
      /\ lock \in Tasks \cup {NoTask, Controller} /\ NoTask \notin Tasks
      /\ Controller \notin Tasks /\ acc.recv \in Nat
  BY Facts, Zenon
<1>3. ses.send + 1 \in Nat /\ op.frag + 1 \in Nat /\ "write" \in Pcs
  BY <1>2 DEF Pcs
<1>4. /\ op' \in OpStates /\ op'.pc = "write" /\ op'.kind = op.kind
      /\ op'.frag = op.frag + 1 /\ op'.ctr = ses.send /\ op'.tries = op.tries
      /\ op'.gen0 = op.gen0
  <2> DEFINE a == At("write")
  <2> HIDE DEF a
  <2>1. /\ op' = [a EXCEPT !.frag = op.frag + 1, !.ctr = ses.send] /\ a \in OpStates
        /\ a.pc = "write" /\ a.kind = op.kind /\ a.tries = op.tries /\ a.gen0 = op.gen0
    BY <1>1, <1>3, AtFields, Zenon DEF a
  <2> QED BY <1>2, <1>3, <2>1, Zenon DEF OpStates
<1>5. /\ ses' \in SesStates /\ ses'.sid = ses.sid /\ ses'.send = ses.send + 1
      /\ ses'.recv = ses.recv /\ ses'.gen = ses.gen /\ ses'.born = ses.born
  BY <1>1, <1>2, <1>3, Zenon DEF SesStates
<1>6. /\ hist' \in [used : SUBSET (Nat \X Nat \X Nat \X Nat \X Nat), dirty : SUBSET Nat]
      /\ hist'.used = hist.used \cup {new} /\ hist'.dirty = hist.dirty
  BY <1>1, <1>2
<1>7. ses.sid # 0 BY <1>1, <1>2, Zenon DEF BleInv, Roles, Secured
<1>8. \A u \in hist.used : u \in Nat \X Nat \X Nat \X Nat \X Nat BY <1>2, Zenon
<1>9. new[1] = ses.sid /\ new[2] = ses.send BY Zenon
<1> HIDE DEF new
<1>10. TypeOK' BY <1>1, <1>2, <1>4, <1>5, <1>6, Zenon DEF BleInv, TypeOK
<1>11. Roles'
  BY <1>1, <1>2, <1>4, <1>5, <1>7, Zenon DEF BleInv, Roles, Provisioning, Secured
<1>12. Generations'
  BY <1>1, <1>4, <1>5, Zenon DEF BleInv, Generations, Handshake
<1>13. Minted'
  <2>1. \A u \in hist.used : u[1] = ses.sid => u[2] < ses.send + 1
    <3>1. \A u \in hist.used : u[2] \in Nat BY <1>8, Zenon
    <3> QED BY <1>2, <3>1 DEF BleInv, Minted
  <2>2. ses.send < ses.send + 1 BY <1>2
  <2> QED BY <1>1, <1>5, <1>6, <1>7, <1>9, <2>1, <2>2 DEF BleInv, Minted
<1>14. InStep'
  BY <1>1, <1>4, <1>5, <1>6, Zenon DEF BleInv, InStep, Synced
<1>15. Repeats'
  <2>1. Pending /\ op.pc \in Secured /\ op.pc \notin {"write", "read"}
    BY <1>1, Zenon DEF Pending, Secured
  <2>2. op.frag < Frags /\ applied <= op.tries BY <1>1, <2>1, Zenon DEF BleInv, Repeats
  <2>3. op.frag + 1 <= Frags BY <1>2, <2>2
  <2> QED BY <1>1, <1>4, <1>5, <2>1, <2>2, <2>3, Zenon DEF BleInv, Repeats, Secured
<1>16. NonceFresh'
  <2>1. \A u \in hist.used : ~(u[1] = new[1] /\ u[2] = new[2])
    <3>1. \A u \in hist.used : u[2] \in Nat BY <1>8, Zenon
    <3> QED BY <1>2, <1>9, <3>1 DEF BleInv, Minted
  <2> QED BY <1>6, <2>1, Zenon DEF BleInv, NonceFresh
<1> QED BY <1>10, <1>11, <1>12, <1>13, <1>14, <1>15, <1>16, Zenon DEF BleInv

\* What the accessory does with a fragment it authenticates.
LEMMA TakesFields ==
    ASSUME BleInv, NEW last \in BOOLEAN, AccessoryTakes(last)
    PROVE  /\ acc' \in AccStates /\ acc'.sess \in {acc.sess, 0} /\ acc'.hs \in {acc.hs, "none"}
           /\ applied' = applied \/ (last /\ applied' = applied + 1)
           /\ acc'.paired => /\ acc.paired /\ acc'.sess = acc.sess
                             /\ acc'.recv = acc.recv + 1
                             /\ ~last => acc'.send = acc.send
                             /\ last => /\ acc'.send = acc.send + 1
                                        /\ acc'.pend.sid = acc.sess /\ acc'.pend.ctr = acc.send
<1> DEFINE taken == [acc EXCEPT !.recv = acc.recv + 1, !.pend = NoAnswer]
           said(ok) == [sid |-> acc.sess, ctr |-> acc.send, ok |-> ok]
           answer(ok) == [taken EXCEPT !.send = acc.send + 1, !.pend = said(ok)]
<1>1. acc \in AccStates /\ acc.sess \in Nat /\ acc.send \in Nat /\ acc.recv \in Nat
  BY Facts, Zenon
<1>2. acc.recv + 1 \in Nat /\ acc.send + 1 \in Nat /\ FALSE \in BOOLEAN /\ TRUE \in BOOLEAN
      /\ 0 \in Nat
  BY <1>1
<1>3. NoAnswer \in Answers BY <1>2, Zenon DEF NoAnswer, Answers
<1>4. /\ taken \in AccStates /\ taken.recv = acc.recv + 1 /\ taken.sess = acc.sess
      /\ taken.send = acc.send /\ taken.hs = acc.hs /\ taken.paired = acc.paired
  BY <1>1, <1>2, <1>3, Zenon DEF AccStates
<1>5. ASSUME NEW ok \in BOOLEAN
      PROVE  said(ok) \in Answers /\ said(ok).sid = acc.sess /\ said(ok).ctr = acc.send
  BY <1>1, Zenon DEF Answers
<1> HIDE DEF taken, said
<1>6. ASSUME NEW ok \in BOOLEAN
      PROVE  /\ answer(ok) \in AccStates /\ answer(ok).recv = acc.recv + 1
             /\ answer(ok).sess = acc.sess /\ answer(ok).send = acc.send + 1
             /\ answer(ok).hs = acc.hs /\ answer(ok).paired = acc.paired
             /\ answer(ok).pend = said(ok)
  BY <1>2, <1>4, <1>5, Zenon DEF AccStates
<1> HIDE DEF answer
<1>7. \/ ~last /\ acc' = taken /\ applied' = applied
      \/ last /\ acc' = answer(FALSE) /\ applied' = applied
      \/ /\ last /\ applied' = applied + 1
         /\ \/ acc' = [answer(TRUE) EXCEPT !.paired = FALSE]
            \/ acc' = [Forget(taken) EXCEPT !.paired = FALSE]
            \/ acc' = answer(TRUE)
  BY Zenon DEF AccessoryTakes, answer, taken, said
<1>8. CASE ~last /\ acc' = taken /\ applied' = applied
  <2>1. /\ acc' \in AccStates /\ acc'.sess = acc.sess /\ acc'.hs = acc.hs
        /\ acc'.recv = acc.recv + 1 /\ acc'.send = acc.send
    BY <1>4, <1>8, Zenon
  <2>2. acc'.paired => acc.paired BY <1>4, <1>8, Zenon
  <2>3. ~last /\ applied' = applied BY <1>8, Zenon
  <2> QED BY <2>1, <2>2, <2>3, Zenon
<1>9. CASE last /\ acc' = answer(FALSE) /\ applied' = applied
  <2>1. /\ acc' \in AccStates /\ acc'.sess = acc.sess /\ acc'.hs = acc.hs
        /\ acc'.recv = acc.recv + 1 /\ acc'.send = acc.send + 1
        /\ acc'.pend.sid = acc.sess /\ acc'.pend.ctr = acc.send
    BY <1>2, <1>5, <1>6, <1>9, Zenon
  <2>2. acc'.paired => acc.paired BY <1>2, <1>6, <1>9, Zenon
  <2>3. last /\ applied' = applied BY <1>9, Zenon
  <2> QED BY <2>1, <2>2, <2>3, Zenon
<1>10. CASE last /\ applied' = applied + 1 /\ acc' = answer(TRUE)
  BY <1>2, <1>5, <1>6, <1>10, Zenon
<1>11. CASE last /\ applied' = applied + 1 /\ acc' = [answer(TRUE) EXCEPT !.paired = FALSE]
  <2> DEFINE a == answer(TRUE)
  <2>1. a \in AccStates /\ a.sess = acc.sess /\ a.hs = acc.hs BY <1>2, <1>6, Zenon
  <2>2. acc' = [a EXCEPT !.paired = FALSE] BY <1>11, Zenon
  <2> HIDE DEF a
  <2>3. acc' \in AccStates /\ acc'.sess = a.sess /\ acc'.hs = a.hs /\ acc'.paired = FALSE
    BY <1>2, <2>1, <2>2, Zenon DEF AccStates
  <2> QED BY <1>11, <2>1, <2>3, Zenon
<1>12. CASE last /\ applied' = applied + 1 /\ acc' = [Forget(taken) EXCEPT !.paired = FALSE]
  <2> DEFINE a == Forget(taken)
  <2>1. a \in AccStates /\ a.sess = 0 /\ a.hs = "none" BY <1>4, ForgetFields, Zenon
  <2>2. acc' = [a EXCEPT !.paired = FALSE] BY <1>12, Zenon
  <2> HIDE DEF a
  <2>3. acc' \in AccStates /\ acc'.sess = a.sess /\ acc'.hs = a.hs /\ acc'.paired = FALSE
    BY <1>2, <2>1, <2>2, Zenon DEF AccStates
  <2> QED BY <1>12, <2>1, <2>3, Zenon
<1> QED BY <1>7, <1>8, <1>9, <1>10, <1>11, <1>12, Zenon

\* A fragment is written: in a session that is in step the accessory takes it.
LEMMA WriteFragmentBle ==
    ASSUME BleInv, WriteFragment
    PROVE  BleInv'
<1> DEFINE p == IF op.frag < Frags THEN "seal" ELSE "read"
<1>1. /\ lock # NoTask /\ link /\ op.pc = "write" /\ op' = At(p)
      /\ UNCHANGED <<link, gen, nsid, ses, lock, want, res, hist, drops, ops>>
  BY Zenon DEF WriteFragment, AtGatt
<1>2. /\ gen \in Nat /\ nsid \in Nat /\ ses.sid \in Nat /\ ses.send \in Nat /\ ses.recv \in Nat
      /\ ses.gen \in Int /\ applied \in Nat /\ acc.sess \in Nat /\ acc.recv \in Nat
      /\ acc.send \in Nat /\ op.frag \in Nat /\ op.tries \in Nat /\ op.gen0 \in Nat
      /\ lock \in Tasks \cup {NoTask, Controller} /\ NoTask \notin Tasks
      /\ Controller \notin Tasks /\ Frags \in Nat \ {0}
  BY Facts, Zenon
<1>3. p \in Pcs /\ p \in {"seal", "read"} /\ op.pc \in Secured /\ p \in Secured
      /\ p \notin Handshake
  BY <1>1, Zenon DEF Pcs, Secured, Handshake
<1>4. /\ op' \in OpStates /\ op'.pc = p /\ op'.kind = op.kind /\ op'.frag = op.frag
      /\ op'.tries = op.tries /\ op'.gen0 = op.gen0
  BY <1>1, <1>3, AtFields, Zenon
<1>5. op.frag <= Frags BY <1>1, Zenon DEF BleInv, Repeats
<1>6. (p = "seal" <=> op.frag < Frags) /\ (p = "read" <=> op.frag = Frags)
  BY <1>2, <1>5
<1> HIDE DEF p
<1>7. /\ acc' \in AccStates /\ acc'.sess \in {acc.sess, 0}
      /\ applied' \in {applied, applied + 1}
      /\ acc'.paired => acc.paired /\ acc'.sess = acc.sess
      /\ acc'.hs = "m4" => /\ acc.hs = "m4" /\ acc'.sess = acc.sess
                           /\ acc'.recv = acc.recv /\ acc'.send = acc.send
      /\ applied' = applied + 1 => Authentic /\ op.frag = Frags
  <2>1. CASE Authentic
    <3>1. AccessoryTakes(op.frag = Frags) BY <2>1, Zenon DEF WriteFragment
    <3>2. (op.frag = Frags) \in BOOLEAN BY Zenon
    <3>3. acc.hs # "m4" BY <1>2, <2>1 DEF BleInv, Minted, Authentic
    <3>4. applied # applied + 1 BY <1>2
    <3>5. /\ acc' \in AccStates /\ acc'.sess \in {acc.sess, 0} /\ acc'.hs \in {acc.hs, "none"}
          /\ applied' = applied \/ (op.frag = Frags /\ applied' = applied + 1)
          /\ acc'.paired => acc.paired /\ acc'.sess = acc.sess
      BY <3>1, <3>2, TakesFields, Zenon
    <3> QED BY <2>1, <3>3, <3>4, <3>5, Zenon
  <2>2. CASE ~Authentic
    <3>1. acc' = [acc EXCEPT !.pend = NoAnswer] /\ applied' = applied
      BY <2>2, Zenon DEF WriteFragment
    <3>2. applied # applied + 1 BY <1>2
    <3> QED BY <3>1, <3>2, AnswerGone, Zenon
  <2> QED BY <2>1, <2>2, Zenon
<1>8. TypeOK' BY <1>1, <1>2, <1>4, <1>7, SMTT(30) DEF BleInv, TypeOK
<1>9. Roles'
  BY <1>1, <1>2, <1>3, <1>4, Zenon DEF BleInv, Roles, Provisioning
<1>10. Generations' BY <1>1, <1>3, <1>4, <1>7, Zenon DEF BleInv, Generations
<1>11. Minted'
  <2>1. acc'.sess <= nsid BY <1>2, <1>7 DEF BleInv, Minted
  <2> QED BY <1>1, <1>7, <2>1, Zenon DEF BleInv, Minted
<1>12. InStep'
  <2> SUFFICES ASSUME Synced' PROVE InStep' BY Zenon DEF InStep
  <2>1. Synced /\ acc'.paired BY <1>1, <1>7, Zenon DEF Synced
  <2>2. acc.send = ses.recv /\ ses.send = acc.recv + 1 /\ op.ctr = acc.recv
    BY <1>1, <2>1, Zenon DEF BleInv, InStep
  <2>3. Authentic
    BY <2>1, <2>2, Zenon DEF BleInv, Generations, Synced, Authentic
  <2>4. AccessoryTakes(op.frag = Frags) BY <2>3, Zenon DEF WriteFragment
  <2>5. (op.frag = Frags) \in BOOLEAN BY Zenon
  <2>6. /\ acc'.recv = acc.recv + 1
        /\ op.frag # Frags => acc'.send = acc.send
        /\ op.frag = Frags => /\ acc'.send = acc.send + 1
                              /\ acc'.pend.sid = acc.sess /\ acc'.pend.ctr = acc.send
    BY <2>1, <2>4, <2>5, TakesFields, Zenon
  <2>7. acc.sess = ses.sid BY <2>3, Zenon DEF Authentic
  <2>8. CASE p = "seal"
    BY <1>1, <1>2, <1>4, <1>6, <2>2, <2>6, <2>8, Zenon DEF InStep
  <2>9. CASE p = "read"
    BY <1>1, <1>2, <1>4, <1>6, <2>2, <2>6, <2>7, <2>9, Zenon DEF InStep
  <2> QED BY <1>3, <2>8, <2>9, Zenon
<1>13. Repeats'
  <2>1. Authentic \/ op.frag < Frags => Pending BY <1>1, Zenon DEF Pending, Authentic
  <2>2. /\ op.tries < MaxReviveRetries /\ applied <= op.tries + 1
        /\ Pending => applied <= op.tries
        /\ lock \in Tasks => /\ op.gen0 <= gen /\ op.gen0 <= ses.gen
                             /\ applied <= 1 + ses.gen - op.gen0
                             /\ Pending => applied <= ses.gen - op.gen0
    BY <1>1, <1>3, Zenon DEF BleInv, Repeats
  <2>3. applied' <= op.tries + 1 /\ (lock \in Tasks => applied' <= 1 + ses.gen - op.gen0)
    <3>1. CASE applied' = applied BY <2>2, <3>1, Zenon
    <3>2. CASE applied' = applied + 1
      <4>1. Pending BY <1>7, <2>1, <3>2, Zenon
      <4>2. applied <= op.tries /\ (lock \in Tasks => applied <= ses.gen - op.gen0)
        BY <2>2, <4>1, Zenon
      <4> QED BY <1>2, <3>2, <4>2
    <3> QED BY <1>7, <3>1, <3>2, Zenon
  <2>4. CASE p = "read"
    <3>1. ~Pending' BY <1>4, <2>4, Zenon DEF Pending, Handshake
    <3> QED BY <1>1, <1>4, <2>2, <2>3, <2>4, <3>1, Zenon DEF Repeats, Secured
  <2>5. CASE p = "seal"
    <3>1. op.frag < Frags /\ applied' = applied /\ Pending
      BY <1>2, <1>6, <1>7, <2>1, <2>5, Zenon
    <3> QED BY <1>1, <1>4, <2>2, <2>3, <2>5, <3>1, Zenon DEF Repeats, Secured
  <2> QED BY <1>3, <2>4, <2>5, Zenon
<1>14. NonceFresh' BY <1>1, Zenon DEF BleInv, NonceFresh
<1> QED BY <1>8, <1>9, <1>10, <1>11, <1>12, <1>13, <1>14, Zenon DEF BleInv

\* The accessory carries the request out and the link drops: it no longer holds
\* the session, so the same bytes do nothing when they are written again.
LEMMA WriteFragmentUnackedBle ==
    ASSUME BleInv, WriteFragmentUnacked
    PROVE  BleInv'
<1>1. /\ lock # NoTask /\ op.pc = "write" /\ op.frag = Frags /\ Authentic /\ link' = FALSE
      /\ drops' = drops + 1 /\ applied' = applied + 1
      /\ acc' = [Forget(acc) EXCEPT !.paired = acc.paired /\ op.kind # "remove"]
      /\ UNCHANGED <<gen, nsid, ses, lock, op, want, res, hist, ops>>
  BY Zenon DEF WriteFragmentUnacked, AtGatt
<1>2. /\ nsid \in Nat /\ ses.sid \in Nat /\ ses.gen \in Int /\ applied \in Nat
      /\ acc \in AccStates /\ op.tries \in Nat /\ op.gen0 \in Nat /\ Frags \in Nat \ {0}
  BY Facts, Zenon
<1>3. acc' \in AccStates /\ acc'.sess = 0 /\ acc'.hs = "none"
  <2> DEFINE a == Forget(acc)
             q == acc.paired /\ op.kind # "remove"
  <2>1. a \in AccStates /\ a.sess = 0 /\ a.hs = "none" BY <1>2, ForgetFields, Zenon
  <2>2. q \in BOOLEAN BY Zenon
  <2>3. acc' = [a EXCEPT !.paired = q] BY <1>1, Zenon
  <2> HIDE DEF a, q
  <2> QED BY <2>1, <2>2, <2>3, Zenon DEF AccStates
<1>4. ses.sid # 0 BY <1>1, Zenon DEF Authentic
<1>5. TypeOK'
  <2>1. drops \in Nat BY Zenon DEF BleInv, TypeOK
  <2>2. drops' \in Nat /\ applied' \in Nat BY <1>1, <1>2, <2>1
  <2>3. link' \in BOOLEAN BY <1>1, Zenon
  <2> QED BY <1>1, <1>3, <2>2, <2>3, Zenon DEF BleInv, TypeOK
<1>6. Roles' BY <1>1, Zenon DEF BleInv, Roles, Provisioning
<1>7. Generations' BY <1>1, Zenon DEF BleInv, Generations
<1>8. Minted'
  <2>1. 0 <= nsid BY <1>2
  <2> QED BY <1>1, <1>3, <2>1, Zenon DEF BleInv, Minted
<1>9. InStep' BY <1>1, Zenon DEF InStep, Synced
<1>10. Repeats'
  <2>1. Pending /\ op.pc \in Secured BY <1>1, Zenon DEF Pending, Authentic, Secured
  <2>2. /\ op.tries < MaxReviveRetries /\ applied <= op.tries
        /\ lock \in Tasks => /\ op.gen0 <= gen /\ op.gen0 <= ses.gen
                             /\ applied <= ses.gen - op.gen0
    BY <1>1, <2>1, Zenon DEF BleInv, Repeats
  <2>3. applied' <= op.tries + 1 /\ (lock \in Tasks => applied' <= 1 + ses.gen - op.gen0)
    BY <1>1, <1>2, <2>2
  <2>4. ~Pending'
    <3>1. ~(op.frag < Frags) BY <1>1, <1>2
    <3> QED BY <1>1, <1>3, <1>4, <3>1, Zenon DEF Pending, Handshake
  <2>5. op.frag <= Frags BY <1>1, <1>2
  <2> QED BY <1>1, <2>1, <2>2, <2>3, <2>4, <2>5, Zenon DEF Repeats
<1>11. NonceFresh' BY <1>1, Zenon DEF BleInv, NonceFresh
<1> QED BY <1>5, <1>6, <1>7, <1>8, <1>9, <1>10, <1>11, Zenon DEF BleInv

\* The response opens, and the operation is over.
LEMMA ReadResponseBle ==
    ASSUME BleInv, ReadResponse
    PROVE  BleInv'
<1>1. /\ lock # NoTask /\ op.pc = "read" /\ lock' = NoTask /\ op' = NoOp
      /\ acc' = [acc EXCEPT !.pend = NoAnswer]
      /\ UNCHANGED <<link, gen, nsid, want, hist, drops, ops>>
  BY Zenon DEF ReadResponse, AtGatt, Return
<1>2. /\ gen \in Nat /\ ses \in SesStates /\ ses.recv \in Nat /\ ses.gen \in Int
      /\ ses.born \in Int /\ applied \in Nat /\ op.tries \in Nat
      /\ lock \in Tasks \cup {NoTask, Controller} /\ NoTask # Controller
      /\ NoTask \notin Tasks /\ Frags \in Nat \ {0} /\ MaxReviveRetries \in Nat \ {0}
  BY Facts, Zenon
<1>3. ses.recv + 1 \in Nat /\ gen \in Int BY <1>2
<1>4. \/ /\ lock = Controller /\ applied' = applied /\ res' = res
         /\ ses' = [ses EXCEPT !.recv = ses.recv + 1, !.gen = gen]
      \/ /\ lock \in Tasks /\ applied' = 0
         /\ res' \in [Tasks -> [kind : AllKinds \cup {"none"}, ok : BOOLEAN]]
         /\ ses' = [ses EXCEPT !.recv = ses.recv + 1]
  <2>1. CASE op.kind = "connect"
    <3>1. lock = Controller BY <2>1, Zenon DEF BleInv, Roles
    <3> QED BY <2>1, <3>1, Zenon DEF ReadResponse
  <2>2. CASE op.kind # "connect"
    <3>1. lock \in Tasks BY <1>1, <1>2, <2>2, Zenon DEF BleInv, Roles
    <3>2. Return(OkStatus) /\ ses' = [ses EXCEPT !.recv = ses.recv + 1]
      BY <2>2, Zenon DEF ReadResponse
    <3>3. OkStatus \in BOOLEAN BY Zenon DEF OkStatus
    <3>4. op.kind \in AllKinds BY <3>1, Zenon DEF BleInv, Roles
    <3>5. [kind |-> op.kind, ok |-> OkStatus] \in [kind : AllKinds \cup {"none"}, ok : BOOLEAN]
      BY <3>3, <3>4, Zenon
    <3>6. /\ res \in [Tasks -> [kind : AllKinds \cup {"none"}, ok : BOOLEAN]]
          /\ res' = [res EXCEPT ![lock] = [kind |-> op.kind, ok |-> OkStatus]]
      BY <3>2, Zenon DEF BleInv, TypeOK, Return
    <3>7. res' \in [Tasks -> [kind : AllKinds \cup {"none"}, ok : BOOLEAN]]
      BY <3>5, <3>6, Zenon
    <3> QED BY <3>1, <3>2, <3>7, Zenon DEF Return
  <2> QED BY <2>1, <2>2, Zenon
<1>5. /\ ses' \in SesStates /\ ses'.sid = ses.sid /\ ses'.send = ses.send
      /\ ses'.recv = ses.recv + 1 /\ ses'.born = ses.born
      /\ ses'.gen = IF lock = Controller THEN gen ELSE ses.gen
  BY <1>2, <1>3, <1>4, BleAssumption, Zenon DEF SesStates
<1>6. ses.sid # 0 BY <1>1, <1>2, Zenon DEF BleInv, Roles, Secured
<1>7. TypeOK'
  <2>1. /\ applied' \in Nat
        /\ res' \in [Tasks -> [kind : AllKinds \cup {"none"}, ok : BOOLEAN]]
    BY <1>2, <1>4 DEF BleInv, TypeOK
  <2> QED BY <1>1, <1>5, <2>1, AnswerGone, NoOpFields, Zenon DEF BleInv, TypeOK
<1>8. Roles' BY <1>1, <1>2, <1>5, <1>6, NoOpFields, Zenon DEF Roles
<1>9. Generations'
  <2>1. op'.pc \notin Handshake BY <1>1, NoOpFields, Zenon DEF Handshake
  <2>2. /\ ses.born <= gen /\ ses.gen <= gen
        /\ lock # Controller => ses.born <= ses.gen
    BY <1>6, Zenon DEF BleInv, Generations
  <2>3. ses'.gen <= gen /\ ses.born <= ses'.gen BY <1>2, <1>5, <2>2
  <2> QED BY <1>1, <1>5, <2>1, <2>2, <2>3, AnswerGone, Zenon DEF BleInv, Generations
<1>10. Minted' BY <1>1, <1>5, AnswerGone, Zenon DEF BleInv, Minted
<1>11. InStep'
  <2> SUFFICES ASSUME Synced' PROVE InStep' BY Zenon DEF InStep
  <2>1. Synced BY <1>1, <1>5, AnswerGone, Zenon DEF Synced
  <2>2. acc.send = ses.recv + 1 /\ ses.send = acc.recv
    BY <1>1, <2>1, Zenon DEF BleInv, InStep
  <2> QED BY <1>1, <1>5, <2>2, AnswerGone, NoOpFields, Zenon DEF InStep
<1>12. Repeats'
  <2>1. applied' <= 1
    <3>1. CASE lock = Controller
      <4>1. op.tries = 0 /\ applied <= op.tries + 1 BY <3>1, Zenon DEF BleInv, Roles, Repeats
      <4> QED BY <1>2, <1>4, <3>1, <4>1, BleAssumption
    <3>2. CASE lock # Controller BY <1>4, <3>2
    <3> QED BY <3>1, <3>2, Zenon
  <2> QED BY <1>1, <1>2, <2>1, NoOpFields DEF Repeats
<1>13. NonceFresh' BY <1>1, Zenon DEF BleInv, NonceFresh
<1> QED BY <1>7, <1>8, <1>9, <1>10, <1>11, <1>12, <1>13, Zenon DEF BleInv

\* Nothing changes.
LEMMA StutterBle ==
    ASSUME BleInv, UNCHANGED vars
    PROVE  BleInv'
<1> USE DEF BleInv, vars
<1>1. TypeOK' BY Zenon DEF TypeOK
<1>2. Roles' BY Zenon DEF Roles, Provisioning
<1>3. Generations' /\ Minted' BY Zenon DEF Generations, Minted
<1>4. InStep' BY Zenon DEF InStep, Synced
<1>5. Repeats' /\ NonceFresh' BY Zenon DEF Repeats, Pending, NonceFresh
<1> QED BY <1>1, <1>2, <1>3, <1>4, <1>5, Zenon

-----------------------------------------------------------------------------
(* theorems *)

\* Every step keeps the invariant.
LEMMA NextBle ==
    ASSUME BleInv, [Next]_vars
    PROVE  BleInv'
<1>1. CASE OpStep
  BY <1>1, ReviveBle, ReconnectBle, ReconnectFailsBle, ReconnectGivesUpBle, BackendErrorBle,
     SweepBle, VerifyWriteBle, VerifyM2Ble, VerifyM4Ble, VerifyFailsBle, SealBle,
     WriteFragmentBle, WriteFragmentUnackedBle, ReadResponseBle, ReadGarbageBle, Zenon
  DEF OpStep
<1>2. CASE LinkDrop BY <1>2, DropBle, Zenon
<1>3. CASE UNCHANGED vars BY <1>3, StutterBle, Zenon
<1>4. CASE Finished BY <1>4, StutterBle, Zenon DEF Finished
<1>5. ASSUME NEW t \in Tasks, LockSecure(t) \/ Provision(t) \/ Cancel(t)
      PROVE  BleInv'
  BY <1>5, LockBle, ProvisionBle, CancelBle, Zenon
<1>6. ASSUME NEW t \in Tasks, NEW k \in Kinds[t], Call(t, k)
      PROVE  BleInv'
  BY <1>6, CallBle, Zenon
<1> QED BY <1>1, <1>2, <1>3, <1>4, <1>5, <1>6, Zenon DEF Next

\* The invariant of the link, the session and the operation that uses it, for
\* any tasks, operations, link drops, failed reconnects and cancelled futures.
THEOREM BleInvariant == Spec => []BleInv
<1>1. Init => BleInv BY InitBle, Zenon
<1>2. BleInv /\ [Next]_vars => BleInv' BY NextBle, Zenon
<1> QED BY <1>1, <1>2, PTL DEF Spec

\* The types, and that what the mutex around Secure protects is idle when
\* nobody owns it.
THEOREM BleTypes == Spec => []TypeOK
<1>1. BleInv => TypeOK BY Zenon DEF BleInv
<1> QED BY <1>1, BleInvariant, PTL

\* A session recorded with the generation its Pair Verify ended in, and believed
\* live by the test of revive_if_stale, is the one a paired accessory holds on
\* the live link; and between operations the two ends agree on both counters,
\* unless an operation was cancelled or failed by the backend in it.
THEOREM SessionStaysInStep == Spec => []SessionInStep
<1>1. BleInv => SessionInStep
  <2> SUFFICES ASSUME BleInv, ses.gen = ses.born, Ready, link, acc.paired, BelievedLive
               PROVE  /\ acc.sess = ses.sid
                      /\ lock = NoTask /\ ses.sid \notin hist.dirty
                            => acc.recv = ses.send /\ acc.send = ses.recv
    BY Zenon DEF SessionInStep, SessionCurrent
  <2>1. ses.sid # 0 /\ gen <= ses.born BY Zenon DEF Ready, BelievedLive
  <2>2. ses.born <= gen BY Zenon DEF BleInv, Generations
  <2>3. gen = ses.born BY <2>1, <2>2, Facts
  <2>4. acc.sess = ses.sid BY <2>1, <2>3, Zenon DEF BleInv, Generations
  <2>5. ASSUME lock = NoTask, ses.sid \notin hist.dirty
        PROVE  acc.recv = ses.send /\ acc.send = ses.recv
    <3>1. op.pc = "start" BY <2>5, NoOpFields, Zenon DEF BleInv, TypeOK
    <3>2. Synced BY <2>1, <2>3, <2>5, Zenon DEF Synced
    <3> QED BY <3>1, <3>2, Zenon DEF BleInv, InStep
  <2> QED BY <2>4, <2>5, Zenon
<1> QED BY <1>1, BleInvariant, PTL

\* A request is carried out again only over another link, and never more often
\* than MAX_REVIVE_RETRIES, for every value of it.
THEOREM RepeatsAreBounded == Spec => []RepeatsBounded
<1>1. BleInv => RepeatsBounded
  <2> SUFFICES ASSUME BleInv PROVE RepeatsBounded BY Zenon
  <2>1. /\ gen \in Nat /\ applied \in Nat /\ op.tries \in Nat /\ op.gen0 \in Nat
        /\ ses.gen \in Int /\ lock \in Tasks \cup {NoTask, Controller}
        /\ MaxReviveRetries \in Nat \ {0}
    BY Facts, Zenon
  <2>2. applied <= op.tries + 1 /\ op.tries < MaxReviveRetries BY Zenon DEF BleInv, Repeats
  <2>3. applied <= MaxReviveRetries BY <2>1, <2>2
  <2>4. CASE lock \in Tasks
    <3>1. CASE op.pc \in Secured
      <4>1. applied <= 1 + ses.gen - op.gen0 BY <2>4, <3>1, Zenon DEF BleInv, Repeats
      <4>2. ses.gen <= gen BY Zenon DEF BleInv, Generations
      <4> QED BY <2>1, <2>3, <4>1, <4>2 DEF RepeatsBounded
    <3>2. CASE op.pc \notin Secured
      <4>1. applied <= gen - op.gen0 BY <2>4, <3>2, Zenon DEF BleInv, Repeats
      <4> QED BY <2>1, <2>3, <4>1 DEF RepeatsBounded
    <3> QED BY <3>1, <3>2, Zenon
  <2>5. CASE lock \notin Tasks
    <3>1. op.tries = 0 /\ op.gen0 = 0
      BY <2>1, <2>5, NoOpFields, Zenon DEF BleInv, TypeOK, Roles
    <3> QED BY <2>1, <2>2, <2>3, <3>1 DEF RepeatsBounded
  <2> QED BY <2>4, <2>5, Zenon
<1> QED BY <1>1, BleInvariant, PTL

\* No nonce of a session key seals two different fragments, across retries,
\* reconnects, re-verifications and cancelled operations.
THEOREM NoncesAreFresh == Spec => []NonceFresh
<1>1. BleInv => NonceFresh BY Zenon DEF BleInv
<1> QED BY <1>1, BleInvariant, PTL

=============================================================================
