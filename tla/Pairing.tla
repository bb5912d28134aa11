------------------------------- MODULE Pairing -------------------------------
(***************************************************************************)
(* Pair Setup (M1-M6) and Pair Verify (M1-M4): the state machines          *)
(* PairSetupClient and PairVerifyClient of crates/hap-crypto, the loops    *)
(* that drive them, and the reference accessory of crates/hap-thread-dut,  *)
(* which has one slot for a setup, one for a verification, one paired      *)
(* controller and one session.  Several controllers run at once over a     *)
(* network that loses, repeats and delays requests and responses.          *)
(*                                                                         *)
(* Cryptography is symbolic.  An ephemeral key is a number no other party  *)
(* has; the SRP key of a setup is <<A, B, code>>, equal on both sides only *)
(* if the setup codes are; the shared secret of a verification is the pair *)
(* of ephemerals <<e, f>>; what is sealed under a key opens under no other.*)
(* The controller's ephemerals in a call are the number of the call, which *)
(* is also what correlates a response with its request.                    *)
(***************************************************************************)
EXTENDS Integers, FiniteSets

CONSTANTS
    Controllers,    \* controllers, each with its own long-term key
    Misinformed,    \* those given a wrong setup code
    MaxAttempts,    \* calls of pair and connect
    MaxFresh        \* ephemeral keys of the accessory

ASSUME PairingAssumption ==
    /\ IsFiniteSet(Controllers) /\ "none" \notin Controllers /\ Misinformed \subseteq Controllers
    /\ MaxFresh \in Nat /\ MaxAttempts \in Nat

VARIABLES
    cl,        \* the call each controller is making
    up, down,  \* requests and responses sent
    setup,     \* accessory: the setup in progress
    verify,    \* accessory: the verification in progress
    owner,     \* accessory: the paired controller
    session,   \* accessory: the established session
    fresh,     \* ephemeral keys the accessory has made
    begun,     \* calls begun
    paired,    \* <<controller, key>> of every M5 accepted
    keyed,     \* the secrets sessions were keyed with
    rekeyed    \* has one been used for two sessions?

pairingVars == <<cl, up, down, setup, verify, owner, session, fresh, begun, paired, keyed,
          rekeyed>>
accessory == <<setup, verify, owner, session, paired, keyed, rekeyed>>

-----------------------------------------------------------------------------
NoController == "none"
Code(c) == c \notin Misinformed
SrpKeys == Nat \X Nat \X BOOLEAN
Secrets == Nat \X Nat
NoKey   == <<0, 0, TRUE>>
NoSec   == <<0, 0>>

\* What a controller is doing: awaiting M2, M4 or M6 of a setup, M2 or M4 of a
\* verification, connected, or nothing.  done: it has a pairing to connect with.
Phases == {"idle", "S2", "S4", "S6", "V2", "V4", "up"}
NoAttempt == [pc |-> "idle", att |-> 0, key |-> NoKey, sec |-> NoSec, done |-> FALSE]

\* A request or response of call att of controller ctl: the accessory's public
\* key it carries and the key it is sealed, signed or proved with.
Messages == [kind : {"S1", "S2", "S3", "S4", "S5", "S6", "V1", "V2", "V3", "V4"},
             ctl : Controllers, att : Nat, eph : Nat, key : SrpKeys, sec : Secrets]
Msg(kind, c, att) ==
    [kind |-> kind, ctl |-> c, att |-> att, eph |-> 0, key |-> NoKey, sec |-> NoSec]

NoSetup   == [st |-> 0, eph |-> 0, key |-> NoKey]
NoVerify  == [st |-> 0, sec |-> NoSec]
NoSession == [ctl |-> NoController, sec |-> NoSec]

PairingTypeOK ==
    /\ cl \in [Controllers -> [pc : Phases, att : Nat, key : SrpKeys, sec : Secrets,
                               done : BOOLEAN]]
    /\ up \subseteq Messages /\ down \subseteq Messages
    /\ setup \in [st : {0, 3, 5}, eph : Nat, key : SrpKeys]
    /\ verify \in [st : {0, 3}, sec : Secrets]
    /\ owner \in Controllers \cup {NoController}
    /\ session \in [ctl : Controllers \cup {NoController}, sec : Secrets]
    /\ fresh \in Nat /\ begun \in 0..MaxAttempts
    /\ paired \subseteq Controllers \X SrpKeys /\ keyed \subseteq Secrets
    /\ rekeyed \in BOOLEAN
    \* no two controllers are in the same call
    /\ \A c, d \in Controllers : cl[c].att = cl[d].att /\ cl[c].att # 0 => c = d

PairingInit ==
    /\ cl = [c \in Controllers |-> NoAttempt] /\ up = {} /\ down = {}
    /\ setup = NoSetup /\ verify = NoVerify /\ owner = NoController /\ session = NoSession
    /\ fresh = 0 /\ begun = 0 /\ paired = {} /\ keyed = {} /\ rekeyed = FALSE

-----------------------------------------------------------------------------
(* the controller *)

\* A call starts with its M1, with ephemeral keys of its own.
BeginAttempt(c, pc, m) ==
    /\ cl[c].pc = "idle" /\ begun < MaxAttempts /\ begun' = begun + 1
    /\ cl' = [cl EXCEPT ![c].pc = pc, ![c].att = begun + 1]
    /\ up' = up \cup {[m EXCEPT !.att = begun + 1]}
    /\ UNCHANGED <<down, accessory, fresh>>

\* pair: PairSetupClient::start emits M1.
StartSetup(c) == BeginAttempt(c, "S2", Msg("S1", c, 0))

\* connect with a stored pairing: PairVerifyClient::start emits M1.
StartVerify(c) == cl[c].done /\ BeginAttempt(c, "V2", Msg("V1", c, 0))

\* The response d is the next message of the call of c, which goes on to phase
\* pc and posts m.
Advance(c, d, kind, pc, m, call) ==
    /\ cl[c].pc = kind /\ d.kind = kind /\ d.att = cl[c].att
    /\ cl' = [cl EXCEPT ![c] = [call EXCEPT !.pc = pc]]
    /\ up' = up \cup {m}
    /\ UNCHANGED <<down, accessory, fresh, begun>>

\* handle_m2 of Pair Setup: the session key and the proof of it.
SetupM2(c, d) ==
    LET key == <<cl[c].att, d.eph, Code(c)>> IN
    Advance(c, d, "S2", "S4", [Msg("S3", c, cl[c].att) EXCEPT !.key = key],
            [cl[c] EXCEPT !.key = key])

\* handle_m4: the accessory's proof verifies; the controller's keys are sealed.
SetupM4(c, d) ==
    /\ d.key = cl[c].key
    /\ Advance(c, d, "S4", "S6", [Msg("S5", c, cl[c].att) EXCEPT !.key = cl[c].key], cl[c])

\* handle_m6: the accessory's keys open; Pair Setup is done and Pair Verify
\* starts on the same connection.
SetupM6(c, d) ==
    /\ d.key = cl[c].key
    /\ Advance(c, d, "S6", "V2", Msg("V1", c, cl[c].att), [cl[c] EXCEPT !.done = TRUE])

\* handle_m2 of Pair Verify: the accessory has signed both ephemerals.
VerifyM2(c, d) ==
    /\ d.sec[1] = cl[c].att
    /\ Advance(c, d, "V2", "V4", [Msg("V3", c, cl[c].att) EXCEPT !.sec = d.sec],
               [cl[c] EXCEPT !.sec = d.sec])

\* handle_m4: nothing in M4 is sealed; the session keys are derived.
VerifyM4(c, d) ==
    /\ cl[c].pc = "V4" /\ d.kind = "V4" /\ d.att = cl[c].att
    /\ cl' = [cl EXCEPT ![c].pc = "up"]
    /\ UNCHANGED <<up, down, accessory, fresh, begun>>

\* The call ends with an error and its state machine with it (another CoAP code
\* than 2.04, an error TLV, a proof, tag or signature that does not verify, no
\* response in time, the future dropped), or a connected handle is dropped.
End(c) ==
    /\ cl[c].pc # "idle"
    /\ cl' = [cl EXCEPT ![c] = [NoAttempt EXCEPT !.done = cl[c].done]]
    /\ UNCHANGED <<up, down, accessory, fresh, begun>>

-----------------------------------------------------------------------------
(* The accessory.  Each handler takes the progress it needs out of its slot; *)
(* what it refuses is an error response, which ends the call.                *)

Reply(kind, m, eph, sec) ==
    down' = down \cup {[m EXCEPT !.kind = kind, !.eph = eph, !.sec = sec]}

\* Pair Setup M1: a new SRP server replaces the one in the slot.
HandleSetupM1(m) ==
    /\ m.kind = "S1" /\ fresh < MaxFresh /\ fresh' = fresh + 1
    /\ setup' = [st |-> 3, eph |-> fresh', key |-> NoKey]
    /\ Reply("S2", m, fresh', NoSec)
    /\ UNCHANGED <<cl, up, verify, owner, session, begun, paired, keyed, rekeyed>>

\* Plausible fault: M3 is believed without its proof.
HandleSetupM3Trusts(m) ==
    /\ m.kind = "S3"
    /\ IF setup.st = 3
       THEN setup' = [st |-> 5, eph |-> 0, key |-> m.key] /\ Reply("S4", m, 0, NoSec)
       ELSE setup' = NoSetup /\ UNCHANGED down
    /\ UNCHANGED <<cl, up, verify, owner, session, fresh, begun, paired, keyed, rekeyed>>

\* Pair Setup M3: the controller's proof.
HandleSetupM3(m) ==
    /\ m.kind = "S3"
    /\ IF setup.st = 3 /\ m.key = <<m.att, setup.eph, TRUE>>
       THEN setup' = [st |-> 5, eph |-> 0, key |-> m.key] /\ Reply("S4", m, 0, NoSec)
       ELSE setup' = NoSetup /\ UNCHANGED down
    /\ UNCHANGED <<cl, up, verify, owner, session, fresh, begun, paired, keyed, rekeyed>>

\* Pair Setup M5: the controller's keys open; it becomes the paired one.
HandleSetupM5(m) ==
    /\ m.kind = "S5"
    /\ IF setup.st = 5 /\ m.key = setup.key
       THEN /\ owner' = m.ctl /\ paired' = paired \cup {<<m.ctl, m.key>>}
            /\ Reply("S6", m, 0, NoSec)
       ELSE UNCHANGED <<owner, paired, down>>
    /\ setup' = NoSetup
    /\ UNCHANGED <<cl, up, verify, session, fresh, begun, keyed, rekeyed>>

\* Pair Verify M1: a new ephemeral, whatever is in the slot.
HandleVerifyM1(m) ==
    /\ m.kind = "V1" /\ fresh < MaxFresh /\ fresh' = fresh + 1
    /\ verify' = [st |-> 3, sec |-> <<m.att, fresh'>>]
    /\ Reply("V2", m, 0, <<m.att, fresh'>>)
    /\ UNCHANGED <<cl, up, setup, owner, session, begun, paired, keyed, rekeyed>>

\* A new session keyed with the secret of m, its counters at zero.
Establish(m) ==
    /\ session' = [ctl |-> m.ctl, sec |-> m.sec]
    /\ rekeyed' = (rekeyed \/ m.sec \in keyed) /\ keyed' = keyed \cup {m.sec}
    /\ Reply("V4", m, 0, m.sec)

\* Plausible fault: a refusal is answered like a success.
HandleVerifyM3Agrees(m) ==
    /\ m.kind = "V3"
    /\ verify' = NoVerify
    /\ IF verify.st = 3 /\ m.sec = verify.sec /\ m.ctl = owner
       THEN Establish(m)
       ELSE UNCHANGED <<session, keyed, rekeyed>> /\ Reply("V4", m, 0, m.sec)
    /\ UNCHANGED <<cl, up, setup, owner, fresh, begun, paired>>

\* Pair Verify M3: the paired controller has signed both ephemerals.
HandleVerifyM3(m) ==
    /\ m.kind = "V3"
    /\ verify' = NoVerify
    /\ IF verify.st = 3 /\ m.sec = verify.sec /\ m.ctl = owner
       THEN Establish(m)
       ELSE UNCHANGED <<session, keyed, rekeyed, down>>
    /\ UNCHANGED <<cl, up, setup, owner, fresh, begun, paired>>

-----------------------------------------------------------------------------
\* A response goes to the call whose request it answers, and no other takes it.
OnResponse(c, d) ==
    /\ d.kind = cl[c].pc /\ d.att = cl[c].att
    /\ SetupM2(c, d) \/ SetupM4(c, d) \/ SetupM6(c, d) \/ VerifyM2(c, d) \/ VerifyM4(c, d)

Handle(m) ==
    \/ HandleSetupM1(m) \/ HandleSetupM3(m) \/ HandleSetupM5(m)
    \/ HandleVerifyM1(m) \/ HandleVerifyM3(m)

PairingNext ==
    \/ \E c \in Controllers, d \in down : OnResponse(c, d)
    \/ \E m \in up : Handle(m)
    \/ \E c \in Controllers : StartSetup(c) \/ StartVerify(c) \/ End(c)

PairingSpec == PairingInit /\ [][PairingNext]_pairingVars

-----------------------------------------------------------------------------
(* Properties *)

\* Pair Setup that is done has been accepted by the accessory, in the same call
\* under the same SRP key, and never without the setup code; nor does the
\* accessory know a controller that did not have it.
SetupAgreement ==
    /\ \A c \in Controllers : cl[c].done =>
          /\ Code(c) /\ \E p \in paired : p[1] = c
          /\ cl[c].pc \in {"V2", "V4", "up"} /\ cl[c].key # NoKey => <<c, cl[c].key>> \in paired
    /\ owner \notin Misinformed

\* A connected controller has a session the accessory has too, the current one
\* unless another controller has connected since: no late or repeated message
\* replaces it, and M4, which nothing authenticates, is not believed wrongly.
\* A shared secret keys one session: a repeated M3 never starts the counters
\* again under the same keys.
SessionAgreement ==
    /\ \A c \in Controllers : cl[c].pc = "up" =>
          cl[c].sec \in keyed /\ (session.ctl = c => session.sec = cl[c].sec)
    /\ ~rekeyed

=============================================================================
