-------------------------- MODULE ConnectionProofs --------------------------
(***************************************************************************)
(* How a session comes about, and how the handle of an IP accessory keeps  *)
(* one: proofs about Pairing, for any controllers, setup codes and number  *)
(* of attempts, and about IpHandle, for any set of characteristics and any *)
(* number of sessions, configuration changes and operations.               *)
(*                                                                         *)
(* Pairing.  A message says little, so the invariant ties every message on *)
(* its way to the call and to the exchange of the accessory that made it:  *)
(* a key or a secret is of one attempt, and what was signed or accepted is *)
(* on record with the accessory before anybody answers it.                 *)
(*                                                                         *)
(* IpHandle.  A database that a fetch brings in is as new as the           *)
(* configuration number was when the accessory answered; a reconnect that  *)
(* learns of a newer one while the answer is on its way marks the handle   *)
(* for a refresh.  What the handle believes subscribed is, on the newest   *)
(* session, subscribed, refused, recorded late, or still on the            *)
(* supervisor's list.                                                      *)
(***************************************************************************)
EXTENDS Pairing, IpHandle, TLAPS

-----------------------------------------------------------------------------
(* Pairing *)

CallRecords == [pc : Phases, att : Nat, key : SrpKeys, sec : Secrets, done : BOOLEAN]

\* The second half of Pair Verify, as requests and responses of it.
V3s == {m \in up : m.kind = "V3"}
V2s == {d \in down : d.kind = "V2"}
V4s == {d \in down : d.kind = "V4"}

\* The call of c has its shared secret.
HasSecret(c) == cl[c].pc \in {"V4", "up"}

\* Every call has its own number, and its key is bound to the setup code; one
\* that is past Pair Setup was accepted.
Attempts ==
    \A c \in Controllers :
        /\ cl[c].att <= begun
        /\ cl[c].pc = "idle" <=> cl[c].att = 0
        /\ cl[c].pc = "idle" => cl[c].key = NoKey
        /\ cl[c].pc \in {"S4", "S6"} => cl[c].key[3] = Code(c)
        /\ cl[c].pc \in {"V2", "V4", "up"} /\ cl[c].key # NoKey => <<c, cl[c].key>> \in paired
        /\ cl[c].done => Code(c) /\ \E p \in paired : p[1] = c

\* Nothing in the network is from a call that has not begun, and what a
\* controller's call has said is the last that the controller said.
Numbered ==
    \A m \in up \cup down :
        /\ m.att # 0 /\ m.att <= begun
        /\ \A c \in Controllers : cl[c].att # 0 =>
              /\ m.att = cl[c].att => m.ctl = c
              /\ m.ctl = c => m.att <= cl[c].att

\* A setup is accepted only under a key that was made with the setup code.
Accepted ==
    /\ \A m \in up : m.kind = "S5" => m.key[3] = Code(m.ctl)
    /\ \A d \in down : d.kind = "S6" => <<d.ctl, d.key>> \in paired
    /\ setup.st = 5 => setup.key[3] = TRUE
    /\ \A p \in paired : Code(p[1])
    /\ owner \notin Misinformed

\* A call signs one secret, of its own and of the accessory's ephemeral; those
\* that an earlier call of the same controller signed are older.
Signed ==
    /\ \A m \in V3s : /\ m.sec[1] = m.att /\ m.sec[2] <= fresh
                      /\ \A c \in Controllers :
                            cl[c].att = m.att => HasSecret(c) /\ cl[c].sec = m.sec
    /\ \A d \in V2s : /\ d.sec[2] <= fresh
                      /\ \A m \in V3s : m.ctl = d.ctl /\ m.att < d.att => m.sec[2] < d.sec[2]
    /\ \A c \in Controllers : HasSecret(c) =>
          \E d \in V2s : d.ctl = c /\ d.att = cl[c].att /\ d.sec = cl[c].sec

\* A secret that may still key a session is the newest, and has keyed none.
NotKeyed ==
    /\ verify.st = 3 => /\ verify.sec \notin keyed /\ verify.sec[2] <= fresh
                        /\ \A d \in V2s : d.sec[2] <= verify.sec[2]
    /\ \A s \in keyed : s[2] <= fresh /\ \E m \in V3s : m.sec = s
    /\ ~rekeyed

\* M4 says that the session exists, and it is the newest of its controller.
Established ==
    /\ \A d \in V4s : d.sec \in keyed /\ \E m \in V3s : m.att = d.att /\ m.sec = d.sec
    /\ \A c \in Controllers :
          /\ cl[c].pc = "up" => cl[c].sec \in keyed
          /\ HasSecret(c) /\ cl[c].sec \in keyed /\ session.ctl = c => session.sec = cl[c].sec

PairingInv ==
    PairingTypeOK /\ Attempts /\ Numbered /\ Accepted /\ Signed /\ NotKeyed /\ Established

-----------------------------------------------------------------------------
(* records and messages *)

\* The types of the state.
LEMMA PairingFacts ==
    ASSUME PairingInv
    PROVE  /\ cl \in [Controllers -> CallRecords]
           /\ \A c \in Controllers :
                 /\ cl[c] \in CallRecords /\ cl[c].pc \in Phases /\ cl[c].att \in Nat
                 /\ cl[c].key \in SrpKeys /\ cl[c].sec \in Secrets
           /\ \A m \in up \cup down :
                 /\ m \in Messages /\ m.ctl \in Controllers /\ m.att \in Nat /\ m.eph \in Nat
                 /\ m.key \in SrpKeys /\ m.sec \in Secrets /\ m.sec[1] \in Nat /\ m.sec[2] \in Nat
           /\ fresh \in Nat /\ begun \in Nat
<1>1. /\ cl \in [Controllers -> CallRecords] /\ up \cup down \subseteq Messages
      /\ fresh \in Nat /\ begun \in 0..MaxAttempts
  BY Zenon DEF PairingInv, PairingTypeOK, CallRecords
<1>2. ASSUME NEW c \in Controllers
      PROVE  /\ cl[c] \in CallRecords /\ cl[c].pc \in Phases /\ cl[c].att \in Nat
             /\ cl[c].key \in SrpKeys /\ cl[c].sec \in Secrets
  <2>1. cl[c] \in CallRecords BY <1>1, Zenon
  <2> QED BY <2>1, Zenon DEF CallRecords
<1>3. ASSUME NEW m \in up \cup down
      PROVE  /\ m \in Messages /\ m.ctl \in Controllers /\ m.att \in Nat /\ m.eph \in Nat
             /\ m.key \in SrpKeys /\ m.sec \in Secrets /\ m.sec[1] \in Nat /\ m.sec[2] \in Nat
  <2>1. m \in Messages BY <1>1, Zenon
  <2>2. /\ m.ctl \in Controllers /\ m.att \in Nat /\ m.eph \in Nat /\ m.key \in SrpKeys
        /\ m.sec \in Secrets
    BY <2>1, Zenon DEF Messages
  <2> QED BY <2>1, <2>2, Zenon DEF Secrets
<1>4. begun \in Nat BY <1>1, PairingAssumption
<1> QED BY <1>1, <1>2, <1>3, <1>4, Zenon

MessageKinds == {"S1", "S2", "S3", "S4", "S5", "S6", "V1", "V2", "V3", "V4"}

\* What the controller says: an M1.
LEMMA MsgFields ==
    ASSUME NEW k \in MessageKinds, NEW c \in Controllers, NEW a \in Nat
    PROVE  /\ Msg(k, c, a) \in Messages
           /\ Msg(k, c, a).kind = k /\ Msg(k, c, a).ctl = c /\ Msg(k, c, a).att = a
<1>1. 0 \in Nat /\ NoKey \in SrpKeys /\ NoSec \in Secrets BY Zenon DEF NoKey, SrpKeys, NoSec, Secrets
<1> QED BY <1>1, Zenon DEF Msg, Messages, MessageKinds

-----------------------------------------------------------------------------
(* the controller's steps *)

\* A call of Pair Setup goes on: handle_m2, handle_m4 and handle_m6 keep the
\* invariant, by what they put into the call and into the next request.
LEMMA CallGoesOn ==
    ASSUME PairingInv, NEW c \in Controllers, NEW x \in Messages, NEW r \in CallRecords,
           cl[c].pc \in {"S2", "S4", "S6"}, r.pc \in {"S4", "S6", "V2"}, r.att = cl[c].att,
           r.pc \in {"S4", "S6"} => r.key[3] = Code(c),
           r.pc = "V2" => <<c, r.key>> \in paired,
           r.done => Code(c) /\ \E p \in paired : p[1] = c,
           x.ctl = c, x.att = cl[c].att, x.kind # "V3",
           x.kind = "S5" => x.key[3] = Code(c),
           cl' = [cl EXCEPT ![c] = r], up' = up \cup {x},
           UNCHANGED <<down, accessory, fresh, begun>>
    PROVE  PairingInv'
<1>f. PairingFacts!2 BY PairingFacts, Zenon
<1>0. /\ UNCHANGED <<down, setup, verify, owner, session, fresh, begun>>
      /\ UNCHANGED <<paired, keyed, rekeyed>>
  BY Zenon DEF accessory
<1>1. cl' \in [Controllers -> CallRecords] BY <1>f, Zenon
<1>2. cl'[c] = r /\ \A d \in Controllers : d # c => cl'[d] = cl[d] BY <1>f, Zenon
<1>3. \A d \in Controllers : cl'[d].att = cl[d].att BY <1>2, Zenon
<1>4. \A d \in Controllers : d # c => HasSecret(d)' = HasSecret(d) BY <1>2, Zenon DEF HasSecret
<1>5. ~HasSecret(c) /\ ~HasSecret(c)' BY <1>2, Zenon DEF HasSecret
<1>6. V3s' = V3s /\ V2s' = V2s /\ V4s' = V4s BY <1>0, Zenon DEF V3s, V2s, V4s
<1>7. cl[c].att # 0 BY <1>f, Zenon DEF PairingInv, Attempts
<1>8. PairingTypeOK'
  <2>1. \A d, e \in Controllers : cl'[d].att = cl'[e].att /\ cl'[d].att # 0 => d = e
    BY <1>3 DEF PairingInv, PairingTypeOK
  <2>2. up' \subseteq Messages BY Zenon DEF PairingInv, PairingTypeOK
  <2> QED BY <1>0, <1>1, <2>1, <2>2, Zenon DEF PairingInv, PairingTypeOK, CallRecords
<1>9. Attempts'
  <2>1. ASSUME NEW d \in Controllers, d # c
        PROVE  /\ cl'[d].att <= begun'
               /\ cl'[d].pc = "idle" <=> cl'[d].att = 0
               /\ cl'[d].pc = "idle" => cl'[d].key = NoKey
               /\ cl'[d].pc \in {"S4", "S6"} => cl'[d].key[3] = Code(d)
               /\ cl'[d].pc \in {"V2", "V4", "up"} /\ cl'[d].key # NoKey
                    => <<d, cl'[d].key>> \in paired'
               /\ cl'[d].done => Code(d) /\ \E p \in paired' : p[1] = d
    BY <2>1, <1>2, <1>0 DEF PairingInv, Attempts
  <2>2. /\ cl'[c].att <= begun'
        /\ cl'[c].pc = "idle" <=> cl'[c].att = 0
        /\ cl'[c].pc = "idle" => cl'[c].key = NoKey
        /\ cl'[c].pc \in {"S4", "S6"} => cl'[c].key[3] = Code(c)
        /\ cl'[c].pc \in {"V2", "V4", "up"} /\ cl'[c].key # NoKey
             => <<c, cl'[c].key>> \in paired'
        /\ cl'[c].done => Code(c) /\ \E p \in paired' : p[1] = c
    <3>1. cl[c].att <= begun BY Zenon DEF PairingInv, Attempts
    <3>2. cl'[c].done => Code(c) /\ \E p \in paired' : p[1] = c BY <1>0, <1>2, Zenon
    <3> QED BY <1>2, <1>0, <1>7, <3>1, <3>2
  <2> QED BY <2>1, <2>2 DEF Attempts, Code
<1>10. Numbered'
  <2>1. cl[c].att <= begun /\ cl[c].att \in Nat BY <1>f, Zenon DEF PairingInv, Attempts
  <2>2. \A d \in Controllers : cl[c].att = cl[d].att => d = c
    BY <1>7, Zenon DEF PairingInv, PairingTypeOK
  <2>3. /\ x.att # 0 /\ x.att <= begun
        /\ \A d \in Controllers : cl[d].att # 0 =>
              /\ x.att = cl[d].att => x.ctl = d
              /\ x.ctl = d => x.att <= cl[d].att
    BY <1>7, <2>1, <2>2
  <2> QED BY <1>0, <1>3, <2>3 DEF PairingInv, Numbered
<1>11. Accepted' BY <1>0, Zenon DEF PairingInv, Accepted, Code
<1>12. Signed'
  <2>1. \A d \in Controllers : d # c => cl'[d].sec = cl[d].sec BY <1>2, Zenon
  <2> QED BY <1>0, <1>3, <1>4, <1>5, <1>6, <2>1 DEF PairingInv, Signed
<1>13. NotKeyed' BY <1>0, <1>6, Zenon DEF PairingInv, NotKeyed
<1>14. Established'
  <2>1. cl'[c].pc # "up" BY <1>2, Zenon
  <2> QED BY <1>0, <1>2, <1>4, <1>5, <1>6, <2>1 DEF PairingInv, Established
<1> QED BY <1>8, <1>9, <1>10, <1>11, <1>12, <1>13, <1>14, Zenon DEF PairingInv

\* A controller takes a response of its own call only: the call numbers differ.
LEMMA AnswersTheCall ==
    ASSUME PairingInv, NEW c \in Controllers, NEW d \in down,
           cl[c].pc # "idle", d.att = cl[c].att
    PROVE  d.ctl = c /\ cl[c].att # 0
  BY PairingFacts DEF PairingInv, Attempts, Numbered

\* handle_m2 of Pair Setup.
LEMMA SetupM2Keeps ==
    ASSUME PairingInv, NEW c \in Controllers, NEW d \in down, SetupM2(c, d)
    PROVE  PairingInv'
<1>f. PairingFacts!2 BY PairingFacts, Zenon
<1> DEFINE key == <<cl[c].att, d.eph, Code(c)>>
           x == [Msg("S3", c, cl[c].att) EXCEPT !.key = key]
           r == [[cl[c] EXCEPT !.key = key] EXCEPT !.pc = "S4"]
<1>1. /\ cl[c].pc = "S2" /\ cl' = [cl EXCEPT ![c] = r] /\ up' = up \cup {x}
      /\ UNCHANGED <<down, accessory, fresh, begun>>
  BY Zenon DEF SetupM2, Advance
<1>2. key \in SrpKeys /\ key[3] = Code(c) BY <1>f, Zenon DEF SrpKeys, Code
<1>3. x \in Messages /\ x.kind = "S3" /\ x.ctl = c /\ x.att = cl[c].att
  <2>1. cl[c].att \in Nat /\ 0 \in Nat BY <1>f, Zenon
  <2>2. NoSec \in Secrets BY Zenon DEF NoSec, Secrets
  <2> HIDE DEF key
  <2> QED BY <2>1, <2>2, <1>2, Zenon DEF Msg, Messages, MessageKinds
<1>4. /\ r \in CallRecords /\ r.pc = "S4" /\ r.att = cl[c].att /\ r.key = key
      /\ r.done = cl[c].done
  <2>1. cl[c] \in CallRecords BY <1>f, Zenon
  <2> HIDE DEF key
  <2> QED BY <2>1, <1>2, Zenon DEF CallRecords, Phases
<1>5. cl[c].done => Code(c) /\ \E p \in paired : p[1] = c BY Zenon DEF PairingInv, Attempts
<1> HIDE DEF x, r
<1>6. r.done => Code(c) /\ \E p \in paired : p[1] = c BY <1>4, <1>5, Zenon
<1>7. r.pc \in {"S4", "S6"} => r.key[3] = Code(c) BY <1>4, <1>2, Zenon
<1> QED BY <1>1, <1>3, <1>4, <1>6, <1>7, CallGoesOn, Zenon

\* handle_m4 of Pair Setup.
LEMMA SetupM4Keeps ==
    ASSUME PairingInv, NEW c \in Controllers, NEW d \in down, SetupM4(c, d)
    PROVE  PairingInv'
<1>f. PairingFacts!2 BY PairingFacts, Zenon
<1> DEFINE x == [Msg("S5", c, cl[c].att) EXCEPT !.key = cl[c].key]
           r == [cl[c] EXCEPT !.pc = "S6"]
<1>1. /\ cl[c].pc = "S4" /\ cl' = [cl EXCEPT ![c] = r] /\ up' = up \cup {x}
      /\ UNCHANGED <<down, accessory, fresh, begun>>
  BY Zenon DEF SetupM4, Advance
<1>2. cl[c].key \in SrpKeys /\ cl[c].key[3] = Code(c) BY <1>f, <1>1, Zenon DEF PairingInv, Attempts
<1>3. /\ x \in Messages /\ x.kind = "S5" /\ x.ctl = c /\ x.att = cl[c].att
      /\ x.key = cl[c].key
  <2>1. cl[c].att \in Nat /\ 0 \in Nat BY <1>f, Zenon
  <2>2. NoSec \in Secrets BY Zenon DEF NoSec, Secrets
  <2> QED BY <2>1, <2>2, <1>2, Zenon DEF Msg, Messages, MessageKinds
<1>4. /\ r \in CallRecords /\ r.pc = "S6" /\ r.att = cl[c].att /\ r.key = cl[c].key
      /\ r.done = cl[c].done
  <2>1. cl[c] \in CallRecords BY <1>f, Zenon
  <2> QED BY <2>1, <1>2, Zenon DEF CallRecords, Phases
<1>5. cl[c].done => Code(c) /\ \E p \in paired : p[1] = c BY Zenon DEF PairingInv, Attempts
<1> HIDE DEF x, r
<1>6. r.done => Code(c) /\ \E p \in paired : p[1] = c BY <1>4, <1>5, Zenon
<1>7. r.key[3] = Code(c) /\ x.key[3] = Code(c) BY <1>2, <1>3, <1>4, Zenon
<1> QED BY <1>1, <1>3, <1>4, <1>6, <1>7, CallGoesOn, Zenon

\* handle_m6 of Pair Setup: M6 is of the same call, so the key was accepted.
LEMMA SetupM6Keeps ==
    ASSUME PairingInv, NEW c \in Controllers, NEW d \in down, SetupM6(c, d)
    PROVE  PairingInv'
<1>f. PairingFacts!2 BY PairingFacts, Zenon
<1> DEFINE x == Msg("V1", c, cl[c].att)
           r == [[cl[c] EXCEPT !.done = TRUE] EXCEPT !.pc = "V2"]
<1>1. /\ cl[c].pc = "S6" /\ d.kind = "S6" /\ d.att = cl[c].att /\ d.key = cl[c].key
      /\ cl' = [cl EXCEPT ![c] = r] /\ up' = up \cup {x}
      /\ UNCHANGED <<down, accessory, fresh, begun>>
  BY Zenon DEF SetupM6, Advance
<1>2. <<c, cl[c].key>> \in paired BY <1>1, AnswersTheCall, Zenon DEF PairingInv, Accepted
<1>3. x \in Messages /\ x.kind = "V1" /\ x.ctl = c /\ x.att = cl[c].att
  BY <1>f, MsgFields DEF MessageKinds
<1>4. r \in CallRecords /\ r.pc = "V2" /\ r.att = cl[c].att /\ r.key = cl[c].key
  <2>1. cl[c] \in CallRecords BY <1>f, Zenon
  <2> QED BY <2>1, Zenon DEF CallRecords, Phases
<1>5. Code(c) /\ \E p \in paired : p[1] = c BY <1>2, Zenon DEF PairingInv, Accepted
<1> HIDE DEF x, r
<1> QED BY <1>1, <1>2, <1>3, <1>4, <1>5, CallGoesOn, Zenon

\* pair and connect start a call: its number is new to every party.
LEMMA BeginKeeps ==
    ASSUME PairingInv, NEW c \in Controllers, NEW pc \in {"S2", "V2"}, NEW k \in {"S1", "V1"},
           BeginAttempt(c, pc, Msg(k, c, 0))
    PROVE  PairingInv'
<1>f. PairingFacts!2 BY PairingFacts, Zenon
<1> DEFINE x == [Msg(k, c, 0) EXCEPT !.att = begun + 1]
           r == [cl[c] EXCEPT !.pc = pc, !.att = begun + 1]
<1>0. /\ cl[c].pc = "idle" /\ begun < MaxAttempts /\ begun' = begun + 1
      /\ UNCHANGED <<down, setup, verify, owner, session, fresh, paired, keyed, rekeyed>>
      /\ up' = up \cup {x} /\ cl' = [cl EXCEPT ![c].pc = pc, ![c].att = begun + 1]
  BY Zenon DEF BeginAttempt, accessory
<1>a. \A d \in Controllers : cl[d].att <= begun BY Zenon DEF PairingInv, Attempts
<1>b. cl[c].key = NoKey BY <1>0, Zenon DEF PairingInv, Attempts
<1>n. begun + 1 \in Nat /\ begun + 1 # 0 BY <1>f
<1>x. x \in Messages /\ x.kind = k /\ x.ctl = c /\ x.att = begun + 1
  <2>1. 0 \in Nat /\ NoKey \in SrpKeys /\ NoSec \in Secrets BY Zenon DEF NoKey, SrpKeys, NoSec, Secrets
  <2> DEFINE a == begun + 1
  <2>2. a \in Nat BY <1>n, Zenon
  <2> HIDE DEF a
  <2>3. x = [kind |-> k, ctl |-> c, att |-> a, eph |-> 0, key |-> NoKey, sec |-> NoSec]
    BY DEF Msg, a
  <2> QED BY <2>1, <2>2, <2>3, Zenon DEF Messages, a
<1>r. /\ r \in CallRecords /\ r.pc = pc /\ r.att = begun + 1 /\ r.key = cl[c].key
      /\ r.sec = cl[c].sec /\ r.done = cl[c].done
  <2>1. cl[c] \in CallRecords /\ pc \in Phases BY <1>f, Zenon DEF Phases
  <2> QED BY <2>1, <1>n, Zenon DEF CallRecords
<1>2. cl'[c] = r /\ \A d \in Controllers : d # c => cl'[d] = cl[d] BY <1>0, <1>f, Zenon
<1>1. cl' \in [Controllers -> CallRecords]
  <2>1. cl' = [cl EXCEPT ![c] = r] BY <1>0, Zenon
  <2> HIDE DEF r
  <2> QED BY <2>1, <1>f, <1>r, Zenon
<1> HIDE DEF x, r
<1>4. \A d \in Controllers : d # c => HasSecret(d)' = HasSecret(d) BY <1>2, Zenon DEF HasSecret
<1>5. ~HasSecret(c)' BY <1>2, <1>r, Zenon DEF HasSecret
<1>6. V3s' = V3s /\ V2s' = V2s /\ V4s' = V4s BY <1>0, <1>x, Zenon DEF V3s, V2s, V4s
<1>7. \A d \in Controllers : cl[d].att # begun + 1 BY <1>f, <1>a
<1>8. PairingTypeOK'
  <2>1. \A d, e \in Controllers : cl'[d].att = cl'[e].att /\ cl'[d].att # 0 => d = e
    BY <1>2, <1>r, <1>7 DEF PairingInv, PairingTypeOK
  <2>2. up' \subseteq Messages /\ down' \subseteq Messages
    BY <1>0, <1>x, Zenon DEF PairingInv, PairingTypeOK
  <2>3. begun' \in 0..MaxAttempts BY <1>0, <1>f, PairingAssumption
  <2> QED BY <1>0, <1>1, <2>1, <2>2, <2>3, Zenon DEF PairingInv, PairingTypeOK, CallRecords
<1>9. Attempts'
  <2>1. ASSUME NEW d \in Controllers, d # c
        PROVE  /\ cl'[d].att <= begun'
               /\ cl'[d].pc = "idle" <=> cl'[d].att = 0
               /\ cl'[d].pc = "idle" => cl'[d].key = NoKey
               /\ cl'[d].pc \in {"S4", "S6"} => cl'[d].key[3] = Code(d)
               /\ cl'[d].pc \in {"V2", "V4", "up"} /\ cl'[d].key # NoKey
                    => <<d, cl'[d].key>> \in paired'
               /\ cl'[d].done => Code(d) /\ \E p \in paired' : p[1] = d
    <3>1. cl[d].att <= begun' BY <1>0, <1>f, <1>a
    <3>2. cl'[d] = cl[d] /\ paired' = paired BY <2>1, <1>2, <1>0, Zenon
    <3> QED BY <3>1, <3>2, Zenon DEF PairingInv, Attempts
  <2>2. /\ cl'[c].att <= begun'
        /\ cl'[c].pc = "idle" <=> cl'[c].att = 0
        /\ cl'[c].pc \notin {"idle", "S4", "S6"} /\ cl'[c].key = NoKey
    BY <1>0, <1>2, <1>r, <1>n, <1>b, <1>f
  <2>3. cl'[c].done => Code(c) /\ \E p \in paired' : p[1] = c
    <3>1. cl[c].done => Code(c) /\ \E p \in paired : p[1] = c BY Zenon DEF PairingInv, Attempts
    <3>2. cl'[c].done = cl[c].done BY <1>2, <1>r, Zenon
    <3> QED BY <3>1, <3>2, <1>0, Zenon
  <2> QED BY <2>1, <2>2, <2>3, Zenon DEF Attempts, Code
<1>10. Numbered'
  <2>1. ASSUME NEW m \in up' \cup down', NEW d \in Controllers, cl'[d].att # 0
        PROVE  /\ m.att = cl'[d].att => m.ctl = d
               /\ m.ctl = d => m.att <= cl'[d].att
    <3>1. CASE m = x BY <3>1, <1>x, <1>2, <1>r, <1>7, <1>n
    <3>2. CASE m # x
      <4>1. m \in up \cup down /\ m.att <= begun /\ m.att \in Nat
        BY <3>2, <1>0, <1>f, Zenon DEF PairingInv, Numbered
      <4>2. CASE d = c BY <4>1, <4>2, <1>2, <1>r, <1>f
      <4>3. CASE d # c BY <4>1, <4>3, <1>2, <2>1 DEF PairingInv, Numbered
      <4> QED BY <4>2, <4>3, Zenon
    <3> QED BY <3>1, <3>2, Zenon
  <2>2. \A m \in up' \cup down' : m.att # 0 /\ m.att <= begun'
    BY <1>0, <1>x, <1>n, <1>f DEF PairingInv, Numbered
  <2> QED BY <2>1, <2>2, Zenon DEF Numbered
<1>11. Accepted' BY <1>0, <1>x, Zenon DEF PairingInv, Accepted, Code
<1>12. Signed'
  <2>1. \A m \in V3s : m.att # begun + 1 BY <1>f DEF PairingInv, Numbered, V3s
  <2>2. \A m \in V3s, d \in Controllers : cl'[d].att = m.att => d # c /\ cl'[d] = cl[d]
    BY <2>1, <1>2, <1>r, Zenon
  <2>3. \A d \in Controllers : HasSecret(d)' => d # c /\ cl'[d] = cl[d] /\ HasSecret(d)
    BY <1>2, <1>4, <1>5, Zenon
  <2>4. fresh' = fresh BY <1>0, Zenon
  <2> QED BY <2>4, <1>4, <1>6, <2>2, <2>3 DEF PairingInv, Signed
<1>13. NotKeyed' BY <1>0, <1>6, Zenon DEF PairingInv, NotKeyed
<1>14. Established'
  <2>1. cl'[c].pc # "up" BY <1>2, <1>r, Zenon
  <2>2. \A d \in Controllers : cl'[d].pc = "up" \/ HasSecret(d)'
                                 => cl'[d] = cl[d] /\ (HasSecret(d)' => HasSecret(d))
    BY <1>2, <1>4, <1>5, <2>1, Zenon
  <2>3. keyed' = keyed /\ session' = session BY <1>0, Zenon
  <2> QED BY <2>3, <1>6, <2>2, Zenon DEF PairingInv, Established
<1> QED BY <1>8, <1>9, <1>10, <1>11, <1>12, <1>13, <1>14, Zenon DEF PairingInv

\* The call ends; what it has said stays in the network, under its number.
LEMMA EndKeeps ==
    ASSUME PairingInv, NEW c \in Controllers, End(c)
    PROVE  PairingInv'
<1>f. PairingFacts!2 BY PairingFacts, Zenon
<1> DEFINE r == [NoAttempt EXCEPT !.done = cl[c].done]
<1>0. /\ UNCHANGED <<up, down, setup, verify, owner, session, fresh, begun, paired, keyed, rekeyed>>
      /\ cl' = [cl EXCEPT ![c] = r]
  BY Zenon DEF End, accessory
<1>r. /\ r \in CallRecords /\ r.pc = "idle" /\ r.att = 0 /\ r.key = NoKey
      /\ r.done = cl[c].done
  <2>1. 0 \in Nat /\ NoKey \in SrpKeys /\ NoSec \in Secrets BY Zenon DEF NoKey, SrpKeys, NoSec, Secrets
  <2>2. cl[c] \in CallRecords BY <1>f, Zenon
  <2> QED BY <2>1, <2>2, Zenon DEF CallRecords, NoAttempt, Phases
<1> HIDE DEF r
<1>1. cl' \in [Controllers -> CallRecords] BY <1>0, <1>r, <1>f, Zenon
<1>2. cl'[c] = r /\ \A d \in Controllers : d # c => cl'[d] = cl[d] BY <1>0, <1>f, Zenon
<1>4. \A d \in Controllers : d # c => HasSecret(d)' = HasSecret(d) BY <1>2, Zenon DEF HasSecret
<1>5. ~HasSecret(c)' BY <1>2, <1>r, Zenon DEF HasSecret
<1>6. V3s' = V3s /\ V2s' = V2s /\ V4s' = V4s BY <1>0, Zenon DEF V3s, V2s, V4s
<1>8. PairingTypeOK'
  <2>1. \A d, e \in Controllers : cl'[d].att = cl'[e].att /\ cl'[d].att # 0 => d = e
    BY <1>2, <1>r DEF PairingInv, PairingTypeOK
  <2> QED BY <1>0, <1>1, <2>1, Zenon DEF PairingInv, PairingTypeOK, CallRecords
<1>9. Attempts'
  <2>1. ASSUME NEW d \in Controllers, d # c
        PROVE  /\ cl'[d].att <= begun'
               /\ cl'[d].pc = "idle" <=> cl'[d].att = 0
               /\ cl'[d].pc = "idle" => cl'[d].key = NoKey
               /\ cl'[d].pc \in {"S4", "S6"} => cl'[d].key[3] = Code(d)
               /\ cl'[d].pc \in {"V2", "V4", "up"} /\ cl'[d].key # NoKey
                    => <<d, cl'[d].key>> \in paired'
               /\ cl'[d].done => Code(d) /\ \E p \in paired' : p[1] = d
    BY <2>1, <1>2, <1>0, Zenon DEF PairingInv, Attempts
  <2>2. /\ cl'[c].att <= begun' /\ cl'[c].pc = "idle" /\ cl'[c].att = 0 /\ cl'[c].key = NoKey
    BY <1>0, <1>2, <1>r, <1>f
  <2>3. cl'[c].done => Code(c) /\ \E p \in paired' : p[1] = c
    <3>1. cl[c].done => Code(c) /\ \E p \in paired : p[1] = c BY Zenon DEF PairingInv, Attempts
    <3>2. cl'[c].done = cl[c].done BY <1>2, <1>r, Zenon
    <3> QED BY <3>1, <3>2, <1>0, Zenon
  <2> QED BY <2>1, <2>2, <2>3, Zenon DEF Attempts, Code
<1>10. Numbered' BY <1>0, <1>2, <1>r, SMTT(60) DEF PairingInv, Numbered
<1>11. Accepted' BY <1>0, Zenon DEF PairingInv, Accepted, Code
<1>12. Signed'
  <2>1. \A m \in V3s : m.att # 0 BY <1>f, Zenon DEF PairingInv, Numbered, V3s
  <2> QED BY <1>0, <1>2, <1>r, <1>4, <1>5, <1>6, <2>1 DEF PairingInv, Signed
<1>13. NotKeyed' BY <1>0, <1>6, Zenon DEF PairingInv, NotKeyed
<1>14. Established'
  <2>1. cl'[c].pc # "up" BY <1>2, <1>r, Zenon
  <2> QED BY <1>0, <1>2, <1>4, <1>5, <1>6, <2>1 DEF PairingInv, Established
<1> QED BY <1>8, <1>9, <1>10, <1>11, <1>12, <1>13, <1>14, Zenon DEF PairingInv

\* handle_m2 of Pair Verify: the secret holds the number of the call, so no
\* other call has signed it, and nothing has been keyed with it.
LEMMA VerifyM2Keeps ==
    ASSUME PairingInv, NEW c \in Controllers, NEW d \in down, VerifyM2(c, d)
    PROVE  PairingInv'
<1>f. PairingFacts!2 BY PairingFacts, Zenon
<1> DEFINE x == [Msg("V3", c, cl[c].att) EXCEPT !.sec = d.sec]
           r == [[cl[c] EXCEPT !.sec = d.sec] EXCEPT !.pc = "V4"]
<1>0. /\ cl[c].pc = "V2" /\ d.kind = "V2" /\ d.att = cl[c].att /\ d.sec[1] = cl[c].att
      /\ UNCHANGED <<down, setup, verify, owner, session, fresh, begun, paired, keyed, rekeyed>>
      /\ up' = up \cup {x} /\ cl' = [cl EXCEPT ![c] = r]
  BY Zenon DEF VerifyM2, Advance, accessory
<1>x. /\ x \in Messages /\ x.kind = "V3" /\ x.ctl = c /\ x.att = cl[c].att
      /\ x.sec = d.sec
  <2>1. cl[c].att \in Nat /\ 0 \in Nat /\ d.sec \in Secrets BY <1>f, Zenon
  <2>2. NoKey \in SrpKeys BY Zenon DEF NoKey, SrpKeys
  <2> QED BY <2>1, <2>2, Zenon DEF Msg, Messages, MessageKinds
<1>r. /\ r \in CallRecords /\ r.pc = "V4" /\ r.att = cl[c].att /\ r.key = cl[c].key
      /\ r.sec = d.sec /\ r.done = cl[c].done
  <2>1. cl[c] \in CallRecords /\ d.sec \in Secrets BY <1>f, Zenon
  <2> QED BY <2>1, Zenon DEF CallRecords, Phases
<1> HIDE DEF x, r
<1>1. cl' \in [Controllers -> CallRecords] BY <1>0, <1>r, <1>f, Zenon
<1>2. cl'[c] = r /\ \A e \in Controllers : e # c => cl'[e] = cl[e] BY <1>0, <1>f, Zenon
<1>3. \A e \in Controllers : cl'[e].att = cl[e].att BY <1>2, <1>r, Zenon
<1>4. \A e \in Controllers : e # c => HasSecret(e)' = HasSecret(e) BY <1>2, Zenon DEF HasSecret
<1>5. HasSecret(c)' /\ ~HasSecret(c) /\ cl'[c].sec = d.sec BY <1>0, <1>2, <1>r, Zenon DEF HasSecret
<1>6. V3s' = V3s \cup {x} /\ V2s' = V2s /\ V4s' = V4s /\ d \in V2s
  BY <1>0, <1>x, Zenon DEF V3s, V2s, V4s
<1>7. d.ctl = c /\ cl[c].att # 0 BY <1>0, AnswersTheCall, Zenon
<1>c. \A e \in Controllers : cl[e].att = cl[c].att => e = c
  BY <1>7, Zenon DEF PairingInv, PairingTypeOK
<1>d. \A m \in V3s : m.att # cl[c].att BY <1>5, Zenon DEF PairingInv, Signed
<1>e. d.sec \notin keyed BY <1>d, <1>0 DEF PairingInv, Signed, NotKeyed
<1>8. PairingTypeOK'
  <2>1. \A a, e \in Controllers : cl'[a].att = cl'[e].att /\ cl'[a].att # 0 => a = e
    BY <1>3, Zenon DEF PairingInv, PairingTypeOK
  <2>2. up' \subseteq Messages /\ down' \subseteq Messages
    BY <1>0, <1>x, Zenon DEF PairingInv, PairingTypeOK
  <2> QED BY <1>0, <1>1, <2>1, <2>2, Zenon DEF PairingInv, PairingTypeOK, CallRecords
<1>9. Attempts'
  <2>1. ASSUME NEW e \in Controllers
        PROVE  /\ cl'[e].att = cl[e].att /\ cl'[e].key = cl[e].key /\ cl'[e].done = cl[e].done
               /\ cl'[e].pc = cl[e].pc \/ (cl[e].pc = "V2" /\ cl'[e].pc = "V4")
    BY <1>2, <1>r, <1>0, Zenon
  <2>2. begun' = begun /\ paired' = paired BY <1>0, Zenon
  <2> QED BY <2>1, <2>2 DEF PairingInv, Attempts, Code
<1>10. Numbered'
  <2>1. cl[c].att <= begun /\ cl[c].att \in Nat BY <1>f, Zenon DEF PairingInv, Attempts
  <2>2. /\ x.att # 0 /\ x.att <= begun
        /\ \A e \in Controllers : cl[e].att # 0 =>
              /\ x.att = cl[e].att => x.ctl = e
              /\ x.ctl = e => x.att <= cl[e].att
    BY <1>7, <1>x, <1>c, <2>1
  <2>3. begun' = begun /\ down' = down /\ up' = up \cup {x} BY <1>0, Zenon
  <2> QED BY <1>3, <2>2, <2>3 DEF PairingInv, Numbered
<1>11. Accepted' BY <1>0, <1>x, Zenon DEF PairingInv, Accepted, Code
<1>12. Signed'
  <2>0. fresh' = fresh /\ d.sec[2] <= fresh BY <1>0, <1>6, Zenon DEF PairingInv, Signed
  <2>1. ASSUME NEW m \in V3s'
        PROVE  /\ m.sec[1] = m.att /\ m.sec[2] <= fresh'
               /\ \A e \in Controllers :
                     cl'[e].att = m.att => HasSecret(e)' /\ cl'[e].sec = m.sec
    <3>1. CASE m = x BY <3>1, <2>0, <1>0, <1>3, <1>5, <1>c, <1>x, Zenon
    <3>2. CASE m # x
      <4>1. m \in V3s BY <3>2, <1>6, Zenon
      <4>2. \A e \in Controllers : cl'[e].att = m.att => e # c BY <4>1, <1>3, <1>d, Zenon
      <4> QED BY <4>1, <4>2, <2>0, <1>2, <1>4, SMTT(60) DEF PairingInv, Signed
    <3> QED BY <3>1, <3>2, Zenon
  <2>2. ASSUME NEW a \in V2s', NEW m \in V3s', m.ctl = a.ctl, m.att < a.att
        PROVE  m.sec[2] < a.sec[2]
    <3>1. a \in V2s /\ a \in down BY <1>6, Zenon DEF V2s
    <3>2. a.ctl = c => a.att <= cl[c].att BY <3>1, <1>7, Zenon DEF PairingInv, Numbered
    <3>3. m # x BY <2>2, <3>1, <3>2, <1>x, <1>f
    <3> QED BY <2>2, <3>1, <3>3, <1>6, Zenon DEF PairingInv, Signed
  <2>3. \A a \in V2s' : a.sec[2] <= fresh' BY <2>0, <1>6, Zenon DEF PairingInv, Signed
  <2>4. ASSUME NEW e \in Controllers, HasSecret(e)'
        PROVE  \E a \in V2s' : a.ctl = e /\ a.att = cl'[e].att /\ a.sec = cl'[e].sec
    <3>1. CASE e = c BY <3>1, <1>0, <1>3, <1>5, <1>6, <1>7, Zenon
    <3>2. CASE e # c BY <2>4, <3>2, <1>2, <1>4, <1>6, SMTT(30) DEF PairingInv, Signed
    <3> QED BY <3>1, <3>2, Zenon
  <2> QED BY <2>1, <2>2, <2>3, <2>4, Zenon DEF Signed
<1>13. NotKeyed'
  <2>1. UNCHANGED <<verify, keyed, fresh, rekeyed>> BY <1>0, Zenon
  <2> QED BY <2>1, <1>6, Zenon DEF PairingInv, NotKeyed
<1>14. Established'
  <2>1. cl'[c].pc # "up" BY <1>2, <1>r, Zenon
  <2>2. UNCHANGED <<keyed, session>> BY <1>0, Zenon
  <2> QED BY <2>1, <2>2, <1>2, <1>4, <1>5, <1>6, <1>e, Zenon DEF PairingInv, Established
<1> QED BY <1>8, <1>9, <1>10, <1>11, <1>12, <1>13, <1>14, Zenon DEF PairingInv

\* handle_m4 of Pair Verify: M4 of this call answers its own M3, so the session
\* that it announces has the secret of the call.
LEMMA VerifyM4Keeps ==
    ASSUME PairingInv, NEW c \in Controllers, NEW d \in down, VerifyM4(c, d)
    PROVE  PairingInv'
<1>f. PairingFacts!2 BY PairingFacts, Zenon
<1> DEFINE r == [cl[c] EXCEPT !.pc = "up"]
<1>0. /\ cl[c].pc = "V4" /\ d.kind = "V4" /\ d.att = cl[c].att
      /\ UNCHANGED <<up, down, setup, verify, owner, session, fresh, begun, paired, keyed, rekeyed>>
      /\ cl' = [cl EXCEPT ![c] = r]
  BY Zenon DEF VerifyM4, accessory
<1>r. /\ r \in CallRecords /\ r.pc = "up" /\ r.att = cl[c].att /\ r.key = cl[c].key
      /\ r.sec = cl[c].sec /\ r.done = cl[c].done
  <2>1. cl[c] \in CallRecords BY <1>f, Zenon
  <2> QED BY <2>1, Zenon DEF CallRecords, Phases
<1> HIDE DEF r
<1>1. cl' \in [Controllers -> CallRecords] BY <1>0, <1>r, <1>f, Zenon
<1>2. cl'[c] = r /\ \A e \in Controllers : e # c => cl'[e] = cl[e] BY <1>0, <1>f, Zenon
<1>3. \A e \in Controllers : /\ cl'[e].att = cl[e].att /\ cl'[e].key = cl[e].key
                             /\ cl'[e].sec = cl[e].sec /\ cl'[e].done = cl[e].done
  BY <1>2, <1>r, Zenon
<1>4. \A e \in Controllers : HasSecret(e)' = HasSecret(e)
  <2>1. HasSecret(c)' /\ HasSecret(c) BY <1>0, <1>2, <1>r, Zenon DEF HasSecret
  <2>2. \A e \in Controllers : e # c => HasSecret(e)' = HasSecret(e) BY <1>2, Zenon DEF HasSecret
  <2> QED BY <2>1, <2>2 DEF HasSecret
<1>6. V3s' = V3s /\ V2s' = V2s /\ V4s' = V4s /\ d \in V4s BY <1>0, Zenon DEF V3s, V2s, V4s
<1>7. cl[c].sec \in keyed
  <2>1. PICK m \in V3s : m.att = d.att /\ m.sec = d.sec BY <1>6, Zenon DEF PairingInv, Established
  <2>2. cl[c].sec = d.sec BY <2>1, <1>0 DEF PairingInv, Signed
  <2> QED BY <2>2, <1>6, Zenon DEF PairingInv, Established
<1>8. PairingTypeOK'
  <2>1. \A a, e \in Controllers : cl'[a].att = cl'[e].att /\ cl'[a].att # 0 => a = e
    BY <1>3 DEF PairingInv, PairingTypeOK
  <2> QED BY <1>0, <1>1, <2>1, Zenon DEF PairingInv, PairingTypeOK, CallRecords
<1>9. Attempts'
  <2>1. \A e \in Controllers : cl'[e].pc = cl[e].pc \/ (cl[e].pc = "V4" /\ cl'[e].pc = "up")
    BY <1>2, <1>r, <1>0, Zenon
  <2>2. begun' = begun /\ paired' = paired BY <1>0, Zenon
  <2> QED BY <2>1, <2>2, <1>3, SMTT(60) DEF PairingInv, Attempts, Code
<1>10. Numbered' BY <1>0, <1>3 DEF PairingInv, Numbered
<1>11. Accepted' BY <1>0, Zenon DEF PairingInv, Accepted, Code
<1>12. Signed' BY <1>0, <1>3, <1>4, <1>6, SMTT(30) DEF PairingInv, Signed
<1>13. NotKeyed' BY <1>0, <1>6, Zenon DEF PairingInv, NotKeyed
<1>14. Established'
  <2>1. \A e \in Controllers : cl'[e].pc = "up" => e = c \/ cl[e].pc = "up" BY <1>2, Zenon
  <2>2. UNCHANGED <<keyed, session>> BY <1>0, Zenon
  <2> QED BY <2>1, <2>2, <1>3, <1>4, <1>6, <1>7, SMTT(60) DEF PairingInv, Established
<1> QED BY <1>8, <1>9, <1>10, <1>11, <1>12, <1>13, <1>14, Zenon DEF PairingInv

-----------------------------------------------------------------------------
(* the accessory's steps *)

\* A handler answers under the number of the request, or not at all.
LEMMA AnswerKeeps ==
    ASSUME PairingInv, NEW m \in up, NEW y \in Messages, y.att = m.att, y.ctl = m.ctl,
           down' = down \/ down' = down \cup {y}, paired \subseteq paired',
           UNCHANGED <<cl, up, begun>>
    PROVE  Attempts' /\ Numbered'
<1>1. /\ m.att # 0 /\ m.att <= begun
      /\ \A c \in Controllers : cl[c].att # 0 =>
            /\ m.att = cl[c].att => m.ctl = c
            /\ m.ctl = c => m.att <= cl[c].att
  BY Zenon DEF PairingInv, Numbered
<1>2. Numbered' BY <1>1 DEF PairingInv, Numbered
<1>3. Attempts' BY Zenon DEF PairingInv, Attempts, Code
<1> QED BY <1>2, <1>3, Zenon

\* A handler of Pair Setup touches nothing of Pair Verify.
LEMMA SetupHandled ==
    ASSUME PairingInv, NEW m \in up, NEW y \in Messages, y.att = m.att, y.ctl = m.ctl,
           y.kind \in {"S2", "S4", "S6"},
           down' = down \/ down' = down \cup {y}, paired \subseteq paired',
           fresh' = fresh \/ fresh' = fresh + 1,
           UNCHANGED <<cl, up, verify, session, begun, keyed, rekeyed>>,
           PairingTypeOK', Accepted'
    PROVE  PairingInv'
<1>f. PairingFacts!2 BY PairingFacts, Zenon
<1>1. Attempts' /\ Numbered' BY AnswerKeeps, Zenon
<1>2. V3s' = V3s /\ V2s' = V2s /\ V4s' = V4s BY Zenon DEF V3s, V2s, V4s
<1>3. \A c \in Controllers : HasSecret(c)' = HasSecret(c) BY Zenon DEF HasSecret
<1>4. fresh' \in Nat /\ fresh <= fresh' BY <1>f
<1>5. Signed'
  <2>1. \A q \in V3s \cup V2s : q.sec[2] \in Nat /\ q.sec[2] <= fresh
    BY <1>f, Zenon DEF PairingInv, Signed, V3s, V2s
  <2>2. \A q \in V3s \cup V2s : q.sec[2] <= fresh' BY <2>1, <1>4, <1>f
  <2> QED BY <1>2, <1>3, <2>2 DEF PairingInv, Signed
<1>6. NotKeyed'
  <2>1. verify \in [st : {0, 3}, sec : Secrets] /\ keyed \subseteq Secrets
    BY Zenon DEF PairingInv, PairingTypeOK
  <2>2. verify.sec[2] \in Nat /\ \A s \in keyed : s[2] \in Nat BY <2>1, Zenon DEF Secrets
  <2>3. verify.st = 3 => verify.sec[2] <= fresh' BY <2>2, <1>4, <1>f, SMTT(30) DEF PairingInv, NotKeyed
  <2>4. \A s \in keyed : s[2] <= fresh' BY <2>2, <1>4, <1>f DEF PairingInv, NotKeyed
  <2> QED BY <2>3, <2>4, <1>2, Zenon DEF PairingInv, NotKeyed
<1>7. Established' BY <1>2, <1>3, Zenon DEF PairingInv, Established
<1> QED BY <1>1, <1>5, <1>6, <1>7, Zenon DEF PairingInv

\* Pair Setup M1.
LEMMA HandleSetupM1Keeps ==
    ASSUME PairingInv, NEW m \in up, HandleSetupM1(m)
    PROVE  PairingInv'
<1>f. PairingFacts!2 BY PairingFacts, Zenon
<1> DEFINE y == [m EXCEPT !.kind = "S2", !.eph = fresh', !.sec = NoSec]
<1>0. /\ fresh' = fresh + 1 /\ down' = down \cup {y}
      /\ setup' = [st |-> 3, eph |-> fresh', key |-> NoKey]
      /\ UNCHANGED <<cl, up, verify, owner, session, begun, paired, keyed, rekeyed>>
  BY Zenon DEF HandleSetupM1, Reply
<1>1. fresh' \in Nat BY <1>0, <1>f
<1>2. NoKey \in SrpKeys /\ NoSec \in Secrets BY Zenon DEF NoKey, SrpKeys, NoSec, Secrets
<1>3. y \in Messages /\ y.kind = "S2" /\ y.ctl = m.ctl /\ y.att = m.att
  <2>1. m \in Messages BY <1>f, Zenon
  <2> QED BY <2>1, <1>1, <1>2, Zenon DEF Messages
<1> HIDE DEF y
<1>4. PairingTypeOK'
  <2>1. setup' \in [st : {0, 3, 5}, eph : Nat, key : SrpKeys] BY <1>0, <1>1, <1>2, Zenon
  <2>2. down' \subseteq Messages BY <1>0, <1>3, Zenon DEF PairingInv, PairingTypeOK
  <2> QED BY <1>0, <1>1, <2>1, <2>2, Zenon DEF PairingInv, PairingTypeOK
<1>5. Accepted'
  <2>1. setup'.st = 3 BY <1>0, Zenon
  <2> QED BY <1>0, <1>3, <2>1 DEF PairingInv, Accepted, Code
<1>6. paired \subseteq paired' BY <1>0, Zenon
<1> QED BY <1>0, <1>3, <1>4, <1>5, <1>6, SetupHandled, Zenon

\* Pair Setup M3: the proof shows that the key was made with the setup code.
LEMMA HandleSetupM3Keeps ==
    ASSUME PairingInv, NEW m \in up, HandleSetupM3(m)
    PROVE  PairingInv'
<1>f. PairingFacts!2 BY PairingFacts, Zenon
<1> DEFINE y == [m EXCEPT !.kind = "S4", !.eph = 0, !.sec = NoSec]
<1>0. /\ \/ /\ setup' = [st |-> 5, eph |-> 0, key |-> m.key] /\ down' = down \cup {y}
            /\ m.key = <<m.att, setup.eph, TRUE>>
         \/ setup' = NoSetup /\ down' = down
      /\ UNCHANGED <<cl, up, verify, owner, session, fresh, begun, paired, keyed, rekeyed>>
  BY Zenon DEF HandleSetupM3, Reply
<1>2. NoKey \in SrpKeys /\ NoSec \in Secrets /\ m.key \in SrpKeys
  BY <1>f, Zenon DEF NoKey, SrpKeys, NoSec, Secrets
<1>3. y \in Messages /\ y.kind = "S4" /\ y.ctl = m.ctl /\ y.att = m.att
  <2>1. m \in Messages /\ 0 \in Nat BY <1>f, Zenon
  <2> QED BY <2>1, <1>2, Zenon DEF Messages
<1> HIDE DEF y
<1>4. PairingTypeOK'
  <2>1. setup' \in [st : {0, 3, 5}, eph : Nat, key : SrpKeys]
    <3>1. setup' = [st |-> 5, eph |-> 0, key |-> m.key] \/ setup' = NoSetup BY <1>0, Zenon
    <3> QED BY <3>1, <1>2 DEF NoSetup
  <2>2. down' \subseteq Messages BY <1>0, <1>3, Zenon DEF PairingInv, PairingTypeOK
  <2> QED BY <1>0, <2>1, <2>2, Zenon DEF PairingInv, PairingTypeOK
<1>5. Accepted'
  <2>1. setup'.st = 5 => setup'.key[3] = TRUE
    <3>1. CASE setup' = NoSetup BY <3>1 DEF NoSetup
    <3>2. CASE /\ setup' = [st |-> 5, eph |-> 0, key |-> m.key]
               /\ m.key = <<m.att, setup.eph, TRUE>>
      <4>1. setup'.key = m.key BY <3>2, Zenon
      <4>2. m.key[3] = TRUE BY <3>2
      <4> QED BY <4>1, <4>2, Zenon
    <3> QED BY <1>0, <3>1, <3>2, Zenon
  <2> QED BY <1>0, <1>3, <2>1, Zenon DEF PairingInv, Accepted, Code
<1>6. paired \subseteq paired' BY <1>0, Zenon
<1> QED BY <1>0, <1>3, <1>4, <1>5, <1>6, SetupHandled, Zenon

\* Pair Setup M5: under the key that M3 proved, so the controller had the code.
LEMMA HandleSetupM5Keeps ==
    ASSUME PairingInv, NEW m \in up, HandleSetupM5(m)
    PROVE  PairingInv'
<1>f. PairingFacts!2 BY PairingFacts, Zenon
<1> DEFINE y == [m EXCEPT !.kind = "S6", !.eph = 0, !.sec = NoSec]
<1>0. /\ m.kind = "S5" /\ setup' = NoSetup
      /\ \/ /\ setup.st = 5 /\ m.key = setup.key /\ owner' = m.ctl
            /\ paired' = paired \cup {<<m.ctl, m.key>>} /\ down' = down \cup {y}
         \/ UNCHANGED <<owner, paired, down>>
      /\ UNCHANGED <<cl, up, verify, session, fresh, begun, keyed, rekeyed>>
  BY Zenon DEF HandleSetupM5, Reply
<1>1. m.ctl \in Controllers /\ m.key \in SrpKeys BY <1>f, Zenon
<1>2. NoKey \in SrpKeys /\ NoSec \in Secrets BY Zenon DEF NoKey, SrpKeys, NoSec, Secrets
<1>3. y \in Messages /\ y.kind = "S6" /\ y.ctl = m.ctl /\ y.att = m.att /\ y.key = m.key
  <2>1. m \in Messages /\ 0 \in Nat BY <1>f, Zenon
  <2> QED BY <2>1, <1>2, Zenon DEF Messages
<1> HIDE DEF y
<1>4. PairingTypeOK'
  <2>1. setup' \in [st : {0, 3, 5}, eph : Nat, key : SrpKeys] BY <1>0, <1>2, Zenon DEF NoSetup
  <2>2. down' \subseteq Messages BY <1>0, <1>3, Zenon DEF PairingInv, PairingTypeOK
  <2>3. owner' \in Controllers \cup {NoController} /\ paired' \subseteq Controllers \X SrpKeys
    BY <1>0, <1>1, SMTT(30) DEF PairingInv, PairingTypeOK
  <2> QED BY <1>0, <2>1, <2>2, <2>3, Zenon DEF PairingInv, PairingTypeOK
<1>5. Accepted'
  <2>1. setup'.st # 5 BY <1>0 DEF NoSetup
  <2>2. m.key[3] = Code(m.ctl) BY <1>0, Zenon DEF PairingInv, Accepted
  <2>3. CASE UNCHANGED <<owner, paired, down>>
    BY <2>3, <2>1, <1>0, Zenon DEF PairingInv, Accepted, Code
  <2>4. CASE /\ setup.st = 5 /\ m.key = setup.key /\ owner' = m.ctl
             /\ paired' = paired \cup {<<m.ctl, m.key>>} /\ down' = down \cup {y}
    <3>1. Code(m.ctl) BY <2>2, <2>4, Zenon DEF PairingInv, Accepted
    <3>2. owner' \notin Misinformed /\ \A p \in paired' : Code(p[1])
      BY <3>1, <2>4 DEF PairingInv, Accepted, Code
    <3>3. \A d \in down' : d.kind = "S6" => <<d.ctl, d.key>> \in paired'
      BY <2>4, <1>3, Zenon DEF PairingInv, Accepted
    <3>4. \A q \in up' : q.kind = "S5" => q.key[3] = Code(q.ctl)
      BY <1>0, Zenon DEF PairingInv, Accepted
    <3> QED BY <2>1, <3>2, <3>3, <3>4, Zenon DEF Accepted, Code
  <2> QED BY <1>0, <2>3, <2>4, Zenon
<1>6. paired \subseteq paired' BY <1>0, Zenon
<1>7. down' = down \/ down' = down \cup {y} BY <1>0, Zenon
<1>8. UNCHANGED <<cl, up, verify, session, begun, keyed, rekeyed, fresh>> BY <1>0, Zenon
<1> QED BY <1>8, <1>3, <1>4, <1>5, <1>6, <1>7, SetupHandled, Zenon

\* Pair Verify M1: the ephemeral is newer than every secret signed so far.
LEMMA HandleVerifyM1Keeps ==
    ASSUME PairingInv, NEW m \in up, HandleVerifyM1(m)
    PROVE  PairingInv'
<1>f. PairingFacts!2 BY PairingFacts, Zenon
<1> DEFINE sec == <<m.att, fresh + 1>>
           y == [m EXCEPT !.kind = "V2", !.eph = 0, !.sec = sec]
<1>0. /\ fresh' = fresh + 1 /\ verify' = [st |-> 3, sec |-> sec] /\ down' = down \cup {y}
      /\ UNCHANGED <<cl, up, setup, owner, session, begun, paired, keyed, rekeyed>>
  BY Zenon DEF HandleVerifyM1, Reply
<1>1. fresh' \in Nat /\ fresh <= fresh' BY <1>0, <1>f
<1>2. sec \in Secrets /\ sec[2] = fresh' BY <1>0, <1>f DEF Secrets
<1> HIDE DEF sec
<1>3. y \in Messages /\ y.kind = "V2" /\ y.ctl = m.ctl /\ y.att = m.att /\ y.sec = sec
  <2>1. m \in Messages /\ 0 \in Nat BY <1>f, Zenon
  <2> QED BY <2>1, <1>2, Zenon DEF Messages
<1> HIDE DEF y
<1>4. PairingTypeOK'
  <2>1. verify' \in [st : {0, 3}, sec : Secrets] BY <1>0, <1>2, Zenon
  <2>2. down' \subseteq Messages BY <1>0, <1>3, Zenon DEF PairingInv, PairingTypeOK
  <2> QED BY <1>0, <1>1, <2>1, <2>2, Zenon DEF PairingInv, PairingTypeOK
<1>5. Accepted' BY <1>0, <1>3, Zenon DEF PairingInv, Accepted, Code
<1>6. Attempts' /\ Numbered'
  <2>1. paired \subseteq paired' BY <1>0, Zenon
  <2> QED BY <2>1, <1>0, <1>3, AnswerKeeps, Zenon
<1>7. V3s' = V3s /\ V2s' = V2s \cup {y} /\ V4s' = V4s BY <1>0, <1>3, Zenon DEF V3s, V2s, V4s
<1>8. \A c \in Controllers : HasSecret(c)' = HasSecret(c) /\ cl'[c] = cl[c]
  BY <1>0, Zenon DEF HasSecret
<1>9. \A q \in V3s \cup V2s : q.sec[2] \in Nat /\ q.sec[2] < fresh'
  <2>1. \A q \in V3s \cup V2s : q.sec[2] \in Nat /\ q.sec[2] <= fresh
    BY <1>f, Zenon DEF PairingInv, Signed, V3s, V2s
  <2> QED BY <2>1, <1>0, <1>f, SMTT(30)
<1>10. Signed'
  <2>1. \A q \in V3s : /\ q.sec[1] = q.att /\ q.sec[2] <= fresh'
                       /\ \A c \in Controllers :
                             cl[c].att = q.att => HasSecret(c) /\ cl[c].sec = q.sec
    BY <1>1, <1>9, SMTT(120) DEF PairingInv, Signed
  <2>2. ASSUME NEW d \in V2s'
        PROVE  /\ d.sec[2] <= fresh'
               /\ \A q \in V3s : q.ctl = d.ctl /\ q.att < d.att => q.sec[2] < d.sec[2]
    <3>1. CASE d = y BY <3>1, <1>1, <1>2, <1>3, <1>9
    <3>2. CASE d \in V2s BY <3>2, <1>1, <1>9 DEF PairingInv, Signed
    <3> QED BY <1>7, <3>1, <3>2, Zenon
  <2>3. \A c \in Controllers : HasSecret(c) =>
          \E d \in V2s' : d.ctl = c /\ d.att = cl[c].att /\ d.sec = cl[c].sec
    BY <1>7, Zenon DEF PairingInv, Signed
  <2>4. ASSUME NEW q \in V3s'
        PROVE  /\ q.sec[1] = q.att /\ q.sec[2] <= fresh'
               /\ \A c \in Controllers :
                     cl'[c].att = q.att => HasSecret(c)' /\ cl'[c].sec = q.sec
    <3>1. q \in V3s BY <1>7, Zenon
    <3>2. ASSUME NEW c \in Controllers, cl'[c].att = q.att
          PROVE  HasSecret(c)' /\ cl'[c].sec = q.sec
      <4>1. cl'[c] = cl[c] /\ HasSecret(c)' = HasSecret(c) BY <1>8, Zenon
      <4>2. cl[c].att = q.att BY <3>2, <4>1, Zenon
      <4> QED BY <2>1, <3>1, <4>1, <4>2, Zenon
    <3> QED BY <2>1, <3>1, <3>2, Zenon
  <2>5. \A d \in V2s' : /\ d.sec[2] <= fresh'
                        /\ \A q \in V3s' : q.ctl = d.ctl /\ q.att < d.att => q.sec[2] < d.sec[2]
    BY <1>7, <2>2, Zenon
  <2>6. \A c \in Controllers : HasSecret(c)' =>
          \E d \in V2s' : d.ctl = c /\ d.att = cl'[c].att /\ d.sec = cl'[c].sec
    BY <1>8, <2>3, Zenon
  <2> QED BY <2>4, <2>5, <2>6, Zenon DEF Signed
<1>11. NotKeyed'
  <2>1. keyed' = keyed /\ rekeyed' = rekeyed /\ verify'.sec = sec BY <1>0, Zenon
  <2>2. \A s \in keyed : s[2] \in Nat /\ s[2] < fresh'
    <3>1. \A s \in keyed : s[2] \in Nat BY Zenon DEF PairingInv, PairingTypeOK, Secrets
    <3>2. \A s \in keyed : s[2] <= fresh BY Zenon DEF PairingInv, NotKeyed
    <3> QED BY <3>1, <3>2, <1>0, <1>f, SMTT(60)
  <2>3. sec \notin keyed /\ sec[2] <= fresh' BY <2>2, <1>1, <1>2
  <2>4. \A d \in V2s' : d.sec[2] <= sec[2] BY <1>1, <1>2, <1>3, <1>7, <1>9
  <2>5. \A s \in keyed : s[2] <= fresh' BY <2>2, <1>1
  <2> QED BY <2>1, <2>3, <2>4, <2>5, <1>7, Zenon DEF PairingInv, NotKeyed
<1>12. Established' BY <1>0, <1>7, <1>8, Zenon DEF PairingInv, Established
<1> QED BY <1>4, <1>5, <1>6, <1>10, <1>11, <1>12, Zenon DEF PairingInv

\* Pair Verify M3: a session is keyed with the newest secret, which has keyed
\* none; so a controller that signed a later one still waits for its session.
LEMMA HandleVerifyM3Keeps ==
    ASSUME PairingInv, NEW m \in up, HandleVerifyM3(m)
    PROVE  PairingInv'
<1>f. PairingFacts!2 BY PairingFacts, Zenon
<1> DEFINE y == [m EXCEPT !.kind = "V4", !.eph = 0, !.sec = m.sec]
<1>0. /\ m.kind = "V3" /\ verify' = NoVerify
      /\ UNCHANGED <<cl, up, setup, owner, fresh, begun, paired>>
  BY Zenon DEF HandleVerifyM3
<1>1. m \in Messages /\ m.sec \in Secrets /\ m.ctl \in Controllers BY <1>f, Zenon
<1>3. y \in Messages /\ y.kind = "V4" /\ y.ctl = m.ctl /\ y.att = m.att /\ y.sec = m.sec
  <2>1. 0 \in Nat BY Zenon
  <2> QED BY <2>1, <1>1, Zenon DEF Messages
<1>v. verify' \in [st : {0, 3}, sec : Secrets] /\ verify'.st = 0
  BY <1>0, Zenon DEF NoVerify, NoSec, Secrets
<1>8. \A c \in Controllers : HasSecret(c)' = HasSecret(c) /\ cl'[c] = cl[c]
  BY <1>0, Zenon DEF HasSecret
<1>9. CASE UNCHANGED <<session, keyed, rekeyed, down>>
  <2>1. PairingTypeOK' BY <1>0, <1>9, <1>v DEF PairingInv, PairingTypeOK
  <2>2. Attempts' /\ Numbered'
    BY <1>0, <1>9 DEF PairingInv, Attempts, Numbered, Code
  <2>3. Accepted' BY <1>0, <1>9, Zenon DEF PairingInv, Accepted, Code
  <2>4. V3s' = V3s /\ V2s' = V2s /\ V4s' = V4s BY <1>0, <1>9, Zenon DEF V3s, V2s, V4s
  <2>5. Signed' BY <1>0, <1>8, <2>4, Zenon DEF PairingInv, Signed
  <2>6. NotKeyed' BY <1>0, <1>9, <1>v, <2>4, SMTT(60) DEF PairingInv, NotKeyed
  <2>7. Established' BY <1>9, <1>8, <2>4, Zenon DEF PairingInv, Established
  <2> QED BY <2>1, <2>2, <2>3, <2>5, <2>6, <2>7, Zenon DEF PairingInv
<1>10. CASE verify.st = 3 /\ m.sec = verify.sec /\ Establish(m)
  <2>0. /\ session' = [ctl |-> m.ctl, sec |-> m.sec] /\ keyed' = keyed \cup {m.sec}
        /\ rekeyed' = (rekeyed \/ m.sec \in keyed) /\ down' = down \cup {y}
    BY <1>10, Zenon DEF Establish, Reply
  <2> HIDE DEF y
  <2>1. ~rekeyed' BY <2>0, <1>10, Zenon DEF PairingInv, NotKeyed
  <2>2. PairingTypeOK'
    <3>1. session' \in [ctl : Controllers \cup {NoController}, sec : Secrets] BY <2>0, <1>1, Zenon
    <3>2. down' \subseteq Messages /\ keyed' \subseteq Secrets
      BY <2>0, <1>1, <1>3, Zenon DEF PairingInv, PairingTypeOK
    <3>3. rekeyed' \in BOOLEAN BY <2>0, Zenon
    <3> QED BY <1>0, <1>v, <3>1, <3>2, <3>3 DEF PairingInv, PairingTypeOK
  <2>3. Attempts' /\ Numbered'
    <3>1. paired \subseteq paired' BY <1>0, Zenon
    <3> QED BY <3>1, <1>0, <2>0, <1>3, AnswerKeeps, Zenon
  <2>4. Accepted' BY <1>0, <2>0, <1>3, Zenon DEF PairingInv, Accepted, Code
  <2>5. V3s' = V3s /\ V2s' = V2s /\ V4s' = V4s \cup {y} /\ m \in V3s
    BY <1>0, <2>0, <1>3, Zenon DEF V3s, V2s, V4s
  <2>6. Signed' BY <1>0, <1>8, <2>5, Zenon DEF PairingInv, Signed
  <2>7. NotKeyed'
    <3>1. m.sec[2] <= fresh BY <2>5, Zenon DEF PairingInv, Signed
    <3>2. \A s \in keyed' : s[2] <= fresh /\ \E q \in V3s : q.sec = s
      BY <3>1, <2>0, <2>5, Zenon DEF PairingInv, NotKeyed
    <3> QED BY <3>2, <2>1, <2>5, <1>v, <1>0, SMTT(60) DEF NotKeyed
  <2>8. Established'
    <3>1. \A d \in V4s' : d.sec \in keyed' /\ \E q \in V3s : q.att = d.att /\ q.sec = d.sec
      BY <2>0, <2>5, <1>3, Zenon DEF PairingInv, Established
    <3>2. \A c \in Controllers : cl[c].pc = "up" => cl[c].sec \in keyed'
      BY <2>0, Zenon DEF PairingInv, Established
    <3>3. ASSUME NEW c \in Controllers, HasSecret(c), session'.ctl = c
          PROVE  session'.sec = cl[c].sec
      <4>1. m.ctl = c /\ session'.sec = m.sec BY <3>3, <2>0, Zenon
      <4>2. CASE cl[c].att = m.att BY <4>1, <4>2, <2>5, Zenon DEF PairingInv, Signed
      <4>3. CASE cl[c].att # m.att
        <5>1. cl[c].att # 0 BY <3>3, <1>f, Zenon DEF PairingInv, Attempts, HasSecret
        <5>2. m.att < cl[c].att BY <4>1, <4>3, <5>1, <1>f, SMTT(30) DEF PairingInv, Numbered
        <5>3. PICK d \in V2s : d.ctl = c /\ d.att = cl[c].att /\ d.sec = cl[c].sec
          BY <3>3, Zenon DEF PairingInv, Signed
        <5>4. m.sec[2] < d.sec[2] BY <4>1, <5>2, <5>3, <2>5, Zenon DEF PairingInv, Signed
        <5>5. d.sec[2] <= m.sec[2] BY <1>10, Zenon DEF PairingInv, NotKeyed
        <5>6. d.sec[2] \in Nat /\ m.sec[2] \in Nat BY <1>f, Zenon DEF V2s
        <5> QED BY <5>4, <5>5, <5>6
      <4> QED BY <4>2, <4>3, Zenon
    <3> QED BY <3>1, <3>2, <3>3, <2>5, <1>8, Zenon DEF Established
  <2> QED BY <2>2, <2>3, <2>4, <2>6, <2>7, <2>8, Zenon DEF PairingInv
<1> QED BY <1>9, <1>10, Zenon DEF HandleVerifyM3

-----------------------------------------------------------------------------
(* the theorems *)

\* The invariant holds of every network, number of calls and of ephemerals.
THEOREM PairingInvariant == PairingSpec => []PairingInv
<1>1. PairingInit => PairingInv
  <2> SUFFICES ASSUME PairingInit PROVE PairingInv BY Zenon
  <2> USE DEF PairingInit
  <2>0. 0 \in 0..MaxAttempts BY PairingAssumption
  <2>1. NoKey \in SrpKeys /\ NoSec \in Secrets BY Zenon DEF NoKey, SrpKeys, NoSec, Secrets
  <2>2. NoAttempt \in CallRecords
    <3>1. 0 \in Nat BY Zenon
    <3> QED BY <3>1, <2>1, Zenon DEF NoAttempt, CallRecords, Phases
  <2>3. \A c \in Controllers : cl[c] = NoAttempt BY Zenon
  <2>4. /\ NoAttempt.pc = "idle" /\ NoAttempt.att = 0 /\ NoAttempt.key = NoKey
        /\ NoAttempt.done = FALSE
    BY Zenon DEF NoAttempt
  <2>5. PairingTypeOK
    <3>1. cl \in [Controllers -> CallRecords] BY <2>2, Zenon
    <3>2. /\ setup \in [st : {0, 3, 5}, eph : Nat, key : SrpKeys]
          /\ verify \in [st : {0, 3}, sec : Secrets]
          /\ session \in [ctl : Controllers \cup {NoController}, sec : Secrets]
      BY <2>1, Zenon DEF NoSetup, NoVerify, NoSession
    <3> QED BY <3>1, <3>2, <2>0, <2>3, <2>4, Zenon DEF PairingTypeOK, CallRecords
  <2>6. Attempts BY <2>3, <2>4, SMTT(60) DEF Attempts
  <2>7. Numbered BY Zenon DEF Numbered
  <2>8. Accepted BY PairingAssumption DEF Accepted, NoSetup, NoController
  <2>9. \A c \in Controllers : ~HasSecret(c) BY <2>3, <2>4, Zenon DEF HasSecret
  <2>10. V3s = {} /\ V2s = {} /\ V4s = {} BY Zenon DEF V3s, V2s, V4s
  <2>11. verify.st # 3 /\ keyed = {} /\ ~rekeyed BY DEF NoVerify
  <2>12. \A c \in Controllers : cl[c].pc # "up" BY <2>3, <2>4, Zenon
  <2> HIDE DEF PairingInit
  <2>13. Signed BY <2>9, <2>10, Zenon DEF Signed
  <2>14. NotKeyed BY <2>11, Zenon DEF NotKeyed
  <2>15. Established BY <2>9, <2>10, <2>12, Zenon DEF Established
  <2> QED BY <2>5, <2>6, <2>7, <2>8, <2>13, <2>14, <2>15, Zenon DEF PairingInv
<1>2. PairingInv /\ [PairingNext]_pairingVars => PairingInv'
  <2> SUFFICES ASSUME PairingInv, [PairingNext]_pairingVars PROVE PairingInv' BY Zenon
  <2>1. CASE UNCHANGED pairingVars
    <3> USE DEF PairingInv, pairingVars
    <3>1. PairingTypeOK' BY <2>1, Zenon DEF PairingTypeOK
    <3>2. Attempts' /\ Numbered' BY <2>1, Zenon DEF Attempts, Numbered, Code
    <3>3. Accepted' BY <2>1, Zenon DEF Accepted, Code
    <3>4. V3s' = V3s /\ V2s' = V2s /\ V4s' = V4s /\ \A c \in Controllers : HasSecret(c)' = HasSecret(c)
      BY <2>1, Zenon DEF V3s, V2s, V4s, HasSecret
    <3>5. Signed' BY <2>1, <3>4, Zenon DEF Signed
    <3>6. NotKeyed' BY <2>1, <3>4, Zenon DEF NotKeyed
    <3>7. Established' BY <2>1, <3>4, Zenon DEF Established
    <3> QED BY <3>1, <3>2, <3>3, <3>5, <3>6, <3>7, Zenon
  <2>2. ASSUME NEW c \in Controllers, NEW d \in down, OnResponse(c, d) PROVE PairingInv'
    BY <2>2, SetupM2Keeps, SetupM4Keeps, SetupM6Keeps, VerifyM2Keeps, VerifyM4Keeps, Zenon DEF OnResponse
  <2>3. ASSUME NEW m \in up, Handle(m) PROVE PairingInv'
    BY <2>3, HandleSetupM1Keeps, HandleSetupM3Keeps, HandleSetupM5Keeps, HandleVerifyM1Keeps,
       HandleVerifyM3Keeps, Zenon DEF Handle
  <2>4. ASSUME NEW c \in Controllers, StartSetup(c) \/ StartVerify(c) PROVE PairingInv'
    BY <2>4, BeginKeeps, Zenon DEF StartSetup, StartVerify
  <2>5. ASSUME NEW c \in Controllers, End(c) PROVE PairingInv' BY <2>5, EndKeeps, Zenon
  <2> QED BY <2>1, <2>2, <2>3, <2>4, <2>5, Zenon DEF PairingNext
<1> QED BY <1>1, <1>2, PTL DEF PairingSpec

\* The types, and no two controllers in the same call.
THEOREM PairingTypes == PairingSpec => []PairingTypeOK
<1>1. PairingInv => PairingTypeOK BY Zenon DEF PairingInv
<1> QED BY <1>1, PairingInvariant, PTL

\* Pair Setup ends only in a pairing that the accessory has accepted under the
\* setup code, whatever the network loses, repeats or delays.
THEOREM SetupsAgree == PairingSpec => []SetupAgreement
<1>1. PairingInv => SetupAgreement BY Zenon DEF PairingInv, Attempts, Accepted, SetupAgreement
<1> QED BY <1>1, PairingInvariant, PTL

\* A connected controller shares its session with the accessory, and no shared
\* secret keys two sessions.
THEOREM SessionsAgree == PairingSpec => []SessionAgreement
<1>1. PairingInv => SessionAgreement
  BY Zenon DEF PairingInv, Established, NotKeyed, SessionAgreement, HasSecret
<1> QED BY <1>1, PairingInvariant, PTL

-----------------------------------------------------------------------------
(* IpHandle *)

\* Where the foreground operation and the supervisor may be.
Places ==
    /\ op.pc = "idle" => op = NoOp
    /\ op.pc # "idle" => op.on # 0
    /\ op.pc = "record" => op.done
    /\ op.kind \in {"sub", "unsub"} => op.ch \in Chars
    /\ sup.pc # "resub" => sup.todo = {}

\* Configuration numbers only grow, and are learnt in order.
Numbers ==
    /\ op.ver <= cn /\ lastcn <= cn /\ sup.cn <= cn
    /\ sup.cn # 0 => lastcn <= sup.cn

\* The database a fetch has been answered with is treated like the cache.
Fetched ==
    /\ cache.known => lastcn # 0
    /\ op.known => lastcn # 0
    /\ op.kind = "fetch" /\ op.done /\ op.known /\ op.ver < lastcn => refresh
    /\ StaleCacheIsMarked

\* The newest session has every subscription, or has it on the list; one that
\* died in the middle of the list will not be used.
Kept ==
    /\ op.kind = "sub" /\ op.done => op.ch \in sess[op.on].subs
    /\ \/ sess[Fresh].st = "dead"
       \/ subscribed \subseteq sess[Fresh].subs \cup sess[Fresh].gone \cup late \cup sup.todo

HandleInv == TypeOK /\ Places /\ Numbers /\ Fetched /\ Kept

-----------------------------------------------------------------------------
(* records *)

\* What the steps of an operation make of its record.
LEMMA OpTypes ==
    ASSUME NEW r \in OpStates, NEW n \in Nat
    PROVE  /\ [r EXCEPT !.done = TRUE, !.ver = n] \in OpStates
           /\ [r EXCEPT !.pc = "record"] \in OpStates
           /\ [r EXCEPT !.pc = "wait"] \in OpStates
           /\ [r EXCEPT !.pc = "again", !.on = n, !.done = FALSE] \in OpStates
<1>1. [r EXCEPT !.done = TRUE, !.ver = n] \in OpStates BY Zenon DEF OpStates
<1>2. [r EXCEPT !.pc = "record"] \in OpStates BY Zenon DEF OpStates
<1>3. [r EXCEPT !.pc = "wait"] \in OpStates BY Zenon DEF OpStates
<1>4. [r EXCEPT !.pc = "again", !.on = n, !.done = FALSE] \in OpStates BY Zenon DEF OpStates
<1> QED BY <1>1, <1>2, <1>3, <1>4, Zenon

\* An operation at rest, and one that begins.
LEMMA NoOpTypes ==
    ASSUME NEW k \in Kinds, NEW c \in Chars \cup {0}, NEW n \in Nat, NEW b \in BOOLEAN
    PROVE  /\ NoOp \in OpStates
           /\ [NoOp EXCEPT !.kind = k, !.ch = c, !.on = n, !.pc = "sent", !.known = b]
                 \in OpStates
<1>1. NoOp \in OpStates BY Zenon DEF NoOp, OpStates, Kinds
<1>2. [NoOp EXCEPT !.kind = k, !.ch = c, !.on = n, !.pc = "sent", !.known = b] \in OpStates
  BY <1>1, Zenon DEF OpStates
<1> QED BY <1>1, <1>2, Zenon

\* A list grows by one at its end.
LEMMA Appended ==
    ASSUME NEW S, NEW q \in Seq(S), NEW r \in S
    PROVE  /\ Append(q, r) \in Seq(S) /\ Len(Append(q, r)) = Len(q) + 1
           /\ Append(q, r)[Len(q) + 1] = r /\ \A t \in 1..Len(q) : Append(q, r)[t] = q[t]
  OBVIOUS

\* A session is replaced in the list of sessions.
LEMMA SessionStep ==
    ASSUME TypeOK, NEW s \in 1..Len(sess), NEW r \in Sessions, sess' = [sess EXCEPT ![s] = r]
    PROVE  /\ sess' \in Seq(Sessions) /\ Len(sess') = Len(sess) /\ sess'[s] = r
           /\ \A t \in 1..Len(sess) : t # s => sess'[t] = sess[t]
  BY DEF TypeOK

-----------------------------------------------------------------------------
\* A new handle: one session, nothing subscribed, nothing cached.
LEMMA InitHandle == Init => HandleInv
<1> SUFFICES ASSUME Init PROVE HandleInv
  BY Zenon
<1>1. NewSession \in Sessions /\ NewSession.st = "up" BY Zenon DEF NewSession, Sessions
<1>2. sess \in Seq(Sessions) /\ Len(sess) = 1 BY <1>1 DEF Init
<1>3. op = NoOp /\ NoOp \in OpStates BY Zenon DEF Init, NoOp, OpStates, Kinds
<1>4. sup \in SupStates BY Zenon DEF Init, SupStates
<1>5. cache \in [ver : 0..MaxCn, known : BOOLEAN]
  <2>1. 0 \in 0..MaxCn BY HandleAssumption
  <2> QED BY <2>1, Zenon DEF Init, NoCache
<1>6. refresh \in BOOLEAN
  <2>1. refresh = FALSE BY Zenon DEF Init
  <2> QED BY <2>1, Zenon
<1>7. TypeOK
  BY HandleAssumption, <1>2, <1>3, <1>4, <1>5, <1>6, SMTT(30) DEF Init, TypeOK, NoOp
<1>8. Places /\ Numbers BY SMTT(30) DEF Init, Places, Numbers, NoOp
<1>9. Fetched BY Zenon DEF Init, Fetched, StaleCacheIsMarked, NoOp, NoCache
<1>10. Kept BY Zenon DEF Init, Kept, NoOp, Fresh
<1> QED BY <1>7, <1>8, <1>9, <1>10, Zenon DEF HandleInv

\* The types that the steps need.
LEMMA Facts ==
    ASSUME HandleInv
    PROVE  /\ sess \in Seq(Sessions) /\ Len(sess) \in Nat /\ Len(sess) <= MaxSessions
           /\ cur \in 1..Len(sess) /\ Fresh = Len(sess) /\ Fresh \in 1..Len(sess)
           /\ op \in OpStates /\ op.on \in 0..Len(sess) /\ op.on <= cur
           /\ op.ver \in Nat /\ op.on \in Nat /\ op.ch \in Chars \cup {0}
           /\ op.pc # "idle" => op.on \in 1..Len(sess)
           /\ sup \in SupStates /\ sup.cn \in Nat /\ sup.todo \subseteq Chars
           /\ lastcn \in 0..MaxCn /\ cn \in 1..MaxCn /\ ops \in 0..MaxOps
           /\ \A s \in 1..Len(sess) : sess[s] \in Sessions
           /\ subscribed \subseteq Chars /\ late \subseteq Chars
           /\ op.done => op.pc # "idle"
<1>1. TypeOK /\ Places BY Zenon DEF HandleInv
<1>2. /\ sess \in Seq(Sessions) /\ Len(sess) <= MaxSessions
      /\ cur \in 1..Len(sess) /\ op \in OpStates /\ op.on \in 0..Len(sess) /\ op.on <= cur
      /\ sup \in SupStates /\ lastcn \in 0..MaxCn /\ cn \in 1..MaxCn /\ ops \in 0..MaxOps
      /\ subscribed \subseteq Chars /\ late \subseteq Chars
  BY <1>1, Zenon DEF TypeOK
<1>3. Len(sess) \in Nat /\ \A s \in 1..Len(sess) : sess[s] \in Sessions BY <1>2
<1>4. op.ver \in Nat /\ op.on \in Nat /\ op.ch \in Chars \cup {0} BY <1>2, Zenon DEF OpStates
<1>5. sup.cn \in Nat /\ sup.todo \subseteq Chars BY <1>2, Zenon DEF SupStates
<1>6. op.pc # "idle" => op.on \in 1..Len(sess) BY <1>1, <1>2, <1>3 DEF Places
<1>7. op.done => op.pc # "idle"
  <2>1. op.pc = "idle" => op = NoOp BY <1>1, Zenon DEF Places
  <2>2. ~NoOp.done BY Zenon DEF NoOp
  <2> QED BY <2>1, <2>2, Zenon
<1>8. Fresh = Len(sess) /\ Fresh \in 1..Len(sess) BY <1>2, <1>3 DEF Fresh
<1> QED BY <1>2, <1>3, <1>4, <1>5, <1>6, <1>7, <1>8, Zenon

\* A step of the operation that leaves the handle, the supervisor and the
\* sessions alone.
LEMMA OpHandle ==
    ASSUME HandleInv, NEW r \in OpStates, op' = r, ops' \in 0..MaxOps,
           UNCHANGED <<sess, cur, sup, lastcn, refresh, cache, subscribed, cn, late>>,
           r.on \in 0..Len(sess), r.on <= cur,
           r.pc = "idle" => r = NoOp, r.pc # "idle" => r.on # 0,
           r.pc = "record" => r.done,
           r.kind \in {"sub", "unsub"} => r.ch \in Chars,
           r.ver <= cn, r.known => lastcn # 0,
           r.kind = "fetch" /\ r.done /\ r.known /\ r.ver < lastcn => refresh,
           r.kind = "sub" /\ r.done => r.ch \in sess[r.on].subs
    PROVE  HandleInv'
<1>1. TypeOK' BY Zenon DEF HandleInv, TypeOK
<1>2. Places' BY Zenon DEF HandleInv, Places
<1>3. Numbers' BY Zenon DEF HandleInv, Numbers
<1>4. Fetched' BY Zenon DEF HandleInv, Fetched, StaleCacheIsMarked
<1>5. Kept' BY Zenon DEF HandleInv, Kept, Fresh
<1> QED BY <1>1, <1>2, <1>3, <1>4, <1>5, Zenon DEF HandleInv

\* The operation ends without a result.
LEMMA EndHandle ==
    ASSUME HandleInv, op' = NoOp,
           UNCHANGED <<sess, cur, sup, lastcn, refresh, cache, subscribed, cn, late, ops>>
    PROVE  HandleInv'
<1>1. NoOp \in OpStates BY Zenon DEF NoOp, OpStates, Kinds
<1>2. /\ NoOp.on = 0 /\ NoOp.pc = "idle" /\ NoOp.kind = "none" /\ NoOp.ver = 0
      /\ ~NoOp.known /\ ~NoOp.done
  BY Zenon DEF NoOp
<1>3. 0 \in 0..Len(sess) /\ 0 <= cur /\ 0 <= cn /\ ops' \in 0..MaxOps BY Facts
<1> QED BY <1>1, <1>2, <1>3, OpHandle, Zenon

\* An operation begins on the published session.
LEMMA BeginHandle ==
    ASSUME HandleInv, NEW k \in Kinds, NEW c \in Chars \cup {0}
    PROVE  /\ Begin(k, c) \in OpStates
           /\ Begin(k, c).kind = k /\ Begin(k, c).ch = c /\ Begin(k, c).on = cur
           /\ Begin(k, c).pc = "sent" /\ Begin(k, c).ver = 0
           /\ ~Begin(k, c).done /\ (Begin(k, c).known => lastcn # 0)
<1> DEFINE b == lastcn # 0
<1>1. cur \in Nat BY Facts, SMTT(60)
<1>2. Begin(k, c) = [NoOp EXCEPT !.kind = k, !.ch = c, !.on = cur, !.pc = "sent", !.known = b]
  BY Zenon DEF Begin
<1>3. b \in BOOLEAN BY Zenon
<1>4. b => lastcn # 0 BY Zenon
<1> HIDE DEF b
<1>5. Begin(k, c) \in OpStates
  <2>1. [NoOp EXCEPT !.kind = k, !.ch = c, !.on = cur, !.pc = "sent", !.known = b] \in OpStates
    BY <1>1, <1>3, NoOpTypes, Zenon
  <2> QED BY <1>2, <2>1, Zenon
<1>6. /\ Begin(k, c).kind = k /\ Begin(k, c).ch = c /\ Begin(k, c).on = cur
      /\ Begin(k, c).pc = "sent" /\ Begin(k, c).ver = 0
      /\ Begin(k, c).done = FALSE /\ Begin(k, c).known = b
  BY <1>2, Zenon DEF NoOp
<1> QED BY <1>4, <1>5, <1>6, Zenon

\* subscribe, unsubscribe, reads and writes.
LEMMA CallHandle ==
    ASSUME HandleInv, NEW k \in Kinds, NEW c \in Chars \cup {0}, Call(k, c),
           k \in {"sub", "unsub"} => c \in Chars, k # "fetch"
    PROVE  HandleInv'
<1> DEFINE r == Begin(k, c)
<1>1. /\ op' = r /\ ops' = ops + 1 /\ ops < MaxOps
      /\ UNCHANGED <<sess, cur, sup, lastcn, refresh, cache, subscribed, cn, late>>
  BY Zenon DEF Call, supVars
<1>2. /\ r \in OpStates /\ r.kind = k /\ r.ch = c /\ r.on = cur /\ r.pc = "sent"
      /\ r.ver = 0 /\ ~r.done /\ (r.known => lastcn # 0)
  BY BeginHandle
<1> HIDE DEF r
<1>3. ops' \in 0..MaxOps BY <1>1, HandleAssumption, Facts
<1>4. r.on \in 0..Len(sess) /\ r.on <= cur /\ r.on # 0 /\ r.ver <= cn BY <1>2, Facts
<1> QED BY <1>1, <1>2, <1>3, <1>4, OpHandle, Zenon

\* accessories(): the cache is served, or dropped and asked for.
LEMMA AccessoriesHandle ==
    ASSUME HandleInv, Accessories
    PROVE  HandleInv'
<1>1. /\ refresh' = FALSE /\ ops' = ops + 1 /\ ops < MaxOps
      /\ UNCHANGED <<sess, cur, sup, lastcn, subscribed, cn, late>>
  BY Zenon DEF Accessories, supVars
<1>2. ops' \in 0..MaxOps /\ refresh' \in BOOLEAN
  <2>1. ops' \in 0..MaxOps BY <1>1, HandleAssumption, Facts
  <2> QED BY <1>1, <2>1, Zenon
<1>3. CASE cache.ver # 0 /\ ~refresh
  <2>1. UNCHANGED <<op, cache>> BY <1>3, Zenon DEF Accessories
  <2>2. op.pc = "idle" /\ op = NoOp /\ NoOp.kind = "none"
    BY Zenon DEF Accessories, HandleInv, Places, NoOp
  <2>3. TypeOK' BY <1>1, <1>2, <2>1, Zenon DEF HandleInv, TypeOK
  <2>4. Places' /\ Numbers' /\ Kept' BY <1>1, <2>1, Zenon DEF HandleInv, Places, Numbers, Kept, Fresh
  <2>5. Fetched' BY <1>1, <1>3, <2>1, <2>2, Zenon DEF HandleInv, Fetched, StaleCacheIsMarked
  <2> QED BY <2>3, <2>4, <2>5, Zenon DEF HandleInv
<1>4. CASE ~(cache.ver # 0 /\ ~refresh)
  <2> DEFINE r == Begin("fetch", 0)
  <2>1. op' = r /\ cache' = NoCache BY <1>4, Zenon DEF Accessories
  <2>2. /\ r \in OpStates /\ r.kind = "fetch" /\ r.on = cur /\ r.pc = "sent"
        /\ r.ver = 0 /\ ~r.done /\ (r.known => lastcn # 0)
    BY BeginHandle DEF Kinds
  <2> HIDE DEF r
  <2>3. ~NoCache.known /\ NoCache \in [ver : 0..MaxCn, known : BOOLEAN]
    <3>1. 0 \in 0..MaxCn BY HandleAssumption
    <3> QED BY <3>1, Zenon DEF NoCache
  <2>4. r.on \in 0..Len(sess) /\ r.on <= cur /\ r.on # 0 /\ r.ver <= cn BY <2>2, Facts
  <2>5. TypeOK' BY <1>1, <1>2, <2>1, <2>2, <2>3, <2>4, Zenon DEF HandleInv, TypeOK
  <2>6. Places' /\ Numbers' BY <1>1, <2>1, <2>2, <2>4, Zenon DEF HandleInv, Places, Numbers
  <2>7. Kept' BY <1>1, <2>1, <2>2, Zenon DEF HandleInv, Kept, Fresh
  <2>8. Fetched' BY <1>1, <2>1, <2>2, <2>3, Zenon DEF Fetched, StaleCacheIsMarked
  <2> QED BY <2>5, <2>6, <2>7, <2>8, Zenon DEF HandleInv
<1> QED BY <1>3, <1>4, Zenon

\* The accessory carries the request out: what it answers is as new as its
\* configuration number, which is no older than the last one learnt.
LEMMA CarriedOutHandle ==
    ASSUME HandleInv, CarriedOut
    PROVE  HandleInv'
<1> DEFINE r == [op EXCEPT !.done = TRUE, !.ver = cn]
           s == op.on
<1>1. /\ op' = r /\ op.pc # "idle" /\ op.pc # "record" /\ sess[s].st = "up"
      /\ UNCHANGED <<cur, sup, lastcn, refresh, cache, subscribed, ops, cn, late>>
  BY Zenon DEF CarriedOut, InFlight, supVars
<1>2. s \in 1..Len(sess) /\ sess[s] \in Sessions /\ op \in OpStates /\ cn \in Nat
  BY <1>1, Facts
<1>3. r \in OpStates BY <1>2, OpTypes, Zenon
<1>4. /\ r.kind = op.kind /\ r.ch = op.ch /\ r.on = op.on /\ r.pc = op.pc /\ r.ver = cn
      /\ r.known = op.known /\ r.done
  BY <1>2, Zenon DEF OpStates
<1> HIDE DEF r, s
<1> DEFINE new == CASE op.kind = "sub"   -> [sess[s] EXCEPT !.subs = @ \cup {op.ch}]
                    [] op.kind = "unsub" -> [sess[s] EXCEPT !.subs = @ \ {op.ch},
                                                             !.gone = @ \cup {op.ch}]
                    [] OTHER             -> sess[s]
<1>5. op.kind \in {"sub", "unsub"} => op.ch \in Chars BY Zenon DEF HandleInv, Places
<1>6. /\ new \in Sessions /\ new.st = sess[s].st
      /\ sess[s].subs \cup sess[s].gone \subseteq new.subs \cup new.gone
      /\ op.kind = "sub" => op.ch \in new.subs
  BY <1>2, <1>5, Zenon DEF Sessions
<1>7. sess' = [sess EXCEPT ![s] = new]
  <2>1. sess \in Seq(Sessions) BY Facts, Zenon
  <2>2. CASE op.kind = "sub" BY <1>2, <2>1, <2>2, Zenon DEF CarriedOut, s
  <2>3. CASE op.kind = "unsub" BY <1>2, <2>1, <2>3, Zenon DEF CarriedOut, s
  <2>4. CASE op.kind \notin {"sub", "unsub"} BY <1>2, <2>1, <2>4 DEF CarriedOut, s
  <2> QED BY <2>2, <2>3, <2>4, Zenon
<1> HIDE DEF new
<1>8. /\ sess' \in Seq(Sessions) /\ Len(sess') = Len(sess) /\ sess'[s] = new
      /\ \A t \in 1..Len(sess) : t # s => sess'[t] = sess[t]
  BY <1>2, <1>6, <1>7, SessionStep, Zenon DEF HandleInv
<1>9. lastcn <= cn /\ cn \in Nat /\ lastcn \in Nat BY Facts DEF HandleInv, Numbers
<1>10. TypeOK' BY <1>1, <1>3, <1>4, <1>8, Zenon DEF HandleInv, TypeOK, s
<1>11. Places' BY <1>1, <1>4, Zenon DEF HandleInv, Places
<1>12. Numbers' BY <1>1, <1>4, <1>9 DEF HandleInv, Numbers
<1>13. Fetched' BY <1>1, <1>4, <1>9 DEF HandleInv, Fetched, StaleCacheIsMarked
<1>14. Kept'
  <2>1. op'.ch = op.ch /\ op'.kind = op.kind /\ op'.on = s BY <1>1, <1>4, Zenon DEF s
  <2>2. Fresh' = Fresh /\ Fresh \in 1..Len(sess) BY <1>8, Facts, Zenon DEF Fresh
  <2>3. /\ sess'[Fresh].st = sess[Fresh].st
        /\ sess[Fresh].subs \cup sess[Fresh].gone \subseteq sess'[Fresh].subs \cup sess'[Fresh].gone
    BY <1>6, <1>8, <2>2, Zenon
  <2> QED BY <1>1, <1>6, <1>8, <2>1, <2>2, <2>3, Zenon DEF HandleInv, Kept
<1> QED BY <1>10, <1>11, <1>12, <1>13, <1>14, Zenon DEF HandleInv

\* The operation waits for a fresh session and retries on it, or has its answer.
LEMMA GoOnHandle ==
    ASSUME HandleInv, Response \/ SessionError \/ RequestTimeout \/ Retry
    PROVE  HandleInv'
<1>0. UNCHANGED <<sess, cur, sup, lastcn, refresh, cache, subscribed, cn, late, ops>>
  BY Zenon DEF Response, SessionError, RequestTimeout, Retry, supVars
<1>1. op \in OpStates /\ op.pc # "idle" /\ op.on # 0 /\ cur \in Nat /\ ops' \in 0..MaxOps
  <2>1. op.pc # "idle" BY Zenon DEF Response, SessionError, RequestTimeout, Retry, InFlight
  <2> QED BY <1>0, <2>1, Facts
<1>2. /\ op.on \in 0..Len(sess) /\ op.on <= cur /\ cur \in 0..Len(sess) /\ cur <= cur /\ cur # 0
      /\ op.ver <= cn
  BY Facts DEF HandleInv, Numbers
<1>3. CASE op' = NoOp BY <1>0, <1>3, EndHandle, Zenon
<1>4. CASE op' = [op EXCEPT !.pc = "record"] /\ op.done
  <2> DEFINE r == [op EXCEPT !.pc = "record"]
  <2>1. r \in OpStates BY <1>1, OpTypes, Zenon
  <2>2. /\ r.kind = op.kind /\ r.ch = op.ch /\ r.on = op.on /\ r.pc = "record"
        /\ r.ver = op.ver /\ r.known = op.known /\ r.done = op.done
    BY <1>1, Zenon DEF OpStates
  <2> HIDE DEF r
  <2>3. op' = r BY <1>4, Zenon DEF r
  <2>4. /\ op.kind \in {"sub", "unsub"} => op.ch \in Chars
        /\ op.known => lastcn # 0
        /\ op.kind = "fetch" /\ op.done /\ op.known /\ op.ver < lastcn => refresh
        /\ op.kind = "sub" /\ op.done => op.ch \in sess[op.on].subs
    BY Zenon DEF HandleInv, Places, Fetched, Kept
  <2> QED BY <1>0, <1>1, <1>2, <1>4, <2>1, <2>2, <2>3, <2>4, OpHandle, Zenon
<1>5. CASE op' = [op EXCEPT !.pc = "wait"]
  <2> DEFINE r == [op EXCEPT !.pc = "wait"]
  <2>1. r \in OpStates BY <1>1, OpTypes, Zenon
  <2>2. /\ r.kind = op.kind /\ r.ch = op.ch /\ r.on = op.on /\ r.pc = "wait"
        /\ r.ver = op.ver /\ r.known = op.known /\ r.done = op.done
    BY <1>1, Zenon DEF OpStates
  <2> HIDE DEF r
  <2>3. op' = r BY <1>5, Zenon DEF r
  <2>4. /\ op.kind \in {"sub", "unsub"} => op.ch \in Chars
        /\ op.known => lastcn # 0
        /\ op.kind = "fetch" /\ op.done /\ op.known /\ op.ver < lastcn => refresh
        /\ op.kind = "sub" /\ op.done => op.ch \in sess[op.on].subs
    BY Zenon DEF HandleInv, Places, Fetched, Kept
  <2> QED BY <1>0, <1>1, <1>2, <2>1, <2>2, <2>3, <2>4, OpHandle, Zenon
<1>6. CASE op' = Again
  <2>1. Again \in OpStates BY <1>1, OpTypes, Zenon DEF Again
  <2>2. /\ Again.kind = op.kind /\ Again.ch = op.ch /\ Again.on = cur /\ Again.pc = "again"
        /\ Again.ver = op.ver /\ Again.known = op.known /\ Again.done = FALSE
    BY <1>1, Zenon DEF OpStates, Again
  <2>3. /\ op.kind \in {"sub", "unsub"} => op.ch \in Chars
        /\ op.known => lastcn # 0
    BY Zenon DEF HandleInv, Places, Fetched
  <2> QED BY <1>0, <1>1, <1>2, <1>6, <2>1, <2>2, <2>3, OpHandle, Zenon
<1>7. \/ op' = NoOp \/ (op' = [op EXCEPT !.pc = "record"] /\ op.done)
      \/ op' = [op EXCEPT !.pc = "wait"] \/ op' = Again
  BY Zenon DEF Response, SessionError, RequestTimeout, Retry
<1> QED BY <1>3, <1>4, <1>5, <1>6, <1>7, Zenon

\* The operation has its response and updates the handle: what it learnt on a
\* session that has been replaced since is recorded as late.
LEMMA RecordHandle ==
    ASSUME HandleInv, Record
    PROVE  HandleInv'
<1>1. /\ op' = NoOp /\ op.pc = "record"
      /\ UNCHANGED <<sess, cur, sup, lastcn, refresh, ops, cn>>
  BY Zenon DEF Record, supVars
<1>2. cache' = IF op.kind = "fetch" THEN [ver |-> op.ver, known |-> op.known] ELSE cache
  BY Zenon DEF Record
<1>3. subscribed' = CASE op.kind = "sub"   -> subscribed \cup {op.ch}
                      [] op.kind = "unsub" -> subscribed \ {op.ch}
                      [] OTHER             -> subscribed
  BY Zenon DEF Record
<1>4. late' = IF op.kind = "sub" /\ op.on # Fresh THEN late \cup {op.ch} ELSE late
  BY Zenon DEF Record
<1>5. /\ op.done /\ (op.kind \in {"sub", "unsub"} => op.ch \in Chars)
  BY <1>1, Zenon DEF HandleInv, Places
<1>6. NoOp \in OpStates BY Zenon DEF NoOp, OpStates, Kinds
<1>7. /\ NoOp.on = 0 /\ NoOp.pc = "idle" /\ NoOp.kind = "none" /\ NoOp.ver = 0
      /\ ~NoOp.known /\ ~NoOp.done
  BY Zenon DEF NoOp
<1>8. /\ cur \in 1..Len(sess) /\ cn \in 1..MaxCn /\ lastcn \in 0..MaxCn /\ op.ver \in Nat
      /\ subscribed \subseteq Chars /\ late \subseteq Chars /\ op \in OpStates
  BY Facts, Zenon
<1>9. op.ver \in 0..MaxCn
  <2>1. op.ver <= cn BY Zenon DEF HandleInv, Numbers
  <2> QED BY <1>8, <2>1, HandleAssumption
<1>10. cache' \in [ver : 0..MaxCn, known : BOOLEAN]
  <2>1. op.known \in BOOLEAN BY <1>8, Zenon DEF OpStates
  <2>2. cache \in [ver : 0..MaxCn, known : BOOLEAN] BY Zenon DEF HandleInv, TypeOK
  <2>3. [ver |-> op.ver, known |-> op.known] \in [ver : 0..MaxCn, known : BOOLEAN]
    BY <1>9, <2>1, Zenon
  <2> QED BY <1>2, <2>2, <2>3, Zenon
<1>11. subscribed' \subseteq Chars /\ late' \subseteq Chars BY <1>3, <1>4, <1>5, <1>8, Zenon
<1>12. TypeOK'
  <2>1. 0 \in 0..Len(sess) /\ 0 <= cur BY <1>8
  <2> QED BY <1>1, <1>6, <1>7, <1>10, <1>11, <2>1, Zenon DEF HandleInv, TypeOK
<1>13. Places' BY <1>1, <1>7, Zenon DEF HandleInv, Places
<1>14. Numbers'
  <2>1. 0 <= cn BY <1>8
  <2> QED BY <1>1, <1>7, <2>1, Zenon DEF HandleInv, Numbers
<1>15. Fetched'
  <2>1. CASE op.kind = "fetch"
    <3>1. cache'.ver = op.ver /\ cache'.known = op.known BY <1>2, <2>1, Zenon
    <3> QED BY <1>1, <1>5, <1>7, <2>1, <3>1, Zenon DEF HandleInv, Fetched, StaleCacheIsMarked
  <2>2. CASE op.kind # "fetch"
    <3>1. cache' = cache BY <1>2, <2>2, Zenon
    <3> QED BY <1>1, <1>7, <3>1, Zenon DEF HandleInv, Fetched, StaleCacheIsMarked
  <2> QED BY <2>1, <2>2, Zenon
<1>16. Kept'
  <2>1. Fresh' = Fresh /\ sess' = sess /\ sup' = sup /\ op'.kind = "none"
    BY <1>1, <1>7, Zenon DEF Fresh
  <2>2. op.kind = "sub" => op.ch \in sess[op.on].subs BY <1>5, Zenon DEF HandleInv, Kept
  <2>3. subscribed' \subseteq subscribed \cup (IF op.kind = "sub" THEN {op.ch} ELSE {})
    BY <1>3, Zenon
  <2>4. late \subseteq late' BY <1>4, Zenon
  <2>5. op.kind = "sub" => op.ch \in sess[Fresh].subs \cup late' BY <1>4, <2>2, Zenon
  <2> QED BY <2>1, <2>3, <2>4, <2>5, Zenon DEF HandleInv, Kept
<1> QED BY <1>12, <1>13, <1>14, <1>15, <1>16, Zenon DEF HandleInv

\* The supervisor, before it has a new session.
LEMMA SearchHandle ==
    ASSUME HandleInv, SessionDied \/ Discover \/ ReconnectFails
    PROVE  HandleInv'
<1>1. UNCHANGED <<sess, cur, lastcn, refresh, cache, subscribed, op, ops, cn, late>>
  BY Zenon DEF SessionDied, Discover, ReconnectFails
<1>2. sup \in SupStates /\ cn \in Nat /\ lastcn \in Nat BY Facts
<1>3. /\ sup' \in SupStates /\ sup.pc # "resub" /\ sup'.pc # "resub" /\ sup'.todo = sup.todo
      /\ sup'.cn \in {sup.cn, 0, cn}
  <2>1. CASE SessionDied BY <1>2, <2>1, Zenon DEF SessionDied, SupStates
  <2>2. CASE Discover
    <3>1. PICK found \in {0, cn} : sup' = [sup EXCEPT !.pc = "verify", !.cn = found]
      BY <2>2, Zenon DEF Discover
    <3>2. found \in Nat /\ sup.pc = "discover" BY <1>2, <2>2 DEF Discover
    <3> QED BY <1>2, <3>1, <3>2, Zenon DEF SupStates
  <2>3. CASE ReconnectFails BY <1>2, <2>3, Zenon DEF ReconnectFails, SupStates
  <2> QED BY <2>1, <2>2, <2>3, Zenon
<1>4. TypeOK' BY <1>1, <1>3, Zenon DEF HandleInv, TypeOK
<1>5. Places' BY <1>1, <1>3, Zenon DEF HandleInv, Places
<1>6. Numbers' BY <1>1, <1>2, <1>3 DEF HandleInv, Numbers
<1>7. Fetched' BY <1>1, Zenon DEF HandleInv, Fetched, StaleCacheIsMarked
<1>8. Kept' BY <1>1, <1>3, Zenon DEF HandleInv, Kept, Fresh
<1> QED BY <1>4, <1>5, <1>6, <1>7, <1>8, Zenon DEF HandleInv

\* A new session: the number it was found with is compared with the last one,
\* and everything subscribed goes on the list.
LEMMA ReconnectedHandle ==
    ASSUME HandleInv, Reconnected
    PROVE  HandleInv'
<1>1. /\ sup.pc = "verify" /\ Len(sess) < MaxSessions
      /\ sess' = Append(sess, NewSession)
      /\ sup' = [pc |-> "resub", todo |-> subscribed, cn |-> 0]
      /\ late' = late \ subscribed
      /\ UNCHANGED <<cur, cache, subscribed, op, ops, cn>>
  BY Zenon DEF Reconnected
<1>2. NoteConfigNumber(sup.cn) BY Zenon DEF Reconnected
<1>3. /\ sess \in Seq(Sessions) /\ Len(sess) \in Nat /\ cur \in 1..Len(sess)
      /\ op.on \in 0..Len(sess) /\ subscribed \subseteq Chars /\ late \subseteq Chars
      /\ sup.cn \in Nat /\ lastcn \in Nat /\ cn \in 1..MaxCn /\ MaxSessions \in Nat
      /\ op.pc # "idle" => op.on \in 1..Len(sess)
      /\ op.done => op.pc # "idle"
  BY Facts, HandleAssumption
<1>4. NewSession \in Sessions /\ NewSession.subs = {} /\ NewSession.gone = {}
  BY Zenon DEF NewSession, Sessions
<1>5. /\ sess' \in Seq(Sessions) /\ Len(sess') = Len(sess) + 1 /\ sess'[Len(sess) + 1] = NewSession
      /\ \A t \in 1..Len(sess) : sess'[t] = sess[t]
  <2>1. sess' = Append(sess, NewSession) BY <1>1, Zenon
  <2>2. sess \in Seq(Sessions) /\ NewSession \in Sessions BY <1>3, <1>4, Zenon
  <2> QED BY <2>1, <2>2, Appended, Zenon
<1>6. sup' \in SupStates /\ sup'.pc = "resub" /\ sup'.todo = subscribed /\ sup'.cn = 0
  BY <1>1, <1>3, Zenon DEF SupStates
<1>7. /\ refresh \in BOOLEAN /\ (sup.cn # 0 => lastcn <= sup.cn) /\ sup.cn <= cn /\ lastcn <= cn
  BY Zenon DEF HandleInv, TypeOK, Numbers
<1>8. lastcn' \in 0..MaxCn /\ lastcn' <= cn /\ lastcn' = (IF sup.cn = 0 THEN lastcn ELSE sup.cn)
  BY <1>2, <1>3, <1>7, HandleAssumption DEF NoteConfigNumber
<1>9. /\ refresh' \in BOOLEAN /\ (refresh => refresh')
      /\ lastcn # 0 /\ lastcn' # lastcn => refresh'
  <2>1. CASE sup.cn = 0 BY <1>2, <1>7, <2>1, Zenon DEF NoteConfigNumber
  <2>2. CASE sup.cn # 0
    <3> DEFINE b == lastcn # 0 /\ lastcn # sup.cn
    <3>1. refresh' = (refresh \/ b) BY <1>2, <2>2, Zenon DEF NoteConfigNumber
    <3>2. b \in BOOLEAN BY Zenon
    <3>3. lastcn # 0 /\ lastcn' # lastcn => b BY <1>8, <2>2, Zenon
    <3> HIDE DEF b
    <3> QED BY <1>7, <3>1, <3>2, <3>3, Zenon
  <2> QED BY <2>1, <2>2, Zenon
<1>10. TypeOK'
  <2>1. /\ Len(sess') <= MaxSessions /\ cur' \in 1..Len(sess') /\ op'.on \in 0..Len(sess')
        /\ cur' < Len(sess')
    BY <1>1, <1>3, <1>5
  <2>2. late' \subseteq Chars BY <1>1, <1>3, Zenon
  <2> QED BY <1>1, <1>5, <1>6, <1>8, <1>9, <2>1, <2>2, Zenon DEF HandleInv, TypeOK
<1>11. Places' BY <1>1, <1>6, Zenon DEF HandleInv, Places
<1>12. Numbers' BY <1>1, <1>3, <1>6, <1>8, SMTT(30) DEF HandleInv, Numbers
<1>13. Fetched'
  <2>1. cache' = cache /\ op' = op BY <1>1, Zenon
  <2>2. /\ cache.known => lastcn # 0
        /\ op.known => lastcn # 0
        /\ op.kind = "fetch" /\ op.done /\ op.known /\ op.ver < lastcn => refresh
        /\ cache.known /\ cache.ver < lastcn => refresh
    BY Zenon DEF HandleInv, Fetched, StaleCacheIsMarked
  <2>3. lastcn # 0 => lastcn' # 0 BY <1>8, Zenon
  <2>4. CASE lastcn' = lastcn BY <1>9, <2>1, <2>2, <2>4, Zenon DEF Fetched, StaleCacheIsMarked
  <2>5. CASE lastcn' # lastcn BY <1>9, <2>1, <2>2, <2>3, <2>5, Zenon DEF Fetched, StaleCacheIsMarked
  <2> QED BY <2>4, <2>5, Zenon
<1>14. Kept'
  <2>1. op' = op /\ subscribed' = subscribed /\ Fresh' = Len(sess) + 1 BY <1>1, <1>5, Zenon DEF Fresh
  <2>2. op.kind = "sub" /\ op.done => op.ch \in sess'[op.on].subs
    BY <1>3, <1>5, Zenon DEF HandleInv, Kept
  <2> QED BY <1>6, <2>1, <2>2, Zenon DEF Kept
<1> QED BY <1>10, <1>11, <1>12, <1>13, <1>14, Zenon DEF HandleInv

\* One subscription of the list is asked for: granted, refused, or lost with
\* the session.
LEMMA ResubscribeHandle ==
    ASSUME HandleInv, NEW c \in Chars, Resubscribe(c)
    PROVE  HandleInv'
<1>1. /\ sup.pc = "resub" /\ c \in sup.todo /\ sup' = [sup EXCEPT !.todo = @ \ {c}]
      /\ UNCHANGED <<cur, lastcn, refresh, cache, subscribed, op, ops, cn, late>>
  BY Zenon DEF Resubscribe
<1>2. /\ sess \in Seq(Sessions) /\ Len(sess) \in Nat /\ Fresh \in 1..Len(sess)
      /\ sess[Fresh] \in Sessions /\ sup \in SupStates
      /\ op.pc # "idle" => op.on \in 1..Len(sess)
      /\ op.done => op.pc # "idle"
  BY Facts, Zenon
<1>3. /\ sup' \in SupStates /\ sup'.pc = sup.pc /\ sup'.cn = sup.cn
      /\ sup'.todo = sup.todo \ {c}
  BY <1>1, <1>2, Zenon DEF SupStates
<1>4. PICK r \in Sessions :
          /\ sess' = [sess EXCEPT ![Fresh] = r]
          /\ r.st = sess[Fresh].st /\ sess[Fresh].subs \subseteq r.subs
          /\ sess[Fresh].gone \subseteq r.gone
          /\ r.st = "dead" \/ c \in r.subs \cup r.gone
  <2>1. CASE sess[Fresh].st = "up" /\ sess' = [sess EXCEPT ![Fresh].subs = @ \cup {c}]
    <3> DEFINE r == [sess[Fresh] EXCEPT !.subs = @ \cup {c}]
    <3>1. /\ r \in Sessions /\ r.st = sess[Fresh].st /\ r.subs = sess[Fresh].subs \cup {c}
          /\ r.gone = sess[Fresh].gone
      BY <1>2, Zenon DEF Sessions
    <3>2. sess' = [sess EXCEPT ![Fresh] = r] BY <1>2, <2>1, Zenon
    <3> HIDE DEF r
    <3> QED BY <3>1, <3>2, Zenon
  <2>2. CASE sess[Fresh].st = "up" /\ sess' = [sess EXCEPT ![Fresh].gone = @ \cup {c}]
    <3> DEFINE r == [sess[Fresh] EXCEPT !.gone = @ \cup {c}]
    <3>1. /\ r \in Sessions /\ r.st = sess[Fresh].st /\ r.gone = sess[Fresh].gone \cup {c}
          /\ r.subs = sess[Fresh].subs
      BY <1>2, Zenon DEF Sessions
    <3>2. sess' = [sess EXCEPT ![Fresh] = r] BY <1>2, <2>2, Zenon
    <3> HIDE DEF r
    <3> QED BY <3>1, <3>2, Zenon
  <2>3. CASE sess[Fresh].st = "dead" /\ UNCHANGED sess
    <3>1. sess' = [sess EXCEPT ![Fresh] = sess[Fresh]] BY <1>2, <2>3
    <3> QED BY <1>2, <2>3, <3>1, Zenon
  <2> QED BY <2>1, <2>2, <2>3, Zenon DEF Resubscribe
<1>5. /\ sess' \in Seq(Sessions) /\ Len(sess') = Len(sess) /\ sess'[Fresh] = r
      /\ \A t \in 1..Len(sess) : t # Fresh => sess'[t] = sess[t]
  BY <1>2, <1>4, SessionStep, Zenon DEF HandleInv
<1>6. TypeOK' BY <1>1, <1>3, <1>5, Zenon DEF HandleInv, TypeOK
<1>7. Places' BY <1>1, <1>3, Zenon DEF HandleInv, Places
<1>8. Numbers' BY <1>1, <1>3, Zenon DEF HandleInv, Numbers
<1>9. Fetched' BY <1>1, Zenon DEF HandleInv, Fetched, StaleCacheIsMarked
<1>10. Kept'
  <2>1. op' = op /\ subscribed' = subscribed /\ late' = late /\ Fresh' = Fresh
    BY <1>1, <1>5, Zenon DEF Fresh
  <2>2. op.kind = "sub" /\ op.done => op.ch \in sess'[op.on].subs
    BY <1>2, <1>4, <1>5, Zenon DEF HandleInv, Kept
  <2>3. \/ r.st = "dead"
        \/ subscribed \subseteq r.subs \cup r.gone \cup late \cup sup'.todo
    BY <1>3, <1>4, Zenon DEF HandleInv, Kept
  <2> QED BY <1>5, <2>1, <2>2, <2>3, Zenon DEF Kept
<1> QED BY <1>6, <1>7, <1>8, <1>9, <1>10, Zenon DEF HandleInv

\* The new session is published once the list is empty.
LEMMA PublishHandle ==
    ASSUME HandleInv, Publish
    PROVE  HandleInv'
<1>1. /\ sup.pc = "resub" /\ sup.todo = {} /\ cur' = Fresh /\ sup' = [sup EXCEPT !.pc = "drain"]
      /\ UNCHANGED <<sess, lastcn, refresh, cache, subscribed, op, ops, cn, late>>
  BY Zenon DEF Publish
<1>2. /\ sup \in SupStates /\ Fresh = Len(sess) /\ Len(sess) \in Nat /\ Fresh \in 1..Len(sess)
      /\ op.on \in 0..Len(sess)
  BY Facts, Zenon
<1>3. /\ sup' \in SupStates /\ sup'.pc = "drain" /\ sup'.cn = sup.cn /\ sup'.todo = {}
  BY <1>1, <1>2, Zenon DEF SupStates
<1>4. TypeOK' BY <1>1, <1>2, <1>3 DEF HandleInv, TypeOK
<1>5. Places' BY <1>1, <1>3, Zenon DEF HandleInv, Places
<1>6. Numbers' BY <1>1, <1>3, Zenon DEF HandleInv, Numbers
<1>7. Fetched' BY <1>1, Zenon DEF HandleInv, Fetched, StaleCacheIsMarked
<1>8. Kept' BY <1>1, <1>3, Zenon DEF HandleInv, Kept, Fresh
<1> QED BY <1>4, <1>5, <1>6, <1>7, <1>8, Zenon DEF HandleInv

\* A session fails; one that is dead does not come back.
LEMMA FailHandle ==
    ASSUME HandleInv, NEW s \in 1..Len(sess), SessionFails(s) \/ HungDies(s)
    PROVE  HandleInv'
<1>1. UNCHANGED <<cur, sup, lastcn, refresh, cache, subscribed, op, ops, cn, late>>
  BY Zenon DEF SessionFails, HungDies, supVars
<1>2. /\ sess \in Seq(Sessions) /\ sess[s] \in Sessions /\ Fresh \in 1..Len(sess)
      /\ op.pc # "idle" => op.on \in 1..Len(sess)
      /\ op.done => op.pc # "idle"
  BY Facts, Zenon
<1>3. PICK st \in {"hung", "dead"} : sess' = [sess EXCEPT ![s].st = st]
  BY Zenon DEF SessionFails, HungDies
<1> DEFINE r == [sess[s] EXCEPT !.st = st]
<1>4. r \in Sessions /\ r.subs = sess[s].subs /\ r.gone = sess[s].gone BY <1>2, Zenon DEF Sessions
<1>5. sess' = [sess EXCEPT ![s] = r] /\ sess[s].st # "dead"
  BY <1>2, <1>3, Zenon DEF SessionFails, HungDies
<1> HIDE DEF r
<1>6. /\ sess' \in Seq(Sessions) /\ Len(sess') = Len(sess) /\ sess'[s] = r
      /\ \A t \in 1..Len(sess) : t # s => sess'[t] = sess[t]
  BY <1>4, <1>5, SessionStep, Zenon DEF HandleInv
<1>7. TypeOK' BY <1>1, <1>6, Zenon DEF HandleInv, TypeOK
<1>8. Places' /\ Numbers' BY <1>1, Zenon DEF HandleInv, Places, Numbers
<1>9. Fetched' BY <1>1, Zenon DEF HandleInv, Fetched, StaleCacheIsMarked
<1>10. Kept'
  <2>1. Fresh' = Fresh BY <1>6, Zenon DEF Fresh
  <2>2. /\ sess'[Fresh].subs = sess[Fresh].subs /\ sess'[Fresh].gone = sess[Fresh].gone
        /\ sess[Fresh].st = "dead" => sess'[Fresh].st = "dead"
    BY <1>2, <1>4, <1>5, <1>6, Zenon
  <2>3. op.done => sess'[op.on].subs = sess[op.on].subs BY <1>2, <1>4, <1>6, Zenon
  <2> QED BY <1>1, <2>1, <2>2, <2>3, Zenon DEF HandleInv, Kept
<1> QED BY <1>7, <1>8, <1>9, <1>10, Zenon DEF HandleInv

\* The accessory's configuration changes.
LEMMA ReconfigureHandle ==
    ASSUME HandleInv, Reconfigure
    PROVE  HandleInv'
<1>1. /\ cn' = cn + 1 /\ cn < MaxCn
      /\ UNCHANGED <<sess, cur, sup, lastcn, refresh, cache, subscribed, op, ops, late>>
  BY Zenon DEF Reconfigure, supVars
<1>2. /\ cn \in 1..MaxCn /\ lastcn \in 0..MaxCn /\ sup.cn \in Nat /\ op.ver \in Nat
  BY Facts, Zenon
<1>3. TypeOK' BY <1>1, <1>2, HandleAssumption, SMTT(30) DEF HandleInv, TypeOK
<1>4. Places' BY <1>1, Zenon DEF HandleInv, Places
<1>5. Numbers' BY <1>1, <1>2, HandleAssumption DEF HandleInv, Numbers
<1>6. Fetched' BY <1>1, Zenon DEF HandleInv, Fetched, StaleCacheIsMarked
<1>7. Kept' BY <1>1, Zenon DEF HandleInv, Kept, Fresh
<1> QED BY <1>3, <1>4, <1>5, <1>6, <1>7, Zenon DEF HandleInv

\* A step that changes nothing.
LEMMA StutterHandle ==
    ASSUME HandleInv, UNCHANGED vars
    PROVE  HandleInv'
<1>1. TypeOK' /\ Places' /\ Numbers' BY Zenon DEF HandleInv, vars, TypeOK, Places, Numbers
<1>2. Fetched' BY Zenon DEF HandleInv, vars, Fetched, StaleCacheIsMarked
<1>3. Kept' BY Zenon DEF HandleInv, vars, Kept, Fresh
<1> QED BY <1>1, <1>2, <1>3, Zenon DEF HandleInv

-----------------------------------------------------------------------------
\* The inductive invariant of the self-healing handle.
THEOREM HandleInvariant == Spec => []HandleInv
<1>1. HandleInv /\ [Next]_vars => HandleInv'
  <2> SUFFICES ASSUME HandleInv, [Next]_vars PROVE HandleInv'
    BY Zenon
  <2>1. CASE UNCHANGED vars BY <2>1, StutterHandle, Zenon
  <2>2. CASE SupStep
    BY <2>2, SearchHandle, ReconnectedHandle, PublishHandle, ResubscribeHandle, Zenon DEF SupStep
  <2>3. CASE OpStep
    <3>1. CASE CarriedOut \/ Record BY <3>1, CarriedOutHandle, RecordHandle, Zenon
    <3>2. CASE Response \/ SessionError \/ RequestTimeout \/ Retry BY <3>2, GoOnHandle, Zenon
    <3>3. CASE Refused \/ WaitExpires BY <3>3, EndHandle, Zenon DEF Refused, WaitExpires, supVars
    <3> QED BY <2>3, <3>1, <3>2, <3>3, Zenon DEF OpStep
  <2>4. CASE Accessories \/ Reconfigure BY <2>4, AccessoriesHandle, ReconfigureHandle, Zenon
  <2>5. CASE Cancel BY <2>5, EndHandle, Zenon DEF Cancel, supVars
  <2>6. CASE Idle BY <2>6, StutterHandle, Zenon DEF Idle
  <2>7. CASE Call("write", 0) BY <2>7, CallHandle, Zenon DEF Kinds
  <2>8. ASSUME NEW c \in Chars, NEW k \in {"sub", "unsub"}, Call(k, c) PROVE HandleInv'
    BY <2>8, CallHandle, Zenon DEF Kinds
  <2>9. ASSUME NEW s \in 1..Len(sess), SessionFails(s) \/ HungDies(s) PROVE HandleInv'
    BY <2>9, FailHandle, Zenon
  <2> QED BY <2>1, <2>2, <2>3, <2>4, <2>5, <2>6, <2>7, <2>8, <2>9, Zenon DEF Next
<1> QED BY <1>1, InitHandle, PTL DEF Spec

\* Types of the handle: an operation is at a session that was published, and
\* the supervisor re-subscribes exactly while a newer session is not.
THEOREM HandleTypes == Spec => []TypeOK
  BY HandleInvariant, PTL DEF HandleInv

\* "a foreground waiter that wakes on the new session already has its
\* subscriptions in place", for any set of characteristics, however often the
\* session is replaced and whatever operations overlap it.
THEOREM SubscriptionsSurvive == Spec => []SubscriptionsKept
<1>1. HandleInv => SubscriptionsKept
  <2> SUFFICES ASSUME HandleInv, sess[cur].st = "up", cur = Fresh
               PROVE  subscribed \subseteq sess[cur].subs \cup sess[cur].gone \cup late
    BY Zenon DEF SubscriptionsKept
  <2>1. sup.pc # "resub"
    <3>1. cur \in Nat /\ Len(sess) \in Nat /\ cur = Len(sess) BY Facts, Zenon
    <3> QED BY <3>1, SMTT(60) DEF HandleInv, TypeOK
  <2>2. sup.todo = {} BY <2>1, Zenon DEF HandleInv, Places
  <2> QED BY <2>2, Zenon DEF HandleInv, Kept
<1> QED BY <1>1, HandleInvariant, PTL

\* accessories() never serves a database older than the configuration number
\* of the last reconnect unmarked, whatever fetch and reconnect overlap.
THEOREM StaleCacheIsAlwaysMarked == Spec => []StaleCacheIsMarked
  BY HandleInvariant, PTL DEF HandleInv, Fetched

=============================================================================
