------------------------------ MODULE SrpSetup ------------------------------
(***************************************************************************)
(* Pair Setup with the arithmetic of SRP-6a: srp.rs and pair_setup.rs of   *)
(* crates/hap-crypto against the setup handlers of crates/hap-thread-dut.  *)
(* Pairing has the same exchange with keys as symbols, many controllers    *)
(* and a network; here there is one client, a group small enough to        *)
(* compute in, and an application that may hand the client any response it *)
(* has received, again, late, after an error, or with a field missing.     *)
(*                                                                         *)
(* A hash of bytes is the tuple of what is hashed, except where the code   *)
(* goes on to compute with it: k, u and x are small numbers.               *)
(***************************************************************************)
EXTENDS Integers, Sequences

CONSTANTS
    SrpN, SrpG,       \* the group
    Radix,            \* of a byte
    SrpK,             \* the multiplier
    Scramblers,       \* u is below this
    Exponent,         \* password -> the part of x it makes
    Spellings,        \* setup codes as the user may enter them
    DeviceCode,       \* the accessory's, as it is configured
    CodeDigits,       \* 8 in the code
    Privates, Salts,  \* private exponents and salts to draw from
    MaxStarts, MaxTurns

\* g is a unit modulo N, as every number from 1 to N - 1 is when N is prime, and
\* a number below N has one or two bytes.
ASSUME SrpAssumption ==
    /\ SrpN \in Nat \ {0, 1} /\ SrpG \in 1 .. SrpN - 1
    /\ \E h \in 1 .. SrpN - 1 : (SrpG * h) % SrpN = 1
    /\ Radix \in Nat \ {0, 1} /\ SrpN <= Radix * Radix
    /\ SrpK \in Nat /\ Scramblers \in Nat \ {0}
    /\ Privates \subseteq Nat /\ Salts \subseteq Nat

VARIABLES
    machine,      \* the PairSetupClient
    in_progress,  \* the accessory's slot
    requests, replies,   \* sent so far, by either side
    step,         \* what the client's last call returned
    served,       \* the controllers the accessory has accepted, with the key
    starts, turns

srpVars == <<machine, in_progress, requests, replies, step, served, starts, turns>>

-----------------------------------------------------------------------------
\* SrpGroup: bytes of N, and numbers as bytes of that width.
ToBe(n) == IF n < Radix THEN <<n>> ELSE <<n \div Radix, n % Radix>>
n_len == Len(ToBe(SrpN))
pad(n) == IF n_len = 1 THEN <<n>> ELSE <<n \div Radix, n % Radix>>
FromBe(bytes) == IF Len(bytes) = 1 THEN bytes[1] ELSE bytes[1] * Radix + bytes[2]
modpow(base, e) ==
    LET p[i \in Nat] ==
          IF i = 0 THEN 1
          ELSE LET h == p[i \div 2]
               IN  (((h * h) % SrpN) * (IF i % 2 = 1 THEN base ELSE 1)) % SrpN
    IN  p[e]

compute_k == SrpK
compute_x(salt, password) == salt + Exponent[password]
compute_v(x) == modpow(SrpG, x)
compute_u(a_pub, b_pub) == (FromBe(pad(a_pub)) + 2 * FromBe(pad(b_pub))) % Scramblers
compute_b(v, b) == (((compute_k * v) % SrpN) + modpow(SrpG, b)) % SrpN
srp_hash(s) == pad(s)
proof_m1(salt, a_pub, b_pub, key) == <<"M1", salt, pad(a_pub), pad(b_pub), key>>
proof_m2(a_pub, m1, key) == <<"M2", pad(a_pub), m1, key>>

\* SrpServer::with_salt_and_private.
srp_server(salt, password, b) ==
    LET v == compute_v(compute_x(salt, password))
    IN  [st |-> 3, v |-> v, b |-> b, b_pub |-> compute_b(v, b), salt |-> salt, key |-> <<>>]

\* SrpServer::session_key, in a sequence of at most one.
server_session_key(srv, a_pub) ==
    LET u == compute_u(a_pub, srv.b_pub)
    IN  IF a_pub % SrpN = 0 \/ u = 0 THEN <<>>
        ELSE <<srp_hash(modpow((a_pub * modpow(srv.v, u)) % SrpN, srv.b))>>

\* The accessory's proof, if the controller's is right.
verify_m1_prove_m2(srv, a_pub, m1) ==
    LET k == server_session_key(srv, a_pub)
    IN  IF k = <<>> THEN <<>>
        ELSE IF m1 = proof_m1(srv.salt, a_pub, srv.b_pub, k[1]) THEN <<proof_m2(a_pub, m1, k[1])>> ELSE <<>>

\* Plausible fault: the exponent leaves out the scrambler.
premaster_unscrambled(a, a_pub, salt, password, b_pub) ==
    LET x == compute_x(salt, password)
    IN  IF b_pub % SrpN = 0 \/ compute_u(a_pub, b_pub) = 0 THEN <<>>
        ELSE <<modpow((b_pub + SrpN - ((compute_k * modpow(SrpG, x)) % SrpN)) % SrpN, a + x)>>

\* SrpClient::premaster, in a sequence of at most one.
premaster(a, a_pub, salt, password, b_pub) ==
    LET x    == compute_x(salt, password)
        u    == compute_u(a_pub, b_pub)
        base == (b_pub + SrpN - ((compute_k * modpow(SrpG, x)) % SrpN)) % SrpN
    IN  IF b_pub % SrpN = 0 \/ u = 0 THEN <<>> ELSE <<modpow(base, a + u * x)>>

\* verify_m2: the proof an accessory with the same key makes.
verify_m2(a_pub, m1, key, proof) == proof = proof_m2(a_pub, m1, key)

\* normalize_setup_code, of a spelling with its digits and what is between them.
normalize_setup_code(code) ==
    IF Len(code.digits) = CodeDigits THEN [digits |-> code.digits, between |-> "hyphens"] ELSE code

\* Every code has an exponent, and a wrong one does not come to the accessory's
\* key: the hardness that SRP rests on.
ASSUME SetupCodeAssumption ==
    /\ \A code \in Spellings \cup {DeviceCode} : Exponent[normalize_setup_code(code)] \in Nat
    /\ \A code \in Spellings, a \in Privates, b \in Privates, salt \in Salts :
        LET srv   == srp_server(salt, normalize_setup_code(DeviceCode), b)
            a_pub == modpow(SrpG, a)
            s     == premaster(a, a_pub, salt, normalize_setup_code(code), srv.b_pub)
        IN  normalize_setup_code(code) # normalize_setup_code(DeviceCode) /\ s # <<>> =>
                <<srp_hash(s[1])>> # server_session_key(srv, a_pub)

-----------------------------------------------------------------------------
\* A message has each of its TLVs or not: sequences of at most one.
Tlv(state, error, salt, pk, proof, data) ==
    [state |-> state, error |-> error, salt |-> salt, pk |-> pk, proof |-> proof, data |-> data]
Sealed(key, nonce, id, signature) == [key |-> key, nonce |-> nonce, id |-> id, signature |-> signature]
EncryptKey(k) == <<"Pair-Setup-Encrypt", k>>
Signed(by, k, id) == <<by, k, id>>
AUTHENTICATION == 2

check_error(r) ==
    CASE r.error = <<>> -> "ok"
      [] r.error = <<AUTHENTICATION>> -> "proof mismatch"
      [] OTHER -> "pairing error"
\* A missing State is tolerated.
expect_state(r, n) == r.state = <<>> \/ r.state = <<n>>

Client(st, code, a, k, m1) == [st |-> st, code |-> code, a |-> a, key |-> k, m1 |-> m1]
NoSlot == [st |-> 0, v |-> 0, b |-> 0, b_pub |-> 0, salt |-> 0, key |-> <<>>]

SrpInit ==
    /\ \E code \in Spellings, a \in Privates : machine = Client("Initial", code, a, <<>>, <<>>)
    /\ in_progress = NoSlot /\ requests = {} /\ replies = {} /\ step = "none" /\ served = {}
    /\ starts = 0 /\ turns = 0

\* Of the client: its A and its password.
a_pub_of(m) == modpow(SrpG, m.a)
password_of(m) == normalize_setup_code(m.code)

Send(msg) == requests' = requests \cup {msg} /\ step' = "send"
Error(why) == step' = why /\ UNCHANGED <<machine, requests>>

\* start, which also starts over.
start ==
    /\ starts < MaxStarts
    /\ starts' = starts + 1
    /\ machine' = Client("AwaitingM2", machine.code, machine.a, <<>>, <<>>)
    /\ Send(Tlv(<<1>>, <<>>, <<>>, <<>>, <<>>, <<>>))
    /\ UNCHANGED <<in_progress, replies, served, turns>>

handle_m2(r) ==
    LET b_pub == FromBe(r.pk[1])
        s     == premaster(machine.a, a_pub_of(machine), r.salt[1], password_of(machine), b_pub)
        k     == srp_hash(s[1])
        m1    == proof_m1(r.salt[1], a_pub_of(machine), b_pub, k)
    IN  IF ~expect_state(r, 2) \/ r.salt = <<>> \/ r.pk = <<>> THEN Error("encoding")
        ELSE IF s = <<>> THEN Error("bad parameters")
        ELSE /\ machine' = [machine EXCEPT !.st = "AwaitingM4", !.key = k, !.m1 = m1]
             /\ Send(Tlv(<<3>>, <<>>, <<>>, <<pad(a_pub_of(machine))>>, <<m1>>, <<>>))

handle_m4(r) ==
    IF ~expect_state(r, 4) \/ r.proof = <<>> THEN Error("encoding")
    ELSE IF ~verify_m2(a_pub_of(machine), machine.m1, machine.key, r.proof[1]) THEN Error("proof mismatch")
    ELSE /\ machine' = [machine EXCEPT !.st = "AwaitingM6"]
         /\ Send(Tlv(<<5>>, <<>>, <<>>, <<>>, <<>>,
                     <<Sealed(EncryptKey(machine.key), "PS-Msg05", "controller",
                              Signed("controller", machine.key, "controller"))>>))

\* The key is kept for the properties.  The state is Done before what was sealed is looked at.
handle_m6(r) ==
    IF ~expect_state(r, 6) THEN Error("encoding")
    ELSE /\ machine' = [machine EXCEPT !.st = "Done"]
         /\ step' = IF r.data = <<>> THEN "encoding"
                    ELSE IF r.data[1].key # EncryptKey(machine.key) \/ r.data[1].nonce # "PS-Msg06" THEN "aead"
                    ELSE IF r.data[1].signature # Signed("accessory", machine.key, r.data[1].id) THEN "signature"
                    ELSE "done"
         /\ UNCHANGED requests

client_handle(r) ==
    /\ turns < MaxTurns
    /\ turns' = turns + 1
    /\ IF check_error(r) # "ok" THEN Error(check_error(r))
       ELSE CASE machine.st = "AwaitingM2" -> handle_m2(r)
              [] machine.st = "AwaitingM4" -> handle_m4(r)
              [] machine.st = "AwaitingM6" -> handle_m6(r)
              [] OTHER -> Error("encoding")
    /\ UNCHANGED <<in_progress, replies, served, starts>>

-----------------------------------------------------------------------------
\* The accessory may get a request late or again; one it has no progress for
\* is refused outside the TLV.
Respond(r) == replies' = replies \cup {r}
handle_setup_m1 ==
    /\ \E salt \in Salts, b \in Privates :
          LET srv == srp_server(salt, normalize_setup_code(DeviceCode), b)
          IN  /\ in_progress' = srv
              /\ Respond(Tlv(<<2>>, <<>>, <<salt>>, <<pad(srv.b_pub)>>, <<>>, <<>>))
    /\ UNCHANGED served

handle_setup_m3(q) ==
    LET a_pub    == FromBe(q.pk[1])
        k        == server_session_key(in_progress, a_pub)
        m2_proof == verify_m1_prove_m2(in_progress, a_pub, q.proof[1])
        error_m4 == Tlv(<<4>>, <<AUTHENTICATION>>, <<>>, <<>>, <<>>, <<>>)
    IN  /\ in_progress.st = 3
        /\ IF m2_proof = <<>> THEN in_progress' = NoSlot /\ Respond(error_m4)
           ELSE /\ in_progress' = [NoSlot EXCEPT !.st = 5, !.key = k[1]]
                /\ Respond(Tlv(<<4>>, <<>>, <<>>, <<>>, m2_proof, <<>>))
        /\ UNCHANGED served

handle_setup_m5(q) ==
    LET k    == in_progress.key
        good == /\ q.data[1].key = EncryptKey(k) /\ q.data[1].nonce = "PS-Msg05"
                /\ q.data[1].signature = Signed("controller", k, q.data[1].id)
    IN  /\ in_progress.st = 5
        /\ in_progress' = NoSlot
        /\ IF good
           THEN /\ served' = served \cup {<<q.data[1].id, k>>}
                /\ Respond(Tlv(<<6>>, <<>>, <<>>, <<>>, <<>>,
                             <<Sealed(EncryptKey(k), "PS-Msg06", "accessory", Signed("accessory", k, "accessory"))>>))
           ELSE /\ Respond(Tlv(<<6>>, <<AUTHENTICATION>>, <<>>, <<>>, <<>>, <<>>))
                /\ UNCHANGED served

\* M3 and M5 take the progress out of the slot, also that for the other.
pair_setup(q) ==
    \/ q.state = <<1>> /\ handle_setup_m1
    \/ q.state = <<3>> /\ handle_setup_m3(q)
    \/ q.state = <<5>> /\ handle_setup_m5(q)
    \/ /\ q.state \in {<<3>>, <<5>>} /\ in_progress.st # q.state[1]
       /\ in_progress' = NoSlot
       /\ UNCHANGED <<replies, served>>

AccessoryTurn ==
    /\ \E q \in requests : pair_setup(q)
    /\ turns < MaxTurns
    /\ turns' = turns + 1
    /\ UNCHANGED <<machine, requests, step, starts>>

\* What may be handed to the client: a reply as it came, without its State or
\* another field, or an accessory's error.
Spoiled(r) ==
    {r, [r EXCEPT !.state = <<>>], [r EXCEPT !.pk = <<>>], [r EXCEPT !.proof = <<>>], [r EXCEPT !.data = <<>>],
     [r EXCEPT !.error = <<7>>]}

SrpNext == start \/ AccessoryTurn \/ \E r \in replies : \E s \in Spoiled(r) : client_handle(s)

SrpSpec == SrpInit /\ [][SrpNext]_srpVars

-----------------------------------------------------------------------------
CodesAgree == password_of(machine) = normalize_setup_code(DeviceCode)

\* Whatever order responses are handed over in, and after whatever errors, the
\* client passes M4 only if the codes are the same once normalised, however they
\* are spelled, and the accessory has come to the same key; it is done only
\* with an accessory that has accepted it under that key.  And with the same
\* codes both always come to one key: an M3 the client has just sent in reply to
\* the M2 of the exchange in progress is never refused (premaster,
\* SrpServer::session_key, proof_m1, client_handle).
SrpAgreement ==
    /\ machine.st \in {"AwaitingM6", "Done"} =>
          /\ CodesAgree
          /\ \E r \in replies : r.proof = <<proof_m2(a_pub_of(machine), machine.m1, machine.key)>>
    /\ step = "done" => <<"controller", machine.key>> \in served
    /\ machine.st = "AwaitingM4" /\ in_progress.st = 3 /\ CodesAgree
       /\ machine.m1[2] = in_progress.salt /\ machine.m1[4] = pad(in_progress.b_pub) =>
          <<machine.key>> = server_session_key(in_progress, a_pub_of(machine))

=============================================================================
