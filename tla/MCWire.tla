------------------------------- MODULE MCWire -------------------------------
\* What is said between controller and accessory, and what the user is told of
\* it: the pairing exchanges, SRP, PDUs over BLE and over Thread, values through
\* the handle, and the attribute database.  Systems that share nothing; each
\* behaviour is of one of them, with the others at rest.
EXTENDS Pairing, SrpSetup, BlePdu, ThreadPdu, AccessoryHandle, AttributeDb, TLC

CONSTANTS c1, c2, c3

\* The two controllers that have the setup code are interchangeable.
MCSymmetry == Permutations({c1, c2})

\* The setup code with its two digits, a wrong digit, a digit too many.
Spelling(digits, between) == [digits |-> digits, between |-> between]
MCSpellings ==
    {Spelling(<<1, 2>>, "blanks"), Spelling(<<1, 3>>, "hyphens"), Spelling(<<1, 2, 3>>, "hyphens")}
MCDeviceCode == Spelling(<<1, 2>>, "nothing")
MCExponent ==
    [p \in {Spelling(<<1, 2>>, "hyphens"), Spelling(<<1, 3>>, "hyphens"), Spelling(<<1, 2, 3>>, "hyphens")} |->
        IF Len(p.digits) = 2 THEN 3 * p.digits[2] ELSE 5]

\* A value and a reply below, at and above a fragment, on links of every size.
Exchange(write, value, status, body, secure, size, reply_size) ==
    [write |-> write, value |-> value, tid |-> 3, iid |-> 6, status |-> status,
     reply_body |-> body, secure |-> secure, size |-> size, reply |-> reply_size]
MCExchanges ==
    {Exchange(w, v, st, b, sec, n, r) :
        w \in BOOLEAN, v \in {<<>>, <<1>>, <<1, 2>>, <<3, 0, 1, 2, 3>>},
        st \in {0, 6}, b \in {<<>>, push(1, <<>>), push(1, <<2>>), push(1, <<1, 2, 3, 0, 1>>)},
        sec \in BOOLEAN, n \in {1, 3, 5, 6, 9, 30}, r \in {5, 6, 7, 9, 30}}

\* Characteristic 9 is the lamp, 10 none.
MCBatches == {<<>>, <<9>>, <<10, 9>>, <<9, 10, 9>>, <<10, 9, 9, 10>>}
MCDatabase == <<24, 2, 1, 1>>

MCFormatMaps == {<<f, "Uint8">> : f \in CharFormat}
\* The edges of each width.
MCWriteValues ==
    {CharValue("Bool", <<0>>), CharValue("Str", <<1, 2>>), CharValue("Bytes", <<>>), CharValue("Bytes", <<1, 2>>)}
    \cup {CharValue("Uint", <<n>>) : n \in {0, 1, Byte, Byte ^ 4, Byte ^ 8 - 1}}
    \cup {CharValue("Int", <<n>>) : n \in {-1, 5, Byte ^ 4}}
    \cup {CharValue("Float", <<n>>) : n \in {8, 9}}

\* The first accessory has a service of a vendor,
\* the second is a bridge, the last has two Names.
MCServiceTable == [AccessoryInformation |-> 62, Lightbulb |-> 67, ProtocolInformation |-> 162]
MCTypeTable == [Brightness |-> 8, Identify |-> 20, Name |-> 35, On |-> 37]
MCFormatTable == [Name |-> "String", On |-> "Bool"]
Char(uuid, iid, props, format) == [uuid |-> uuid, iid |-> iid, props |-> props, format |-> format]
Service(uuid, iid, cs) == [uuid |-> uuid, iid |-> iid, chars |-> cs]
Hap16(head) == Uuid(head, HAP_BASE)
Information ==
    Service(Hap16(62), 1, <<Char(SERVICE_SIGNATURE_CHAR, 2, 16, "Data"), Char(Hap16(35), 3, 16, "none"),
                            Char(Hap16(20), 4, 32, "Bool")>>)
Protocol ==
    Service(PROTOCOL_INFO_SERVICE, 5, <<Char(HAP_SERVICE_ID_CHAR, 0, 1, "Uint16"),
                                        Char(SERVICE_SIGNATURE_CHAR, 6, 16, "Data")>>)
Bulb(more) ==
    Service(Hap16(67), 7, <<Char(Hap16(37), 8, 16 + 32 + 128 + 256, "none"), Char(Hap16(8), 9, 3 + 64, "Int")>> \o more)
Vendor == Service(Uuid(5, 3), 11, <<Char(Uuid(6, 3), 12, 1 + 4 + 8 + 128, "Float")>>)
SecondName == <<Char(Hap16(35), 10, 16, "String")>>
MCAccessories ==
    {<<[aid |-> 1, services |-> <<Information, Protocol, Bulb(<<>>), Vendor>>]>>,
     <<[aid |-> 1, services |-> <<Protocol, Bulb(<<>>)>>],
       [aid |-> 2, services |-> <<Information, Bulb(SecondName)>>]>>,
     <<[aid |-> 1, services |-> <<Information, Bulb(SecondName), Protocol>>]>>}

PduAtRest ==
    /\ pdu = Exchange(FALSE, <<>>, 0, <<>>, FALSE, 30, 30)
    /\ unwritten = <<>> /\ taken = <<>> /\ unread_frags = <<>> /\ frags = <<>>
    /\ answer = PduAnswer("idle", 0, <<>>)
ThreadAtRest ==
    /\ lamp = 0 /\ subscriptions = {} /\ call = Idle /\ request = <<>> /\ reply = <<>>
    /\ disorder = "none" /\ result = Malformed /\ pushed = <<>> /\ events_payload = <<>>
    /\ heard = <<>> /\ calls = MaxCalls
HandleAtRest ==
    /\ link = "none" /\ loose = FALSE /\ format_of = [i \in Iids |-> "Bool"]
    /\ held = [i \in Iids |-> Unset] /\ formats = [i \in {} |-> "Bool"]
    /\ prepared = 0 /\ pid = 1 /\ op = NoOperation /\ outcome = Outcome("none", <<>>) /\ ops = MaxOps
DbAtRest ==
    /\ via = "none" /\ tree = <<>> /\ handles = <<>> /\ sweep = "none" /\ slot = 0 /\ asked = FALSE
    /\ attempts = 0 /\ drops = 0 /\ found = <<>> /\ pending = <<>> /\ db = <<>> /\ chars = <<>>

PairingAtRest ==
    /\ cl = [c \in Controllers |-> NoAttempt] /\ up = {} /\ down = {}
    /\ setup = NoSetup /\ verify = NoVerify /\ owner = NoController /\ session = NoSession
    /\ fresh = 0 /\ begun = MaxAttempts /\ paired = {} /\ keyed = {} /\ rekeyed = FALSE
SrpAtRest ==
    /\ machine = Client("Initial", MCDeviceCode, 0, <<>>, <<>>) /\ in_progress = NoSlot
    /\ requests = {} /\ replies = {} /\ step = "none" /\ served = {}
    /\ starts = MaxStarts /\ turns = MaxTurns

\* The attribute database alone.
DatabaseInit == PairingAtRest /\ SrpAtRest /\ PduAtRest /\ ThreadAtRest /\ HandleAtRest /\ DbInit
DatabaseNext == DbNext /\ UNCHANGED <<pairingVars, srpVars, pduVars, threadVars, handleVars>>

WireInit ==
    \/ PairingInit /\ SrpAtRest /\ PduAtRest /\ ThreadAtRest /\ HandleAtRest /\ DbAtRest
    \/ PairingAtRest /\ SrpInit /\ PduAtRest /\ ThreadAtRest /\ HandleAtRest /\ DbAtRest
    \/ PairingAtRest /\ SrpAtRest /\ PduInit /\ ThreadAtRest /\ HandleAtRest /\ DbAtRest
    \/ PairingAtRest /\ SrpAtRest /\ PduAtRest /\ ThreadInit /\ HandleAtRest /\ DbAtRest
    \/ PairingAtRest /\ SrpAtRest /\ PduAtRest /\ ThreadAtRest /\ HandleInit /\ DbAtRest
    \/ DatabaseInit
\* A system at rest has no step to take; not to look for one saves time.
WireNext ==
    \/ ~PairingAtRest /\ PairingNext /\ UNCHANGED <<srpVars, pduVars, threadVars, handleVars, dbVars>>
    \/ ~SrpAtRest /\ SrpNext /\ UNCHANGED <<pairingVars, pduVars, threadVars, handleVars, dbVars>>
    \/ ~PduAtRest /\ PduNext /\ UNCHANGED <<pairingVars, srpVars, threadVars, handleVars, dbVars>>
    \/ ~ThreadAtRest /\ ThreadNext /\ UNCHANGED <<pairingVars, srpVars, pduVars, handleVars, dbVars>>
    \/ ~HandleAtRest /\ HandleNext /\ UNCHANGED <<pairingVars, srpVars, pduVars, threadVars, dbVars>>
    \/ ~DbAtRest /\ DatabaseNext
wireVars == <<pairingVars, srpVars, pduVars, threadVars, handleVars, dbVars>>
WireSpec == WireInit /\ [][WireNext]_wireVars
DatabaseSpec == DatabaseInit /\ [][DatabaseNext]_wireVars

=============================================================================
