------------------------------- MODULE MCStore -------------------------------
\* What is kept in files.  The store: its file, with two tasks, a BLE accessory
\* and a second one, and the records in the document; and the lockfiles of the
\* fuzz workspaces.  Each behaviour is of one of the three, the others at rest.
EXTENDS JsonFileStore, StoreRecords, FuzzLock

CONSTANTS t1, t2, ble, ip, keypair, f1, f2

MCTasks == {t1, t2}
MCIds == {ble, ip}
MCIdentities == {keypair}
MCPairings == {1}
MCBroadcasts == {1}
MCInodes == {f1, f2}

\* Digits are 0, 1, a and b.  The id of the first accessory is its device id,
\* in the other case.
DeviceA == <<9, 3>>
DeviceB == <<0, 15>>
IdA == Upper(format_device_id(DeviceA))
IdB == <<Hex(1), Hex(2)>>
Accessory(id, ltpk, transport) == [id |-> id, ltpk |-> ltpk, transport |-> transport]
Material(k, gsn) == [key |-> <<k>>, gsn |-> gsn]
MCStored ==
    {Accessory(IdA, <<6>>, Transport("ble", 0, DeviceA, <<>>)),
     Accessory(IdA, <<11>>, Transport("ble", 0, DeviceA, <<Material(14, 7)>>)),
     Accessory(IdB, <<1>>, Transport("ip", 5, <<>>, <<>>)),
     Accessory(IdB, <<0>>, Transport("ble", 0, DeviceB, <<Material(0, 0)>>))}
MCMaterials == {Material(15, 1), Material(2, 65535)}
MCKeypairs == {[id |-> IdB, seed |-> <<13>>], [id |-> IdB, seed |-> <<4>>]}
MCQueries ==
    {IdA, format_device_id(DeviceA), IdB, Upper(IdB), format_device_id(DeviceB), Upper(format_device_id(DeviceB)),
     <<Plus, Hex(0), Colon, Hex(3), Hex(3)>>, <<Hex(0), Colon, Hex(3), Hex(3)>>,
     format_device_id(<<0, 15, 0>>), <<Plus, Plus, Colon, Hex(3), Hex(3)>>}

\* A record of version 1; keys too short, not hex, in upper case; no transport;
\* a device id with a part missing.
Document(version, controller, accessories) ==
    [version |-> version, controller |-> controller, accessories |-> accessories]
Key == encode_hex(<<8>>)
InBle(device_id, key_hex) == <<Transport("ble", 0, device_id, <<[key_hex |-> key_hex, gsn |-> 9]>>)>>
Legacy == Record(IdB, Upper(Key), <<>>, <<5>>)
MCOldDocuments ==
    {Document(<<>>, <<>>, <<>>),
     Document(<<>>, <<[id |-> IdB, signing_key_hex |-> Key]>>, <<Legacy>>),
     Document(<<1>>, <<[id |-> IdB, signing_key_hex |-> <<Hex(1)>>]>>, <<Record(<<Hex(0)>>, <<Hex(1)>>, <<>>, <<5>>), Legacy>>),
     Document(<<2>>, <<>>, <<Record(IdA, Key, InBle(IdA, Upper(Key)), <<>>), Record(IdB, Key, <<>>, <<>>)>>),
     Document(<<2>>, <<>>, <<Record(IdB, Key, InBle(<<Hex(0), Hex(1)>>, Key), <<>>),
                             Record(IdA, Key, InBle(IdA, <<Hex(0), Plus>>), <<7>>)>>),
     Document(<<3>>, <<>>, <<Legacy>>)}

\* A package the root has in two buckets, one from two sources, and one only a
\* fuzz workspace needs.
Package(name, version, source) == [name |-> name, version |-> version, source |-> source]
A1 == Package("a", <<0, 4, 1, "">>, "registry")
A2 == Package("a", <<0, 4, 2, "">>, "registry")
A3 == Package("a", <<0, 5, 0, "">>, "registry")
B1 == Package("b", <<1, 2, 0, "">>, "registry")
B2 == Package("b", <<1, 2, 0, "">>, "git")
B3 == Package("b", <<1, 2, 0, "rc">>, "registry")
C1 == Package("c", <<0, 0, 3, "">>, "registry")
C2 == Package("c", <<0, 0, 4, "">>, "registry")
Z1 == Package("z", <<2, 0, 0, "">>, "registry")
MCCrates == {A1, A2, A3, B1, B2, B3, C1, C2, Z1}
MCWorkspaces == <<"tlv8", "ble">>
MCNeeds == [ws \in {"tlv8", "ble"} |-> IF ws = "tlv8" THEN {"a", "z"} ELSE {"b", "c"}]
MCRootLocks == {{A1, A3, B1, C1}, {A2, B2, C1}, {A2, B3, C2}}
MCWorkflows == {"fuzz", "ci"}

FuzzAtRest ==
    /\ root = {} /\ locks = [ws \in Named |-> Missing] /\ listed = [wf \in Workflows |-> {}]
    /\ job = NoRun /\ verdict = "none" /\ committed = locks
    /\ synced = {} /\ spoilt = {} /\ runs = MaxRuns /\ updates = MaxUpdates
FileAtRest ==
    /\ dir = [path |-> None, tmp |-> None] /\ content = [f \in Inodes |-> Torn]
    /\ lock = None /\ task = [t \in Tasks |-> Idle] /\ outcome = [t \in Tasks |-> None]
    /\ late = {} /\ calls = MaxCalls /\ crashes = MaxCrashes
RecordsAtRest ==
    /\ document = Document(<<3>>, <<>>, <<>>) /\ expected = [id \in StoreIds |-> <<>>]
    /\ identity = <<>> /\ first = <<>> /\ about = {} /\ saves = 0

StoreInit ==
    \/ Init /\ RecordsAtRest /\ FuzzAtRest
    \/ FileAtRest /\ RecordsInit /\ FuzzAtRest
    \/ FileAtRest /\ RecordsAtRest /\ FuzzInit
StoreNext ==
    \/ Next /\ UNCHANGED <<recordVars, fuzzVars>>
    \/ RecordsNext /\ UNCHANGED <<vars, fuzzVars>>
    \/ FuzzNext /\ UNCHANGED <<vars, recordVars>>
storeVars == <<vars, recordVars, fuzzVars>>
StoreSpec == StoreInit /\ [][StoreNext]_storeVars
FileCancelSpec ==
    /\ Init /\ RecordsAtRest /\ FuzzAtRest
    /\ [][CancelNext /\ UNCHANGED <<recordVars, fuzzVars>>]_storeVars

=============================================================================
