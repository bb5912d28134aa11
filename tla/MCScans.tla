------------------------------- MODULE MCScans -------------------------------
\* The radio gate with three connectors, or one call that looks for accessories:
\* two systems that share nothing, checked side by side.
EXTENDS ScanGate, Discovery, TLC

Id(dev, case) == [dev |-> dev, case |-> case]
Txt(dev, sf, more) == [k \in {"id", "sf"} |-> IF k = "id" THEN Id(dev, "upper") ELSE sf] @@ more
Ip(txt, families) ==
    [via |-> "ip", txt |-> txt, resolved |-> {[family |-> f] : f \in families}]
Thread(txt) == [via |-> "thread", txt |-> txt, resolved |-> {[family |-> "v4"], [family |-> "v6"]}]
Ble(dev, peripheral, type, len, sf) ==
    [via |-> "ble", peripheral |-> peripheral,
     mfg |-> [company |-> 76, type |-> type, len |-> len, sf |-> sf, device_id |-> dev,
              gsn |-> 1, acid |-> 5,
              hash |-> <<IF dev = "A" THEN <<7, 1>> ELSE <<7, 2>>, Id(dev, "upper")>>]]

\* A and B are of one category.  A is heard unpaired and
\* paired, on both transports and from two peripheral addresses; records that
\* are no good are heard too.
MCSightings ==
    {Ip(Txt("A", 1, [ci |-> 5, sh |-> <<(<<7, 1>>), Id("A", "upper")>>]), {"v4", "v6"}),
     Ip(Txt("A", 0, [ci |-> 5]), {"v6"}),
     Ip(Txt("B", 1, [ci |-> 5]), {"v4"}),
     Ip([ci |-> 5], {"v4"}), Ip(Txt("B", 1, [ci |-> 5]), {}), Ip(Txt("A", -1, [ci |-> 5]), {"v4"}),
     Ble("A", "p1", 6, 19, 1), Ble("A", "p2", 6, 18, 1), Ble("B", "p3", 6, 19, 1),
     Ble("A", "p1", 17, 19, 1), Ble("A", "p1", 6, 14, 1),
     Thread(Txt("A", 1, <<>>)), Thread(Txt("A", 0, <<>>))}

MCMaxHeard == [until |-> 3, payload |-> 2, thread |-> 3]

\* Four digits of base 8: three bits of code, four of flags, three of category
\* and two above it.
Digits(n) == [i \in 1 .. 4 |-> (n \div 8^(4 - i)) % 8]
Label(n, flags, category, above, id) ==
    [dev |-> "A", category |-> category, number |-> n, flags |-> flags, above |-> above,
     code |-> IF n < 10 THEN <<n>> ELSE <<1, n - 10>>, has_id |-> id # <<>>,
     uri |-> [scheme |-> TRUE,
              text |-> Digits(n + 16 * flags + 256 * category + 2048 * above) \o id]]
MCLabels ==
    {Label(c, f, 5, a, id) : c \in {3}, f \in {2}, a \in {1}, id \in {<<>>, <<7, 1>>}}
    \cup {Label(12, 2, 5, 0, <<7, 1>>)}

\* The gate when its task has returned and nobody connects.
GateAtRest ==
    /\ pause = FALSE /\ seen = TRUE /\ scanning = FALSE /\ stream = FALSE
    /\ scan = "done" /\ lock = NoOne
    /\ conn = [c \in Connectors |-> "idle"]

ScansInit == (Init /\ NoCall) \/ (GateAtRest /\ DiscoveryInit)
GateNext == call.kind = "none" /\ Next /\ UNCHANGED discoveryVars
CallNext == DiscoveryNext /\ UNCHANGED vars
AllEnded == call.kind # "none" /\ CallOver /\ UNCHANGED <<vars, discoveryVars>>
ScansNext == GateNext \/ CallNext \/ AllEnded
ScansSpec ==
    ScansInit /\ [][ScansNext]_<<vars, discoveryVars>> /\ Fairness /\ DiscoveryFairness

=============================================================================
