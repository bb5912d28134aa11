---------------------------- MODULE PairingStore ----------------------------
(***************************************************************************)
(* What hap-pairing's PairingStore trait promises: one document, changed   *)
(* by calls that take effect at once, whatever other tasks call meanwhile. *)
(* A call ends "ok" when it took effect and "err" when it did not; a crash *)
(* ends every call.  The document is the controller identity and, for each *)
(* accessory id, at most one record: the pairing, and for a BLE accessory  *)
(* the broadcast material (IP records have none).                          *)
(***************************************************************************)
CONSTANTS Tasks, Ids, Identities, Pairings, Broadcasts, None

Records == [pairing : Pairings, ble : {FALSE}, broadcast : {None}]
           \cup [pairing : Pairings, ble : {TRUE}, broadcast : Broadcasts \cup {None}]

Documents == [controller : Identities \cup {None}, accessories : [Ids -> Records \cup {None}]]

\* Document::default(), what a missing file reads as
EmptyDocument == [controller |-> None, accessories |-> [i \in Ids |-> None]]

Calls == [call : {"save_controller"}, identity : Identities]
         \cup [call : {"save_pairing"}, id : Ids, record : Records]
         \cup [call : {"delete_pairing"}, id : Ids]
         \cup [call : {"save_broadcast_state"}, id : Ids, broadcast : Broadcasts]

IsBle(record) == record # None /\ record.ble

\* the document a call leaves behind; the broadcast of an absent or an IP
\* record is not saved
Apply(c, d) ==
    CASE c.call = "save_controller" -> [d EXCEPT !.controller = c.identity]
      [] c.call = "save_pairing"    -> [d EXCEPT !.accessories[c.id] = c.record]
      [] c.call = "delete_pairing"  -> [d EXCEPT !.accessories[c.id] = None]
      [] c.call = "save_broadcast_state" ->
             IF IsBle(d.accessories[c.id])
             THEN [d EXCEPT !.accessories[c.id].broadcast = c.broadcast]
             ELSE d

VARIABLES doc,      \* the document every load returns
          pending,  \* the call each task is in
          outcome   \* how the last call of each task ended

vars == <<doc, pending, outcome>>

Init ==
    /\ doc = EmptyDocument
    /\ pending = [t \in Tasks |-> None]
    /\ outcome = [t \in Tasks |-> None]

Invoke(t, c) ==
    /\ pending[t] = None
    /\ pending' = [pending EXCEPT ![t] = c]
    /\ outcome' = [outcome EXCEPT ![t] = None]
    /\ UNCHANGED doc

Succeed(t) ==
    /\ pending[t] # None
    /\ doc' = Apply(pending[t], doc)
    /\ pending' = [pending EXCEPT ![t] = None]
    /\ outcome' = [outcome EXCEPT ![t] = "ok"]

Abandon(t) ==
    /\ pending[t] # None
    /\ pending' = [pending EXCEPT ![t] = None]
    /\ outcome' = [outcome EXCEPT ![t] = "err"]
    /\ UNCHANGED doc

Restart ==
    /\ pending' = [t \in Tasks |-> None]
    /\ outcome' = [t \in Tasks |-> None]
    /\ UNCHANGED doc

Next ==
    \/ \E t \in Tasks :
          \/ \E c \in Calls : Invoke(t, c)
          \/ Succeed(t)
          \/ Abandon(t)
    \/ Restart

Spec == Init /\ [][Next]_vars

=============================================================================
