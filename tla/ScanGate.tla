------------------------------ MODULE ScanGate ------------------------------
(***************************************************************************)
(* The radio gate between the continuous advertisement scan and the        *)
(* connect path of the BLE backend: crates/hap-ble/src/scan_gate.rs, the   *)
(* scan task of `watch_adverts` and the two users of `pause`, `reconnect`  *)
(* and `disconnect`, in crates/hap-ble/src/bluest_gatt.rs.                 *)
(*                                                                         *)
(* Connectors are the tasks that may run `reconnect` or `disconnect` on    *)
(* one BluestConnection.  There is one scan task, as the documentation of  *)
(* `watch_adverts` requires.                                               *)
(***************************************************************************)
CONSTANTS Connectors,   \* tasks that call pause()
          NoOne         \* the gate mutex has no owner

ASSUME NoOneAssumption == NoOne \notin Connectors

VARIABLES
    pause,     \* the value of the pause watch channel
    seen,      \* the scan task has consumed the newest pause value
    scanning,  \* the value of the scanning watch channel
    stream,    \* the adapter runs a scan: the scan task's stream exists
    scan,      \* where the scan task is
    lock,      \* owner of the gate mutex
    conn       \* where each connector is

scanVars == <<scanning, stream, scan>>
connVars == <<lock, conn>>
vars     == <<pause, seen, scanning, stream, scan, lock, conn>>

(***************************************************************************)
(* Scan task: "check" is the `while *pause.borrow_and_update()` test,      *)
(* "wait" its changed().await, "starting" adapter.scan().await, "opened"   *)
(* the point before set_scanning(true), "live" the select loop; "stop" and *)
(* "end" are the two exits of that loop (for a pause, for good) before the *)
(* stream is dropped, "clear" and "quit" the same two before               *)
(* set_scanning(false).                                                    *)
(***************************************************************************)
ScanStates == {"check", "wait", "starting", "opened", "live",
               "stop", "end", "clear", "quit", "done"}

(***************************************************************************)
(* Connector: "lock" waits for the mutex, "ack" waits for the scan task,   *)
(* "owns" returned from pause() after an acknowledgement, "unacked" after  *)
(* PAUSE_ACK_TIMEOUT, "dropping" is inside the guard's destructor: the     *)
(* pause is withdrawn and the mutex not yet released.                      *)
(***************************************************************************)
ConnStates == {"idle", "lock", "ack", "owns", "unacked", "dropping"}

\* A guard exists and has not begun to be dropped.
Guarding(c) == conn[c] \in {"ack", "owns", "unacked"}

\* The types, and whose the gate mutex is: a caller of pause() owns it from
\* the grant until its guard's destructor has finished.
TypeOK ==
    /\ pause \in BOOLEAN /\ seen \in BOOLEAN
    /\ scanning \in BOOLEAN /\ stream \in BOOLEAN
    /\ scan \in ScanStates
    /\ lock \in Connectors \cup {NoOne}
    /\ conn \in [Connectors -> ConnStates]
    /\ \A c \in Connectors : lock = c <=> Guarding(c) \/ conn[c] = "dropping"

\* ScanGate::new, with the scan task of watch_adverts just spawned: its
\* receiver has seen the initial value.
Init ==
    /\ pause = FALSE /\ seen = TRUE
    /\ scanning = FALSE /\ stream = FALSE
    /\ scan = "check"
    /\ lock = NoOne
    /\ conn = [c \in Connectors |-> "idle"]

-----------------------------------------------------------------------------
(* ScanGate::pause and the guard *)

\* Call pause(): queue for the mutex.
Pause(c) ==
    /\ conn[c] = "idle"
    /\ conn' = [conn EXCEPT ![c] = "lock"]
    /\ UNCHANGED <<pause, seen, lock, scanVars>>

\* Plausible fault: the guard is built without the mutex.
AcquireUnserialised(c) ==
    /\ conn[c] = "lock"
    /\ lock' = c
    /\ conn' = [conn EXCEPT ![c] = "ack"]
    /\ pause' = TRUE /\ seen' = FALSE
    /\ UNCHANGED scanVars

\* The mutex is granted: build the guard, send pause = true.
Acquire(c) ==
    /\ conn[c] = "lock" /\ lock = NoOne
    /\ lock' = c
    /\ conn' = [conn EXCEPT ![c] = "ack"]
    /\ pause' = TRUE /\ seen' = FALSE
    /\ UNCHANGED scanVars

\* The scan task reports no scan stream: pause() returns.
AckSeen(c) ==
    /\ conn[c] = "ack" /\ ~scanning
    /\ conn' = [conn EXCEPT ![c] = "owns"]
    /\ UNCHANGED <<pause, seen, lock, scanVars>>

\* PAUSE_ACK_TIMEOUT elapses first: pause() returns all the same.
AckTimeout(c) ==
    /\ conn[c] = "ack" /\ scanning
    /\ conn' = [conn EXCEPT ![c] = "unacked"]
    /\ UNCHANGED <<pause, seen, lock, scanVars>>

\* The pause() future is dropped while it waits for the mutex.
CancelWait(c) ==
    /\ conn[c] = "lock"
    /\ conn' = [conn EXCEPT ![c] = "idle"]
    /\ UNCHANGED <<pause, seen, lock, scanVars>>

\* Plausible fault: a connect without a bound keeps its guard.
DropGuardNever(c) == Guarding(c) /\ UNCHANGED vars

\* ScanPauseGuard::drop: the connect is over (or the future is cancelled
\* while it waits for the acknowledgement): send pause = false.
DropGuard(c) ==
    /\ Guarding(c)
    /\ conn' = [conn EXCEPT ![c] = "dropping"]
    /\ pause' = FALSE /\ seen' = FALSE
    /\ UNCHANGED <<lock, scanVars>>

\* ... then the permit field is dropped, which releases the mutex.
ReleasePermit(c) ==
    /\ conn[c] = "dropping"
    /\ conn' = [conn EXCEPT ![c] = "idle"]
    /\ lock' = NoOne
    /\ UNCHANGED <<pause, seen, scanVars>>

-----------------------------------------------------------------------------
(* the scan task of watch_adverts *)

\* while *pause.borrow_and_update()
ScanCheck ==
    /\ scan = "check"
    /\ seen' = TRUE
    /\ scan' = IF pause THEN "wait" ELSE "starting"
    /\ UNCHANGED <<pause, scanning, stream, connVars>>

\* Plausible fault: the wake-up is taken without testing the value again.
ScanWakeSpins == scan = "wait" /\ ~seen /\ UNCHANGED vars

\* pause.changed().await returns and the loop tests the value again.
ScanWake ==
    /\ scan = "wait" /\ ~seen
    /\ scan' = "check"
    /\ UNCHANGED <<pause, seen, scanning, stream, connVars>>

\* adapter.scan(&[]).await resolves with a stream.
ScanOpens ==
    /\ scan = "starting"
    /\ stream' = TRUE
    /\ scan' = "opened"
    /\ UNCHANGED <<pause, seen, scanning, connVars>>

\* adapter.scan(&[]).await fails: the task returns.
ScanFails ==
    /\ scan = "starting"
    /\ scan' = "done"
    /\ UNCHANGED <<pause, seen, scanning, stream, connVars>>

\* gate.set_scanning(true)
ScanReports ==
    /\ scan = "opened"
    /\ scanning' = TRUE
    /\ scan' = "live"
    /\ UNCHANGED <<pause, seen, stream, connVars>>

\* The select arm on pause.changed(): leave the loop if the value is true.
ScanSeesPause ==
    /\ scan = "live" /\ ~seen
    /\ seen' = TRUE
    /\ scan' = IF pause THEN "stop" ELSE "live"
    /\ UNCHANGED <<pause, scanning, stream, connVars>>

\* The scan stream ends, or the receiver of the adverts is gone.
ScanEnds ==
    /\ scan = "live"
    /\ scan' = "end"
    /\ UNCHANGED <<pause, seen, scanning, stream, connVars>>

\* drop(scan)
ScanDrops ==
    /\ scan \in {"stop", "end"}
    /\ stream' = FALSE
    /\ scan' = IF scan = "stop" THEN "clear" ELSE "quit"
    /\ UNCHANGED <<pause, seen, scanning, connVars>>

\* gate.set_scanning(false), then loop or return.
ScanClears ==
    /\ scan \in {"clear", "quit"}
    /\ scanning' = FALSE
    /\ scan' = IF scan = "clear" THEN "check" ELSE "done"
    /\ UNCHANGED <<pause, seen, stream, connVars>>

ScanStep ==
    \/ ScanCheck \/ ScanWake \/ ScanOpens \/ ScanFails \/ ScanReports
    \/ ScanSeesPause \/ ScanEnds \/ ScanDrops \/ ScanClears

ConnStep(c) ==
    \/ Pause(c) \/ Acquire(c) \/ AckSeen(c) \/ AckTimeout(c)
    \/ CancelWait(c) \/ DropGuard(c) \/ ReleasePermit(c)

Next == ScanStep \/ \E c \in Connectors : ConnStep(c)

Spec == Init /\ [][Next]_vars

(***************************************************************************)
(* The runtime polls a runnable task, a connect and a teardown are bounded *)
(* by CONNECT_TIMEOUT and TEARDOWN_TIMEOUT (so a guard is dropped), and an *)
(* acknowledgement wait by PAUSE_ACK_TIMEOUT.  The mutex is tokio's, which *)
(* serves its waiters in order: Acquire is strongly fair.  Nothing is      *)
(* assumed of the callers' decision to pause, nor of the adapter's ending  *)
(* the scan.                                                               *)
(***************************************************************************)
Fairness ==
    /\ WF_vars(ScanCheck) /\ WF_vars(ScanWake)
    /\ WF_vars(ScanOpens \/ ScanFails) /\ WF_vars(ScanReports)
    /\ WF_vars(ScanSeesPause) /\ WF_vars(ScanDrops) /\ WF_vars(ScanClears)
    /\ \A c \in Connectors :
          /\ SF_vars(Acquire(c))
          /\ WF_vars(AckSeen(c) \/ AckTimeout(c))
          /\ WF_vars(DropGuard(c)) /\ WF_vars(ReleasePermit(c))

FairSpec == Spec /\ Fairness

-----------------------------------------------------------------------------
(* Properties *)

\* While any connector's pause guard exists the pause request stands, and at
\* most one guard exists: the mutex in `pause` keeps a second connect's guard
\* from withdrawing the pause of the first when it is dropped.
PauseStands ==
    \A c \in Connectors : Guarding(c) =>
        pause /\ \A d \in Connectors : Guarding(d) => d = c

\* No lost wake-up on either side of the gate: a scan task asleep on the
\* pause channel with nothing new to see is asleep because the pause stands,
\* and one that runs (or is about to run) a scan while the pause stands has
\* the request still pending in its receiver.
NoLostWakeup ==
    /\ (scan = "wait" /\ seen) => pause
    /\ (scan \in {"starting", "opened", "live"} /\ pause) => ~seen

\* The scanning flag, which `pause` trusts, covers the scan stream except
\* between adapter.scan() resolving and set_scanning(true), and outlives it
\* only until set_scanning(false): the flag never sticks.
FlagCoversStream ==
    /\ stream => scanning \/ scan = "opened"
    /\ scanning => scan \in {"live", "stop", "end", "clear", "quit"}

\* Every pause() call that is queued returns or is cancelled, whatever the
\* scan task does.
PauseReturns ==
    \A c \in Connectors :
        conn[c] = "lock" ~> conn[c] \in {"owns", "unacked", "idle"}

\* Once connects stop, the scan runs again unless its task has returned for
\* good: a pause never leaves the accessory unwatched.
ScanResumes ==
    <>[](\A c \in Connectors : conn[c] = "idle")
        => <>[](scan \in {"live", "end", "quit", "done"})

=============================================================================
