--------------------------- MODULE SecureSession ---------------------------
(***************************************************************************)
(* The encrypted HAP session over TCP: SecureSession::request, the reader  *)
(* task and the record counters (crates/hap-transport/src/session.rs,      *)
(* record.rs), with callers that may drop their request future, as the     *)
(* tokio::time::timeout of ReconnectingSession::request does               *)
(* (crates/hap-controller/src/reconnect.rs).                               *)
(*                                                                         *)
(* A request is a number of record blocks; requests are numbered in the    *)
(* order in which they get the session.  A response carries the number of  *)
(* the request it answers, which the code cannot see.  The accessory is    *)
(* external: it answers requests in order, pushes events when it likes,    *)
(* and closes the connection on a frame it cannot authenticate.            *)
(***************************************************************************)
EXTENDS Integers, Sequences, FiniteSets

CONSTANTS
    Callers, NoCaller,
    Blocks,               \* record blocks of a request
    RespCap, EventCap,    \* capacities of the response and event channels
    Drained,              \* somebody receives from events()
    Timeouts,             \* callers may drop a request future
    MaxReqs, MaxEvents    \* bounds

ASSUME SessionAssumption ==
    /\ IsFiniteSet(Callers) /\ NoCaller \notin Callers
    /\ Blocks \in Nat \ {0} /\ RespCap \in Nat \ {0} /\ EventCap \in Nat \ {0}
    /\ Drained \in BOOLEAN /\ Timeouts \in BOOLEAN
    /\ MaxReqs \in Nat /\ MaxEvents \in Nat

VARIABLES
    pc,        \* each caller: idle, queued for the receiver lock, write, await
    rlock,     \* owner of the lock around the response receiver
    no, blk,   \* number of the owner's request, blocks of it written
    wctr,      \* WriterState::counter
    out,       \* frames on their way to the accessory
    actr,      \* the accessory's counter for them
    part,      \* blocks of the request the accessory is receiving
    back,      \* messages on their way to the reader task
    conn,      \* the TCP connection is open
    reader,    \* the reader task runs
    respQ, eventQ,   \* the two channels out of the reader task
    got,       \* what each caller's last request returned
    abandoned, \* requests that had the lock and ended without receiving
    events     \* events pushed so far

peer   == <<actr, part, events>>
vars   == <<pc, rlock, no, blk, wctr, out, actr, part, back, conn,
            reader, respQ, eventQ, got, abandoned, events>>

-----------------------------------------------------------------------------
Event            == -4      \* an EVENT/1.0 message, among the responses
BadRequest       == 0       \* an HTTP error status for bytes that made no sense
ConnectionClosed == -1      \* the reader's last word
NoResponse       == -2      \* the reader is gone
IoError          == -3

Responses == Nat \cup {ConnectionClosed}
Frames    == [ctr : Nat, no : Nat, whole : BOOLEAN]
NoResult  == [no |-> 0, resp |-> IoError]

TypeOK ==
    /\ pc \in [Callers -> {"idle", "queued", "write", "await"}]
    /\ rlock \in Callers \cup {NoCaller} /\ no \in 0..MaxReqs /\ blk \in 0..Blocks
    /\ wctr \in Nat /\ out \in Seq(Frames) /\ actr \in Nat
    /\ part \in Seq(Nat) /\ Len(part) < Blocks
    /\ back \in Seq(Responses \cup {Event})
    /\ conn \in BOOLEAN /\ reader \in BOOLEAN
    /\ respQ \in Seq(Responses) /\ Len(respQ) <= RespCap
    /\ eventQ \in 0..EventCap /\ events \in 0..MaxEvents
    /\ got \in [Callers -> [no : Nat, resp : Responses \cup {NoResponse, IoError}]]
    /\ abandoned \subseteq 1..MaxReqs
    \* one write+await cycle at a time, its owner holding the receiver
    /\ \A c \in Callers : pc[c] \in {"write", "await"} <=> rlock = c

\* SecureSession::new after Pair Verify: the reader task is spawned.
Init ==
    /\ pc = [c \in Callers |-> "idle"] /\ rlock = NoCaller /\ no = 0 /\ blk = 0
    /\ wctr = 0 /\ out = <<>>
    /\ actr = 0 /\ part = <<>> /\ back = <<>> /\ events = 0
    /\ conn = TRUE /\ reader = TRUE /\ respQ = <<>> /\ eventQ = 0
    /\ got = [c \in Callers |-> NoResult] /\ abandoned = {}

-----------------------------------------------------------------------------
(* SecureSession::request *)

\* Call request() and queue for the response receiver.
Request(c) ==
    /\ pc[c] = "idle"
    /\ no + Cardinality({d \in Callers : pc[d] = "queued"}) < MaxReqs
    /\ pc' = [pc EXCEPT ![c] = "queued"]
    /\ UNCHANGED <<rlock, no, blk, wctr, out, peer, back, conn, reader,
                   respQ, eventQ, got, abandoned>>

\* self.responses.lock().await
LockResponses(c) ==
    /\ pc[c] = "queued" /\ rlock = NoCaller
    /\ pc' = [pc EXCEPT ![c] = "write"]
    /\ rlock' = c /\ no' = no + 1 /\ blk' = 0
    /\ UNCHANGED <<wctr, out, peer, back, conn, reader, respQ, eventQ, got,
                   abandoned>>

\* encrypt_frame: the nonce is used up whether or not the frame gets sent.
encrypt_frame == wctr' = wctr + 1

\* encrypt_frame and write_all of the next block.
WriteBlock(c) ==
    /\ pc[c] = "write"
    /\ encrypt_frame
    /\ out' = IF conn THEN Append(out, [ctr |-> wctr, no |-> no, whole |-> TRUE])
              ELSE out
    /\ blk' = blk + 1
    /\ pc' = [pc EXCEPT ![c] = IF blk + 1 = Blocks THEN "await" ELSE "write"]
    /\ UNCHANGED <<rlock, no, peer, back, conn, reader, respQ, eventQ, got,
                   abandoned>>

\* The request returns resp: the receiver guard is dropped.
Return(c, resp) ==
    /\ got' = [got EXCEPT ![c] = [no |-> no, resp |-> resp]]
    /\ pc' = [pc EXCEPT ![c] = "idle"] /\ rlock' = NoCaller

\* write_all fails on the closed connection: `?`.
WriteFails(c) ==
    /\ pc[c] = "write" /\ ~conn
    /\ encrypt_frame
    /\ Return(c, IoError)
    /\ abandoned' = abandoned \cup {no}
    /\ UNCHANGED <<no, blk, out, peer, back, conn, reader, respQ, eventQ>>

\* Plausible fault: an empty channel is taken for a closed one.
ReceiveImpatient(c) ==
    /\ pc[c] = "await"
    /\ IF respQ # <<>>
       THEN Return(c, Head(respQ)) /\ respQ' = Tail(respQ)
       ELSE Return(c, NoResponse) /\ UNCHANGED respQ
    /\ UNCHANGED <<no, blk, wctr, out, peer, back, conn, reader, eventQ,
                   abandoned>>

\* rx.recv().await: the next response in the channel, whosever it is, or
\* NoResponse when the reader task has dropped its sender.
Receive(c) ==
    /\ pc[c] = "await"
    /\ \/ /\ respQ # <<>>
          /\ Return(c, Head(respQ)) /\ respQ' = Tail(respQ)
       \/ /\ respQ = <<>> /\ ~reader
          /\ Return(c, NoResponse) /\ UNCHANGED respQ
    /\ UNCHANGED <<no, blk, wctr, out, peer, back, conn, reader, eventQ,
                   abandoned>>

\* The caller drops its future: queued, in the middle of a write_all (none or
\* a part of the frame is in the socket), or waiting for the response.
Timeout(c) ==
    /\ Timeouts /\ pc[c] # "idle"
    /\ pc' = [pc EXCEPT ![c] = "idle"]
    /\ IF pc[c] = "queued" THEN UNCHANGED <<rlock, abandoned>>
       ELSE rlock' = NoCaller /\ abandoned' = abandoned \cup {no}
    /\ IF pc[c] = "write"
       THEN /\ encrypt_frame
            /\ \/ UNCHANGED out
               \/ conn /\ out' = Append(out, [ctr |-> wctr, no |-> no, whole |-> FALSE])
       ELSE UNCHANGED <<wctr, out>>
    /\ UNCHANGED <<no, blk, peer, back, conn, reader, respQ, eventQ, got>>

-----------------------------------------------------------------------------
(* the accessory and the network *)

\* The connection goes down; what was on its way may be lost.
Close ==
    /\ conn' = FALSE /\ out' = <<>>
    /\ \E n \in 0..Len(back) : back' = SubSeq(back, 1, n)

ConnectionLost ==
    /\ conn /\ Close
    /\ UNCHANGED <<pc, rlock, no, blk, wctr, peer, reader, respQ, eventQ, got,
                   abandoned>>

\* The accessory takes a frame.  A torn frame, or one out of sequence, fails
\* to authenticate; the blocks of two requests do not make one.
AccessoryReads ==
    /\ conn /\ out # <<>>
    /\ LET f == Head(out)
           msg == Append(part, f.no)
       IN IF ~f.whole \/ f.ctr # actr
          THEN Close /\ UNCHANGED <<actr, part>>
          ELSE /\ out' = Tail(out) /\ actr' = actr + 1
               /\ UNCHANGED conn
               /\ IF Len(msg) < Blocks THEN part' = msg /\ UNCHANGED back
                  ELSE /\ part' = <<>>
                       /\ back' = Append(back, IF \A i \in 1..Blocks : msg[i] = f.no
                                               THEN f.no ELSE BadRequest)
    /\ UNCHANGED <<pc, rlock, no, blk, wctr, events, reader, respQ, eventQ, got,
                   abandoned>>

AccessoryPushes ==
    /\ conn /\ events < MaxEvents
    /\ events' = events + 1
    /\ back' = Append(back, Event)
    /\ UNCHANGED <<pc, rlock, no, blk, wctr, out, actr, part, conn, reader,
                   respQ, eventQ, got, abandoned>>

-----------------------------------------------------------------------------
(* reader_task *)

\* Demux a response: resp_tx.send(..).await, which waits for room.
ReadResponse ==
    /\ reader /\ back # <<>> /\ Head(back) # Event /\ Len(respQ) < RespCap
    /\ respQ' = Append(respQ, Head(back)) /\ back' = Tail(back)
    /\ UNCHANGED <<pc, rlock, no, blk, wctr, out, peer, conn, reader, eventQ,
                   got, abandoned>>

\* Demux an event: event_tx.send(..).await, which waits for room as well.
ReadEvent ==
    /\ reader /\ back # <<>> /\ Head(back) = Event /\ eventQ < EventCap
    /\ eventQ' = eventQ + 1 /\ back' = Tail(back)
    /\ UNCHANGED <<pc, rlock, no, blk, wctr, out, peer, conn, reader, respQ,
                   got, abandoned>>

\* Plausible fault: a closed connection is polled again.
ReadEndSilently ==
    /\ reader /\ ~conn /\ back = <<>> /\ Len(respQ) < RespCap
    /\ UNCHANGED vars

\* half.read() returns 0 or an error: report it and end.
ReadEnd ==
    /\ reader /\ ~conn /\ back = <<>> /\ Len(respQ) < RespCap
    /\ respQ' = Append(respQ, ConnectionClosed) /\ reader' = FALSE
    /\ UNCHANGED <<pc, rlock, no, blk, wctr, out, peer, back, conn, eventQ,
                   got, abandoned>>

\* The task behind take_events forwards an event.
DrainEvent ==
    /\ Drained /\ eventQ > 0
    /\ eventQ' = eventQ - 1
    /\ UNCHANGED <<pc, rlock, no, blk, wctr, out, peer, back, conn, reader,
                   respQ, got, abandoned>>

-----------------------------------------------------------------------------
CallerStep(c) == LockResponses(c) \/ WriteBlock(c) \/ WriteFails(c) \/ Receive(c)
ReaderStep    == ReadResponse \/ ReadEvent \/ ReadEnd

Next ==
    \/ \E c \in Callers : Request(c) \/ CallerStep(c) \/ Timeout(c)
    \/ ConnectionLost \/ AccessoryReads \/ AccessoryPushes
    \/ ReaderStep \/ DrainEvent

Spec == Init /\ [][Next]_vars

\* The runtime polls runnable tasks, and the accessory answers what reaches it.
\* The lock is tokio's, which serves its waiters in order.
SessionFairness ==
    /\ WF_vars(ReaderStep) /\ WF_vars(DrainEvent) /\ WF_vars(AccessoryReads)
    /\ \A c \in Callers : /\ WF_vars(WriteBlock(c) \/ WriteFails(c))
                          /\ WF_vars(Receive(c)) /\ SF_vars(LockResponses(c))
FairSpec == Spec /\ SessionFairness

-----------------------------------------------------------------------------
(* Properties *)

\* What the receiver lock is for ("two concurrent request() callers cannot
\* have their responses crossed"): a request that returns a response returns
\* its own.
OwnResponse ==
    \A c \in Callers : got[c].resp > 0 => got[c].resp = got[c].no

\* Whatever is cancelled where: a request never returns the response to a
\* later request, and the response it returns is late by no more requests
\* than ended before it without receiving one.
ResponseLag ==
    \A c \in Callers : LET g == got[c] IN
        g.resp > 0 =>
            /\ g.resp <= g.no
            /\ g.no - g.resp <= Cardinality({a \in abandoned : a < g.no})

\* Requests are answered or fail: events that come first are routed to the
\* event channel, and the reader gets to the response behind them.
RequestsReturn ==
    \A c \in Callers : pc[c] = "queued" ~> pc[c] = "idle"

=============================================================================
