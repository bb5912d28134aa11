------------------------ MODULE SecureSessionProofs ------------------------
(***************************************************************************)
(* Proofs about SecureSession, for any callers, request lengths, channel   *)
(* capacities and bounds, and whatever is dropped where.                   *)
(*                                                                         *)
(* Responses are matched with requests by counting, nothing else.  Every   *)
(* request that got the receiver lock has taken one response out of the    *)
(* channel, was abandoned, or holds the lock.  The n-th response answers a *)
(* message that ended with frame n * Blocks, and a request has no more     *)
(* than Blocks frames: it answers request n or a later one.                *)
(***************************************************************************)
EXTENDS SecureSession, FiniteSetTheorems, TLAPS

Queued == {c \in Callers : pc[c] = "queued"}

\* Frames that n requests may take.
Cap(n) == n * Blocks

\* Responses among the first i messages of s.
Count(s, i) == Cardinality({k \in 1..i : s[k] # Event})

\* How many requests have taken a response.
Consumed == no - Cardinality(abandoned) - (IF rlock = NoCaller THEN 0 ELSE 1)

\* The numbers of requests, and the abandoned ones among them.
Numbers ==
    /\ no + Cardinality(Queued) <= MaxReqs
    /\ \A a \in abandoned : a <= no
    /\ rlock # NoCaller => no # 0 /\ no \notin abandoned
    /\ \A c \in Callers : got[c].no <= no

\* A request takes at most Blocks nonces, sent or not.
Nonces ==
    /\ wctr <= Cap(no)
    /\ \A c \in Callers : pc[c] = "write" => blk < Blocks /\ wctr + Blocks <= Cap(no) + blk
    /\ \A i \in 1..Len(out) : out[i].ctr < Cap(out[i].no) /\ out[i].no <= no

\* The n-th response is made of the n-th message of Blocks frames.
Generated ==
    /\ ~reader => ~conn /\ back = <<>>
    /\ conn => actr = Cap(Consumed + Len(respQ) + Count(back, Len(back))) + Len(part)

\* What is on its way to the n-th receiver answers request n or a later one.
InStep ==
    /\ \A i \in 1..Len(respQ) : respQ[i] > 0 => respQ[i] >= Consumed + i /\ respQ[i] <= no
    /\ \A i \in 1..Len(back) :
          back[i] > 0 => back[i] >= Consumed + Len(respQ) + Count(back, i) /\ back[i] <= no

SessionInv == TypeOK /\ Numbers /\ Nonces /\ Generated /\ InStep /\ ResponseLag

-----------------------------------------------------------------------------
(* counting *)

\* n requests and one more.
LEMMA CapStep ==
    ASSUME NEW n \in Int
    PROVE  Cap(n) \in Int /\ Cap(n + 1) = Cap(n) + Blocks
  BY SessionAssumption DEF Cap

\* More requests take more frames.
LEMMA CapMono ==
    ASSUME NEW m \in Int, NEW n \in Int, m <= n
    PROVE  Cap(m) <= Cap(n)
<1>1. Blocks \in Nat BY SessionAssumption, Zenon
<1>2. n - m \in Nat OBVIOUS
<1>3. (n - m) * Blocks >= 0 BY <1>1, <1>2
<1>4. n * Blocks = m * Blocks + (n - m) * Blocks BY <1>1
<1> QED BY <1>1, <1>3, <1>4 DEF Cap

\* The last frame of message n + 1 belongs to no request before n + 1.
LEMMA CapLast ==
    ASSUME NEW m \in Int, NEW n \in Int, Cap(n) + Blocks - 1 < Cap(m)
    PROVE  n + 1 <= m
<1> SUFFICES ASSUME m <= n PROVE FALSE
  OBVIOUS
<1>1. Cap(m) <= Cap(n) BY CapMono, Zenon
<1>2. Blocks \in Nat \ {0} /\ Cap(m) \in Int /\ Cap(n) \in Int BY SessionAssumption, CapStep, Zenon
<1> QED BY <1>1, <1>2

\* The number of responses is one, and none among no messages.
LEMMA CountType ==
    ASSUME NEW s, NEW i \in Nat
    PROVE  /\ IsFiniteSet({k \in 1..i : s[k] # Event}) /\ Count(s, i) \in Nat
           /\ Count(s, 0) = 0
<1>1. IsFiniteSet(1..i) BY FS_Interval
<1>2. IsFiniteSet({k \in 1..i : s[k] # Event}) BY <1>1, FS_Subset, Zenon
<1>3. Count(s, i) \in Nat BY <1>2, FS_CardinalityType, Zenon DEF Count
<1>4. {k \in 1..0 : s[k] # Event} = {} OBVIOUS
<1> QED BY <1>2, <1>3, <1>4, FS_EmptySet, Zenon DEF Count

\* It depends on the messages counted.
LEMMA CountSame ==
    ASSUME NEW s, NEW t, NEW i \in Nat, \A k \in 1..i : s[k] = t[k]
    PROVE  Count(s, i) = Count(t, i)
<1>1. {k \in 1..i : s[k] # Event} = {k \in 1..i : t[k] # Event} BY Zenon
<1> QED BY <1>1, Zenon DEF Count

\* One more message.
LEMMA CountNext ==
    ASSUME NEW s, NEW i \in Nat
    PROVE  Count(s, i + 1) = Count(s, i) + (IF s[i + 1] # Event THEN 1 ELSE 0)
<1> DEFINE S == {k \in 1..i : s[k] # Event}
<1>1. IsFiniteSet(S) /\ Cardinality(S) \in Nat BY CountType, Zenon DEF Count
<1>2. i + 1 \notin S OBVIOUS
<1>3. CASE s[i + 1] # Event
  <2>1. {k \in 1..i + 1 : s[k] # Event} = S \cup {i + 1} BY <1>3
  <2> HIDE DEF S
  <2>2. Cardinality(S \cup {i + 1}) = Cardinality(S) + 1 BY <1>1, <1>2, FS_AddElement, Zenon
  <2> QED BY <1>3, <2>1, <2>2, Zenon DEF Count, S
<1>4. CASE s[i + 1] = Event
  <2>1. {k \in 1..i + 1 : s[k] # Event} = S BY <1>4
  <2> QED BY <1>1, <1>4, <2>1 DEF Count
<1> QED BY <1>3, <1>4, Zenon

\* The first message is taken away.
LEMMA CountTail ==
    ASSUME NEW S, NEW s \in Seq(S), s # <<>>, NEW i \in 0..Len(s) - 1
    PROVE  Count(s, i + 1) = Count(Tail(s), i) + (IF Head(s) # Event THEN 1 ELSE 0)
<1> DEFINE T == {k \in 1..i : Tail(s)[k] # Event}
           U == {k \in 2..i + 1 : s[k] # Event}
           f == [k \in T |-> k + 1]
<1>1. Len(s) \in Nat /\ i \in Nat /\ \A k \in 1..i : Tail(s)[k] = s[k + 1] OBVIOUS
<1>2. IsFiniteSet(T) /\ Cardinality(T) \in Nat BY <1>1, CountType, Zenon DEF Count
<1>3. f \in Bijection(T, U)
  <2>1. f \in [T -> U] BY <1>1
  <2>2. \A a, b \in T : f[a] = f[b] => a = b BY <1>1
  <2>3. \A u \in U : \E a \in T : f[a] = u
    <3> SUFFICES ASSUME NEW u \in U PROVE \E a \in T : f[a] = u
      BY Zenon
    <3>1. u - 1 \in T BY <1>1
    <3>2. f[u - 1] = u BY <3>1, <1>1
    <3> QED BY <3>1, <3>2, Zenon
  <2> QED BY <2>1, <2>2, <2>3, Zenon DEF Bijection, Injection, Surjection, IsInjective
<1>4. IsFiniteSet(U) /\ Cardinality(U) = Cardinality(T)
  BY <1>2, <1>3, FS_Bijection DEF ExistsBijection
<1>5. 1 \notin U /\ Head(s) = s[1] BY <1>1
<1>6. CASE Head(s) # Event
  <2>1. {k \in 1..i + 1 : s[k] # Event} = U \cup {1} BY <1>1, <1>5, <1>6
  <2> HIDE DEF U, T, f
  <2>2. Cardinality(U \cup {1}) = Cardinality(U) + 1 BY <1>4, <1>5, FS_AddElement, Zenon
  <2> QED BY <1>2, <1>4, <1>6, <2>1, <2>2, Zenon DEF Count, T
<1>7. CASE Head(s) = Event
  <2>1. {k \in 1..i + 1 : s[k] # Event} = U BY <1>1, <1>5, <1>7
  <2>2. Count(s, i + 1) = Cardinality(U) /\ Count(Tail(s), i) = Cardinality(T)
    BY <2>1, Zenon DEF Count
  <2> HIDE DEF U, T, f
  <2> QED BY <1>2, <1>4, <1>7, <2>2
<1> QED BY <1>6, <1>7, Zenon

-----------------------------------------------------------------------------
(* facts that the steps share *)

\* Messages are numbers.
Messages == Responses \cup {Event}

\* The types of the state, one by one.
LEMMA Facts ==
    ASSUME SessionInv
    PROVE  /\ pc \in [Callers -> {"idle", "queued", "write", "await"}]
           /\ rlock \in Callers \cup {NoCaller}
           /\ no \in Nat /\ no \in 0..MaxReqs /\ blk \in 0..Blocks /\ wctr \in Nat
           /\ out \in Seq(Frames) /\ actr \in Nat /\ part \in Seq(Nat) /\ Len(part) \in Nat
           /\ Len(part) < Blocks /\ back \in Seq(Messages) /\ respQ \in Seq(Responses)
           /\ Len(back) \in Nat /\ Len(respQ) \in Nat /\ Len(respQ) <= RespCap
           /\ conn \in BOOLEAN /\ reader \in BOOLEAN
           /\ abandoned \subseteq 1..MaxReqs /\ IsFiniteSet(abandoned)
           /\ Cardinality(abandoned) \in Nat /\ Consumed \in Int
           /\ IsFiniteSet(Queued) /\ Cardinality(Queued) \in Nat
           /\ \A c \in Callers : pc[c] \in {"write", "await"} <=> rlock = c
<1>1. TypeOK BY Zenon DEF SessionInv
<1>2. MaxReqs \in Nat /\ IsFiniteSet(1..MaxReqs) BY SessionAssumption, FS_Interval
<1>3. abandoned \subseteq 1..MaxReqs /\ no \in 0..MaxReqs BY <1>1, Zenon DEF TypeOK
<1>4. IsFiniteSet(abandoned) /\ Cardinality(abandoned) \in Nat
  BY <1>2, <1>3, FS_Subset, FS_CardinalityType, Zenon
<1>5. IsFiniteSet(Queued) /\ Cardinality(Queued) \in Nat
  <2>1. Queued \in SUBSET Callers BY Zenon DEF Queued
  <2> QED BY <2>1, SessionAssumption, FS_Subset, FS_CardinalityType, Zenon
<1>6. no \in Nat BY <1>2, <1>3
<1>7. Consumed \in Int BY <1>4, <1>6 DEF Consumed
<1>8. /\ part \in Seq(Nat) /\ back \in Seq(Messages) /\ respQ \in Seq(Responses)
  BY <1>1, Zenon DEF TypeOK, Messages
<1>9. Len(part) \in Nat /\ Len(back) \in Nat /\ Len(respQ) \in Nat BY <1>8
<1> QED BY <1>1, <1>3, <1>4, <1>5, <1>6, <1>7, <1>8, <1>9, Zenon DEF TypeOK

\* A caller's state changes; the others keep theirs.
LEMMA CallerStepTypes ==
    ASSUME SessionInv, NEW c \in Callers, NEW q \in {"idle", "queued", "write", "await"},
           pc' = [pc EXCEPT ![c] = q]
    PROVE  /\ pc' \in [Callers -> {"idle", "queued", "write", "await"}]
           /\ pc'[c] = q /\ \A d \in Callers : d # c => pc'[d] = pc[d]
           /\ (q = "queued" /\ pc[c] # "queued") =>
                  Cardinality(Queued') = Cardinality(Queued) + 1
           /\ (q # "queued" /\ pc[c] = "queued") =>
                  Cardinality(Queued') = Cardinality(Queued) - 1
           /\ ((q = "queued") <=> (pc[c] = "queued")) => Queued' = Queued
<1>1. pc \in [Callers -> {"idle", "queued", "write", "await"}] BY Facts, Zenon
<1>2. /\ pc' \in [Callers -> {"idle", "queued", "write", "await"}]
      /\ pc'[c] = q /\ \A d \in Callers : d # c => pc'[d] = pc[d]
  BY <1>1, Zenon
<1>3. IsFiniteSet(Queued) /\ Cardinality(Queued) \in Nat BY Facts, Zenon
<1>4. (q = "queued" /\ pc[c] # "queued") => Cardinality(Queued') = Cardinality(Queued) + 1
  <2> SUFFICES ASSUME q = "queued", pc[c] # "queued"
               PROVE  Cardinality(Queued') = Cardinality(Queued) + 1
    BY Zenon
  <2>1. Queued' = Queued \cup {c} /\ c \notin Queued BY <1>2, Zenon DEF Queued
  <2> QED BY <1>3, <2>1, FS_AddElement, Zenon
<1>5. (q # "queued" /\ pc[c] = "queued") => Cardinality(Queued') = Cardinality(Queued) - 1
  <2> SUFFICES ASSUME q # "queued", pc[c] = "queued"
               PROVE  Cardinality(Queued') = Cardinality(Queued) - 1
    BY Zenon
  <2>1. Queued' = Queued \ {c} /\ c \in Queued BY <1>2, Zenon DEF Queued
  <2> QED BY <1>3, <2>1, FS_RemoveElement, Zenon
<1>6. ((q = "queued") <=> (pc[c] = "queued")) => Queued' = Queued BY <1>2, Zenon DEF Queued
<1> QED BY <1>2, <1>4, <1>5, <1>6, Zenon

\* A request that is abandoned later does not shorten the list of those that
\* were before an earlier request.
LEMMA LagKept ==
    ASSUME SessionInv, \A c \in Callers : got'[c] = got[c] \/ ~(got'[c].resp > 0),
           abandoned \subseteq abandoned', IsFiniteSet(abandoned')
    PROVE  ResponseLag'
<1> SUFFICES ASSUME NEW c \in Callers, got'[c] = got[c], got[c].resp > 0
             PROVE  /\ got[c].resp <= got[c].no
                    /\ got[c].no - got[c].resp
                          <= Cardinality({a \in abandoned' : a < got[c].no})
  BY Zenon DEF ResponseLag
<1> DEFINE A == {a \in abandoned : a < got[c].no}
           B == {a \in abandoned' : a < got[c].no}
<1>1. got[c].resp <= got[c].no /\ got[c].no - got[c].resp <= Cardinality(A)
  BY Zenon DEF SessionInv, ResponseLag
<1>2. IsFiniteSet(B) /\ A \in SUBSET B
  <2>1. B \in SUBSET abandoned' BY Zenon
  <2> QED BY <2>1, FS_Subset, Zenon
<1>3. got[c].no \in Nat /\ got[c].resp \in Int
  <2>1. got[c] \in [no : Nat, resp : Responses \cup {NoResponse, IoError}]
    BY Zenon DEF SessionInv, TypeOK
  <2>2. Responses \cup {NoResponse, IoError} \subseteq Int
    BY DEF Responses, ConnectionClosed, NoResponse, IoError
  <2>3. got[c].no \in Nat /\ got[c].resp \in Responses \cup {NoResponse, IoError} BY <2>1, Zenon
  <2> QED BY <2>2, <2>3, Zenon
<1> HIDE DEF A, B
<1>4. Cardinality(A) <= Cardinality(B) /\ Cardinality(A) \in Nat /\ Cardinality(B) \in Nat
  BY <1>2, FS_Subset, FS_CardinalityType, Zenon
<1>5. got[c].no - got[c].resp <= Cardinality(B) BY <1>1, <1>3, <1>4
<1> QED BY <1>1, <1>5, Zenon DEF B

\* Steps that leave what is on its way to the callers alone.
LEMMA SameChannels ==
    ASSUME SessionInv, UNCHANGED <<actr, part, back, conn, reader, respQ>>,
           Consumed' = Consumed, no' \in Nat, no' >= no
    PROVE  Generated' /\ InStep'
<1>1. Generated' BY Zenon DEF SessionInv, Generated
<1>2. /\ back \in Seq(Messages) /\ respQ \in Seq(Responses) /\ no \in Nat BY Facts, Zenon
<1>3. /\ \A i \in 1..Len(back) : back[i] \in Int
      /\ \A i \in 1..Len(respQ) : respQ[i] \in Int
  BY <1>2 DEF Messages, Responses, Event, ConnectionClosed
<1>4. InStep' BY <1>2, <1>3 DEF SessionInv, InStep
<1> QED BY <1>1, <1>4, Zenon

\* A new session.
LEMMA InitSession == Init => SessionInv
<1> SUFFICES ASSUME Init PROVE SessionInv
  BY Zenon
<1> USE SessionAssumption
<1>1. IsFiniteSet({}) /\ Cardinality({}) = 0 BY FS_EmptySet, Zenon
<1>2. NoResult \in [no : Nat, resp : Responses \cup {NoResponse, IoError}]
      /\ NoResult.no = 0 /\ ~(NoResult.resp > 0)
  BY DEF NoResult, IoError
<1>3. conn \in BOOLEAN /\ reader \in BOOLEAN
  <2>1. conn = TRUE /\ reader = TRUE BY Zenon DEF Init
  <2> QED BY <2>1, Zenon
<1>4. got \in [Callers -> [no : Nat, resp : Responses \cup {NoResponse, IoError}]]
  BY <1>2, Zenon DEF Init
<1>5. TypeOK BY <1>3, <1>4 DEF Init, TypeOK
<1>6. Numbers
  <2>1. Queued = {} BY Zenon DEF Init, Queued
  <2> QED BY <1>1, <1>2, <2>1 DEF Init, Numbers
<1>7. Cap(0) = 0 BY DEF Cap
<1>8. Nonces BY <1>7 DEF Init, Nonces
<1>9. Generated
  <2>1. Consumed = 0 BY <1>1 DEF Init, Consumed
  <2>2. Count(back, Len(back)) = 0 BY CountType, Zenon DEF Init
  <2> QED BY <1>7, <2>1, <2>2 DEF Init, Generated
<1>10. InStep BY DEF Init, InStep
<1>11. ResponseLag BY <1>2, Zenon DEF Init, ResponseLag
<1> QED BY <1>5, <1>6, <1>8, <1>9, <1>10, <1>11, Zenon DEF SessionInv

\* request() is called.
LEMMA RequestSession ==
    ASSUME SessionInv, NEW c \in Callers, Request(c)
    PROVE  SessionInv'
<1>1. /\ pc[c] = "idle" /\ no + Cardinality(Queued) < MaxReqs
      /\ pc' = [pc EXCEPT ![c] = "queued"]
      /\ UNCHANGED <<rlock, no, blk, wctr, out, actr, part, events, back, conn, reader,
                     respQ, eventQ, got, abandoned>>
  BY Zenon DEF Request, peer, Queued
<1>2. /\ pc' \in [Callers -> {"idle", "queued", "write", "await"}]
      /\ pc'[c] = "queued" /\ \A d \in Callers : d # c => pc'[d] = pc[d]
      /\ Cardinality(Queued') = Cardinality(Queued) + 1
  BY <1>1, CallerStepTypes, Zenon
<1>3. no \in Nat /\ Cardinality(Queued) \in Nat /\ MaxReqs \in Nat BY Facts, SessionAssumption, Zenon
<1>4. TypeOK' BY <1>1, <1>2, Zenon DEF SessionInv, TypeOK
<1>5. Numbers' BY <1>1, <1>2, <1>3 DEF SessionInv, Numbers
<1>6. Nonces' BY <1>1, <1>2, Zenon DEF SessionInv, Nonces
<1>7. Consumed' = Consumed /\ no' \in Nat /\ no' >= no BY <1>1, <1>3 DEF Consumed
<1>8. Generated' /\ InStep' BY <1>1, <1>7, SameChannels, Zenon
<1>9. ResponseLag' BY <1>1, Facts, LagKept, Zenon
<1> QED BY <1>4, <1>5, <1>6, <1>8, <1>9, Zenon DEF SessionInv

\* A queued request gets the receiver and the next number.
LEMMA LockSession ==
    ASSUME SessionInv, NEW c \in Callers, LockResponses(c)
    PROVE  SessionInv'
<1>1. /\ pc[c] = "queued" /\ rlock = NoCaller /\ pc' = [pc EXCEPT ![c] = "write"]
      /\ rlock' = c /\ no' = no + 1 /\ blk' = 0
      /\ UNCHANGED <<wctr, out, actr, part, events, back, conn, reader, respQ, eventQ,
                     got, abandoned>>
  BY Zenon DEF LockResponses, peer
<1>2. /\ pc' \in [Callers -> {"idle", "queued", "write", "await"}]
      /\ pc'[c] = "write" /\ \A d \in Callers : d # c => pc'[d] = pc[d]
      /\ Cardinality(Queued') = Cardinality(Queued) - 1
  BY <1>1, CallerStepTypes, Zenon
<1>3. /\ no \in Nat /\ Cardinality(Queued) \in Nat /\ MaxReqs \in Nat /\ Blocks \in Nat \ {0}
      /\ wctr \in Nat /\ Cardinality(abandoned) \in Nat /\ NoCaller \notin Callers
      /\ \A d \in Callers : pc[d] \notin {"write", "await"}
      /\ abandoned \subseteq 1..MaxReqs /\ out \in Seq(Frames)
  BY <1>1, Facts, SessionAssumption, Zenon
<1>4. no + Cardinality(Queued) <= MaxReqs /\ Cardinality(Queued) >= 1
  <2>1. c \in Queued BY <1>1, Zenon DEF Queued
  <2>2. Cardinality(Queued) # 0 BY <2>1, Facts, FS_EmptySet, Zenon
  <2> QED BY <1>3, <2>2 DEF SessionInv, Numbers
<1>5. TypeOK' BY <1>1, <1>2, <1>3, <1>4 DEF SessionInv, TypeOK
<1>6. Numbers'
  <2>1. \A a \in abandoned : a <= no /\ a \in Nat BY <1>3 DEF SessionInv, Numbers
  <2>2. \A d \in Callers : got[d].no <= no /\ got[d].no \in Nat
    BY Zenon DEF SessionInv, Numbers, TypeOK
  <2> QED BY <1>1, <1>2, <1>3, <1>4, <2>1, <2>2 DEF Numbers
<1>7. Nonces'
  <2>1. Cap(no) \in Int /\ Cap(no') = Cap(no) + Blocks
    <3>1. no \in Int BY <1>3
    <3>2. Cap(no) \in Int /\ Cap(no + 1) = Cap(no) + Blocks BY <3>1, CapStep, Zenon
    <3> QED BY <1>1, <3>2, Zenon
  <2>2. wctr <= Cap(no) BY Zenon DEF SessionInv, Nonces
  <2>3. \A i \in 1..Len(out) : out[i].ctr < Cap(out[i].no) /\ out[i].no <= no /\ out[i].no \in Nat
    <3>1. \A i \in 1..Len(out) : out[i] \in Frames BY <1>3
    <3>2. \A i \in 1..Len(out) : out[i].no \in Nat BY <3>1, Zenon DEF Frames
    <3> QED BY <3>2, Zenon DEF SessionInv, Nonces
  <2>4. wctr' <= Cap(no') /\ wctr' + Blocks <= Cap(no') + blk' /\ blk' < Blocks
    BY <1>1, <1>3, <2>1, <2>2
  <2>5. \A i \in 1..Len(out') : out'[i].ctr < Cap(out'[i].no) /\ out'[i].no <= no'
    BY <1>1, <1>3, <2>3
  <2> QED BY <2>4, <2>5, Zenon DEF Nonces
<1>8. Consumed' = Consumed /\ no' \in Nat /\ no' >= no BY <1>1, <1>3 DEF Consumed
<1>9. Generated' /\ InStep' BY <1>1, <1>8, SameChannels, Zenon
<1>10. ResponseLag' BY <1>1, Facts, LagKept, Zenon
<1> QED BY <1>5, <1>6, <1>7, <1>9, <1>10, Zenon DEF SessionInv

\* A frame that is sent takes the next nonce of its request.
LEMMA SendFrame ==
    ASSUME SessionInv, NEW c \in Callers, pc[c] = "write", NEW w \in BOOLEAN,
           out' = Append(out, [ctr |-> wctr, no |-> no, whole |-> w]), no' = no
    PROVE  /\ out' \in Seq(Frames)
           /\ \A i \in 1..Len(out') : out'[i].ctr < Cap(out'[i].no) /\ out'[i].no <= no'
<1> DEFINE f == [ctr |-> wctr, no |-> no, whole |-> w]
<1>1. /\ wctr \in Nat /\ no \in Nat /\ out \in Seq(Frames) /\ Blocks \in Nat /\ blk \in Nat
  BY Facts, SessionAssumption
<1>2. f \in Frames /\ f.ctr = wctr /\ f.no = no BY <1>1, Zenon DEF Frames
<1>3. wctr < Cap(no)
  <2>1. blk < Blocks /\ wctr + Blocks <= Cap(no) + blk BY Zenon DEF SessionInv, Nonces
  <2>2. Cap(no) \in Int BY <1>1, CapStep
  <2> QED BY <1>1, <2>1, <2>2
<1> HIDE DEF f
<1>4. out' = Append(out, f) BY Zenon DEF f
<1>5. out' \in Seq(Frames) /\ Len(out') = Len(out) + 1 /\ Len(out) \in Nat
  BY <1>1, <1>2, <1>4
<1>6. ASSUME NEW i \in 1..Len(out')
      PROVE  out'[i].ctr < Cap(out'[i].no) /\ out'[i].no <= no
  <2>1. CASE i = Len(out) + 1
    <3>1. out'[i] = f BY <1>1, <1>4, <2>1
    <3> QED BY <1>1, <1>2, <1>3, <3>1
  <2>2. CASE i # Len(out) + 1
    <3>1. i \in 1..Len(out) BY <1>5, <2>2
    <3>2. out'[i] = out[i] BY <1>1, <1>4, <3>1
    <3> QED BY <3>1, <3>2, Zenon DEF SessionInv, Nonces
  <2> QED BY <2>1, <2>2, Zenon
<1> QED BY <1>5, <1>6, Zenon

\* The next block of the request is sealed and written.
LEMMA WriteSession ==
    ASSUME SessionInv, NEW c \in Callers, WriteBlock(c)
    PROVE  SessionInv'
<1> DEFINE q == IF blk + 1 = Blocks THEN "await" ELSE "write"
<1>1. /\ pc[c] = "write" /\ wctr' = wctr + 1 /\ blk' = blk + 1 /\ pc' = [pc EXCEPT ![c] = q]
      /\ out' = IF conn THEN Append(out, [ctr |-> wctr, no |-> no, whole |-> TRUE]) ELSE out
      /\ UNCHANGED <<rlock, no, actr, part, events, back, conn, reader, respQ, eventQ, got,
                     abandoned>>
  BY Zenon DEF WriteBlock, encrypt_frame, peer
<1>2. /\ no \in Nat /\ wctr \in Nat /\ blk \in Nat /\ Blocks \in Nat \ {0} /\ rlock = c
      /\ out \in Seq(Frames) /\ Cap(no) \in Int
      /\ blk < Blocks /\ wctr + Blocks <= Cap(no) + blk
  <2>1. /\ no \in Nat /\ wctr \in Nat /\ blk \in Nat /\ Blocks \in Nat \ {0} /\ rlock = c
        /\ out \in Seq(Frames)
    BY <1>1, Facts, SessionAssumption
  <2>2. Cap(no) \in Int BY <2>1, CapStep
  <2>3. blk < Blocks /\ wctr + Blocks <= Cap(no) + blk BY <1>1, Zenon DEF SessionInv, Nonces
  <2> QED BY <2>1, <2>2, <2>3, Zenon
<1>3. /\ pc' \in [Callers -> {"idle", "queued", "write", "await"}]
      /\ pc'[c] = q /\ \A d \in Callers : d # c => pc'[d] = pc[d]
      /\ Queued' = Queued
  BY <1>1, CallerStepTypes, Zenon
<1>4. /\ out' \in Seq(Frames)
      /\ \A i \in 1..Len(out') : out'[i].ctr < Cap(out'[i].no) /\ out'[i].no <= no'
  <2>1. CASE conn BY <1>1, <2>1, SendFrame, Zenon
  <2>2. CASE ~conn BY <1>1, <1>2, <2>2, Zenon DEF SessionInv, Nonces
  <2> QED BY <2>1, <2>2, Zenon
<1>5. TypeOK'
  <2>1. \A d \in Callers : pc'[d] \in {"write", "await"} <=> rlock' = d
    BY <1>1, <1>2, <1>3, Facts, Zenon
  <2>2. blk' \in 0..Blocks /\ wctr' \in Nat BY <1>1, <1>2
  <2> QED BY <1>1, <1>3, <1>4, <2>1, <2>2, Zenon DEF SessionInv, TypeOK
<1>6. Numbers' BY <1>1, <1>3, Zenon DEF SessionInv, Numbers
<1>7. Nonces'
  <2>1. wctr' <= Cap(no') BY <1>1, <1>2
  <2>2. ASSUME NEW d \in Callers, pc'[d] = "write"
        PROVE  blk' < Blocks /\ wctr' + Blocks <= Cap(no') + blk'
    <3>1. d = c /\ blk + 1 # Blocks BY <1>2, <1>3, <2>2, Facts, Zenon
    <3> QED BY <1>1, <1>2, <3>1
  <2> QED BY <1>4, <2>1, <2>2, Zenon DEF Nonces
<1>8. Consumed' = Consumed /\ no' \in Nat /\ no' >= no BY <1>1, <1>2 DEF Consumed
<1>9. Generated' /\ InStep' BY <1>1, <1>8, SameChannels, Zenon
<1>10. ResponseLag' BY <1>1, Facts, LagKept, Zenon
<1> QED BY <1>5, <1>6, <1>7, <1>9, <1>10, Zenon DEF SessionInv

\* A request that has the receiver ends without a response.
LEMMA AbandonSession ==
    ASSUME SessionInv, NEW c \in Callers, pc[c] \in {"write", "await"},
           pc' = [pc EXCEPT ![c] = "idle"], rlock' = NoCaller,
           abandoned' = abandoned \cup {no},
           wctr' = wctr \/ (pc[c] = "write" /\ wctr' = wctr + 1),
           \/ out' = out
           \/ /\ pc[c] = "write" 
              /\ out' = Append(out, [ctr |-> wctr, no |-> no, whole |-> FALSE]),
           \/ got' = got
           \/ got' = [got EXCEPT ![c] = [no |-> no, resp |-> IoError]],
           UNCHANGED <<no, blk, actr, part, events, back, conn, reader, respQ, eventQ>>
    PROVE  SessionInv'
<1>1. /\ no \in Nat /\ wctr \in Nat /\ blk \in Nat /\ Blocks \in Nat \ {0} /\ rlock = c
      /\ out \in Seq(Frames) /\ NoCaller \notin Callers /\ MaxReqs \in Nat
      /\ abandoned \subseteq 1..MaxReqs /\ no \in 0..MaxReqs
      /\ IsFiniteSet(abandoned) /\ Cardinality(abandoned) \in Nat
      /\ Cardinality(Queued) \in Nat
  BY Facts, SessionAssumption
<1>2. /\ pc' \in [Callers -> {"idle", "queued", "write", "await"}]
      /\ pc'[c] = "idle" /\ \A d \in Callers : d # c => pc'[d] = pc[d]
      /\ Queued' = Queued
  BY CallerStepTypes, Zenon
<1>3. no # 0 /\ no \notin abandoned BY <1>1, Zenon DEF SessionInv, Numbers
<1>4. /\ IsFiniteSet(abandoned') /\ Cardinality(abandoned') = Cardinality(abandoned) + 1
  BY <1>1, <1>3, FS_AddElement, Zenon
<1>5. /\ out' \in Seq(Frames)
      /\ \A i \in 1..Len(out') : out'[i].ctr < Cap(out'[i].no) /\ out'[i].no <= no'
  <2>1. CASE out' = out BY <1>1, <2>1, Zenon DEF SessionInv, Nonces
  <2>2. CASE out' # out BY <2>2, SendFrame, Zenon
  <2> QED BY <2>1, <2>2, Zenon
<1>6. /\ got' \in [Callers -> [no : Nat, resp : Responses \cup {NoResponse, IoError}]]
      /\ \A d \in Callers : got'[d] = got[d] \/ (got'[d].no = no /\ ~(got'[d].resp > 0))
  <2> DEFINE r == [no |-> no, resp |-> IoError]
  <2>1. /\ r \in [no : Nat, resp : Responses \cup {NoResponse, IoError}] /\ r.no = no
        /\ ~(r.resp > 0)
    BY <1>1 DEF IoError
  <2>2. got \in [Callers -> [no : Nat, resp : Responses \cup {NoResponse, IoError}]]
    BY Zenon DEF SessionInv, TypeOK
  <2> HIDE DEF r
  <2>3. got' = got \/ got' = [got EXCEPT ![c] = r] BY Zenon DEF r
  <2> QED BY <2>1, <2>2, <2>3
<1>7. TypeOK'
  <2>1. \A d \in Callers : pc'[d] \in {"write", "await"} <=> rlock' = d
    BY <1>1, <1>2, Facts, Zenon
  <2>2. wctr' \in Nat /\ abandoned' \subseteq 1..MaxReqs BY <1>1, <1>3
  <2> QED BY <1>2, <1>5, <1>6, <2>1, <2>2, Zenon DEF SessionInv, TypeOK
<1>8. Numbers' BY <1>1, <1>2, <1>6 DEF SessionInv, Numbers
<1>9. Nonces'
  <2>1. Cap(no) \in Int BY <1>1, CapStep
  <2>2. wctr' <= Cap(no)
    BY <1>1, <2>1 DEF SessionInv, Nonces
  <2>3. \A d \in Callers : pc'[d] # "write" BY <1>1, <1>2, Facts, Zenon
  <2> QED BY <1>5, <2>2, <2>3, Zenon DEF Nonces
<1>10. Consumed' = Consumed /\ no' \in Nat /\ no' >= no BY <1>1, <1>4 DEF Consumed
<1>11. Generated' /\ InStep' BY <1>10, SameChannels, Zenon
<1>12. ResponseLag' BY <1>4, <1>6, LagKept, Zenon
<1> QED BY <1>7, <1>8, <1>9, <1>11, <1>12, Zenon DEF SessionInv

\* write_all fails.
LEMMA WriteFailsSession ==
    ASSUME SessionInv, NEW c \in Callers, WriteFails(c)
    PROVE  SessionInv'
  BY AbandonSession, Zenon DEF WriteFails, encrypt_frame, Return, peer

\* The future is dropped.
LEMMA TimeoutSession ==
    ASSUME SessionInv, NEW c \in Callers, Timeout(c)
    PROVE  SessionInv'
<1>1. /\ pc[c] # "idle" /\ pc' = [pc EXCEPT ![c] = "idle"]
      /\ UNCHANGED <<no, blk, actr, part, events, back, conn, reader, respQ, eventQ, got>>
  BY Zenon DEF Timeout, peer
<1>2. CASE pc[c] = "queued"
  <2>1. UNCHANGED <<rlock, abandoned, wctr, out>> BY <1>2, Zenon DEF Timeout
  <2>2. /\ pc' \in [Callers -> {"idle", "queued", "write", "await"}]
        /\ pc'[c] = "idle" /\ \A d \in Callers : d # c => pc'[d] = pc[d]
        /\ Cardinality(Queued') = Cardinality(Queued) - 1
    BY <1>1, <1>2, CallerStepTypes, Zenon
  <2>3. TypeOK'
    <3>1. \A d \in Callers : pc'[d] \in {"write", "await"} <=> rlock' = d
      BY <1>2, <2>1, <2>2, Facts, Zenon
    <3> QED BY <1>1, <2>1, <2>2, <3>1, Zenon DEF SessionInv, TypeOK
  <2>4. Numbers'
    <3>1. no \in Nat /\ Cardinality(Queued) \in Nat /\ MaxReqs \in Nat
      BY Facts, SessionAssumption, Zenon
    <3>2. no' + Cardinality(Queued') <= MaxReqs BY <1>1, <2>2, <3>1 DEF SessionInv, Numbers
    <3> QED BY <1>1, <2>1, <3>2, Zenon DEF SessionInv, Numbers
  <2>5. Nonces' BY <1>1, <2>1, <2>2, Zenon DEF SessionInv, Nonces
  <2>6. Generated' /\ InStep'
    <3>1. Consumed' = Consumed BY <1>1, <2>1, Zenon DEF Consumed
    <3>2. no' \in Nat /\ no' >= no BY <1>1, Facts
    <3> QED BY <1>1, <3>1, <3>2, SameChannels, Zenon
  <2>7. ResponseLag' BY <1>1, <2>1, Zenon DEF SessionInv, ResponseLag
  <2> QED BY <2>3, <2>4, <2>5, <2>6, <2>7, Zenon DEF SessionInv
<1>3. CASE pc[c] # "queued"
  <2>1. pc[c] \in {"write", "await"} BY <1>1, <1>3, Facts, Zenon
  <2>2. rlock' = NoCaller /\ abandoned' = abandoned \cup {no} BY <1>3, Zenon DEF Timeout
  <2>3. /\ wctr' = wctr \/ (pc[c] = "write" /\ wctr' = wctr + 1)
        /\ \/ out' = out
           \/ /\ pc[c] = "write"
              /\ out' = Append(out, [ctr |-> wctr, no |-> no, whole |-> FALSE])
    BY Zenon DEF Timeout, encrypt_frame
  <2> QED BY <1>1, <2>1, <2>2, <2>3, AbandonSession, Zenon
<1> QED BY <1>2, <1>3, Zenon

\* A result is returned that is no response, or is late by no more than the
\* abandoned requests.
LEMMA ReturnLag ==
    ASSUME SessionInv, NEW c \in Callers, rlock = c, NEW v \in Responses \cup {NoResponse},
           got' = [got EXCEPT ![c] = [no |-> no, resp |-> v]], abandoned' = abandoned,
           v > 0 => v >= Consumed + 1 /\ v <= no
    PROVE  /\ got' \in [Callers -> [no : Nat, resp : Responses \cup {NoResponse, IoError}]]
           /\ \A d \in Callers : got'[d] = got[d] \/ got'[d].no = no
           /\ ResponseLag'
<1> DEFINE r == [no |-> no, resp |-> v]
<1>1. /\ no \in Nat /\ NoCaller \notin Callers /\ MaxReqs \in Nat
      /\ abandoned \subseteq 1..MaxReqs /\ Cardinality(abandoned) \in Nat
  BY Facts, SessionAssumption, Zenon
<1>2. r \in [no : Nat, resp : Responses \cup {NoResponse, IoError}] /\ r.no = no /\ r.resp = v
  BY <1>1, Zenon
<1>3. got \in [Callers -> [no : Nat, resp : Responses \cup {NoResponse, IoError}]]
  BY Zenon DEF SessionInv, TypeOK
<1>4. v \in Int BY DEF Responses, ConnectionClosed, NoResponse
<1> HIDE DEF r
<1>5. got' = [got EXCEPT ![c] = r] BY Zenon DEF r
<1>6. got'[c] = r /\ \A d \in Callers : d # c => got'[d] = got[d] BY <1>3, <1>5, Zenon
<1>7. {a \in abandoned : a < no} = abandoned
  <2>1. \A a \in abandoned : a <= no /\ a # no BY <1>1, Zenon DEF SessionInv, Numbers
  <2>2. \A a \in abandoned : a \in Nat BY <1>1
  <2>3. \A a \in abandoned : a < no BY <1>1, <2>1, <2>2
  <2> QED BY <2>3, Zenon
<1>8. Consumed = no - Cardinality(abandoned) - 1 BY <1>1, Zenon DEF Consumed
<1>9. v > 0 => v <= no /\ no - v <= Cardinality({a \in abandoned : a < no})
  <2>1. v > 0 => v <= no /\ no - v <= Cardinality(abandoned) BY <1>1, <1>4, <1>8
  <2> QED BY <1>7, <2>1, Zenon
<1>10. ResponseLag'
  <2> SUFFICES ASSUME NEW d \in Callers, got'[d].resp > 0
               PROVE  /\ got'[d].resp <= got'[d].no
                      /\ got'[d].no - got'[d].resp
                            <= Cardinality({a \in abandoned : a < got'[d].no})
    BY Zenon DEF ResponseLag
  <2>1. CASE d = c BY <1>2, <1>6, <1>9, <2>1, Zenon
  <2>2. CASE d # c BY <1>6, <2>2, Zenon DEF SessionInv, ResponseLag
  <2> QED BY <2>1, <2>2, Zenon
<1> QED BY <1>2, <1>3, <1>5, <1>6, <1>10, Zenon

\* The next response in the channel is taken, whosever it is.
LEMMA ReceiveSession ==
    ASSUME SessionInv, NEW c \in Callers, Receive(c)
    PROVE  SessionInv'
<1> DEFINE v == IF respQ # <<>> THEN Head(respQ) ELSE NoResponse
<1>1. /\ pc[c] = "await" /\ pc' = [pc EXCEPT ![c] = "idle"] /\ rlock' = NoCaller
      /\ got' = [got EXCEPT ![c] = [no |-> no, resp |-> v]]
      /\ \/ respQ # <<>> /\ respQ' = Tail(respQ)
         \/ respQ = <<>> /\ ~reader /\ respQ' = respQ
      /\ UNCHANGED <<no, blk, wctr, out, actr, part, events, back, conn, reader, eventQ,
                     abandoned>>
  BY Zenon DEF Receive, Return, peer
<1>2. /\ no \in Nat /\ rlock = c /\ NoCaller \notin Callers /\ Consumed \in Int
      /\ Cardinality(abandoned) \in Nat /\ respQ \in Seq(Responses) /\ Len(respQ) \in Nat
      /\ back \in Seq(Messages) /\ Len(back) \in Nat /\ RespCap \in Nat /\ Len(respQ) <= RespCap
  BY <1>1, Facts, SessionAssumption, Zenon
<1>3. Consumed' = Consumed + 1 BY <1>1, <1>2 DEF Consumed
<1>4. v \in Responses \cup {NoResponse} /\ (v > 0 => v >= Consumed + 1 /\ v <= no)
  <2>1. CASE respQ # <<>>
    <3>1. 1 \in 1..Len(respQ) /\ Head(respQ) = respQ[1] /\ respQ[1] \in Responses
      BY <1>2, <2>1
    <3> QED BY <2>1, <3>1, Zenon DEF SessionInv, InStep
  <2>2. CASE respQ = <<>> BY <2>2 DEF NoResponse
  <2> QED BY <2>1, <2>2, Zenon
<1> HIDE DEF v
<1>5. /\ got' \in [Callers -> [no : Nat, resp : Responses \cup {NoResponse, IoError}]]
      /\ \A d \in Callers : got'[d] = got[d] \/ got'[d].no = no
      /\ ResponseLag'
  BY <1>1, <1>2, <1>4, ReturnLag, Zenon
<1>6. /\ pc' \in [Callers -> {"idle", "queued", "write", "await"}]
      /\ pc'[c] = "idle" /\ \A d \in Callers : d # c => pc'[d] = pc[d]
      /\ Queued' = Queued
  BY <1>1, CallerStepTypes, Zenon
<1>7. respQ' \in Seq(Responses) /\ Len(respQ') <= RespCap
  <2>1. ASSUME respQ # <<>>
        PROVE  Tail(respQ) \in Seq(Responses) /\ Len(Tail(respQ)) = Len(respQ) - 1
    BY <1>2, <2>1
  <2>2. CASE respQ # <<>>
    <3>1. respQ' = Tail(respQ) BY <1>1, <2>2, Zenon
    <3> QED BY <1>2, <2>1, <2>2, <3>1
  <2>3. CASE respQ = <<>> BY <1>1, <1>2, <2>3, Zenon
  <2> QED BY <2>2, <2>3, Zenon
<1>8. TypeOK'
  <2>1. \A d \in Callers : pc'[d] \in {"write", "await"} <=> rlock' = d
    BY <1>1, <1>2, <1>6, Facts, Zenon
  <2> QED BY <1>1, <1>5, <1>6, <1>7, <2>1, Zenon DEF SessionInv, TypeOK
<1>9. Numbers'
  <2>1. no' = no /\ abandoned' = abandoned /\ (rlock' # NoCaller => rlock # NoCaller)
    BY <1>1, <1>2, Zenon
  <2>2. \A d \in Callers : got'[d].no <= no BY <1>2, <1>5 DEF SessionInv, Numbers
  <2> QED BY <1>6, <2>1, <2>2, Zenon DEF SessionInv, Numbers
<1>10. Nonces' BY <1>1, <1>6, Zenon DEF SessionInv, Nonces
<1>11. Generated' /\ InStep'
  <2>1. CASE respQ = <<>>
    <3>1. ~reader /\ respQ' = <<>> BY <1>1, <2>1, Zenon
    <3>2. back = <<>> /\ ~conn BY <3>1, Zenon DEF SessionInv, Generated
    <3> QED BY <1>1, <3>1, <3>2 DEF SessionInv, Generated, InStep
  <2>2. CASE respQ # <<>>
    <3>1. /\ respQ' = Tail(respQ) /\ Len(respQ') = Len(respQ) - 1
          /\ \A i \in 1..Len(respQ') : i + 1 \in 1..Len(respQ) /\ respQ'[i] = respQ[i + 1]
      <4>1. respQ' = Tail(respQ) BY <1>1, <2>2, Zenon
      <4>2. /\ Len(Tail(respQ)) = Len(respQ) - 1
            /\ \A i \in 1..Len(respQ) - 1 : Tail(respQ)[i] = respQ[i + 1]
        BY <1>2, <2>2
      <4> QED BY <1>2, <4>1, <4>2
    <3>2. Consumed' + Len(respQ') = Consumed + Len(respQ)
      <4>1. Len(respQ') = Len(respQ) - 1 BY <3>1, Zenon
      <4> QED BY <1>2, <1>3, <4>1
    <3>3. Generated' BY <1>1, <3>2, Zenon DEF SessionInv, Generated
    <3>4. ASSUME NEW i \in 1..Len(respQ'), respQ'[i] > 0
          PROVE  respQ'[i] >= Consumed' + i /\ respQ'[i] <= no'
      <4>1. respQ[i + 1] >= Consumed + (i + 1) /\ respQ[i + 1] <= no
        BY <3>1, <3>4, Zenon DEF SessionInv, InStep
      <4>2. respQ[i + 1] \in Int BY <1>2, <3>1 DEF Responses, ConnectionClosed
      <4> QED BY <1>1, <1>2, <1>3, <3>1, <4>1, <4>2
    <3>5. \A i \in 1..Len(back') : back'[i] > 0 =>
             back'[i] >= Consumed' + Len(respQ') + Count(back', i) /\ back'[i] <= no'
      BY <1>1, <3>2, Zenon DEF SessionInv, InStep
    <3> QED BY <3>3, <3>4, <3>5, Zenon DEF InStep
  <2> QED BY <2>1, <2>2, Zenon
<1> QED BY <1>5, <1>8, <1>9, <1>10, <1>11, Zenon DEF SessionInv

-----------------------------------------------------------------------------
(* the steps of the accessory, the network and the reader task *)

\* They leave the callers alone.
LEMMA SameCallers ==
    ASSUME SessionInv, UNCHANGED <<pc, rlock, no, blk, wctr, got, abandoned>>
    PROVE  /\ Numbers' /\ ResponseLag' /\ Consumed' = Consumed
           /\ (\A i \in 1..Len(out') : out'[i].ctr < Cap(out'[i].no) /\ out'[i].no <= no)
                  => Nonces'
           /\ (/\ out' \in Seq(Frames) /\ actr' \in Nat
               /\ part' \in Seq(Nat) /\ Len(part') < Blocks /\ back' \in Seq(Messages)
               /\ conn' \in BOOLEAN /\ reader' \in BOOLEAN
               /\ respQ' \in Seq(Responses) /\ Len(respQ') <= RespCap
               /\ eventQ' \in 0..EventCap /\ events' \in 0..MaxEvents) => TypeOK'
<1>1. Queued' = Queued BY Zenon DEF Queued
<1>2. Numbers' BY <1>1, Zenon DEF SessionInv, Numbers
<1>3. ResponseLag' BY Zenon DEF SessionInv, ResponseLag
<1>4. Consumed' = Consumed BY Zenon DEF Consumed
<1>5. (\A i \in 1..Len(out') : out'[i].ctr < Cap(out'[i].no) /\ out'[i].no <= no) => Nonces'
  BY Zenon DEF SessionInv, Nonces
<1> QED BY <1>2, <1>3, <1>4, <1>5, Zenon DEF SessionInv, TypeOK, Messages

\* The connection goes down.
LEMMA CloseSession ==
    ASSUME SessionInv, Close,
           UNCHANGED <<pc, rlock, no, blk, wctr, actr, part, events, reader, respQ, eventQ,
                       got, abandoned>>
    PROVE  SessionInv'
<1>1. PICK n \in 0..Len(back) : back' = SubSeq(back, 1, n) BY Zenon DEF Close
<1>2. conn' = FALSE /\ out' = <<>> BY Zenon DEF Close
<1>3. back \in Seq(Messages) /\ Len(back) \in Nat BY Facts, Zenon
<1>4. /\ back' \in Seq(Messages) /\ Len(back') = n /\ n \in Nat /\ n <= Len(back)
      /\ \A i \in 1..n : i \in 1..Len(back) /\ back'[i] = back[i]
  BY <1>1, <1>3
<1>5. TypeOK'
  <2>0. out' \in Seq(Frames) BY <1>2
  <2>1. conn' \in BOOLEAN BY <1>2, Zenon
  <2>2. /\ actr' \in Nat /\ part' \in Seq(Nat) /\ Len(part') < Blocks /\ reader' \in BOOLEAN
        /\ respQ' \in Seq(Responses) /\ Len(respQ') <= RespCap
        /\ eventQ' \in 0..EventCap /\ events' \in 0..MaxEvents
    BY Zenon DEF SessionInv, TypeOK
  <2>3. UNCHANGED <<pc, rlock, no, blk, wctr, got, abandoned>> BY Zenon
  <2> QED BY <1>4, <2>0, <2>1, <2>2, <2>3, SameCallers, Zenon
<1>6. Nonces' BY <1>2, SameCallers
<1>7. Generated'
  <2>1. ASSUME ~reader PROVE back' = <<>>
    <3>1. back = <<>> BY <2>1, Zenon DEF SessionInv, Generated
    <3> QED BY <1>4, <3>1
  <2> QED BY <1>2, <2>1, Zenon DEF Generated
<1>8. InStep'
  <2>1. ASSUME NEW i \in 1..Len(back'), back'[i] > 0
        PROVE  back'[i] >= Consumed' + Len(respQ') + Count(back', i) /\ back'[i] <= no'
    <3>1. i \in Nat /\ \A k \in 1..i : back'[k] = back[k] BY <1>4
    <3>2. Count(back', i) = Count(back, i) BY <3>1, CountSame, Zenon
    <3>3. i \in 1..Len(back) /\ back'[i] = back[i] BY <1>4, Zenon
    <3> QED BY <2>1, <3>2, <3>3, SameCallers, Zenon DEF SessionInv, InStep
  <2>2. \A i \in 1..Len(respQ') :
           respQ'[i] > 0 => respQ'[i] >= Consumed' + i /\ respQ'[i] <= no'
    BY SameCallers, Zenon DEF SessionInv, InStep
  <2> QED BY <2>1, <2>2, Zenon DEF InStep
<1> QED BY <1>5, <1>6, <1>7, <1>8, SameCallers, Zenon DEF SessionInv

\* A message is put on its way to the reader: an event, an error, or the
\* answer to no request before the one whose turn it is.
LEMMA BackSession ==
    ASSUME SessionInv, conn, NEW v \in Messages, back' = Append(back, v),
           v > 0 => /\ v >= Consumed + Len(respQ) + Count(back, Len(back)) + 1
                    /\ v <= no,
           UNCHANGED <<rlock, no, respQ, abandoned>>
    PROVE  /\ back' \in Seq(Messages)
           /\ Count(back', Len(back'))
                = Count(back, Len(back)) + (IF v # Event THEN 1 ELSE 0)
           /\ InStep'
<1>1. /\ back \in Seq(Messages) /\ Len(back) \in Nat /\ Consumed \in Int /\ Len(respQ) \in Nat
  BY Facts, Zenon
<1>2. /\ back' \in Seq(Messages) /\ Len(back') = Len(back) + 1 /\ back'[Len(back) + 1] = v
      /\ \A i \in 1..Len(back) : back'[i] = back[i]
  BY <1>1
<1>3. ASSUME NEW i \in Nat, i <= Len(back) PROVE Count(back', i) = Count(back, i)
  <2>1. \A k \in 1..i : back'[k] = back[k] BY <1>1, <1>2, <1>3
  <2> QED BY <2>1, CountSame, Zenon
<1>4. /\ Count(back', Len(back) + 1) = Count(back', Len(back)) + (IF v # Event THEN 1 ELSE 0)
      /\ Count(back', Len(back)) = Count(back, Len(back))
  <2>1. Count(back', Len(back)) = Count(back, Len(back)) BY <1>1, <1>3
  <2>2. Count(back', Len(back) + 1)
          = Count(back', Len(back)) + (IF back'[Len(back) + 1] # Event THEN 1 ELSE 0)
    BY <1>1, CountNext, Zenon
  <2> QED BY <1>2, <2>1, <2>2, Zenon
<1>5. Consumed' = Consumed BY Zenon DEF Consumed
<1>6. Count(back, Len(back)) \in Nat BY <1>1, CountType, Zenon
<1>7. ASSUME NEW i \in 1..Len(back'), back'[i] > 0
      PROVE  back'[i] >= Consumed' + Len(respQ') + Count(back', i) /\ back'[i] <= no'
  <2>1. CASE i = Len(back) + 1
    <3>1. back'[i] = v /\ v > 0 /\ v # Event BY <1>2, <1>7, <2>1 DEF Event
    <3>2. Count(back', i) = Count(back, Len(back)) + 1 BY <1>4, <2>1, <3>1, Zenon
    <3> QED BY <1>1, <1>5, <1>6, <3>1, <3>2
  <2>2. CASE i # Len(back) + 1
    <3>1. i \in 1..Len(back) /\ i \in Nat /\ i <= Len(back) BY <1>1, <1>2, <2>2
    <3>2. back'[i] = back[i] /\ Count(back', i) = Count(back, i) BY <1>2, <1>3, <3>1, Zenon
    <3> QED BY <1>5, <1>7, <3>1, <3>2, Zenon DEF SessionInv, InStep
  <2> QED BY <2>1, <2>2, Zenon
<1>8. \A i \in 1..Len(respQ') :
         respQ'[i] > 0 => respQ'[i] >= Consumed' + i /\ respQ'[i] <= no'
  BY <1>5, Zenon DEF SessionInv, InStep
<1> QED BY <1>2, <1>4, <1>7, <1>8, Zenon DEF InStep

\* The accessory pushes an event.
LEMMA PushSession ==
    ASSUME SessionInv, AccessoryPushes
    PROVE  SessionInv'
<1>1. /\ conn /\ events < MaxEvents /\ events' = events + 1 /\ back' = Append(back, Event)
      /\ UNCHANGED <<pc, rlock, no, blk, wctr, out, actr, part, conn, reader, respQ, eventQ,
                     got, abandoned>>
  BY Zenon DEF AccessoryPushes
<1>2. Event \in Messages /\ ~(Event > 0) BY DEF Messages, Event
<1>3. /\ back' \in Seq(Messages) /\ InStep'
      /\ Count(back', Len(back')) = Count(back, Len(back)) + 0
  BY <1>1, <1>2, BackSession, Zenon
<1>4. TypeOK'
  <2>1. events' \in 0..MaxEvents
    <3>1. events \in 0..MaxEvents /\ MaxEvents \in Nat
      BY SessionAssumption, Zenon DEF SessionInv, TypeOK
    <3> QED BY <1>1, <3>1
  <2> QED BY <1>1, <1>3, <2>1, SameCallers, Zenon DEF SessionInv, TypeOK
<1>5. Nonces' BY <1>1, SameCallers, Zenon DEF SessionInv, Nonces
<1>6. Generated'
  <2>1. Count(back', Len(back')) = Count(back, Len(back))
    <3>1. Count(back, Len(back)) \in Nat BY Facts, CountType, Zenon
    <3> QED BY <1>3, <3>1
  <2>2. reader BY <1>1, Zenon DEF SessionInv, Generated
  <2> QED BY <1>1, <2>1, <2>2, SameCallers, Zenon DEF SessionInv, Generated
<1> QED BY <1>1, <1>3, <1>4, <1>5, <1>6, SameCallers, Zenon DEF SessionInv

\* The accessory takes a frame.  The last block of a message has the nonce
\* that completes it, so its request is not before the one whose turn it is.
LEMMA ReadsSession ==
    ASSUME SessionInv, AccessoryReads
    PROVE  SessionInv'
<1> DEFINE f == Head(out)
           msg == Append(part, f.no)
           v == IF \A i \in 1..Blocks : msg[i] = f.no THEN f.no ELSE BadRequest
           g == Consumed + Len(respQ) + Count(back, Len(back))
<1>1. /\ conn /\ out # <<>>
      /\ UNCHANGED <<pc, rlock, no, blk, wctr, events, reader, respQ, eventQ, got, abandoned>>
  BY Zenon DEF AccessoryReads
<1>2. CASE ~f.whole \/ f.ctr # actr
  <2>1. Close /\ UNCHANGED <<actr, part>> BY <1>2, Zenon DEF AccessoryReads
  <2> QED BY <1>1, <2>1, CloseSession, Zenon
<1>3. CASE ~(~f.whole \/ f.ctr # actr)
  <2>1. /\ f.ctr = actr /\ out' = Tail(out) /\ actr' = actr + 1 /\ conn' = conn
        /\ Len(msg) < Blocks => part' = msg /\ back' = back
        /\ ~(Len(msg) < Blocks) => part' = <<>> /\ back' = Append(back, v)
    BY <1>3, Zenon DEF AccessoryReads
  <2>2. /\ out \in Seq(Frames) /\ Len(out) \in Nat /\ actr \in Nat /\ part \in Seq(Nat)
        /\ Len(part) \in Nat /\ Len(part) < Blocks /\ Blocks \in Nat \ {0} /\ no \in Nat
        /\ Len(back) \in Nat /\ Len(respQ) \in Nat /\ Consumed \in Int
        /\ back \in Seq(Messages)
    <3>1. Len(out) \in Nat BY Facts
    <3> QED BY <3>1, Facts, SessionAssumption, Zenon
  <2>3. 1 \in 1..Len(out) /\ f = out[1] /\ f \in Frames BY <1>1, <2>2
  <2>4. f.no \in Nat /\ f.ctr < Cap(f.no) /\ f.no <= no
    <3>1. f.no \in Nat BY <2>3, Zenon DEF Frames
    <3>2. out[1].ctr < Cap(out[1].no) /\ out[1].no <= no BY <2>3, Zenon DEF SessionInv, Nonces
    <3> QED BY <2>3, <3>1, <3>2, Zenon
  <2>5. /\ out' \in Seq(Frames)
        /\ \A i \in 1..Len(out') : out'[i].ctr < Cap(out'[i].no) /\ out'[i].no <= no
    <3>1. /\ Tail(out) \in Seq(Frames) /\ Len(Tail(out)) = Len(out) - 1
          /\ \A i \in 1..Len(out) - 1 : Tail(out)[i] = out[i + 1]
      BY <1>1, <2>2
    <3>2. ASSUME NEW i \in 1..Len(out')
          PROVE  out'[i].ctr < Cap(out'[i].no) /\ out'[i].no <= no
      <4>1. i + 1 \in 1..Len(out) /\ out'[i] = out[i + 1] BY <2>1, <2>2, <3>1
      <4> QED BY <4>1, Zenon DEF SessionInv, Nonces
    <3> QED BY <2>1, <3>1, <3>2, Zenon
  <2>6. msg \in Seq(Nat) /\ Len(msg) = Len(part) + 1 BY <2>2, <2>4
  <2>7. g \in Int /\ actr = Cap(g) + Len(part) /\ reader
    <3>1. Count(back, Len(back)) \in Nat BY <2>2, CountType, Zenon
    <3>2. g \in Int BY <2>2, <3>1
    <3> QED BY <1>1, <3>2, Zenon DEF SessionInv, Generated
  <2>8. Nonces' BY <1>1, <2>5, SameCallers, Zenon
  <2>9. CASE Len(msg) < Blocks
    <3>1. part' = msg /\ back' = back BY <2>1, <2>9, Zenon
    <3>2. TypeOK'
      <4>1. conn' \in BOOLEAN /\ actr' \in Nat BY <1>1, <2>1, <2>2
      <4> QED BY <1>1, <2>5, <2>6, <2>9, <3>1, <4>1, SameCallers, Zenon DEF SessionInv, TypeOK, Messages
    <3>3. Generated'
      <4>1. actr' = Cap(g) + Len(part')
        <5>1. Cap(g) \in Int BY <2>7, CapStep, Zenon
        <5>2. actr' = actr + 1 BY <2>1, Zenon
        <5>3. Len(part') = Len(part) + 1 BY <2>6, <3>1, Zenon
        <5> HIDE DEF g, msg
        <5> QED BY <2>2, <2>7, <5>1, <5>2, <5>3
      <4> QED BY <1>1, <2>7, <3>1, <4>1, SameCallers, Zenon DEF Generated
    <3>4. InStep' BY <1>1, <3>1, SameCallers, Zenon DEF SessionInv, InStep
    <3> QED BY <1>1, <2>8, <3>2, <3>3, <3>4, SameCallers, Zenon DEF SessionInv
  <2>10. CASE ~(Len(msg) < Blocks)
    <3>1. part' = <<>> /\ back' = Append(back, v) BY <2>1, <2>10, Zenon
    <3>2. Len(part) + 1 = Blocks
      <4> HIDE DEF msg
      <4> QED BY <2>2, <2>6, <2>10
    <3>3. g + 1 <= f.no
      <4> HIDE DEF g, f
      <4>1. Cap(g) \in Int /\ Cap(f.no) \in Int
        <5>1. f.no \in Int BY <2>4
        <5> QED BY <2>7, <5>1, CapStep, Zenon
      <4>2. Cap(g) + Blocks - 1 < Cap(f.no) BY <2>1, <2>2, <2>4, <2>7, <3>2, <4>1
      <4> QED BY <2>4, <2>7, <4>2, CapLast
    <3>4. v \in Messages /\ v # Event /\ (v > 0 => v >= g + 1 /\ v <= no)
      <4> HIDE DEF g, f, msg
      <4> QED BY <2>4, <2>7, <3>3 DEF Messages, Responses, Event, BadRequest
    <3>5. /\ back' \in Seq(Messages) /\ InStep'
          /\ Count(back', Len(back')) = Count(back, Len(back)) + 1
      <4> HIDE DEF v
      <4> QED BY <1>1, <3>1, <3>4, BackSession, Zenon
    <3>6. TypeOK'
      <4>1. conn' \in BOOLEAN /\ actr' \in Nat BY <1>1, <2>1, <2>2
      <4>2. part' \in Seq(Nat) /\ Len(part') < Blocks BY <2>2, <3>1
      <4> QED BY <1>1, <2>5, <3>5, <4>1, <4>2, SameCallers, Zenon DEF SessionInv, TypeOK
    <3>7. Generated'
      <4>1. Cap(g) \in Int /\ Cap(g + 1) = Cap(g) + Blocks BY <2>7, CapStep, Zenon
      <4>2. Len(part') = 0 BY <3>1, Zenon
      <4>3. actr' = Cap(g + 1) + Len(part')
        <5> HIDE DEF g
        <5> QED BY <2>1, <2>2, <2>7, <3>2, <4>1, <4>2
      <4>4. Consumed' + Len(respQ') + Count(back', Len(back')) = g + 1
        <5>1. Count(back, Len(back)) \in Nat BY <2>2, CountType, Zenon
        <5>2. Consumed' = Consumed BY <1>1, SameCallers, Zenon
        <5> QED BY <1>1, <2>2, <3>5, <5>1, <5>2
      <4> QED BY <1>1, <2>7, <4>3, <4>4, Zenon DEF Generated
    <3> QED BY <1>1, <2>8, <3>5, <3>6, <3>7, SameCallers, Zenon DEF SessionInv
  <2> QED BY <2>9, <2>10, Zenon
<1> QED BY <1>2, <1>3, Zenon

\* The reader takes the first message and, if it is a response, queues it.
LEMMA TakeSession ==
    ASSUME SessionInv, reader, back # <<>>, back' = Tail(back), respQ' \in Seq(Responses),
           Len(respQ') <= RespCap, eventQ' \in 0..EventCap,
           \/ Head(back) # Event /\ respQ' = Append(respQ, Head(back))
           \/ Head(back) = Event /\ respQ' = respQ,
           UNCHANGED <<pc, rlock, no, blk, wctr, out, actr, part, events, conn, reader, got,
                       abandoned>>
    PROVE  SessionInv'
<1> DEFINE e == IF Head(back) # Event THEN 1 ELSE 0
<1>1. /\ back \in Seq(Messages) /\ Len(back) \in Nat /\ Consumed \in Int /\ Len(respQ) \in Nat
      /\ respQ \in Seq(Responses)
  BY Facts, Zenon
<1>2. /\ back' \in Seq(Messages) /\ Len(back') = Len(back) - 1 /\ Len(back) # 0
      /\ \A i \in 1..Len(back) - 1 : back'[i] = back[i + 1]
  BY <1>1
<1>3. ASSUME NEW i \in 0..Len(back')
      PROVE  Count(back, i + 1) = Count(back', i) + e /\ Count(back', i) \in Nat
  <2>1. i \in 0..Len(back) - 1 /\ i \in Nat BY <1>1, <1>2
  <2> QED BY <1>1, <2>1, CountTail, CountType, Zenon
<1>4. e \in Nat /\ Len(respQ') = Len(respQ) + e BY <1>1
<1> HIDE DEF e
<1>5. Consumed' = Consumed BY SameCallers, Zenon
<1>6. TypeOK' BY <1>2, SameCallers, Zenon DEF SessionInv, TypeOK
<1>7. Nonces' BY SameCallers, Zenon DEF SessionInv, Nonces
<1>8. Generated'
  <2>1. Count(back, Len(back)) = Count(back', Len(back')) + e /\ Count(back', Len(back')) \in Nat
    <3>1. Len(back') \in 0..Len(back') /\ Len(back') + 1 = Len(back) BY <1>1, <1>2
    <3> QED BY <1>3, <3>1, Zenon
  <2>2. Consumed' + Len(respQ') + Count(back', Len(back'))
          = Consumed + Len(respQ) + Count(back, Len(back))
    BY <1>1, <1>4, <1>5, <2>1
  <2> QED BY <2>2, Zenon DEF SessionInv, Generated
<1>9. ASSUME NEW i \in 1..Len(back'), back'[i] > 0
      PROVE  back'[i] >= Consumed' + Len(respQ') + Count(back', i) /\ back'[i] <= no'
  <2>1. i + 1 \in 1..Len(back) /\ back'[i] = back[i + 1] /\ i \in 0..Len(back')
    BY <1>1, <1>2
  <2>2. back[i + 1] >= Consumed + Len(respQ) + Count(back, i + 1) /\ back[i + 1] <= no
    BY <1>9, <2>1, Zenon DEF SessionInv, InStep
  <2>3. Count(back, i + 1) = Count(back', i) + e /\ Count(back', i) \in Nat BY <1>3, <2>1, Zenon
  <2>4. Consumed + Len(respQ) + Count(back, i + 1) = Consumed' + Len(respQ') + Count(back', i)
    BY <1>1, <1>4, <1>5, <2>3
  <2> QED BY <2>1, <2>2, <2>4, Zenon
<1>10. ASSUME NEW i \in 1..Len(respQ'), respQ'[i] > 0
       PROVE  respQ'[i] >= Consumed' + i /\ respQ'[i] <= no'
  <2>1. CASE i \in 1..Len(respQ)
    <3>1. respQ'[i] = respQ[i] BY <1>1, <2>1
    <3> QED BY <1>5, <1>10, <2>1, <3>1, Zenon DEF SessionInv, InStep
  <2>2. CASE i \notin 1..Len(respQ)
    <3>1. e = 1 /\ i = Len(respQ) + 1 BY <1>1, <1>4, <2>2 DEF e
    <3>2. respQ'[i] = back[1] /\ back[1] > 0 /\ Head(back) = back[1]
      <4>1. Head(back) = back[1] BY <1>1
      <4>2. respQ' = Append(respQ, Head(back)) BY <3>1 DEF e
      <4>3. respQ'[i] = Head(back) BY <1>1, <3>1, <4>2
      <4> QED BY <1>10, <4>1, <4>3, Zenon
    <3>3. back[1] >= Consumed + Len(respQ) + Count(back, 1) /\ back[1] <= no
      <4>1. 1 \in 1..Len(back) BY <1>1, <1>2
      <4> QED BY <3>2, <4>1, Zenon DEF SessionInv, InStep
    <3>4. Count(back, 1) = 1
      <4>1. 0 \in 0..Len(back') /\ 0 + 1 = 1 BY <1>1, <1>2
      <4>2. Count(back', 0) = 0 BY CountType, Zenon
      <4> QED BY <1>3, <3>1, <4>1, <4>2, Zenon
    <3> QED BY <1>1, <1>5, <3>1, <3>2, <3>3, <3>4
  <2> QED BY <2>1, <2>2, Zenon
<1>11. InStep' BY <1>9, <1>10, Zenon DEF InStep
<1> QED BY <1>6, <1>7, <1>8, <1>11, SameCallers, Zenon DEF SessionInv

\* The reader demultiplexes a response.
LEMMA ReadResponseSession ==
    ASSUME SessionInv, ReadResponse
    PROVE  SessionInv'
<1>1. /\ reader /\ back # <<>> /\ Head(back) # Event /\ Len(respQ) < RespCap
      /\ respQ' = Append(respQ, Head(back)) /\ back' = Tail(back) /\ eventQ' = eventQ
      /\ UNCHANGED <<pc, rlock, no, blk, wctr, out, actr, part, events, conn, reader, got,
                     abandoned>>
  BY Zenon DEF ReadResponse, peer
<1>2. Head(back) \in Responses /\ respQ \in Seq(Responses) /\ Len(respQ) \in Nat
  <2>1. back \in Seq(Messages) /\ respQ \in Seq(Responses) /\ Len(respQ) \in Nat BY Facts, Zenon
  <2>2. Head(back) \in Messages BY <1>1, <2>1
  <2> QED BY <1>1, <2>1, <2>2, Zenon DEF Messages
<1>3. respQ' \in Seq(Responses) /\ Len(respQ') <= RespCap
  BY <1>1, <1>2, SessionAssumption
<1>4. eventQ' \in 0..EventCap BY <1>1, Zenon DEF SessionInv, TypeOK
<1> QED BY <1>1, <1>3, <1>4, TakeSession, Zenon

\* The reader demultiplexes an event.
LEMMA ReadEventSession ==
    ASSUME SessionInv, ReadEvent
    PROVE  SessionInv'
<1>1. /\ reader /\ back # <<>> /\ Head(back) = Event /\ eventQ < EventCap
      /\ eventQ' = eventQ + 1 /\ back' = Tail(back) /\ respQ' = respQ
      /\ UNCHANGED <<pc, rlock, no, blk, wctr, out, actr, part, events, conn, reader, got,
                     abandoned>>
  BY Zenon DEF ReadEvent, peer
<1>2. eventQ' \in 0..EventCap
  <2>1. eventQ \in 0..EventCap /\ EventCap \in Nat BY SessionAssumption, Zenon DEF SessionInv, TypeOK
  <2> QED BY <1>1, <2>1
<1>3. respQ' \in Seq(Responses) /\ Len(respQ') <= RespCap BY <1>1, Facts, Zenon
<1> QED BY <1>1, <1>2, <1>3, TakeSession, Zenon

\* The reader reports the end of the connection.
LEMMA ReadEndSession ==
    ASSUME SessionInv, ReadEnd
    PROVE  SessionInv'
<1>1. /\ reader /\ ~conn /\ back = <<>> /\ Len(respQ) < RespCap
      /\ respQ' = Append(respQ, ConnectionClosed) /\ reader' = FALSE
      /\ UNCHANGED <<pc, rlock, no, blk, wctr, out, actr, part, events, back, conn, eventQ,
                     got, abandoned>>
  BY Zenon DEF ReadEnd, peer
<1>2. respQ \in Seq(Responses) /\ Len(respQ) \in Nat BY Facts, Zenon
<1>3. ConnectionClosed \in Responses /\ ~(ConnectionClosed > 0)
  BY DEF Responses, ConnectionClosed
<1>4. /\ respQ' \in Seq(Responses) /\ Len(respQ') = Len(respQ) + 1
      /\ \A i \in 1..Len(respQ) : respQ'[i] = respQ[i]
      /\ respQ'[Len(respQ) + 1] = ConnectionClosed
  BY <1>1, <1>2, <1>3
<1>5. TypeOK'
  <2>1. reader' \in BOOLEAN BY <1>1, Zenon
  <2>2. Len(respQ') <= RespCap BY <1>1, <1>2, <1>4, SessionAssumption
  <2> QED BY <1>1, <1>4, <2>1, <2>2, SameCallers, Zenon DEF SessionInv, TypeOK, Messages
<1>6. Nonces' BY <1>1, SameCallers, Zenon DEF SessionInv, Nonces
<1>7. Generated' BY <1>1, Zenon DEF Generated
<1>8. InStep'
  <2>1. ASSUME NEW i \in 1..Len(respQ'), respQ'[i] > 0
        PROVE  respQ'[i] >= Consumed' + i /\ respQ'[i] <= no'
    <3>1. i \in 1..Len(respQ) BY <1>2, <1>3, <1>4, <2>1
    <3> QED BY <1>1, <1>4, <2>1, <3>1, SameCallers, Zenon DEF SessionInv, InStep
  <2>2. \A i \in 1..Len(back') : FALSE BY <1>1
  <2> QED BY <2>1, <2>2, Zenon DEF InStep
<1> QED BY <1>1, <1>5, <1>6, <1>7, <1>8, SameCallers, Zenon DEF SessionInv

\* An event is forwarded.
LEMMA DrainSession ==
    ASSUME SessionInv, DrainEvent
    PROVE  SessionInv'
<1>1. /\ eventQ > 0 /\ eventQ' = eventQ - 1
      /\ UNCHANGED <<pc, rlock, no, blk, wctr, out, actr, part, events, back, conn, reader,
                     respQ, got, abandoned>>
  BY Zenon DEF DrainEvent, peer
<1>2. eventQ' \in 0..EventCap
  <2>1. eventQ \in 0..EventCap /\ EventCap \in Nat BY SessionAssumption, Zenon DEF SessionInv, TypeOK
  <2> QED BY <1>1, <2>1
<1>3. TypeOK' BY <1>1, <1>2, SameCallers, Zenon DEF SessionInv, TypeOK, Messages
<1>4. Nonces' BY <1>1, SameCallers, Zenon DEF SessionInv, Nonces
<1>5. Generated' /\ InStep'
  <2>1. no' \in Nat /\ no' >= no BY <1>1, Facts
  <2> QED BY <1>1, <2>1, SameCallers, SameChannels, Zenon
<1> QED BY <1>1, <1>3, <1>4, <1>5, SameCallers, Zenon DEF SessionInv

\* Nothing happens.
LEMMA StutterSession ==
    ASSUME SessionInv, UNCHANGED vars
    PROVE  SessionInv'
<1>1. UNCHANGED <<pc, rlock, no, blk, wctr, out, actr, part, back, conn, reader, respQ,
                  eventQ, got, abandoned, events>>
  BY Zenon DEF vars
<1>2. TypeOK' BY <1>1, SameCallers, Zenon DEF SessionInv, TypeOK, Messages
<1>3. Nonces' BY <1>1, SameCallers, Zenon DEF SessionInv, Nonces
<1>4. Generated' /\ InStep'
  <2>1. no' \in Nat /\ no' >= no BY <1>1, Facts
  <2> QED BY <1>1, <2>1, SameCallers, SameChannels, Zenon
<1> QED BY <1>1, <1>2, <1>3, <1>4, SameCallers, Zenon DEF SessionInv

-----------------------------------------------------------------------------
(* the theorems *)

\* The counting invariant: every request that got the lock has taken one
\* response, was abandoned, or is at it, and the n-th response comes from the
\* n-th message that the accessory completed.
THEOREM SessionInvariant == Spec => []SessionInv
<1>1. Init => SessionInv BY InitSession, Zenon
<1>2. SessionInv /\ [Next]_vars => SessionInv'
  <2> SUFFICES ASSUME SessionInv, [Next]_vars PROVE SessionInv'
    BY Zenon
  <2>1. CASE UNCHANGED vars BY <2>1, StutterSession, Zenon
  <2>2. ASSUME NEW c \in Callers, Request(c) PROVE SessionInv' BY <2>2, RequestSession, Zenon
  <2>3. ASSUME NEW c \in Callers, CallerStep(c) PROVE SessionInv'
    BY <2>3, LockSession, WriteSession, WriteFailsSession, ReceiveSession, Zenon DEF CallerStep
  <2>4. ASSUME NEW c \in Callers, Timeout(c) PROVE SessionInv' BY <2>4, TimeoutSession, Zenon
  <2>5. CASE ConnectionLost BY <2>5, CloseSession, Zenon DEF ConnectionLost, peer
  <2>6. CASE AccessoryReads BY <2>6, ReadsSession, Zenon
  <2>7. CASE AccessoryPushes BY <2>7, PushSession, Zenon
  <2>8. CASE ReaderStep
    BY <2>8, ReadResponseSession, ReadEventSession, ReadEndSession, Zenon DEF ReaderStep
  <2>9. CASE DrainEvent BY <2>9, DrainSession, Zenon
  <2> QED BY <2>1, <2>2, <2>3, <2>4, <2>5, <2>6, <2>7, <2>8, <2>9, Zenon DEF Next
<1> QED BY <1>1, <1>2, PTL DEF Spec

\* SecureSession keeps its types: one write and receive cycle at a time, by
\* the owner of the receiver lock, and no channel above its capacity.
THEOREM SessionTypes == Spec => []TypeOK
<1>1. SessionInv => TypeOK BY Zenon DEF SessionInv
<1> QED BY <1>1, SessionInvariant, PTL

\* SecureSession::request, whatever futures are dropped where: it never
\* returns the response to a later request, and the one it returns is late by
\* at most the number of requests abandoned before it.
THEOREM LagIsBounded == Spec => []ResponseLag
<1>1. SessionInv => ResponseLag BY Zenon DEF SessionInv
<1> QED BY <1>1, SessionInvariant, PTL

\* What the comment on the receiver lock promises, with the condition that it
\* needs: as long as every request that got the lock has taken its response,
\* a request that returns a response returns its own.
THEOREM OwnUnlessAbandoned == Spec => [](abandoned = {} => OwnResponse)
<1>1. SessionInv => (abandoned = {} => OwnResponse)
  <2> SUFFICES ASSUME SessionInv, abandoned = {}, NEW c \in Callers, got[c].resp > 0
               PROVE  got[c].resp = got[c].no
    BY Zenon DEF OwnResponse
  <2>1. {a \in abandoned : a < got[c].no} = {} BY Zenon
  <2>2. Cardinality({a \in abandoned : a < got[c].no}) = 0 BY <2>1, FS_EmptySet, Zenon
  <2>3. got[c].resp <= got[c].no /\ got[c].no - got[c].resp <= 0
    BY <2>2, Zenon DEF SessionInv, ResponseLag
  <2>4. got[c].no \in Nat /\ got[c].resp \in Int
    <3>1. got[c] \in [no : Nat, resp : Responses \cup {NoResponse, IoError}]
      BY Zenon DEF SessionInv, TypeOK
    <3>2. got[c].no \in Nat /\ got[c].resp \in Responses \cup {NoResponse, IoError} BY <3>1, Zenon
    <3> QED BY <3>2 DEF Responses, ConnectionClosed, NoResponse, IoError
  <2> QED BY <2>3, <2>4
<1> QED BY <1>1, SessionInvariant, PTL

=============================================================================
