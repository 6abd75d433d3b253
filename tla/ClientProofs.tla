---------------------------- MODULE ClientProofs ----------------------------
(***************************************************************************)
(* Proofs about the way of requests (RequestPath), for any replicas, batch *)
(* size, number of requests and faults, and about the connections of the   *)
(* clients of a process (ClientConnection), for any clients and requests.  *)
(***************************************************************************)
EXTENDS ClientParts, FiniteSetTheorems, SequenceTheorems, TLAPS

Response == {Redirect} \cup Request

PathType ==
    /\ seq \in Nat
    /\ server \in Replica \cup {Nobody}
    /\ sent \in [Request -> Nat]
    /\ reqChan \in [Replica -> Seq(Request)]
    /\ replies \in [Replica -> Response]
    /\ buffer \in [Replica -> Seq(Request)]
    /\ log \in Seq(Seq(Request))
    /\ aru \in [Replica -> Nat]
    /\ back \in Seq(Response)

(* A batch has a request, and a timer runs only for one that has.          *)
BatchesFilled ==
    /\ \A r \in batchTimer : r \in Replica /\ buffer[r] # << >>
    /\ \A i \in 1..Len(log) : log[i] # << >>

Ordered(s) == \E k \in 1..Len(log) : Contains(log[k], s)

(* The client goes on from requests that are in the log, and nobody has a  *)
(* later one than the client.                                              *)
GoesOnInOrder ==
    /\ \A t \in (0..(seq - 1)) \ (failed \cup redirected) : Ordered(t)
    /\ \A r \in Replica : \A i \in 1..Len(reqChan[r]) : reqChan[r][i] <= seq
    /\ \A r \in Replica : \A i \in 1..Len(buffer[r]) : buffer[r][i] <= seq

(* What is answered is in the log.                                         *)
AnswersOrdered ==
    /\ \A i \in 1..Len(back) : back[i] = Redirect \/ Ordered(back[i])
    /\ \A r \in Replica : replies[r] = NoReply \/ Ordered(replies[r])

OrderInv ==
    /\ PathType /\ BatchesFilled /\ GoesOnInOrder /\ AnswersOrdered
    /\ FirstInOrder

LEMMA OrderInit == Init => OrderInv
<1> SUFFICES ASSUME Init PROVE OrderInv
  OBVIOUS
<1>1. NoReply \in Response
  BY DEF Response, NoReply, Redirect
<1>2. PathType
  BY <1>1 DEF Init, PathType
<1>3. BatchesFilled /\ AnswersOrdered
  BY DEF Init, BatchesFilled, AnswersOrdered
<1>4. GoesOnInOrder /\ FirstInOrder
  BY DEF Init, GoesOnInOrder, FirstInOrder
<1> QED
  BY <1>2, <1>3, <1>4 DEF OrderInv

LEMMA AppendAt ==
    ASSUME NEW S, NEW q \in Seq(S), NEW e \in S, NEW t, t = Append(q, e)
    PROVE  /\ t \in Seq(S) /\ Len(t) = Len(q) + 1 /\ Len(q) \in Nat
           /\ \A i \in 1..Len(q) : i \in 1..Len(t) /\ t[i] = q[i]
           /\ \A i \in 1..Len(t) : i \in 1..Len(q) \/ i = Len(q) + 1
           /\ t[Len(q) + 1] = e
OBVIOUS

LEMMA LenIsNat ==
    ASSUME NEW S, NEW q \in Seq(S)
    PROVE  Len(q) \in Nat
OBVIOUS

LEMMA RequestAt ==
    ASSUME NEW q \in Seq(Request), NEW i \in 1..Len(q)
    PROVE  q[i] \in Request /\ q[i] \in Nat /\ q[i] >= 0
<1>1. q[i] \in Request
  OBVIOUS
<1> QED
  BY <1>1 DEF Request

LEMMA SeqGrows ==
    ASSUME NEW S, NEW L \in Seq(S), NEW b \in S, NEW K,
           K = L \/ K = Append(L, b)
    PROVE  /\ K \in Seq(S) /\ Len(L) \in Nat
           /\ \A i \in 1..Len(L) : i \in 1..Len(K) /\ K[i] = L[i]
           /\ \A i \in 1..Len(K) :
                 i \in 1..Len(L) \/ (i = Len(L) + 1 /\ K[i] = b)
<1>1. CASE K = L
  BY <1>1, LenIsNat
<1>2. CASE K = Append(L, b)
  BY <1>2, AppendAt
<1> QED
  BY <1>1, <1>2

LEMMA LogGrows ==
    ASSUME log \in Seq(Seq(Request)), NEW b \in Seq(Request),
           log' = log \/ log' = Append(log, b)
    PROVE  /\ log' \in Seq(Seq(Request)) /\ Len(log) \in Nat
           /\ \A i \in 1..Len(log) : i \in 1..Len(log') /\ log'[i] = log[i]
           /\ \A i \in 1..Len(log') :
                 i \in 1..Len(log) \/ (i = Len(log) + 1 /\ log'[i] = b)
  BY SeqGrows, ZenonT(60)

LEMMA AnswersGrow ==
    ASSUME back \in Seq(Response), NEW x \in Response,
           back' = back \/ back' = Append(back, x)
    PROVE  /\ back' \in Seq(Response) /\ Len(back) \in Nat
           /\ \A i \in 1..Len(back) : i \in 1..Len(back') /\ back'[i] = back[i]
           /\ \A i \in 1..Len(back') :
                 i \in 1..Len(back) \/ (i = Len(back) + 1 /\ back'[i] = x)
  BY SeqGrows, ZenonT(60)

(* What is in the log stays there.                                         *)
LEMMA OrderedStays ==
    ASSUME log \in Seq(Seq(Request)), NEW b \in Seq(Request),
           log' = log \/ log' = Append(log, b), NEW s, Ordered(s)
    PROVE  Ordered(s)'
<1>1. PICK k \in 1..Len(log) : Contains(log[k], s)
  BY DEF Ordered
<1>2. k \in 1..Len(log') /\ log'[k] = log[k]
  BY LogGrows
<1>3. Contains(log'[k], s)
  BY <1>1, <1>2
<1> QED
  BY <1>2, <1>3 DEF Ordered, Contains

(* The requests before one of a new batch are in the log already.          *)
LEMMA BatchInOrder ==
    ASSUME OrderInv, NEW b \in Seq(Request), \A i \in 1..Len(b) : b[i] <= seq,
           log' = log \/ log' = Append(log, b),
           UNCHANGED <<failed, redirected>>
    PROVE  FirstInOrder'
<1>1. log \in Seq(Seq(Request)) /\ seq \in Nat
  BY DEF OrderInv, PathType
<1>4. /\ Len(log) \in Nat
      /\ \A i \in 1..Len(log) : i \in 1..Len(log') /\ log'[i] = log[i]
      /\ \A i \in 1..Len(log') :
            i \in 1..Len(log) \/ (i = Len(log) + 1 /\ log'[i] = b)
  BY <1>1, LogGrows
<1> SUFFICES ASSUME NEW i \in 1..Len(log'), NEW s \in Range(log'[i]),
                    NEW t \in (0..(s - 1)) \ (failed' \cup redirected')
             PROVE  \E k \in 1..i : Contains(log'[k], t)
  BY DEF OrderInv, FirstInOrder, Contains, Range
<1>2. CASE i \in 1..Len(log)
  <2>1. log'[i] = log[i]
    BY <1>2, <1>4
  <2>2. PICK k \in 1..i : Contains(log[k], t)
    <3>1. s \in Range(log[i]) /\ t \in (0..(s - 1)) \ (failed \cup redirected)
      BY <2>1
    <3> QED
      BY <1>2, <3>1 DEF OrderInv, FirstInOrder
  <2>3. k \in 1..Len(log) /\ log'[k] = log[k]
    BY <1>2, <1>4, <2>2
  <2> QED
    BY <2>2, <2>3
<1>3. CASE i \notin 1..Len(log)
  <2>1. i = Len(log) + 1 /\ log'[i] = b
    BY <1>3, <1>4
  <2>2. PICK j \in 1..Len(b) : s = b[j]
    BY <2>1 DEF Range
  <2>3. s \in Nat /\ s <= seq
    BY <2>2, RequestAt
  <2>4. t \in (0..(seq - 1)) \ (failed \cup redirected)
    BY <1>1, <2>3
  <2>5. PICK k \in 1..Len(log) : Contains(log[k], t)
    BY <2>4 DEF OrderInv, GoesOnInOrder, Ordered
  <2>6. k \in 1..i /\ log'[k] = log[k]
    BY <1>4, <2>1, <2>5
  <2> QED
    BY <2>5, <2>6
<1> QED
  BY <1>2, <1>3

(* A step that leaves the log, the batches and the replies as they are.    *)
LEMMA LogKept ==
    ASSUME OrderInv, UNCHANGED <<log, buffer, batchTimer, replies, aru>>,
           PathType', seq <= seq', redirected' \subseteq {0},
           (failed \cup redirected) \subseteq (failed' \cup redirected'),
           \A t \in (0..(seq' - 1)) \ (failed' \cup redirected') :
              t \in 0..(seq - 1) \/ Ordered(t),
           \A r \in Replica : \A i \in 1..Len(reqChan'[r]) : reqChan'[r][i] <= seq,
           \A i \in 1..Len(back') : back'[i] = Redirect \/ Ordered(back'[i])
    PROVE  OrderInv'
<1>1. FirstInOrder'
  BY DEF OrderInv, FirstInOrder
<1>2. BatchesFilled'
  BY DEF OrderInv, BatchesFilled
<1>3. AnswersOrdered'
  BY DEF OrderInv, AnswersOrdered, Ordered
<1>4. \A t \in (0..(seq' - 1)) \ (failed' \cup redirected') : Ordered(t)'
  <2>1. ASSUME NEW t \in (0..(seq' - 1)) \ (failed' \cup redirected') PROVE Ordered(t)
    BY <2>1 DEF OrderInv, GoesOnInOrder
  <2> QED
    BY <2>1 DEF Ordered
<1>5. seq \in Nat /\ seq' \in Nat
  BY DEF OrderInv, PathType
<1>6. ASSUME NEW r \in Replica, NEW i \in 1..Len(reqChan'[r])
      PROVE  reqChan'[r][i] <= seq'
  <2>1. reqChan'[r] \in Seq(Request)
    BY DEF PathType
  <2>2. reqChan'[r][i] \in Nat /\ reqChan'[r][i] <= seq
    BY <2>1, RequestAt
  <2> QED
    BY <1>5, <2>2
<1>7. ASSUME NEW r \in Replica, NEW i \in 1..Len(buffer'[r])
      PROVE  buffer'[r][i] <= seq'
  <2>1. buffer[r] \in Seq(Request) /\ i \in 1..Len(buffer[r])
    BY DEF OrderInv, PathType
  <2>2. buffer[r][i] \in Nat /\ buffer[r][i] <= seq
    BY <2>1, RequestAt DEF OrderInv, GoesOnInOrder
  <2> QED
    BY <1>5, <2>2
<1> QED
  BY <1>1, <1>2, <1>3, <1>4, <1>6, <1>7 DEF OrderInv, GoesOnInOrder

LEMMA TailAt ==
    ASSUME NEW S, NEW q \in Seq(S), q # << >>, NEW t, t = Tail(q)
    PROVE  /\ t \in Seq(S) /\ Head(q) \in S /\ Head(q) = q[1]
           /\ Len(q) \in Nat /\ Len(q) > 0 /\ 1 \in 1..Len(q)
           /\ \A i \in 1..Len(t) : i + 1 \in 1..Len(q) /\ t[i] = q[i + 1]
OBVIOUS

LEMMA ConcatAt ==
    ASSUME NEW S, NEW q \in Seq(S), NEW b \in Seq(S), NEW t, t = q \o b
    PROVE  /\ t \in Seq(S)
           /\ \A i \in 1..Len(t) :
                 \/ i \in 1..Len(q) /\ t[i] = q[i]
                 \/ i - Len(q) \in 1..Len(b) /\ t[i] = b[i - Len(q)]
OBVIOUS

(* trySend writes the request: it is the client's own.                     *)
LEMMA SendsInOrder ==
    ASSUME OrderInv, SendRequest
    PROVE  OrderInv'
<1>1. /\ UNCHANGED <<seq, failed, redirected, server, replies, buffer, batchTimer, log,
                      aru, back>>
      /\ reqChan' = [reqChan EXCEPT ![server] = Append(reqChan[server], seq)]
      /\ sent' = [sent EXCEPT ![seq] = sent[seq] + 1]
      /\ server # Nobody /\ seq \in Request
  BY DEF SendRequest
<1>2. PICK p \in Replica, q \in Seq(Request), t \in {Append(reqChan[server], seq)} :
         p = server /\ q = reqChan[p] /\ t = Append(q, seq)
  BY <1>1 DEF OrderInv, PathType
<1>3. /\ t \in Seq(Request) /\ Len(q) \in Nat
      /\ \A i \in 1..Len(q) : i \in 1..Len(t) /\ t[i] = q[i]
      /\ \A i \in 1..Len(t) : i \in 1..Len(q) \/ i = Len(q) + 1
      /\ t[Len(q) + 1] = seq
  BY <1>1, <1>2, AppendAt
<1>4. reqChan' = [reqChan EXCEPT ![p] = t] /\ reqChan \in [Replica -> Seq(Request)]
  BY <1>1, <1>2 DEF OrderInv, PathType
<1>5. reqChan' \in [Replica -> Seq(Request)]
  BY <1>3, <1>4
<1>6. sent' \in [Request -> Nat]
  <2>1. sent \in [Request -> Nat]
    BY DEF OrderInv, PathType
  <2>2. sent[seq] + 1 \in Nat
    BY <1>1, <2>1
  <2> QED
    BY <1>1, <2>1, <2>2
<1>7. PathType'
  BY <1>1, <1>5, <1>6 DEF OrderInv, PathType
<1>8. seq \in Nat
  BY DEF OrderInv, PathType
<1>9. ASSUME NEW r \in Replica, NEW i \in 1..Len(reqChan'[r])
      PROVE  reqChan'[r][i] <= seq
  <2>1. CASE r = p
    <3>1. reqChan'[r] = t
      BY <1>4, <2>1
    <3>2. CASE i \in 1..Len(q)
      <4>1. t[i] = reqChan[p][i] /\ i \in 1..Len(reqChan[p])
        BY <1>2, <1>3, <3>2
      <4> QED
        BY <2>1, <3>1, <4>1 DEF OrderInv, GoesOnInOrder
    <3>3. CASE i = Len(q) + 1
      BY <1>3, <1>8, <3>1, <3>3
    <3> QED
      BY <1>3, <3>1, <3>2, <3>3
  <2>2. CASE r # p
    <3>1. reqChan'[r] = reqChan[r]
      BY <1>4, <2>2
    <3> QED
      BY <3>1 DEF OrderInv, GoesOnInOrder
  <2> QED
    BY <2>1, <2>2
<1>10. \A t0 \in (0..(seq' - 1)) \ (failed' \cup redirected') :
          t0 \in 0..(seq - 1) \/ Ordered(t0)
  BY <1>1
<1>11. \A i \in 1..Len(back') : back'[i] = Redirect \/ Ordered(back'[i])
  BY <1>1 DEF OrderInv, AnswersOrdered
<1>12. /\ (failed \cup redirected) \subseteq (failed' \cup redirected')
       /\ redirected' \subseteq {0} /\ seq <= seq'
  BY <1>1, <1>8 DEF OrderInv, FirstInOrder
<1>13. UNCHANGED <<log, buffer, batchTimer, replies, aru>>
  BY <1>1
<1> QED
  BY <1>7, <1>9, <1>10, <1>11, <1>12, <1>13, LogKept

(* The other steps of the client: it goes on from a request that was       *)
(* answered, and so is in the log, or that it gives up.                    *)
LEMMA ClientInOrder ==
    ASSUME OrderInv,
           \/ Receive \/ ReadTimeout \/ Break \/ GiveUp \/ LoseResponse
           \/ \E r \in Replica : Connect(r) \/ Notice(r)
    PROVE  OrderInv'
<1>1. /\ seq \in Nat /\ back \in Seq(Response)
      /\ reqChan \in [Replica -> Seq(Request)] /\ redirected \subseteq {0}
  BY DEF OrderInv, PathType, FirstInOrder
<1>2. /\ UNCHANGED <<log, buffer, batchTimer, replies, aru, sent>>
      /\ (failed \cup redirected) \subseteq (failed' \cup redirected')
  BY DEF Receive, ReadTimeout, Break, Disconnect, GiveUp, LoseResponse, Connect,
     Notice, client
<1>3. \/ back' = back
      \/ back # << >> /\ back' = Tail(back)
      \/ back' = << >>
  BY DEF Receive, ReadTimeout, Break, Disconnect, GiveUp, LoseResponse, Connect,
     Notice
<1>4. /\ back' \in Seq(Response)
      /\ \A i \in 1..Len(back') : back'[i] = Redirect \/ Ordered(back'[i])
  <2>1. CASE back' = back
    BY <1>1, <2>1 DEF OrderInv, AnswersOrdered
  <2>2. CASE back # << >> /\ back' = Tail(back)
    <3>1. /\ back' \in Seq(Response)
          /\ \A i \in 1..Len(back') : i + 1 \in 1..Len(back) /\ back'[i] = back[i + 1]
      BY <1>1, <2>2, TailAt
    <3> QED
      BY <3>1 DEF OrderInv, AnswersOrdered
  <2>3. CASE back' = << >>
    BY <2>3
  <2> QED
    BY <1>3, <2>1, <2>2, <2>3
<1>5. \/ UNCHANGED <<seq, failed, redirected>>
      \/ /\ seq' = seq + 1 /\ seq \in (failed' \cup redirected')
         /\ redirected' \subseteq redirected \cup {0}
      \/ /\ seq' = seq + 1 /\ back # << >> /\ Head(back) = seq
         /\ redirected' = redirected
  BY DEF Receive, NextRequest, ReadTimeout, Break, Disconnect, GiveUp, LoseResponse,
     Connect, Notice, client, GetSeq
<1>6. /\ seq' \in Nat /\ seq <= seq' /\ redirected' \subseteq {0}
      /\ \A t \in (0..(seq' - 1)) \ (failed' \cup redirected') :
            t \in 0..(seq - 1) \/ Ordered(t)
  <2>1. CASE UNCHANGED <<seq, failed, redirected>>
    BY <1>1, <2>1
  <2>2. CASE /\ seq' = seq + 1 /\ seq \in (failed' \cup redirected')
             /\ redirected' \subseteq redirected \cup {0}
    BY <1>1, <2>2
  <2>3. CASE /\ seq' = seq + 1 /\ back # << >> /\ Head(back) = seq
             /\ redirected' = redirected
    <3>1. 1 \in 1..Len(back) /\ back[1] = seq
      BY <1>1, <2>3, TailAt
    <3>2. Ordered(seq)
      BY <1>1, <3>1 DEF OrderInv, AnswersOrdered, Redirect
    <3> QED
      BY <1>1, <2>3, <3>2
  <2> QED
    BY <1>5, <2>1, <2>2, <2>3
<1>7. server' \in Replica \cup {Nobody}
  BY DEF Receive, ReadTimeout, Break, Disconnect, GiveUp, LoseResponse, Connect,
     Notice, OrderInv, PathType
<1>8. \/ reqChan' = reqChan
      \/ \E r \in Replica : reqChan' = [reqChan EXCEPT ![r] = << >>]
  BY DEF Receive, ReadTimeout, Break, Disconnect, GiveUp, LoseResponse, Connect,
     Notice
<1>9. /\ reqChan' \in [Replica -> Seq(Request)]
      /\ \A r \in Replica : \A i \in 1..Len(reqChan'[r]) : reqChan'[r][i] <= seq
  <2>1. CASE reqChan' = reqChan
    BY <1>1, <2>1 DEF OrderInv, GoesOnInOrder
  <2>2. ASSUME NEW p \in Replica, reqChan' = [reqChan EXCEPT ![p] = << >>]
        PROVE  /\ reqChan' \in [Replica -> Seq(Request)]
               /\ \A r \in Replica : \A i \in 1..Len(reqChan'[r]) :
                     reqChan'[r][i] <= seq
    <3>1. ASSUME NEW r \in Replica
          PROVE  reqChan'[r] = << >> \/ reqChan'[r] = reqChan[r]
      BY <1>1, <2>2
    <3>2. reqChan' \in [Replica -> Seq(Request)]
      BY <1>1, <2>2
    <3> QED
      BY <3>1, <3>2 DEF OrderInv, GoesOnInOrder
  <2> QED
    BY <1>8, <2>1, <2>2
<1>10. PathType'
  BY <1>2, <1>4, <1>6, <1>7, <1>9 DEF OrderInv, PathType
<1> QED
  BY <1>2, <1>4, <1>6, <1>9, <1>10, LogKept

(* A batch b of replica r is proposed, or waits in its buffer: what was    *)
(* read from the channel is in it.                                         *)
LEMMA ServerInOrder ==
    ASSUME OrderInv, NEW r \in Replica,
           UNCHANGED <<seq, failed, redirected, server, sent, replies, aru>>,
           reqChan' \in [Replica -> Seq(Request)],
           \A p \in Replica : \A i \in 1..Len(reqChan'[p]) : reqChan'[p][i] <= seq,
           NEW b \in Seq(Request), b # << >>, \A i \in 1..Len(b) : b[i] <= seq,
           log' = log \/ log' = Append(log, b),
           NEW c \in {b, buffer[r], << >>}, buffer' = [buffer EXCEPT ![r] = c],
           batchTimer' \subseteq batchTimer \cup {r},
           r \in batchTimer' => c # << >>,
           back' \in Seq(Response),
           \A i \in 1..Len(back') : back'[i] = Redirect \/ Ordered(back'[i])
    PROVE  OrderInv'
<1>1. /\ seq \in Nat /\ log \in Seq(Seq(Request))
      /\ buffer \in [Replica -> Seq(Request)]
  BY DEF OrderInv, PathType
<1>2. /\ log' \in Seq(Seq(Request)) /\ Len(log) \in Nat
      /\ \A i \in 1..Len(log) : i \in 1..Len(log') /\ log'[i] = log[i]
      /\ \A i \in 1..Len(log') :
            i \in 1..Len(log) \/ (i = Len(log) + 1 /\ log'[i] = b)
  BY <1>1, LogGrows
<1>3. ASSUME NEW s, Ordered(s) PROVE Ordered(s)'
  BY <1>1, <1>3, OrderedStays
<1>4. FirstInOrder'
  BY BatchInOrder
<1>5. /\ c \in Seq(Request)
      /\ \A i \in 1..Len(c) : c[i] <= seq
  <2>1. CASE c = b
    BY <2>1
  <2>2. CASE c = buffer[r]
    BY <1>1, <2>2 DEF OrderInv, GoesOnInOrder
  <2>3. CASE c = << >>
    BY <2>3
  <2> QED
    BY <2>1, <2>2, <2>3
<1>6. ASSUME NEW p \in Replica
      PROVE  buffer'[p] = IF p = r THEN c ELSE buffer[p]
  BY <1>1
<1>7. PathType'
  <2>1. buffer' \in [Replica -> Seq(Request)]
    BY <1>1, <1>5
  <2> QED
    BY <1>2, <2>1 DEF OrderInv, PathType
<1>8. BatchesFilled'
  <2>1. ASSUME NEW p \in batchTimer' PROVE p \in Replica /\ buffer'[p] # << >>
    <3>1. p \in Replica
      BY DEF OrderInv, BatchesFilled
    <3>2. CASE p = r
      BY <1>6, <3>1, <3>2
    <3>3. CASE p # r
      BY <1>6, <3>1, <3>3 DEF OrderInv, BatchesFilled
    <3> QED
      BY <3>1, <3>2, <3>3
  <2>2. ASSUME NEW i \in 1..Len(log') PROVE log'[i] # << >>
    BY <1>2 DEF OrderInv, BatchesFilled
  <2> QED
    BY <2>1, <2>2 DEF BatchesFilled
<1>9. GoesOnInOrder'
  <2>1. ASSUME NEW t \in (0..(seq' - 1)) \ (failed' \cup redirected') PROVE Ordered(t)'
    BY <1>3 DEF OrderInv, GoesOnInOrder
  <2>2. ASSUME NEW p \in Replica, NEW i \in 1..Len(buffer'[p])
        PROVE  buffer'[p][i] <= seq
    <3>1. CASE p = r
      BY <1>5, <1>6, <3>1
    <3>2. CASE p # r
      BY <1>6, <3>2 DEF OrderInv, GoesOnInOrder
    <3> QED
      BY <3>1, <3>2
  <2> QED
    BY <2>1, <2>2 DEF GoesOnInOrder
<1>10. AnswersOrdered'
  <2>1. ASSUME NEW i \in 1..Len(back')
        PROVE  back'[i] = Redirect \/ \E k \in 1..Len(log') : Contains(log'[k], back'[i])
    <3>1. PICK v : v = back'[i]
      OBVIOUS
    <3>2. v = Redirect \/ Ordered(v)
      BY <3>1
    <3>3. v = Redirect \/ Ordered(v)'
      BY <1>3, <3>2
    <3> QED
      BY <3>1, <3>3 DEF Ordered
  <2>2. ASSUME NEW p \in Replica
        PROVE  replies'[p] = NoReply \/ \E k \in 1..Len(log') : Contains(log'[k], replies'[p])
    <3>1. PICK v : v = replies[p] /\ v = replies'[p]
      OBVIOUS
    <3>2. v = NoReply \/ Ordered(v)
      BY <3>1 DEF OrderInv, AnswersOrdered
    <3>3. v = NoReply \/ Ordered(v)'
      BY <1>3, <3>2
    <3> QED
      BY <3>1, <3>3 DEF Ordered
  <2> QED
    BY <2>1, <2>2 DEF AnswersOrdered, Ordered
<1> QED
  BY <1>4, <1>7, <1>8, <1>9, <1>10 DEF OrderInv

(* sendBatch and appendToBatch, with batch b.                              *)
LEMMA SendsBatch ==
    ASSUME NEW r, NEW b, SendBatch(r, b)
    PROVE  /\ log' = log \/ log' = Append(log, b)
           /\ buffer' = [buffer EXCEPT ![r] = << >>]
           /\ batchTimer' = batchTimer \ {r}
BY DEF SendBatch, Propose

LEMMA AppendsToBatch ==
    ASSUME NEW r, NEW s, AppendToBatch(r, s)
    PROVE  /\ \/ /\ log' = log \/ log' = Append(log, Append(buffer[r], s))
                 /\ buffer' = [buffer EXCEPT ![r] = << >>]
                 /\ batchTimer' = batchTimer \ {r}
              \/ /\ log' = log
                 /\ buffer' = [buffer EXCEPT ![r] = Append(buffer[r], s)]
                 /\ batchTimer' \subseteq batchTimer \cup {r}
BY SendsBatch DEF AppendToBatch

LEMMA HandlesInOrder ==
    ASSUME OrderInv, NEW r \in Replica, HandleRequest(r)
    PROVE  OrderInv'
<1>1. /\ reqChan[r] # << >>
      /\ reqChan' = [reqChan EXCEPT ![r] = Tail(reqChan[r])]
      /\ UNCHANGED <<seq, failed, redirected, server, sent, replies, aru>>
  BY DEF HandleRequest, client
<1>2. /\ seq \in Nat /\ reqChan \in [Replica -> Seq(Request)]
      /\ buffer \in [Replica -> Seq(Request)] /\ back \in Seq(Response)
      /\ replies \in [Replica -> Response]
  BY DEF OrderInv, PathType
<1>3. PICK s \in Request : s = Head(reqChan[r]) /\ s = reqChan[r][1] /\ s <= seq
  <2>1. /\ Head(reqChan[r]) \in Request /\ Head(reqChan[r]) = reqChan[r][1]
        /\ 1 \in 1..Len(reqChan[r])
    BY <1>1, <1>2, TailAt
  <2> QED
    BY <2>1 DEF OrderInv, GoesOnInOrder
<1>4. s \in Nat /\ s \in Response /\ s # Redirect /\ s # NoReply
  BY PathAssumption DEF Request, Response, Redirect, NoReply
<1>5. /\ reqChan' \in [Replica -> Seq(Request)]
      /\ \A p \in Replica : \A i \in 1..Len(reqChan'[p]) : reqChan'[p][i] <= seq
  <2>1. PICK q \in Seq(Request) : q = Tail(reqChan[r])
    BY <1>1, <1>2, TailAt
  <2>2. \A i \in 1..Len(q) : i + 1 \in 1..Len(reqChan[r]) /\ q[i] = reqChan[r][i + 1]
    BY <1>1, <1>2, <2>1, TailAt
  <2>3. ASSUME NEW p \in Replica
        PROVE  reqChan'[p] = IF p = r THEN q ELSE reqChan[p]
    BY <1>1, <1>2, <2>1
  <2>4. ASSUME NEW p \in Replica, NEW i \in 1..Len(reqChan'[p])
        PROVE  reqChan'[p][i] <= seq
    <3>1. CASE p = r
      <4>1. i + 1 \in 1..Len(reqChan[r]) /\ reqChan'[p][i] = reqChan[r][i + 1]
        BY <2>2, <2>3, <3>1
      <4> QED
        BY <4>1 DEF OrderInv, GoesOnInOrder
    <3>2. CASE p # r
      BY <2>3, <3>2 DEF OrderInv, GoesOnInOrder
    <3> QED
      BY <3>1, <3>2
  <2>5. reqChan' \in [Replica -> Seq(Request)]
    BY <1>1, <1>2, <2>1
  <2> QED
    BY <2>4, <2>5
<1>6. PICK b \in Seq(Request) :
         /\ b = Append(buffer[r], s) /\ b # << >>
         /\ \A i \in 1..Len(b) : b[i] <= seq
  <2>1. PICK q \in Seq(Request) : q = buffer[r]
    BY <1>2
  <2>2. PICK b \in Seq(Request) : b = Append(q, s)
    BY AppendAt
  <2>3. /\ Len(b) = Len(q) + 1 /\ Len(q) \in Nat
        /\ \A i \in 1..Len(q) : b[i] = q[i]
        /\ \A i \in 1..Len(b) : i \in 1..Len(q) \/ i = Len(q) + 1
        /\ b[Len(q) + 1] = s
    BY <2>2, AppendAt
  <2>4. ASSUME NEW i \in 1..Len(b) PROVE b[i] <= seq
    <3>1. CASE i \in 1..Len(q)
      BY <2>1, <2>3, <3>1 DEF OrderInv, GoesOnInOrder
    <3>2. CASE i = Len(q) + 1
      BY <1>3, <2>3, <3>2
    <3> QED
      BY <2>3, <3>1, <3>2
  <2>5. b # << >>
    BY <2>3
  <2> QED
    BY <2>1, <2>2, <2>4, <2>5
<1>7. ASSUME NEW x \in Response, x = Redirect \/ Ordered(x),
             back' = back \/ back' = Append(back, x)
      PROVE  /\ back' \in Seq(Response)
             /\ \A i \in 1..Len(back') : back'[i] = Redirect \/ Ordered(back'[i])
  <2>1. /\ back' \in Seq(Response)
        /\ \A i \in 1..Len(back) : back'[i] = back[i]
        /\ \A i \in 1..Len(back') :
              i \in 1..Len(back) \/ (i = Len(back) + 1 /\ back'[i] = x)
    BY <1>2, <1>7, AnswersGrow
  <2> QED
    BY <1>7, <2>1 DEF OrderInv, AnswersOrdered
<1>8. \/ /\ UNCHANGED <<buffer, batchTimer, log>>
         /\ \E x \in {Redirect, s} : /\ back' = back \/ back' = Append(back, x)
                                     /\ x = s => s = replies[r]
      \/ UNCHANGED back /\ AppendToBatch(r, s)
  BY <1>3, <1>4 DEF HandleRequest
<1>9. CASE UNCHANGED <<buffer, batchTimer, log>> /\
           \E x \in {Redirect, s} : /\ back' = back \/ back' = Append(back, x)
                                    /\ x = s => s = replies[r]
  <2>1. PICK x \in {Redirect, s} : /\ back' = back \/ back' = Append(back, x)
                                   /\ x = s => s = replies[r]
    BY <1>9
  <2>2. x \in Response /\ (x = Redirect \/ Ordered(x))
    <3>1. CASE x = s
      <4>1. s = replies[r] /\ s # NoReply
        BY <1>4, <2>1, <3>1
      <4>2. Ordered(replies[r])
        BY <4>1 DEF OrderInv, AnswersOrdered
      <4> QED
        BY <1>4, <3>1, <4>1, <4>2
    <3>2. CASE x = Redirect
      BY <3>2 DEF Response
    <3> QED
      BY <3>1, <3>2
  <2>3. /\ back' \in Seq(Response)
        /\ \A i \in 1..Len(back') : back'[i] = Redirect \/ Ordered(back'[i])
    BY <1>7, <2>1, <2>2
  <2>4. PICK c \in {b, buffer[r], << >>} : c = buffer[r]
    OBVIOUS
  <2>5. buffer' = [buffer EXCEPT ![r] = c]
    BY <1>2, <1>9, <2>4
  <2>6. batchTimer' \subseteq batchTimer \cup {r} /\ (r \in batchTimer' => c # << >>)
    BY <1>9, <2>4 DEF OrderInv, BatchesFilled
  <2> QED
    BY <1>1, <1>5, <1>6, <1>9, <2>3, <2>5, <2>6, ServerInOrder
<1>10. CASE UNCHANGED back /\ AppendToBatch(r, s)
  <2>1. /\ back' \in Seq(Response)
        /\ \A i \in 1..Len(back') : back'[i] = Redirect \/ Ordered(back'[i])
    BY <1>2, <1>10 DEF OrderInv, AnswersOrdered
  <2>2. \/ /\ log' = log \/ log' = Append(log, b)
           /\ buffer' = [buffer EXCEPT ![r] = << >>]
           /\ batchTimer' = batchTimer \ {r}
        \/ /\ log' = log
           /\ buffer' = [buffer EXCEPT ![r] = b]
           /\ batchTimer' \subseteq batchTimer \cup {r}
    BY <1>6, <1>10, AppendsToBatch
  <2>3. PICK c \in {b, buffer[r], << >>} :
           /\ buffer' = [buffer EXCEPT ![r] = c]
           /\ batchTimer' \subseteq batchTimer \cup {r}
           /\ r \in batchTimer' => c # << >>
    BY <1>6, <2>2
  <2>4. log' = log \/ log' = Append(log, b)
    BY <2>2
  <2> QED
    BY <1>1, <1>5, <1>6, <2>1, <2>3, <2>4, ServerInOrder
<1> QED
  BY <1>8, <1>9, <1>10

LEMMA TimesOutInOrder ==
    ASSUME OrderInv, NEW r \in Replica, BatchTimeout(r)
    PROVE  OrderInv'
<1>1. /\ r \in batchTimer /\ SendBatch(r, buffer[r])
      /\ UNCHANGED <<seq, failed, redirected, server, sent, replies, aru, reqChan, back>>
  BY DEF BatchTimeout, client
<1>2. PICK b \in Seq(Request) :
         /\ b = buffer[r] /\ b # << >>
         /\ \A i \in 1..Len(b) : b[i] <= seq
  BY <1>1 DEF OrderInv, PathType, BatchesFilled, GoesOnInOrder
<1>3. PICK c \in {b, buffer[r], << >>} :
         /\ buffer' = [buffer EXCEPT ![r] = c]
         /\ batchTimer' \subseteq batchTimer \cup {r}
         /\ r \in batchTimer' => c # << >>
         /\ log' = log \/ log' = Append(log, b)
  BY <1>1, <1>2, SendsBatch
<1>4. /\ reqChan' \in [Replica -> Seq(Request)]
      /\ \A p \in Replica : \A i \in 1..Len(reqChan'[p]) : reqChan'[p][i] <= seq
      /\ back' \in Seq(Response)
      /\ \A i \in 1..Len(back') : back'[i] = Redirect \/ Ordered(back'[i])
  BY <1>1 DEF OrderInv, PathType, GoesOnInOrder, AnswersOrdered
<1> QED
  BY <1>1, <1>2, <1>3, <1>4, ServerInOrder

LEMMA SeqOfMore ==
    ASSUME NEW S, NEW T, S \subseteq T, NEW q \in Seq(S)
    PROVE  q \in Seq(T)
OBVIOUS

(* What is executed, and so answered, is in the log.                       *)
LEMMA ExecutesInOrder ==
    ASSUME OrderInv, NEW r \in Replica, Execute(r)
    PROVE  OrderInv'
<1>1. PICK k \in Nat \ {0} : k = aru[r] + 1 /\ k <= Len(log)
  BY DEF Execute, OrderInv, PathType
<1>2. /\ log \in Seq(Seq(Request)) /\ aru \in [Replica -> Nat]
      /\ replies \in [Replica -> Response] /\ back \in Seq(Response)
  BY DEF OrderInv, PathType
<1>3. aru' = [aru EXCEPT ![r] = k] /\ aru'[r] = k
  BY <1>1, <1>2 DEF Execute
<1>4. PICK b \in Seq(Request) : b = log[k] /\ b # << >> /\ k \in 1..Len(log)
  BY <1>1, <1>2 DEF OrderInv, BatchesFilled
<1>5. ASSUME NEW i \in 1..Len(b) PROVE b[i] \in Response /\ Ordered(b[i])
  <2>1. b[i] \in Request
    BY RequestAt
  <2>2. Contains(log[k], b[i])
    BY <1>4 DEF Contains
  <2> QED
    <3>1. Ordered(b[i])
      BY <1>4, <2>2, Zenon DEF Ordered
    <3>2. b[i] \in Response
      BY <2>1 DEF Response
    <3> QED
      BY <3>1, <3>2
<1>6. /\ UNCHANGED <<seq, failed, redirected, server, sent, reqChan, buffer,
                      batchTimer, log>>
      /\ replies' = replies \/ replies' = [replies EXCEPT ![r] = Last(b)]
      /\ back' = back \/ back' = back \o b
  BY <1>3, <1>4 DEF Execute, client
<1>7. PICK v \in Response : v = Last(b) /\ Ordered(v)
  <2>1. Len(b) \in 1..Len(b)
    BY <1>4
  <2> QED
    BY <1>5, <2>1 DEF Last
<1>8. /\ replies' \in [Replica -> Response]
      /\ \A p \in Replica : replies'[p] = NoReply \/ Ordered(replies'[p])
  <2>1. CASE replies' = replies
    BY <1>2, <2>1 DEF OrderInv, AnswersOrdered
  <2>2. CASE replies' = [replies EXCEPT ![r] = v]
    <3>1. ASSUME NEW p \in Replica
          PROVE  replies'[p] = IF p = r THEN v ELSE replies[p]
      BY <1>2, <2>2
    <3>2. ASSUME NEW p \in Replica PROVE replies'[p] = NoReply \/ Ordered(replies'[p])
      BY <1>7, <3>1 DEF OrderInv, AnswersOrdered
    <3>3. replies' \in [Replica -> Response]
      BY <1>2, <2>2
    <3> QED
      BY <3>2, <3>3
  <2> QED
    BY <1>6, <1>7, <2>1, <2>2
<1>9. /\ back' \in Seq(Response)
      /\ \A i \in 1..Len(back') : back'[i] = Redirect \/ Ordered(back'[i])
  <2>1. CASE back' = back
    BY <1>2, <2>1 DEF OrderInv, AnswersOrdered
  <2>2. CASE back' = back \o b
    <3>1. b \in Seq(Response)
      <4>1. Request \subseteq Response
        BY DEF Response
      <4> QED
        BY <4>1, SeqOfMore
    <3>2. /\ back' \in Seq(Response)
          /\ \A i \in 1..Len(back') :
                \/ i \in 1..Len(back) /\ back'[i] = back[i]
                \/ i - Len(back) \in 1..Len(b) /\ back'[i] = b[i - Len(back)]
      BY <1>2, <2>2, <3>1, ConcatAt
    <3> QED
      BY <1>5, <3>2 DEF OrderInv, AnswersOrdered
  <2> QED
    BY <1>6, <2>1, <2>2
<1>10. PathType'
  <2>1. aru' \in [Replica -> Nat]
    BY <1>2, <1>3
  <2> QED
    BY <1>6, <1>8, <1>9, <2>1 DEF OrderInv, PathType
<1>11. BatchesFilled' /\ GoesOnInOrder' /\ FirstInOrder'
  BY <1>6 DEF OrderInv, BatchesFilled, GoesOnInOrder, FirstInOrder, Ordered
<1>12. AnswersOrdered'
  BY <1>6, <1>8, <1>9 DEF AnswersOrdered, Ordered
<1> QED
  BY <1>10, <1>11, <1>12 DEF OrderInv

LEMMA OrderStep == OrderInv /\ [Next]_vars => OrderInv'
<1> SUFFICES ASSUME OrderInv, [Next]_vars PROVE OrderInv'
  OBVIOUS
<1>1. CASE UNCHANGED path
  BY <1>1 DEF path, client, OrderInv, PathType, BatchesFilled, GoesOnInOrder,
     AnswersOrdered, FirstInOrder, Ordered
<1>2. CASE SendRequest
  BY <1>2, SendsInOrder
<1>3. CASE \/ Receive \/ ReadTimeout \/ Break \/ GiveUp \/ LoseResponse
           \/ \E r \in Replica : Connect(r) \/ Notice(r)
  BY <1>3, ClientInOrder
<1>4. CASE \E r \in Replica : HandleRequest(r)
  BY <1>4, HandlesInOrder
<1>5. CASE \E r \in Replica : BatchTimeout(r)
  BY <1>5, TimesOutInOrder
<1>6. CASE \E r \in Replica : Execute(r)
  BY <1>6, ExecutesInOrder
<1>7. CASE \E r \in Replica : Trust(r)
  BY <1>1, <1>7 DEF Trust
<1>8. CASE UNCHANGED vars
  BY <1>1, <1>8 DEF vars
<1> QED
  BY <1>2, <1>3, <1>4, <1>5, <1>6, <1>7, <1>8 DEF Next

(* The client goes on to the next request only when the one before was     *)
(* executed or given up, or is request 0 and a redirect ended it: first    *)
(* executions of the others are in order, whatever is lost, broken off or  *)
(* sent again, for any replicas, batch size, number of requests and faults.*)
THEOREM FirstInOrderTheorem == Spec => []FirstInOrder
<1>1. OrderInv => FirstInOrder
  BY DEF OrderInv
<1> QED
  BY <1>1, OrderInit, OrderStep, PTL DEF Spec

-----------------------------------------------------------------------------
(* Copies of a request.  Where one is: the queue of a client handler, the  *)
(* buffer of a server or a batch of the log, and the position there.       *)
Place == {"chan", "buffer", "log"} \X (Replica \cup Nat) \X Nat

CopiesOf(chan, buf, batches, s) ==
    {c \in Place :
        \/ /\ c[1] = "chan" /\ c[2] \in Replica /\ c[3] \in 1..Len(chan[c[2]])
           /\ chan[c[2]][c[3]] = s
        \/ /\ c[1] = "buffer" /\ c[2] \in Replica /\ c[3] \in 1..Len(buf[c[2]])
           /\ buf[c[2]][c[3]] = s
        \/ /\ c[1] = "log" /\ c[2] \in 1..Len(batches)
           /\ c[3] \in 1..Len(batches[c[2]])
           /\ batches[c[2]][c[3]] = s}

Copies(s) == CopiesOf(reqChan, buffer, log, s)

(* The elements of S have numbers up to n, each another one.               *)
Numbered(S, n) ==
    \E f \in [S -> 1..n] : \A c, d \in S : f[c] = f[d] => c = d

(* Every copy of a request comes from another time the client sent it.     *)
SentEach == \A s \in Request : Numbered(Copies(s), sent[s])

LEMMA NumberedFrom ==
    ASSUME NEW S, NEW T, NEW n, Numbered(S, n), NEW g \in [T -> S],
           \A c, d \in T : g[c] = g[d] => c = d
    PROVE  Numbered(T, n)
<1>1. PICK f \in [S -> 1..n] : \A c, d \in S : f[c] = f[d] => c = d
  BY DEF Numbered
<1>2. PICK h : h = [c \in T |-> f[g[c]]]
  OBVIOUS
<1>3. h \in [T -> 1..n]
  BY <1>2
<1>4. ASSUME NEW c \in T, NEW d \in T, h[c] = h[d] PROVE c = d
  <2>1. f[g[c]] = f[g[d]] /\ g[c] \in S /\ g[d] \in S
    BY <1>2, <1>4
  <2> QED
    BY <1>1, <2>1
<1> QED
  BY <1>3, <1>4 DEF Numbered

LEMMA NumberedVia ==
    ASSUME NEW S, NEW T, NEW n, Numbered(S, n),
           \E g \in [T -> S] : \A c, d \in T : g[c] = g[d] => c = d
    PROVE  Numbered(T, n)
BY NumberedFrom

LEMMA NumberedPart ==
    ASSUME NEW S, NEW T, NEW n, Numbered(S, n), T \subseteq S
    PROVE  Numbered(T, n)
<1>1. PICK g : g = [c \in T |-> c]
  OBVIOUS
<1>2. g \in [T -> S] /\ \A c, d \in T : g[c] = g[d] => c = d
  BY <1>1
<1> QED
  BY <1>2, NumberedFrom

(* One more.                                                               *)
LEMMA NumberedMore ==
    ASSUME NEW S, NEW T, NEW n \in Nat, Numbered(S, n), NEW e, T \subseteq S \cup {e}
    PROVE  Numbered(T, n + 1)
<1>1. PICK f \in [S -> 1..n] : \A c, d \in S : f[c] = f[d] => c = d
  BY DEF Numbered
<1>2. PICK h : h = [c \in T |-> IF c = e THEN n + 1 ELSE f[c]]
  OBVIOUS
<1>3. ASSUME NEW c \in T PROVE h[c] = IF c = e THEN n + 1 ELSE f[c]
  BY <1>2
<1>4. ASSUME NEW c \in T, c # e
      PROVE  f[c] \in Nat /\ f[c] >= 1 /\ f[c] <= n /\ c \in S
  BY <1>1, <1>4
<1>5. h \in [T -> 1..(n + 1)]
  <2>1. ASSUME NEW c \in T PROVE h[c] \in 1..(n + 1)
    BY <1>3, <1>4
  <2> QED
    BY <1>2, <2>1
<1>6. ASSUME NEW c \in T, NEW d \in T, h[c] = h[d] PROVE c = d
  <2>1. CASE c = e /\ d = e
    BY <2>1
  <2>2. CASE c # e /\ d # e
    BY <1>1, <1>3, <1>4, <1>6, <2>2
  <2>3. CASE (c = e /\ d # e) \/ (c # e /\ d = e)
    BY <1>3, <1>4, <1>6, <2>3
  <2> QED
    BY <2>1, <2>2, <2>3
<1> QED
  BY <1>5, <1>6 DEF Numbered

LEMMA CopyAt ==
    ASSUME NEW chan, NEW buf, NEW batches, NEW s, NEW c \in CopiesOf(chan, buf, batches, s)
    PROVE  /\ c \in Place /\ c = <<c[1], c[2], c[3]>> /\ c[3] \in Nat /\ c[3] >= 1
           /\ c[1] \in {"chan", "buffer", "log"}
           /\ c[1] = "chan" =>
                 c[2] \in Replica /\ c[3] \in 1..Len(chan[c[2]]) /\ chan[c[2]][c[3]] = s
           /\ c[1] = "buffer" =>
                 c[2] \in Replica /\ c[3] \in 1..Len(buf[c[2]]) /\ buf[c[2]][c[3]] = s
           /\ c[1] = "log" =>
                 /\ c[2] \in 1..Len(batches) /\ c[3] \in 1..Len(batches[c[2]])
                 /\ batches[c[2]][c[3]] = s
<1>1. c \in Place
  BY DEF CopiesOf
<1>2. c = <<c[1], c[2], c[3]>> /\ c[3] \in Nat /\ c[1] \in {"chan", "buffer", "log"}
  BY <1>1 DEF Place
<1>3. \/ c[1] = "chan" /\ c[3] \in 1..Len(chan[c[2]])
      \/ c[1] = "buffer" /\ c[3] \in 1..Len(buf[c[2]])
      \/ c[1] = "log" /\ c[3] \in 1..Len(batches[c[2]])
  BY DEF CopiesOf
<1>4. c[3] >= 1
  BY <1>2, <1>3
<1> QED
  BY <1>1, <1>2, <1>4 DEF CopiesOf

(* Where the copy at e was, at f, before replica r took the first request  *)
(* of its channel; lb and ll are the lengths of its buffer and of the log. *)
TakenFrom(r, lb, ll, e, f) ==
    \/ e[1] = "chan" /\ e[2] = r /\ f[1] = "chan" /\ f[2] = r /\ f[3] = e[3] + 1
    \/ /\ e[1] = "buffer" /\ e[2] = r /\ e[3] = lb + 1
       /\ f[1] = "chan" /\ f[2] = r /\ f[3] = 1
    \/ /\ e[1] = "log" /\ e[2] = ll + 1
       /\ f[1] = "buffer" /\ f[2] = r /\ f[3] = e[3]
    \/ /\ e[1] = "log" /\ e[2] = ll + 1 /\ e[3] = lb + 1
       /\ f[1] = "chan" /\ f[2] = r /\ f[3] = 1
    \/ /\ ~(e[1] = "chan" /\ e[2] = r) /\ ~(e[1] = "log" /\ e[2] = ll + 1)
       /\ f[1] = e[1] /\ f[2] = e[2] /\ f[3] = e[3]

AtPlace(e) == e[1] \in {"chan", "buffer", "log"} /\ e[3] \in Nat /\ e[3] >= 1
NewBatchOf(r, ll, c, d) ==
    c[1] = "buffer" /\ c[2] = r /\ d[1] = "log" /\ d[2] = ll + 1

(* Two copies that were at one place, of which a batch that was cut has    *)
(* not one in the log and one still in the buffer.                         *)
BothFrom(r, lb, ll, c, d, f) ==
    /\ lb \in Nat /\ ll \in Nat
    /\ AtPlace(c) /\ AtPlace(d)
    /\ TakenFrom(r, lb, ll, c, f) /\ TakenFrom(r, lb, ll, d, f)
    /\ ~NewBatchOf(r, ll, c, d) /\ ~NewBatchOf(r, ll, d, c)

LEMMA SamePlace ==
    ASSUME NEW r, NEW lb, NEW ll, NEW c, NEW d, NEW f, BothFrom(r, lb, ll, c, d, f)
    PROVE  c[1] = d[1] /\ c[2] = d[2] /\ c[3] = d[3]
  BY DEF BothFrom, TakenFrom, AtPlace, NewBatchOf

(* Request x goes from the queue of r to its buffer, from there with the   *)
(* others in a batch to the log, or is dropped.                            *)
LEMMA CopyGoesOn ==
    ASSUME reqChan \in [Replica -> Seq(Request)], buffer \in [Replica -> Seq(Request)],
           log \in Seq(Seq(Request)), NEW r \in Replica, NEW s, NEW n, NEW x,
           reqChan[r] # << >>, x = Head(reqChan[r]),
           reqChan' = [reqChan EXCEPT ![r] = Tail(reqChan[r])],
           \/ buffer' = buffer /\ log' = log
           \/ buffer' = [buffer EXCEPT ![r] = Append(buffer[r], x)] /\ log' = log
           \/ /\ buffer' = [buffer EXCEPT ![r] = << >>]
              /\ log' = log \/ log' = Append(log, Append(buffer[r], x)),
           Numbered(Copies(s), n)
    PROVE  Numbered(Copies(s)', n)
<1>1. PICK q \in Seq(Request) :
         /\ q = reqChan[r] /\ Len(q) \in Nat /\ 1 \in 1..Len(q) /\ x = q[1]
         /\ x \in Request
         /\ \A i \in 1..Len(Tail(q)) : i + 1 \in 1..Len(q) /\ Tail(q)[i] = q[i + 1]
  <2>1. PICK q \in Seq(Request) : q = reqChan[r] /\ q # << >>
    OBVIOUS
  <2> QED
    BY <2>1, TailAt
<1>2. PICK b \in Seq(Request) : b = buffer[r] /\ Len(b) \in Nat /\ Len(log) \in Nat
  BY LenIsNat
<1> DEFINE S == CopiesOf(reqChan, buffer, log, s)
           T == CopiesOf(reqChan', buffer', log', s)
           From(c) ==
               CASE c[1] = "chan" /\ c[2] = r -> <<"chan", r, c[3] + 1>>
                 [] c[1] = "buffer" /\ c[2] = r /\ c[3] = Len(b) + 1 -> <<"chan", r, 1>>
                 [] c[1] = "log" /\ c[2] = Len(log) + 1 ->
                       IF c[3] \in 1..Len(b) THEN <<"buffer", r, c[3]>>
                       ELSE <<"chan", r, 1>>
                 [] OTHER -> c
<1>3. PICK a \in Seq(Request) : a = Append(b, x)
  BY <1>1, <1>2, AppendAt
<1>4. /\ Len(a) = Len(b) + 1 /\ a[Len(b) + 1] = x
      /\ \A i \in 1..Len(b) : a[i] = b[i]
      /\ \A i \in 1..Len(a) : i \in 1..Len(b) \/ i = Len(b) + 1
  BY <1>1, <1>3, AppendAt
<1>5. \A p \in Replica : reqChan'[p] = IF p = r THEN Tail(q) ELSE reqChan[p]
  BY <1>1
<1>6. \/ /\ buffer' = buffer /\ log' = log
      \/ /\ \A p \in Replica : buffer'[p] = IF p = r THEN a ELSE buffer[p]
         /\ log' = log
      \/ /\ \A p \in Replica : buffer'[p] = IF p = r THEN << >> ELSE buffer[p]
         /\ log' = log \/ log' = Append(log, a)
  BY <1>2, <1>3
<1>7. \A i \in 1..Len(log') :
         \/ i \in 1..Len(log) /\ log'[i] = log[i]
         \/ i = Len(log) + 1 /\ log'[i] = a /\ buffer'[r] = << >>
  <2>1. CASE log' = Append(log, a) /\ buffer'[r] = << >>
    <3>1. /\ \A i \in 1..Len(log) : log'[i] = log[i]
          /\ \A i \in 1..Len(log') :
                i \in 1..Len(log) \/ (i = Len(log) + 1 /\ log'[i] = a)
      BY <1>1, <2>1, LogGrows, Zenon
    <3> QED
      BY <2>1, <3>1, Zenon
  <2>2. CASE log' = log
    BY <2>2, Zenon
  <2> QED
    BY <1>6, <2>1, <2>2
<1>8. ASSUME NEW c \in T PROVE From(c) \in S
  <2>1. c \in Place /\ c[1] \in {"chan", "buffer", "log"}
    BY CopyAt
  <2>2. CASE c[1] = "chan"
    <3>1. c[2] \in Replica /\ c[3] \in 1..Len(reqChan'[c[2]]) /\ reqChan'[c[2]][c[3]] = s
      BY <2>2 DEF CopiesOf
    <3>2. CASE c[2] = r
      <4>1. c[3] + 1 \in 1..Len(q) /\ q[c[3] + 1] = s
        <5>1. reqChan'[c[2]] = Tail(q)
          BY <1>5, <3>1, <3>2
        <5>2. PICK k : k = c[3] /\ k \in 1..Len(Tail(q)) /\ Tail(q)[k] = s
          BY <3>1, <5>1
        <5>3. k + 1 \in 1..Len(q) /\ Tail(q)[k] = q[k + 1]
          BY <1>1, <5>2
        <5> QED
          BY <5>2, <5>3
      <4>2. From(c) = <<"chan", r, c[3] + 1>> /\ From(c) \in Place
        <5>1. From(c) = <<"chan", r, c[3] + 1>>
          BY <2>2, <3>2, Zenon
        <5>2. <<"chan", r, c[3] + 1>> \in Place
          BY <2>1, <4>1 DEF Place
        <5> QED
          BY <5>1, <5>2, Zenon
      <4> QED
        BY <2>1, <2>2, <3>1, <4>1, <4>2 DEF CopiesOf
    <3>3. CASE c[2] # r
      <4>1. From(c) = c
        BY <2>2, <3>3
      <4> QED
        BY <1>5, <2>1, <2>2, <3>1, <3>3, <4>1 DEF CopiesOf
    <3> QED
      BY <3>2, <3>3
  <2>3. CASE c[1] = "buffer"
    <3>1. c[2] \in Replica /\ c[3] \in 1..Len(buffer'[c[2]]) /\ buffer'[c[2]][c[3]] = s
      BY <2>3 DEF CopiesOf
    <3>2. CASE c[2] = r /\ c[3] = Len(b) + 1
      <4>1. buffer'[r] # << >> /\ c[3] \notin 1..Len(b)
        BY <1>2, <3>1, <3>2
      <4>2. s = x
        <5>1. buffer'[r] = buffer[r] \/ buffer'[r] = a
          BY <1>6, <4>1
        <5> QED
          BY <1>2, <1>4, <3>1, <3>2, <4>1, <5>1
      <4>3. From(c) = <<"chan", r, 1>> /\ From(c) \in Place
        BY <2>3, <3>2 DEF Place
      <4> QED
        BY <1>1, <2>1, <2>3, <3>1, <4>2, <4>3 DEF CopiesOf
    <3>3. CASE ~(c[2] = r /\ c[3] = Len(b) + 1)
      <4>1. From(c) = c
        BY <2>3, <3>3
      <4>2. c[3] \in 1..Len(buffer[c[2]]) /\ buffer[c[2]][c[3]] = s
        <5>1. CASE c[2] = r
          BY <1>4, <1>6, <3>1, <3>3, <5>1
        <5>2. CASE c[2] # r
          BY <1>6, <3>1, <5>2
        <5> QED
          BY <5>1, <5>2
      <4> QED
        BY <2>1, <2>3, <3>1, <4>1, <4>2 DEF CopiesOf
    <3> QED
      BY <3>2, <3>3
  <2>4. CASE c[1] = "log"
    <3>1. /\ c[2] \in 1..Len(log') /\ c[3] \in 1..Len(log'[c[2]])
          /\ log'[c[2]][c[3]] = s
      BY <2>4 DEF CopiesOf
    <3>2. CASE c[2] = Len(log) + 1
      <4>1. log'[c[2]] = a
        BY <1>2, <1>7, <3>1, <3>2
      <4>2. CASE c[3] \in 1..Len(b)
        <5>1. From(c) = <<"buffer", r, c[3]>> /\ From(c) \in Place
          BY <2>1, <2>4, <3>2, <4>2 DEF Place
        <5>2. b[c[3]] = s
          BY <1>4, <3>1, <4>1, <4>2
        <5> QED
          <6>1. c[3] \in 1..Len(buffer[r]) /\ buffer[r][c[3]] = s
            BY <1>2, <4>2, <5>2
          <6>2. PICK e \in Place : e = From(c) /\ e[1] = "buffer" /\ e[2] = r /\ e[3] = c[3]
            BY <5>1
          <6> HIDE DEF From
          <6>3. e \in S
            BY <6>1, <6>2 DEF CopiesOf
          <6> QED
            BY <6>2, <6>3
      <4>3. CASE c[3] \notin 1..Len(b)
        <5>1. From(c) = <<"chan", r, 1>> /\ From(c) \in Place
          BY <2>4, <3>2, <4>3 DEF Place
        <5>2. s = x
          BY <1>4, <3>1, <4>1, <4>3
        <5> QED
          <6>1. 1 \in 1..Len(reqChan[r]) /\ reqChan[r][1] = s
            BY <1>1, <5>2
          <6>2. PICK e \in Place : e = From(c) /\ e[1] = "chan" /\ e[2] = r /\ e[3] = 1
            BY <5>1
          <6> HIDE DEF From
          <6>3. e \in S
            BY <6>1, <6>2 DEF CopiesOf
          <6> QED
            BY <6>2, <6>3
      <4> QED
        BY <4>2, <4>3
    <3>3. CASE c[2] # Len(log) + 1
      <4>1. From(c) = c
        BY <2>4, <3>3
      <4>2. c[2] \in 1..Len(log) /\ log'[c[2]] = log[c[2]]
        BY <1>2, <1>7, <3>1, <3>3
      <4> QED
        BY <2>1, <2>4, <3>1, <4>1, <4>2 DEF CopiesOf
    <3> QED
      BY <3>2, <3>3
  <2> QED
    BY <2>1, <2>2, <2>3, <2>4
<1>9. ASSUME NEW c \in T, NEW d \in T, From(c) = From(d) PROVE c = d
  <2>1. /\ c = <<c[1], c[2], c[3]>> /\ c[3] \in Nat /\ c[3] >= 1
        /\ d = <<d[1], d[2], d[3]>> /\ d[3] \in Nat /\ d[3] >= 1
    BY CopyAt
  <2>2. c[1] \in {"chan", "buffer", "log"} /\ d[1] \in {"chan", "buffer", "log"}
    BY CopyAt
  <2>3. ASSUME NEW e \in T, e[1] = "buffer", e[2] = r PROVE buffer'[r] # << >>
    BY <2>3, CopyAt
  <2>4. ASSUME NEW e \in T, e[1] = "log", e[2] = Len(log) + 1
        PROVE  /\ buffer'[r] = << >>
               /\ e[3] \in 1..Len(b) \/ e[3] = Len(b) + 1
    <3>1. e[2] \in 1..Len(log') /\ e[3] \in 1..Len(log'[e[2]])
      BY <2>4, CopyAt
    <3>2. e[2] \notin 1..Len(log)
      BY <1>4, <2>4
    <3>3. log'[e[2]] = a /\ buffer'[r] = << >>
      BY <1>7, <3>1, <3>2, Zenon
    <3>4. e[3] \in 1..Len(a)
      BY <3>1, <3>3, Zenon
    <3> QED
      BY <1>2, <1>4, <3>3, <3>4
  <2> HIDE DEF S, T
  <2>5. ASSUME NEW e \in T PROVE TakenFrom(r, Len(b), Len(log), e, From(e))
    <3>1. CASE e[1] = "chan" /\ e[2] = r
      BY <3>1 DEF TakenFrom
    <3>2. CASE e[1] = "buffer" /\ e[2] = r /\ e[3] = Len(b) + 1
      BY <3>2 DEF TakenFrom
    <3>3. CASE e[1] = "log" /\ e[2] = Len(log) + 1
      <4>1. e[3] \in 1..Len(b) \/ (e[3] \notin 1..Len(b) /\ e[3] = Len(b) + 1)
        BY <2>4, <3>3
      <4> QED
        BY <3>3, <4>1 DEF TakenFrom
    <3>4. CASE /\ ~(e[1] = "chan" /\ e[2] = r)
               /\ ~(e[1] = "buffer" /\ e[2] = r /\ e[3] = Len(b) + 1)
               /\ ~(e[1] = "log" /\ e[2] = Len(log) + 1)
      <4>1. From(e) = e
        BY <3>4
      <4> QED
        BY <3>4, <4>1 DEF TakenFrom
    <3> QED
      BY <3>1, <3>2, <3>3, <3>4
  <2> HIDE DEF From
  <2>6. PICK f : /\ TakenFrom(r, Len(b), Len(log), c, f)
                 /\ TakenFrom(r, Len(b), Len(log), d, f)
    BY <1>9, <2>5
  <2>7. ~NewBatchOf(r, Len(log), c, d) /\ ~NewBatchOf(r, Len(log), d, c)
    BY <2>3, <2>4 DEF NewBatchOf
  <2>8. c[1] = d[1] /\ c[2] = d[2] /\ c[3] = d[3]
    <3>1. AtPlace(c) /\ AtPlace(d)
      BY <2>1, <2>2 DEF AtPlace
    <3>2. Len(b) \in Nat /\ Len(log) \in Nat
      BY <1>2
    <3>3. BothFrom(r, Len(b), Len(log), c, d, f)
      BY <2>6, <2>7, <3>1, <3>2 DEF BothFrom
    <3> QED
      BY <3>3, SamePlace
  <2> QED
    BY <2>1, <2>8
<1>10. PICK g : g = [c \in T |-> From(c)]
  OBVIOUS
<1>12. Numbered(S, n)
  BY DEF Copies
<1> HIDE DEF S, T, From
<1>11. g \in [T -> S] /\ \A c, d \in T : g[c] = g[d] => c = d
  BY <1>8, <1>9, <1>10
<1>13. Numbered(T, n)
  <2>1. \E h \in [T -> S] : \A c, d \in T : h[c] = h[d] => c = d
    BY <1>11
  <2> QED
    BY <1>12, <2>1, NumberedVia
<1> QED
  BY <1>13 DEF T, Copies

(* A batch goes to the log or is lost.                                     *)
LEMMA BatchGoesOn ==
    ASSUME NEW chan, NEW buf \in [Replica -> Seq(Request)],
           NEW batches \in Seq(Seq(Request)), NEW r \in Replica, NEW s, NEW n,
           NEW buf2, buf2 = [buf EXCEPT ![r] = << >>],
           NEW batches2, batches2 = batches \/ batches2 = Append(batches, buf[r]),
           Numbered(CopiesOf(chan, buf, batches, s), n)
    PROVE  Numbered(CopiesOf(chan, buf2, batches2, s), n)
<1>1. PICK b \in Seq(Request) : b = buf[r]
  OBVIOUS
<1>2. /\ Len(batches) \in Nat
      /\ \A i \in 1..Len(batches2) :
            \/ i \in 1..Len(batches) /\ batches2[i] = batches[i]
            \/ i = Len(batches) + 1 /\ batches2[i] = b
  BY <1>1, SeqGrows
<1>3. \A p \in Replica : buf2[p] = IF p = r THEN << >> ELSE buf[p]
  OBVIOUS
<1> DEFINE S == CopiesOf(chan, buf, batches, s)
           T == CopiesOf(chan, buf2, batches2, s)
           From(c) == IF c[1] = "log" /\ c[2] = Len(batches) + 1
                      THEN <<"buffer", r, c[3]>> ELSE c
<1>4. ASSUME NEW c \in T, c[1] = "log", c[2] = Len(batches) + 1 PROVE From(c) \in S
  <2>1. c[2] \in 1..Len(batches2) /\ c[3] \in 1..Len(batches2[c[2]])
        /\ batches2[c[2]][c[3]] = s /\ c[3] \in Nat
    BY <1>4, CopyAt
  <2>2. batches2[c[2]] = buf[r]
    BY <1>1, <1>2, <1>4, <2>1
  <2>3. <<"buffer", r, c[3]>> \in Place
    BY <2>1 DEF Place
  <2>4. PICK e \in Place : e = From(c) /\ e[1] = "buffer" /\ e[2] = r /\ e[3] = c[3]
    BY <1>4, <2>3
  <2> HIDE DEF From
  <2>5. e \in S
    BY <2>1, <2>2, <2>4 DEF CopiesOf
  <2> QED
    BY <2>4, <2>5
<1>5. ASSUME NEW c \in T, ~(c[1] = "log" /\ c[2] = Len(batches) + 1)
      PROVE  c \in S /\ ~(c[1] = "buffer" /\ c[2] = r)
  <2>1. CASE c[1] = "chan"
    BY <2>1 DEF CopiesOf
  <2>2. CASE c[1] = "buffer"
    <3>1. c[2] \in Replica /\ c[3] \in 1..Len(buf2[c[2]]) /\ buf2[c[2]][c[3]] = s
          /\ c \in Place
      BY <2>2, CopyAt
    <3>2. c[2] # r
      BY <1>3, <3>1
    <3>3. buf2[c[2]] = buf[c[2]]
      BY <1>3, <3>1, <3>2
    <3> QED
      BY <2>2, <3>1, <3>2, <3>3 DEF CopiesOf
  <2>3. CASE c[1] = "log"
    <3>1. c[2] \in 1..Len(batches2) /\ c[3] \in 1..Len(batches2[c[2]])
          /\ batches2[c[2]][c[3]] = s /\ c \in Place
      BY <2>3, CopyAt
    <3>2. c[2] \in 1..Len(batches) /\ batches2[c[2]] = batches[c[2]]
      BY <1>2, <1>5, <2>3, <3>1
    <3> QED
      BY <2>3, <3>1, <3>2 DEF CopiesOf
  <2> QED
    BY <2>1, <2>2, <2>3, CopyAt
<1>6. ASSUME NEW c \in T, NEW d \in T, From(c) = From(d) PROVE c = d
  <2>1. /\ c = <<c[1], c[2], c[3]>> /\ d = <<d[1], d[2], d[3]>>
    BY CopyAt
  <2>2. PICK f : f = From(c) /\ f = From(d)
    BY <1>6
  <2> DEFINE New(e) == e[1] = "log" /\ e[2] = Len(batches) + 1
  <2>3. New(c) => f[1] = "buffer" /\ f[2] = r /\ f[3] = c[3]
    BY <2>2
  <2>4. New(d) => f[1] = "buffer" /\ f[2] = r /\ f[3] = d[3]
    BY <2>2
  <2>5. ~New(c) => f = c /\ ~(c[1] = "buffer" /\ c[2] = r)
    BY <1>5, <2>2
  <2>6. ~New(d) => f = d /\ ~(d[1] = "buffer" /\ d[2] = r)
    BY <1>5, <2>2
  <2>7. CASE New(c) /\ New(d)
    BY <2>1, <2>3, <2>4, <2>7
  <2>8. CASE ~(New(c) /\ New(d))
    BY <2>3, <2>4, <2>5, <2>6, <2>8
  <2> QED
    BY <2>7, <2>8
<1>7. ASSUME NEW c \in T PROVE From(c) \in S
  BY <1>4, <1>5
<1>8. PICK g : g = [c \in T |-> From(c)]
  OBVIOUS
<1>9. Numbered(S, n)
  OBVIOUS
<1> HIDE DEF S, T, From
<1>10. g \in [T -> S] /\ \A c, d \in T : g[c] = g[d] => c = d
  BY <1>6, <1>7, <1>8
<1>11. ASSUME NEW V, NEW W, V = S, W = T PROVE Numbered(W, n)
  <2>1. Numbered(V, n)
    BY <1>9, <1>11
  <2>2. g \in [W -> V] /\ \A c, d \in W : g[c] = g[d] => c = d
    BY <1>10, <1>11
  <2> QED
    BY <2>1, <2>2, NumberedFrom
<1> QED
  BY <1>11 DEF T

(* trySend adds a copy of its request.                                     *)
LEMMA SendCounts ==
    ASSUME OrderInv, SentEach, SendRequest
    PROVE  SentEach'
<1>1. /\ UNCHANGED <<buffer, log>> /\ server \in Replica /\ seq \in Request
      /\ reqChan' = [reqChan EXCEPT ![server] = Append(reqChan[server], seq)]
      /\ sent' = [sent EXCEPT ![seq] = sent[seq] + 1]
  BY DEF SendRequest, OrderInv, PathType
<1>2. reqChan \in [Replica -> Seq(Request)] /\ sent \in [Request -> Nat]
  BY DEF OrderInv, PathType
<1>3. PICK q \in Seq(Request), a \in Seq(Request) :
         q = reqChan[server] /\ a = Append(q, seq)
  <2>1. PICK q \in Seq(Request) : q = reqChan[server]
    BY <1>1, <1>2
  <2>2. PICK a : a = Append(q, seq)
    OBVIOUS
  <2>3. a \in Seq(Request)
    BY <1>1, <2>2, AppendAt
  <2> QED
    BY <2>1, <2>2, <2>3
<1>4. \A p \in Replica : reqChan'[p] = IF p = server THEN a ELSE reqChan[p]
  BY <1>1, <1>2, <1>3
<1>5. /\ \A i \in 1..Len(a) : \/ i \in 1..Len(q) /\ a[i] = q[i]
                              \/ i = Len(q) + 1 /\ a[i] = seq
  BY <1>1, <1>3, AppendAt
<1> SUFFICES ASSUME NEW s \in Request PROVE Numbered(Copies(s)', sent'[s])
  BY DEF SentEach
<1>6. PICK e : e = <<"chan", server, Len(q) + 1>>
  OBVIOUS
<1>7. ASSUME NEW c \in Copies(s)' PROVE c \in Copies(s) \/ (s = seq /\ c = e)
  <2>1. c \in CopiesOf(reqChan', buffer', log', s)
    BY DEF Copies
  <2>2. CASE c[1] = "chan"
    <3>1. c[2] \in Replica /\ c[3] \in 1..Len(reqChan'[c[2]])
          /\ reqChan'[c[2]][c[3]] = s /\ c \in Place /\ c = <<c[1], c[2], c[3]>>
      BY <2>1, <2>2, CopyAt
    <3>2. CASE c[2] = server /\ c[3] = Len(q) + 1
      <4>1. s = seq
        <5>1. reqChan'[c[2]] = a /\ Len(q) \in Nat
          BY <1>4, <3>1, <3>2, LenIsNat
        <5>2. c[3] \in 1..Len(a) /\ c[3] \notin 1..Len(q) /\ a[c[3]] = s
          BY <3>1, <3>2, <5>1
        <5> QED
          BY <1>5, <5>2
      <4> QED
        BY <1>6, <2>2, <3>1, <3>2, <4>1
    <3>3. CASE ~(c[2] = server /\ c[3] = Len(q) + 1)
      <4>1. c[3] \in 1..Len(reqChan[c[2]]) /\ reqChan[c[2]][c[3]] = s
        BY <1>3, <1>4, <1>5, <3>1, <3>3
      <4> QED
        BY <2>2, <3>1, <4>1 DEF Copies, CopiesOf
    <3> QED
      BY <3>2, <3>3
  <2>3. CASE c[1] # "chan"
    BY <1>1, <2>1, <2>3 DEF Copies, CopiesOf
  <2> QED
    BY <2>2, <2>3
<1>8. PICK S, T : S = Copies(s) /\ T = Copies(s)'
  OBVIOUS
<1>9. Numbered(S, sent[s]) /\ sent[s] \in Nat
  BY <1>2, <1>8 DEF SentEach
<1>10. CASE s = seq
  <2>1. T \subseteq S \cup {e} /\ sent'[s] = sent[s] + 1
    BY <1>1, <1>2, <1>7, <1>8, <1>10
  <2>2. Numbered(T, sent[s] + 1)
    BY <1>9, <2>1, NumberedMore
  <2> QED
    BY <1>8, <2>1, <2>2
<1>11. CASE s # seq
  <2>1. T \subseteq S /\ sent'[s] = sent[s]
    BY <1>1, <1>2, <1>7, <1>8, <1>11
  <2>2. Numbered(T, sent[s])
    BY <1>9, <2>1, NumberedPart
  <2> QED
    BY <1>8, <2>1, <2>2
<1> QED
  BY <1>10, <1>11

(* The other steps make no new copies.                                     *)
LEMMA CountStep ==
    OrderInv /\ SentEach /\ [Next]_vars => SentEach'
<1> SUFFICES ASSUME OrderInv, SentEach, [Next]_vars PROVE SentEach'
  OBVIOUS
<1>1. /\ reqChan \in [Replica -> Seq(Request)] /\ buffer \in [Replica -> Seq(Request)]
      /\ log \in Seq(Seq(Request))
  BY DEF OrderInv, PathType
<1>2. ASSUME UNCHANGED <<reqChan, buffer, log, sent>> PROVE SentEach'
  <2> SUFFICES ASSUME NEW s \in Request PROVE Numbered(Copies(s)', sent'[s])
    BY DEF SentEach
  <2>1. Copies(s)' = Copies(s) /\ sent'[s] = sent[s]
    BY <1>2 DEF Copies, CopiesOf
  <2>2. Numbered(Copies(s), sent[s])
    BY DEF SentEach
  <2> QED
    BY <2>1, <2>2
<1>3. CASE SendRequest
  BY <1>3, SendCounts
<1>4. CASE Receive \/ ReadTimeout \/ Break \/ GiveUp \/ LoseResponse
  BY <1>2, <1>4 DEF Receive, ReadTimeout, Break, Disconnect, GiveUp, LoseResponse,
     client
<1>5. CASE \E r \in Replica : Connect(r) \/ Execute(r) \/ Trust(r)
  BY <1>2, <1>5 DEF Connect, Execute, Trust, path
<1>6. ASSUME NEW r \in Replica, Notice(r) PROVE SentEach'
  <2>1. /\ UNCHANGED <<buffer, log, sent>>
        /\ \A p \in Replica : reqChan'[p] = reqChan[p] \/ reqChan'[p] = << >>
    BY <1>1, <1>6 DEF Notice
  <2> SUFFICES ASSUME NEW s \in Request PROVE Numbered(Copies(s)', sent'[s])
    BY DEF SentEach
  <2>2. Copies(s)' \subseteq Copies(s)
    BY <2>1 DEF Copies, CopiesOf
  <2>3. Numbered(Copies(s), sent'[s])
    BY <2>1 DEF SentEach
  <2>4. PICK S, T : S = Copies(s) /\ T = Copies(s)'
    OBVIOUS
  <2>5. Numbered(T, sent'[s])
    BY <2>2, <2>3, <2>4, NumberedPart
  <2> QED
    BY <2>4, <2>5
<1>7. ASSUME NEW r \in Replica, HandleRequest(r) PROVE SentEach'
  <2>1. PICK x : /\ x = Head(reqChan[r]) /\ reqChan[r] # << >> /\ sent' = sent
                 /\ reqChan' = [reqChan EXCEPT ![r] = Tail(reqChan[r])]
                 /\ UNCHANGED <<buffer, log>> \/ AppendToBatch(r, x)
    BY <1>7 DEF HandleRequest
  <2>2. \/ buffer' = buffer /\ log' = log
        \/ buffer' = [buffer EXCEPT ![r] = Append(buffer[r], x)] /\ log' = log
        \/ /\ buffer' = [buffer EXCEPT ![r] = << >>]
           /\ log' = log \/ log' = Append(log, Append(buffer[r], x))
    BY <2>1, AppendsToBatch
  <2> SUFFICES ASSUME NEW s \in Request PROVE Numbered(Copies(s)', sent'[s])
    BY DEF SentEach
  <2>3. Numbered(Copies(s), sent[s])
    BY DEF SentEach
  <2>4. Numbered(Copies(s)', sent[s])
    BY <1>1, <2>1, <2>2, <2>3, CopyGoesOn
  <2> QED
    BY <2>1, <2>4
<1>8. ASSUME NEW r \in Replica, BatchTimeout(r) PROVE SentEach'
  <2>1. /\ UNCHANGED <<reqChan, sent>>
        /\ buffer' = [buffer EXCEPT ![r] = << >>]
        /\ log' = log \/ log' = Append(log, buffer[r])
    BY <1>8, SendsBatch DEF BatchTimeout
  <2> SUFFICES ASSUME NEW s \in Request PROVE Numbered(Copies(s)', sent'[s])
    BY DEF SentEach
  <2>2. Numbered(CopiesOf(reqChan, buffer, log, s), sent[s])
    BY DEF SentEach, Copies
  <2>3. Numbered(CopiesOf(reqChan, buffer', log', s), sent[s])
    BY <1>1, <2>1, <2>2, BatchGoesOn
  <2> QED
    BY <2>1, <2>3 DEF Copies, CopiesOf
<1>9. CASE UNCHANGED vars
  BY <1>2, <1>9 DEF vars, path
<1> QED
  BY <1>3, <1>4, <1>5, <1>6, <1>7, <1>8, <1>9 DEF Next

LEMMA CountInit == Init => SentEach
<1> SUFFICES ASSUME Init, NEW s \in Request PROVE Numbered(Copies(s), sent[s])
  BY DEF SentEach
<1>1. Copies(s) = {}
  BY DEF Init, Copies, CopiesOf
<1>2. PICK f : f = [c \in {} |-> c]
  OBVIOUS
<1>3. f \in [{} -> 1..sent[s]]
  BY <1>2
<1> QED
  BY <1>1, <1>3 DEF Numbered

LEMMA NumberedCounts ==
    ASSUME NEW S, NEW n \in Nat, Numbered(S, n)
    PROVE  IsFiniteSet(S) /\ Cardinality(S) <= n
<1>1. PICK f \in [S -> 1..n] : \A c, d \in S : f[c] = f[d] => c = d
  BY DEF Numbered
<1>2. f \in Injection(S, 1..n)
  BY <1>1 DEF Injection, IsInjective
<1>3. IsFiniteSet(1..n) /\ Cardinality(1..n) = n
  BY FS_Interval
<1> QED
  BY <1>2, <1>3, FS_Injection

LEMMA CountedAsSent == OrderInv /\ SentEach => ExecutedAsSent
<1> SUFFICES ASSUME OrderInv, SentEach, NEW s \in Request PROVE Occurs(s) <= sent[s]
  BY DEF ExecutedAsSent
<1>1. /\ log \in Seq(Seq(Request)) /\ sent[s] \in Nat /\ Len(log) \in Nat
      /\ BatchMaxSize \in Nat
  BY PathAssumption, LenIsNat DEF OrderInv, PathType
<1>2. PICK T : T = {p \in (1..Len(log)) \X (1..BatchMaxSize) :
                       p[2] <= Len(log[p[1]]) /\ log[p[1]][p[2]] = s}
  OBVIOUS
<1>3. ASSUME NEW p \in T
      PROVE  /\ p = <<p[1], p[2]>> /\ p[1] \in 1..Len(log) /\ p[2] \in 1..Len(log[p[1]])
             /\ log[p[1]][p[2]] = s /\ p[2] \in Nat /\ p[1] \in Nat
  <2>1. /\ p = <<p[1], p[2]>> /\ p[1] \in 1..Len(log) /\ p[2] \in 1..BatchMaxSize
        /\ p[2] <= Len(log[p[1]]) /\ log[p[1]][p[2]] = s
    BY <1>2
  <2>2. Len(log[p[1]]) \in Nat
    BY <1>1, <2>1
  <2> QED
    BY <1>1, <2>1, <2>2
<1>4. PICK g : g = [p \in T |-> <<"log", p[1], p[2]>>]
  OBVIOUS
<1>5. ASSUME NEW p \in T PROVE g[p] \in Copies(s)
  <2>1. <<"log", p[1], p[2]>> \in Place
    BY <1>3 DEF Place
  <2>2. PICK e \in Place : e = g[p] /\ e[1] = "log" /\ e[2] = p[1] /\ e[3] = p[2]
    BY <1>4, <2>1
  <2> QED
    BY <1>3, <2>2 DEF Copies, CopiesOf
<1>6. ASSUME NEW p \in T, NEW o \in T, g[p] = g[o] PROVE p = o
  <2>1. p[1] = o[1] /\ p[2] = o[2]
    BY <1>4, <1>6
  <2> QED
    BY <1>3, <2>1
<1>7. PICK S : S = Copies(s) /\ Numbered(S, sent[s])
  BY DEF SentEach
<1>8. g \in [T -> S]
  BY <1>4, <1>5, <1>7
<1>9. Numbered(T, sent[s])
  BY <1>6, <1>7, <1>8, NumberedFrom
<1>10. Cardinality(T) <= sent[s]
  BY <1>1, <1>9, NumberedCounts
<1> QED
  BY <1>2, <1>10 DEF Occurs

(* A request is executed no more often than the client sent it, although   *)
(* requests go from queues to buffers and from there to batches that are   *)
(* full or timed out: each copy of it, wherever it is, comes from another  *)
(* write of trySend.                                                       *)
THEOREM ExecutedAsSentTheorem == Spec => []ExecutedAsSent
<1>1. Init => OrderInv /\ SentEach
  BY OrderInit, CountInit
<1>2. OrderInv /\ SentEach /\ [Next]_vars => OrderInv' /\ SentEach'
  BY OrderStep, CountStep
<1> QED
  BY <1>1, <1>2, CountedAsSent, PTL DEF Spec

-----------------------------------------------------------------------------
(* The connections of the clients of a process.                            *)

Label == {"flag", "mark", "lock", "connect", "hello", "failed", "new", "rlock", "writing",
          "reading", "set", "await", "token", "ended"}

IsSeq(q) == \E S : q \in Seq(S)

ConnectionType ==
    /\ threadPc \in [Connection!Thread -> Label]
    /\ at \in [Connection!Thread -> Nat]
    /\ conns = [c \in Client |-> conns[c]] /\ \A c \in Client : IsSeq(conns[c])
    /\ own \in [Connection!Thread -> BOOLEAN]
    /\ recon \in [Connection!Thread -> BOOLEAN]
    /\ writer = [c \in Client |-> writer[c]]

(* A connection whose hello is not answered is of one goroutine, and its   *)
(* receiver is still to be started, as that of a connection to come.       *)
ReceiversNew ==
    /\ \A c \in Client : Connection!Conn(c) <= MaxConnections
    /\ \A c \in Client : \A k \in 1..MaxConnections :
          k > Connection!Conn(c) => threadPc[Connection!Receiver(c, k)] = "new"
    /\ \A t \in Connection!Thread : threadPc[t] = "hello" =>
          /\ at[t] \in 1..Connection!Conn(t[1])
          /\ threadPc[Connection!Receiver(t[1], at[t])] = "new"
    /\ \A t, u \in Connection!Thread :
          threadPc[t] = "hello" /\ threadPc[u] = "hello" /\ t[1] = u[1] /\ at[t] = at[u]
             => t = u

(* The owners of flags and locks are in their handshakes.                  *)
Owned ==
    /\ handShaking => \E t \in Connection!Thread : own[t]
    /\ reconnecting => \E t \in Connection!Thread : recon[t]
    /\ \A c \in Client : writer[c] # Connection!None =>
          writer[c] \in Connection!Threads(c) /\ own[writer[c]]
    /\ \A t \in Connection!Thread :
          /\ own[t] \/ recon[t] => threadPc[t] \in Connection!HandshakePc
          /\ threadPc[t] = "lock" => own[t]

ConnectionInv == ConnectionType /\ ReceiversNew /\ Owned

LEMMA Goroutines ==
    ASSUME NEW t \in Connection!Thread
    PROVE  /\ t[1] \in Client /\ t \in Connection!Threads(t[1])
           /\ t[2] \in {"dial", "send", "recv"}
<1>1. PICK c \in Client : t \in Connection!Threads(c)
  BY DEF Connection!Thread
<1>2. \/ t = <<c, "dial", 0>>
      \/ \E n \in Connection!Seqs(c) : t = <<c, "send", n>>
      \/ \E k \in 1..MaxConnections : t = <<c, "recv", k>>
  BY <1>1 DEF Connection!Threads, Connection!Dialer, Connection!Sender,
     Connection!Receiver
<1> QED
  BY <1>1, <1>2

LEMMA OfOneClient ==
    ASSUME NEW c \in Client, NEW t \in Connection!Threads(c)
    PROVE  t \in Connection!Thread /\ t[1] = c
<1>1. t[1] = c
  BY DEF Connection!Threads, Connection!Dialer, Connection!Sender, Connection!Receiver
<1> QED
  BY <1>1 DEF Connection!Thread

LEMMA ReceiverThread ==
    ASSUME NEW c \in Client, NEW k \in 1..MaxConnections
    PROVE  /\ Connection!Receiver(c, k) \in Connection!Thread
           /\ \A d, l : Connection!Receiver(c, k) = Connection!Receiver(d, l)
                           => c = d /\ k = l
<1>1. Connection!Receiver(c, k) \in Connection!Threads(c)
  BY DEF Connection!Threads
<1> QED
  BY <1>1, OfOneClient DEF Connection!Receiver

LEMMA SeqChanged ==
    ASSUME NEW q, IsSeq(q), NEW k, NEW v, NEW p, p = [q EXCEPT ![k] = v]
    PROVE  IsSeq(p) /\ Len(p) = Len(q) /\ Len(q) \in Nat
<1>1. PICK S : q \in Seq(S)
  BY DEF IsSeq
<1>2. PICK T : T = S \cup {v}
  OBVIOUS
<1>3. q \in Seq(T) /\ v \in T /\ Len(q) \in Nat
  BY <1>1, <1>2
<1>4. p \in Seq(T) /\ Len(p) = Len(q)
  <2>1. CASE k \in 1..Len(q)
    BY <1>3, <2>1, ExceptSeq
  <2>2. CASE k \notin 1..Len(q)
    <3>1. p = q
      BY <1>3, <2>2
    <3> QED
      BY <1>3, <3>1
  <2> QED
    BY <2>1, <2>2
<1> QED
  BY <1>3, <1>4 DEF IsSeq

LEMMA SeqAppended ==
    ASSUME NEW q, IsSeq(q), NEW v
    PROVE  IsSeq(Append(q, v)) /\ Len(Append(q, v)) = Len(q) + 1 /\ Len(q) \in Nat
<1>1. PICK S : q \in Seq(S)
  BY DEF IsSeq
<1>2. PICK T : T = S \cup {v}
  OBVIOUS
<1>3. q \in Seq(T) /\ v \in T
  BY <1>1, <1>2
<1>4. Append(q, v) \in Seq(T) /\ Len(Append(q, v)) = Len(q) + 1 /\ Len(q) \in Nat
  BY <1>3
<1> QED
  BY <1>4 DEF IsSeq

LEMMA LenOfSeq ==
    ASSUME NEW q, IsSeq(q)
    PROVE  Len(q) \in Nat
BY DEF IsSeq

LEMMA ConnectionInit == Connection!Init => ConnectionInv
<1> SUFFICES ASSUME Connection!Init PROVE ConnectionInv
  OBVIOUS
<1>1. ASSUME NEW t \in Connection!Thread
      PROVE  /\ threadPc[t] = IF t[2] = "dial" THEN "flag" ELSE "new"
             /\ at[t] = 0 /\ own[t] = FALSE /\ recon[t] = FALSE
  BY DEF Connection!Init
<1>2. ASSUME NEW c \in Client
      PROVE  conns[c] = << >> /\ Connection!Conn(c) = 0 /\ writer[c] = Connection!None
             /\ IsSeq(conns[c])
  BY DEF Connection!Init, Connection!Conn, IsSeq
<1>3. ConnectionType
  BY <1>1, <1>2 DEF Connection!Init, ConnectionType, Label
<1>4. ReceiversNew
  <2>1. ASSUME NEW c \in Client, NEW k \in 1..MaxConnections
        PROVE  threadPc[Connection!Receiver(c, k)] = "new"
    <3>1. Connection!Receiver(c, k)[2] # "dial"
      BY DEF Connection!Receiver
    <3> QED
      BY <1>1, <3>1, ReceiverThread
  <2>2. \A t \in Connection!Thread : threadPc[t] # "hello"
    BY <1>1
  <2>3. \A c \in Client : Connection!Conn(c) <= MaxConnections
    BY <1>2, ConnectionAssumption
  <2> QED
    BY <2>1, <2>2, <2>3 DEF ReceiversNew
<1>5. Owned
  BY <1>1, <1>2 DEF Connection!Init, Owned
<1> QED
  BY <1>3, <1>4, <1>5 DEF ConnectionInv

(* A step that answers a hello starts the connection's receiver; others    *)
(* start none and leave the connections and their hellos.                  *)
LEMMA ReceiversStay ==
    ASSUME ConnectionInv,
           \A c \in Client : Connection!Conn(c)' = Connection!Conn(c),
           \A u \in Connection!Thread : threadPc'[u] = "hello" =>
              threadPc[u] = "hello" /\ at'[u] = at[u],
           \A c \in Client : \A k \in 1..MaxConnections :
              threadPc[Connection!Receiver(c, k)] = "new" =>
                 \/ threadPc'[Connection!Receiver(c, k)] = "new"
                 \/ \E t \in Connection!Thread :
                       /\ threadPc[t] = "hello" /\ threadPc'[t] # "hello"
                       /\ t[1] = c /\ at[t] = k
    PROVE  ReceiversNew'
<1>1. ReceiversNew /\ \A c \in Client : Connection!Conn(c) \in Nat
  BY LenOfSeq DEF ConnectionInv, ConnectionType, Connection!Conn
<1>2. ASSUME NEW c \in Client, NEW k \in 1..MaxConnections, k > Connection!Conn(c)
      PROVE  threadPc'[Connection!Receiver(c, k)] = "new"
  BY <1>1, <1>2 DEF ReceiversNew
<1>3. ASSUME NEW t \in Connection!Thread, threadPc'[t] = "hello"
      PROVE  /\ at'[t] \in 1..Connection!Conn(t[1])
             /\ threadPc'[Connection!Receiver(t[1], at'[t])] = "new"
  <2>1. PICK c \in Client : c = t[1]
    BY Goroutines
  <2>2. PICK k : k = at[t] /\ k = at'[t]
    BY <1>3
  <2>3. threadPc[t] = "hello" /\ k \in 1..Connection!Conn(c) /\ k \in 1..MaxConnections
        /\ threadPc[Connection!Receiver(c, k)] = "new"
    <3>1. threadPc[t] = "hello" /\ k \in 1..Connection!Conn(c)
          /\ threadPc[Connection!Receiver(c, k)] = "new"
      BY <1>1, <1>3, <2>1, <2>2 DEF ReceiversNew
    <3>2. Connection!Conn(c) <= MaxConnections /\ Connection!Conn(c) \in Nat
      BY <1>1 DEF ReceiversNew
    <3> QED
      BY <3>1, <3>2, ConnectionAssumption
  <2>4. ~ \E u \in Connection!Thread :
             /\ threadPc[u] = "hello" /\ threadPc'[u] # "hello"
             /\ u[1] = c /\ at[u] = k
    BY <1>1, <1>3, <2>1, <2>2, <2>3 DEF ReceiversNew
  <2> QED
    BY <2>1, <2>2, <2>3, <2>4
<1>4. ASSUME NEW t \in Connection!Thread, NEW u \in Connection!Thread,
             threadPc'[t] = "hello", threadPc'[u] = "hello", t[1] = u[1], at'[t] = at'[u]
      PROVE  t = u
  BY <1>1, <1>4 DEF ReceiversNew
<1>5. \A t \in Connection!Thread : t[1] \in Client
  BY Goroutines
<1> QED
  BY <1>1, <1>2, <1>3, <1>4, <1>5 DEF ReceiversNew

(* A goroutine may go on within its handshake, or outside of any.          *)
LEMMA OwnersStay ==
    ASSUME ConnectionInv, UNCHANGED <<handShaking, reconnecting, writer, own, recon>>,
           \A u \in Connection!Thread :
              \/ threadPc'[u] = threadPc[u]
              \/ /\ threadPc'[u] # "lock"
                 /\ \/ threadPc'[u] \in Connection!HandshakePc
                    \/ threadPc[u] \notin Connection!HandshakePc
    PROVE  Owned'
<1>1. Owned
  BY DEF ConnectionInv
<1>2. ASSUME NEW t \in Connection!Thread
      PROVE  /\ own[t] \/ recon[t] => threadPc'[t] \in Connection!HandshakePc
             /\ threadPc'[t] = "lock" => own[t]
  BY <1>1 DEF Owned
<1> QED
  BY <1>1, <1>2 DEF Owned, Connection!HandshakePc, Connection!None, Connection!Threads,
     Connection!Thread, Connection!Dialer, Connection!Sender, Connection!Receiver,
     Connection!Seqs

(* One that returns from its handshake releases what it owns and nothing   *)
(* else.                                                                   *)
LEMMA OwnerReleases ==
    ASSUME ConnectionInv, NEW t \in Connection!Thread, Connection!Release(t),
           threadPc'[t] # "lock",
           \A u \in Connection!Thread \ {t} :
              \/ threadPc'[u] = threadPc[u]
              \/ threadPc[u] = "new" /\ threadPc'[u] # "lock"
    PROVE  Owned' /\ own' \in [Connection!Thread -> BOOLEAN]
           /\ recon' \in [Connection!Thread -> BOOLEAN]
           /\ writer' = [c \in Client |-> writer'[c]]
<1>1. Owned /\ ConnectionType
  BY DEF ConnectionInv
<1>2. /\ own' = [own EXCEPT ![t] = FALSE] /\ recon' = [recon EXCEPT ![t] = FALSE]
      /\ own \in [Connection!Thread -> BOOLEAN] /\ recon \in [Connection!Thread -> BOOLEAN]
      /\ handShaking' = (handShaking /\ ~own[t])
      /\ reconnecting' = (reconnecting /\ ~recon[t])
      /\ writer' = IF own[t] THEN [writer EXCEPT ![t[1]] = Connection!None] ELSE writer
      /\ writer = [c \in Client |-> writer[c]]
  BY <1>1 DEF Connection!Release, ConnectionType
<1>3. /\ own' \in [Connection!Thread -> BOOLEAN] /\ recon' \in [Connection!Thread -> BOOLEAN]
      /\ own'[t] = FALSE /\ recon'[t] = FALSE
      /\ \A u \in Connection!Thread \ {t} : own'[u] = own[u] /\ recon'[u] = recon[u]
  BY <1>2
<1>4. handShaking' => \E u \in Connection!Thread : own'[u]
  <2>1. SUFFICES ASSUME handShaking' PROVE \E u \in Connection!Thread : own'[u]
    OBVIOUS
  <2>2. PICK u \in Connection!Thread : own[u]
    BY <1>1, <1>2, <2>1 DEF Owned
  <2>3. u # t
    BY <1>2, <2>1, <2>2
  <2> QED
    BY <1>3, <2>2, <2>3
<1>5. reconnecting' => \E u \in Connection!Thread : recon'[u]
  <2>1. SUFFICES ASSUME reconnecting' PROVE \E u \in Connection!Thread : recon'[u]
    OBVIOUS
  <2>2. PICK u \in Connection!Thread : recon[u]
    BY <1>1, <1>2, <2>1 DEF Owned
  <2>3. u # t
    BY <1>2, <2>1, <2>2
  <2> QED
    BY <1>3, <2>2, <2>3
<1>6. ASSUME NEW c \in Client, writer'[c] # Connection!None
      PROVE  writer'[c] \in Connection!Threads(c) /\ own'[writer'[c]]
  <2>1. writer'[c] = writer[c] /\ (c = t[1] => ~own[t])
    BY <1>2, <1>6
  <2>2. writer[c] \in Connection!Threads(c) /\ own[writer[c]]
    BY <1>1, <1>6, <2>1 DEF Owned
  <2>3. writer[c] \in Connection!Thread /\ writer[c][1] = c
    BY <2>2, OfOneClient
  <2>4. writer[c] # t
    BY <2>1, <2>2, <2>3
  <2> QED
    BY <1>3, <2>1, <2>2, <2>3, <2>4
<1>7. ASSUME NEW u \in Connection!Thread
      PROVE  /\ own'[u] \/ recon'[u] => threadPc'[u] \in Connection!HandshakePc
             /\ threadPc'[u] = "lock" => own'[u]
  <2>1. CASE u = t
    BY <1>3, <2>1
  <2>2. CASE u # t
    <3>1. own'[u] = own[u] /\ recon'[u] = recon[u]
      BY <1>3, <2>2
    <3>2. "new" \notin Connection!HandshakePc
      BY DEF Connection!HandshakePc
    <3> QED
      BY <1>1, <2>2, <3>1, <3>2 DEF Owned
  <2> QED
    BY <2>1, <2>2
<1>8. writer' = [c \in Client |-> writer'[c]]
  BY <1>2
<1> QED
  BY <1>3, <1>4, <1>5, <1>6, <1>7, <1>8 DEF Owned, Connection!HandshakePc, Connection!None,
     Connection!Threads, Connection!Thread, Connection!Dialer, Connection!Sender,
     Connection!Receiver, Connection!Seqs

(* A step of one goroutine, from label to label l.                         *)
LEMMA GoesTo ==
    ASSUME ConnectionInv, NEW t \in Connection!Thread, NEW l \in Label,
           Connection!Goto(t, l)
    PROVE  /\ threadPc' \in [Connection!Thread -> Label] /\ threadPc'[t] = l
           /\ \A u \in Connection!Thread \ {t} : threadPc'[u] = threadPc[u]
BY DEF ConnectionInv, ConnectionType, Connection!Goto

(* A change within a connection.                                           *)
LEMMA ConnChanged ==
    ASSUME ConnectionInv, NEW c \in Client, NEW k, NEW v,
           conns' = [conns EXCEPT ![c] = [conns[c] EXCEPT ![k] = v]]
    PROVE  /\ conns' = [d \in Client |-> conns'[d]]
           /\ \A d \in Client : IsSeq(conns'[d])
           /\ \A d \in Client : Connection!Conn(d)' = Connection!Conn(d)
<1>1. conns = [d \in Client |-> conns[d]] /\ \A d \in Client : IsSeq(conns[d])
  BY DEF ConnectionInv, ConnectionType
<1>2. PICK p : p = [conns[c] EXCEPT ![k] = v]
  OBVIOUS
<1>3. IsSeq(p) /\ Len(p) = Len(conns[c])
  BY <1>1, <1>2, SeqChanged
<1>4. /\ conns' = [d \in Client |-> conns'[d]]
      /\ \A d \in Client : conns'[d] = IF d = c THEN p ELSE conns[d]
  BY <1>1, <1>2
<1> QED
  BY <1>1, <1>3, <1>4 DEF Connection!Conn

LEMMA ConnChangedTwice ==
    ASSUME ConnectionInv, NEW c \in Client, NEW k,
           \E v, w :
              conns' = [[conns EXCEPT ![c] = [conns[c] EXCEPT ![k] = v]] EXCEPT
                           ![c] = [[conns EXCEPT ![c] = [conns[c] EXCEPT ![k] = v]][c]
                                     EXCEPT ![k] = w]]
    PROVE  \E v : conns' = [conns EXCEPT ![c] = [conns[c] EXCEPT ![k] = v]]
<1>1. PICK v, w :
         conns' = [[conns EXCEPT ![c] = [conns[c] EXCEPT ![k] = v]] EXCEPT
                      ![c] = [[conns EXCEPT ![c] = [conns[c] EXCEPT ![k] = v]][c]
                                EXCEPT ![k] = w]]
  OBVIOUS
<1>2. conns = [d \in Client |-> conns[d]]
  BY DEF ConnectionInv, ConnectionType
<1>3. conns' = [conns EXCEPT ![c] = [[conns[c] EXCEPT ![k] = v] EXCEPT ![k] = w]]
  BY <1>1, <1>2
<1>4. [[conns[c] EXCEPT ![k] = v] EXCEPT ![k] = w] = [conns[c] EXCEPT ![k] = w]
  OBVIOUS
<1> QED
  BY <1>3, <1>4

(* Steps that change neither flags nor locks nor connections, of a         *)
(* goroutine that remains in its handshake or is in none.                  *)
LEMMA Walks ==
    ASSUME ConnectionInv, NEW t \in Connection!Thread, NEW l \in Label,
           Connection!Goto(t, l), l \notin {"lock", "hello", "new"},
           \/ l \in Connection!HandshakePc
           \/ threadPc[t] \notin Connection!HandshakePc,
           UNCHANGED <<handShaking, reconnecting, writer, own, recon>>,
           at' \in [Connection!Thread -> Nat],
           \A u \in Connection!Thread \ {t} : at'[u] = at[u],
           \A c \in Client : Connection!Conn(c)' = Connection!Conn(c),
           conns' = [c \in Client |-> conns'[c]], \A c \in Client : IsSeq(conns'[c]),
           threadPc[t] # "new" \/ t[2] # "recv"
    PROVE  ConnectionInv'
<1>1. /\ threadPc' \in [Connection!Thread -> Label] /\ threadPc'[t] = l
      /\ \A u \in Connection!Thread \ {t} : threadPc'[u] = threadPc[u]
  BY GoesTo
<1>2. ConnectionType'
  BY <1>1 DEF ConnectionInv, ConnectionType, IsSeq, Connection!Thread, Connection!Threads,
     Connection!Dialer, Connection!Sender, Connection!Receiver, Connection!Seqs
<1>3. Owned'
  BY <1>1, OwnersStay
<1>4. ReceiversNew'
  <2>1. ASSUME NEW c \in Client, NEW k \in 1..MaxConnections,
               threadPc[Connection!Receiver(c, k)] = "new"
        PROVE  threadPc'[Connection!Receiver(c, k)] = "new"
    <3>1. Connection!Receiver(c, k) \in Connection!Thread
          /\ Connection!Receiver(c, k)[2] = "recv"
      BY ReceiverThread DEF Connection!Receiver
    <3> QED
      BY <1>1, <2>1, <3>1
  <2>2. ASSUME NEW u \in Connection!Thread, threadPc'[u] = "hello"
        PROVE  threadPc[u] = "hello" /\ at'[u] = at[u]
    BY <1>1, <2>2
  <2> QED
    BY <2>1, <2>2, ReceiversStay
<1> QED
  BY <1>2, <1>3, <1>4 DEF ConnectionInv

(* trySend and tryReceive outside of handshake.                            *)
LEMMA SendsAndReceives ==
    ASSUME ConnectionInv, NEW t \in Connection!Thread,
           \/ Connection!RLock(t) \/ Connection!Write(t) \/ Connection!Await(t)
           \/ Connection!TakeToken(t) \/ Connection!Read(t) \/ Connection!ReadFails(t)
    PROVE  ConnectionInv'
<1>1. PICK c \in Client : c = t[1]
  BY Goroutines
<1>2. /\ at \in [Connection!Thread -> Nat] /\ conns = [d \in Client |-> conns[d]]
      /\ \A d \in Client : IsSeq(conns[d])
  BY DEF ConnectionInv, ConnectionType
<1>3. UNCHANGED <<handShaking, reconnecting, writer, own, recon>>
  BY DEF Connection!RLock, Connection!Write, Connection!Await, Connection!TakeToken,
     Connection!Read, Connection!ReadFails, Connection!globals
<1>4. threadPc[t] \in {"rlock", "writing", "await", "token", "reading"}
  BY DEF Connection!RLock, Connection!Write, Connection!Await, Connection!TakeToken,
     Connection!Read, Connection!ReadFails
<1>5. /\ at' \in [Connection!Thread -> Nat]
      /\ \A u \in Connection!Thread \ {t} : at'[u] = at[u]
  <2>1. Connection!Conn(c) \in Nat
    BY <1>2, LenOfSeq DEF Connection!Conn
  <2>2. \/ at' = at
        \/ \E n \in {Connection!Conn(c), 0} : at' = [at EXCEPT ![t] = n]
    BY <1>1 DEF Connection!RLock, Connection!Write, Connection!Await,
       Connection!TakeToken, Connection!Read, Connection!ReadFails
  <2> QED
    BY <1>2, <2>1, <2>2
<1>6. /\ conns' = [d \in Client |-> conns'[d]]
      /\ \A d \in Client : IsSeq(conns'[d])
      /\ \A d \in Client : Connection!Conn(d)' = Connection!Conn(d)
  <2>1. \/ conns' = conns
        \/ \E k, v : conns' = [conns EXCEPT ![c] = [conns[c] EXCEPT ![k] = v]]
    BY <1>1 DEF Connection!RLock, Connection!Write, Connection!Await,
       Connection!TakeToken, Connection!Read, Connection!ReadFails
  <2>2. CASE conns' = conns
    BY <1>2, <2>2 DEF Connection!Conn
  <2> QED
    BY <2>1, <2>2, ConnChanged
<1>7. PICK l \in {"writing", "reading", "await", "rlock", "ended", "token", "set"} :
         Connection!Goto(t, l)
  <2>1. \A r \in {"dial", "send", "recv"} :
           Connection!Continue(t, r) \in {"ended", "rlock", "token"}
    BY DEF Connection!Continue
  <2>2. ASSUME Connection!Reconnect(t)
        PROVE  \E l \in {"ended", "rlock", "token", "set"} : Connection!Goto(t, l)
    BY <2>1, <2>2, Goroutines DEF Connection!Reconnect
  <2> QED
    BY <2>2 DEF Connection!RLock, Connection!Write, Connection!Await,
       Connection!TakeToken, Connection!Read, Connection!ReadFails
<1>8. l \in Label /\ l \notin {"lock", "hello", "new"}
  BY DEF Label
<1>9. threadPc[t] \notin Connection!HandshakePc
  BY <1>4 DEF Connection!HandshakePc
<1>10. threadPc[t] # "new"
  BY <1>4
<1> QED
  BY <1>3, <1>5, <1>6, <1>7, <1>8, <1>9, <1>10, Walks

(* The two flags, each in a step of its own from the test.                 *)
LEMMA Marks ==
    ASSUME ConnectionInv, NEW t \in Connection!Thread,
           \/ Connection!CheckHandShaking(t) \/ Connection!MarkHandShaking(t)
           \/ Connection!SetReconnecting(t)
    PROVE  ConnectionInv'
<1>1. ConnectionType /\ Owned /\ UNCHANGED <<conns, at, writer>>
  BY DEF ConnectionInv, Connection!CheckHandShaking, Connection!MarkHandShaking,
     Connection!SetReconnecting
<1>2. \A c \in Client : Connection!Conn(c)' = Connection!Conn(c)
  BY <1>1 DEF Connection!Conn
<1>3. CASE Connection!CheckHandShaking(t)
  <2>1. PICK l \in {"connect", "mark"} : Connection!Goto(t, l)
    BY <1>3 DEF Connection!CheckHandShaking
  <2>2. l \in Label /\ l \in Connection!HandshakePc /\ l \notin {"lock", "hello", "new"}
    BY DEF Label, Connection!HandshakePc
  <2>3. threadPc[t] # "new" /\ UNCHANGED <<handShaking, reconnecting, own, recon>>
    BY <1>3 DEF Connection!CheckHandShaking, Connection!globals
  <2> QED
    BY <1>1, <1>2, <2>1, <2>2, <2>3, Walks DEF ConnectionType
<1>4. CASE Connection!MarkHandShaking(t) \/ Connection!SetReconnecting(t)
  <2>1. PICK l \in {"lock", "flag"} :
           /\ Connection!Goto(t, l) /\ threadPc[t] \in {"mark", "set"}
           /\ \/ /\ l = "lock" /\ handShaking' = TRUE /\ own' = [own EXCEPT ![t] = TRUE]
                 /\ UNCHANGED <<reconnecting, recon>>
              \/ /\ l = "flag" /\ reconnecting' = TRUE
                 /\ recon' = [recon EXCEPT ![t] = TRUE]
                 /\ UNCHANGED <<handShaking, own>>
    BY <1>4 DEF Connection!MarkHandShaking, Connection!SetReconnecting
  <2>2. l \in Label /\ l \in Connection!HandshakePc /\ l \notin {"hello", "new"}
    BY DEF Label, Connection!HandshakePc
  <2>3. /\ threadPc' \in [Connection!Thread -> Label] /\ threadPc'[t] = l
        /\ \A u \in Connection!Thread \ {t} : threadPc'[u] = threadPc[u]
    BY <2>1, <2>2, GoesTo
  <2>4. /\ own' \in [Connection!Thread -> BOOLEAN]
        /\ recon' \in [Connection!Thread -> BOOLEAN]
        /\ \A u \in Connection!Thread \ {t} : own'[u] = own[u] /\ recon'[u] = recon[u]
        /\ own[t] => own'[t]
        /\ recon[t] => recon'[t]
        /\ l = "lock" => own'[t]
        /\ l = "flag" => recon'[t]
    BY <1>1, <2>1 DEF ConnectionType
  <2>5. ConnectionType'
    BY <1>1, <2>3, <2>4 DEF ConnectionType, IsSeq, Connection!Thread, Connection!Threads,
       Connection!Dialer, Connection!Sender, Connection!Receiver, Connection!Seqs
  <2>6. ReceiversNew'
    <3>1. ASSUME NEW c \in Client, NEW k \in 1..MaxConnections,
                 threadPc[Connection!Receiver(c, k)] = "new"
          PROVE  threadPc'[Connection!Receiver(c, k)] = "new"
      BY <2>1, <2>3, <3>1, ReceiverThread
    <3>2. ASSUME NEW u \in Connection!Thread, threadPc'[u] = "hello"
          PROVE  threadPc[u] = "hello" /\ at'[u] = at[u]
      BY <1>1, <2>2, <2>3, <3>2
    <3> QED
      BY <1>2, <3>1, <3>2, ReceiversStay
  <2>7. ASSUME NEW u \in Connection!Thread
        PROVE  /\ own'[u] \/ recon'[u] => threadPc'[u] \in Connection!HandshakePc
               /\ threadPc'[u] = "lock" => own'[u]
    <3>1. CASE u = t
      BY <2>2, <2>3, <2>4, <3>1
    <3>2. CASE u # t
      BY <1>1, <2>3, <2>4, <3>2 DEF Owned
    <3> QED
      BY <3>1, <3>2
  <2>8. \A u \in Connection!Thread : (own[u] => own'[u]) /\ (recon[u] => recon'[u])
    BY <2>4
  <2>9. handShaking' => \E u \in Connection!Thread : own'[u]
    BY <1>1, <2>1, <2>4, <2>8 DEF Owned
  <2>10. reconnecting' => \E u \in Connection!Thread : recon'[u]
    BY <1>1, <2>1, <2>4, <2>8 DEF Owned
  <2>11. ASSUME NEW c \in Client, writer'[c] # Connection!None
         PROVE  writer'[c] \in Connection!Threads(c) /\ own'[writer'[c]]
    <3>1. writer'[c] = writer[c] /\ writer[c] \in Connection!Threads(c) /\ own[writer[c]]
      BY <1>1, <2>11 DEF Owned
    <3> QED
      BY <2>8, <3>1, OfOneClient
  <2>12. Owned'
    BY <2>7, <2>9, <2>10, <2>11 DEF Owned, Connection!HandshakePc, Connection!None,
       Connection!Threads, Connection!Thread, Connection!Dialer, Connection!Sender,
       Connection!Receiver, Connection!Seqs
  <2> QED
    BY <2>5, <2>6, <2>12 DEF ConnectionInv
<1> QED
  BY <1>3, <1>4

(* Who takes the lock has marked its handshake.                            *)
LEMMA Locks ==
    ASSUME ConnectionInv, NEW t \in Connection!Thread, Connection!Lock(t)
    PROVE  ConnectionInv'
<1>1. PICK c \in Client : c = t[1] /\ t \in Connection!Threads(c)
  BY Goroutines
<1>2. /\ threadPc[t] = "lock" /\ Connection!Goto(t, "connect")
      /\ writer' = [writer EXCEPT ![c] = t]
      /\ UNCHANGED <<handShaking, reconnecting, conns, at, own, recon>>
  BY <1>1 DEF Connection!Lock, Connection!globals
<1>3. ConnectionType /\ Owned
  BY DEF ConnectionInv
<1>4. "connect" \in Label /\ "connect" \in Connection!HandshakePc
  BY DEF Label, Connection!HandshakePc
<1>5. /\ threadPc' \in [Connection!Thread -> Label] /\ threadPc'[t] = "connect"
      /\ \A u \in Connection!Thread \ {t} : threadPc'[u] = threadPc[u]
  BY <1>2, <1>4, GoesTo
<1>6. ConnectionType'
  BY <1>2, <1>3, <1>5 DEF ConnectionType, IsSeq, Connection!Thread, Connection!Threads,
     Connection!Dialer, Connection!Sender, Connection!Receiver, Connection!Seqs
<1>7. ReceiversNew'
  <2>1. ASSUME NEW d \in Client, NEW k \in 1..MaxConnections,
               threadPc[Connection!Receiver(d, k)] = "new"
        PROVE  threadPc'[Connection!Receiver(d, k)] = "new"
    BY <1>2, <1>5, <2>1, ReceiverThread
  <2>2. ASSUME NEW u \in Connection!Thread, threadPc'[u] = "hello"
        PROVE  threadPc[u] = "hello" /\ at'[u] = at[u]
    BY <1>2, <1>5, <2>2
  <2>3. \A d \in Client : Connection!Conn(d)' = Connection!Conn(d)
    BY <1>2 DEF Connection!Conn
  <2> QED
    BY <2>1, <2>2, <2>3, ReceiversStay
<1>8. ASSUME NEW d \in Client, writer'[d] # Connection!None
      PROVE  writer'[d] \in Connection!Threads(d) /\ own'[writer'[d]]
  BY <1>1, <1>2, <1>3, <1>8 DEF ConnectionType, Owned
<1>9. ASSUME NEW u \in Connection!Thread
      PROVE  /\ own'[u] \/ recon'[u] => threadPc'[u] \in Connection!HandshakePc
             /\ threadPc'[u] = "lock" => own'[u]
  BY <1>2, <1>3, <1>4, <1>5 DEF Owned
<1>10. Owned'
  BY <1>2, <1>3, <1>8, <1>9 DEF Owned, Connection!HandshakePc, Connection!None,
     Connection!Threads, Connection!Thread, Connection!Dialer, Connection!Sender,
     Connection!Receiver, Connection!Seqs
<1> QED
  BY <1>6, <1>7, <1>10 DEF ConnectionInv

(* A new connection has a receiver that is still to be started.            *)
LEMMA Connects ==
    ASSUME ConnectionInv, NEW t \in Connection!Thread, Connection!Connect(t)
    PROVE  ConnectionInv'
<1>1. PICK c \in Client : c = t[1]
  BY Goroutines
<1>2. PICK k \in Nat : k = Connection!Conn(c)
  BY LenOfSeq DEF ConnectionInv, ConnectionType, Connection!Conn
<1>3. /\ threadPc[t] = "connect" /\ k < MaxConnections
      /\ Connection!Goto(t, "hello")
      /\ at' = [at EXCEPT ![t] = k + 1]
      /\ \E v : conns' = [conns EXCEPT ![c] = Append(conns[c], v)]
      /\ UNCHANGED <<handShaking, reconnecting, writer, own, recon>>
  BY <1>1, <1>2 DEF Connection!Connect, Connection!globals
<1>4. ConnectionType /\ Owned /\ ReceiversNew
  BY DEF ConnectionInv
<1>5. "hello" \in Label /\ "hello" \in Connection!HandshakePc
  BY DEF Label, Connection!HandshakePc
<1>6. /\ threadPc' \in [Connection!Thread -> Label] /\ threadPc'[t] = "hello"
      /\ \A u \in Connection!Thread \ {t} : threadPc'[u] = threadPc[u]
  BY <1>3, <1>5, GoesTo
<1>7. /\ at' \in [Connection!Thread -> Nat] /\ at'[t] = k + 1
      /\ \A u \in Connection!Thread \ {t} : at'[u] = at[u]
  BY <1>3, <1>4 DEF ConnectionType
<1>8. /\ conns' = [d \in Client |-> conns'[d]] /\ \A d \in Client : IsSeq(conns'[d])
      /\ \A d \in Client : Connection!Conn(d)' = IF d = c THEN k + 1
                                                 ELSE Connection!Conn(d)
  <2>1. PICK v : conns' = [conns EXCEPT ![c] = Append(conns[c], v)]
    BY <1>3
  <2>2. PICK p : p = Append(conns[c], v)
    OBVIOUS
  <2>3. IsSeq(p) /\ Len(p) = k + 1
    BY <1>2, <1>4, <2>2, SeqAppended DEF ConnectionType, Connection!Conn
  <2>4. /\ conns' = [d \in Client |-> conns'[d]]
        /\ \A d \in Client : conns'[d] = IF d = c THEN p ELSE conns[d]
    BY <1>4, <2>1, <2>2 DEF ConnectionType
  <2> QED
    BY <1>4, <2>3, <2>4 DEF ConnectionType, Connection!Conn
<1>9. ConnectionType'
  BY <1>3, <1>4, <1>6, <1>7, <1>8 DEF ConnectionType, IsSeq, Connection!Thread,
     Connection!Threads, Connection!Dialer, Connection!Sender, Connection!Receiver,
     Connection!Seqs
<1>10. Owned'
  BY <1>3, <1>5, <1>6, OwnersStay
<1>11. ReceiversNew'
  <2>1. \A d \in Client : Connection!Conn(d) \in Nat /\ Connection!Conn(d) <= MaxConnections
    BY <1>4, LenOfSeq DEF ConnectionType, ReceiversNew, Connection!Conn
  <2>2. k + 1 \in 1..MaxConnections
    BY <1>3, ConnectionAssumption
  <2>3. ASSUME NEW d \in Client, NEW l \in 1..MaxConnections,
               threadPc[Connection!Receiver(d, l)] = "new"
        PROVE  threadPc'[Connection!Receiver(d, l)] = "new"
    BY <1>3, <1>6, <2>3, ReceiverThread
  <2>4. ASSUME NEW d \in Client PROVE Connection!Conn(d)' <= MaxConnections
    BY <1>8, <2>1, <2>2
  <2>5. ASSUME NEW d \in Client, NEW l \in 1..MaxConnections, l > Connection!Conn(d)'
        PROVE  threadPc'[Connection!Receiver(d, l)] = "new"
    <3>1. l > Connection!Conn(d)
      BY <1>2, <1>8, <2>1, <2>5
    <3> QED
      BY <1>4, <2>3, <3>1 DEF ReceiversNew
  <2>6. ASSUME NEW u \in Connection!Thread, threadPc'[u] = "hello", u # t
        PROVE  /\ threadPc[u] = "hello" /\ at'[u] = at[u]
               /\ at[u] \in 1..Connection!Conn(u[1]) /\ u[1] \in Client
               /\ threadPc[Connection!Receiver(u[1], at[u])] = "new"
    BY <1>4, <1>6, <1>7, <2>6, Goroutines DEF ReceiversNew
  <2>7. ASSUME NEW u \in Connection!Thread, threadPc'[u] = "hello"
        PROVE  /\ at'[u] \in 1..Connection!Conn(u[1])'
               /\ threadPc'[Connection!Receiver(u[1], at'[u])] = "new"
    <3>1. CASE u = t
      <4>1. threadPc[Connection!Receiver(c, k + 1)] = "new"
        BY <1>2, <1>4, <2>2 DEF ReceiversNew
      <4> QED
        BY <1>1, <1>7, <1>8, <2>2, <2>3, <3>1, <4>1
    <3>2. CASE u # t
      <4>1. PICK d \in Client, l \in Nat : d = u[1] /\ l = at[u] /\ l = at'[u]
        BY <1>7, <2>6, <2>7, <3>2
      <4>2. /\ l \in 1..Connection!Conn(d)
            /\ threadPc[Connection!Receiver(d, l)] = "new"
        BY <2>6, <2>7, <3>2, <4>1
      <4>3. l \in 1..MaxConnections /\ l \in 1..Connection!Conn(d)'
        BY <1>2, <1>8, <2>1, <4>2, ConnectionAssumption
      <4>4. threadPc'[Connection!Receiver(d, l)] = "new"
        BY <2>3, <4>2, <4>3
      <4> QED
        BY <4>1, <4>3, <4>4
    <3> QED
      BY <3>1, <3>2
  <2>8. ASSUME NEW u \in Connection!Thread, NEW w \in Connection!Thread,
               threadPc'[u] = "hello", threadPc'[w] = "hello", u[1] = w[1],
               at'[u] = at'[w]
        PROVE  u = w
    <3>1. CASE u # t /\ w # t
      BY <1>4, <2>6, <2>8, <3>1 DEF ReceiversNew
    <3>2. CASE u # t /\ w = t
      BY <1>1, <1>2, <1>7, <2>6, <2>8, <3>2
    <3>3. CASE u = t /\ w # t
      BY <1>1, <1>2, <1>7, <2>6, <2>8, <3>3
    <3> QED
      BY <3>1, <3>2, <3>3
  <2> QED
    BY <2>4, <2>5, <2>7, <2>8 DEF ReceiversNew
<1> QED
  BY <1>9, <1>10, <1>11 DEF ConnectionInv

(* A handshake that fails.                                                 *)
LEMMA Fails ==
    ASSUME ConnectionInv, NEW t \in Connection!Thread, Connection!HandshakeFails(t)
    PROVE  ConnectionInv'
<1>1. /\ Connection!Release(t) /\ Connection!Goto(t, "failed")
      /\ threadPc[t] \in {"connect", "hello"}
      /\ at' = [at EXCEPT ![t] = 0] /\ conns' = conns
  BY DEF Connection!HandshakeFails, Connection!NoHandshake
<1>2. /\ threadPc' \in [Connection!Thread -> Label] /\ threadPc'[t] = "failed"
      /\ \A u \in Connection!Thread \ {t} : threadPc'[u] = threadPc[u]
  BY <1>1, GoesTo DEF Label
<1>3. Owned' /\ own' \in [Connection!Thread -> BOOLEAN]
      /\ recon' \in [Connection!Thread -> BOOLEAN]
      /\ writer' = [c \in Client |-> writer'[c]]
  BY <1>1, <1>2, OwnerReleases
<1>4. /\ at' \in [Connection!Thread -> Nat]
      /\ \A u \in Connection!Thread \ {t} : at'[u] = at[u]
  BY <1>1 DEF ConnectionInv, ConnectionType
<1>5. ConnectionType'
  BY <1>1, <1>2, <1>3, <1>4 DEF ConnectionInv, ConnectionType, IsSeq, Connection!Thread,
     Connection!Threads, Connection!Dialer, Connection!Sender, Connection!Receiver,
     Connection!Seqs
<1>6. ReceiversNew'
  <2>1. ASSUME NEW c \in Client, NEW k \in 1..MaxConnections,
               threadPc[Connection!Receiver(c, k)] = "new"
        PROVE  threadPc'[Connection!Receiver(c, k)] = "new"
    BY <1>1, <1>2, <2>1, ReceiverThread
  <2>2. ASSUME NEW u \in Connection!Thread, threadPc'[u] = "hello"
        PROVE  threadPc[u] = "hello" /\ at'[u] = at[u]
    BY <1>2, <1>4, <2>2
  <2>3. \A c \in Client : Connection!Conn(c)' = Connection!Conn(c)
    BY <1>1 DEF Connection!Conn
  <2> QED
    BY <2>1, <2>2, <2>3, ReceiversStay
<1> QED
  BY <1>3, <1>5, <1>6 DEF ConnectionInv

(* The answer to a hello: on a redirect the handshake goes on, with what   *)
(* it owns; else it is done, and the receiver of the connection starts.    *)
LEMMA ReadsHello ==
    ASSUME ConnectionInv, NEW t \in Connection!Thread, Connection!ReadHello(t)
    PROVE  ConnectionInv'
<1>1. PICK c \in Client : c = t[1]
  BY Goroutines
<1>2. PICK k \in 1..MaxConnections :
         /\ k = at[t] /\ threadPc[t] = "hello"
         /\ threadPc[Connection!Receiver(c, k)] = "new"
  <2>1. /\ threadPc[t] = "hello" /\ at[t] \in 1..Connection!Conn(c)
        /\ threadPc[Connection!Receiver(c, at[t])] = "new"
    BY <1>1 DEF Connection!ReadHello, ConnectionInv, ReceiversNew
  <2>2. Connection!Conn(c) \in Nat /\ Connection!Conn(c) <= MaxConnections
    BY LenOfSeq DEF ConnectionInv, ConnectionType, ReceiversNew, Connection!Conn
  <2> QED
    BY <2>1, <2>2, ConnectionAssumption
<1>3. /\ at' \in [Connection!Thread -> Nat] /\ at'[t] = 0
      /\ \A u \in Connection!Thread \ {t} : at'[u] = at[u]
  BY DEF Connection!ReadHello, ConnectionInv, ConnectionType
<1>4. /\ conns' = [d \in Client |-> conns'[d]] /\ \A d \in Client : IsSeq(conns'[d])
      /\ \A d \in Client : Connection!Conn(d)' = Connection!Conn(d)
  <2>1. \E v, w :
           conns' = [[conns EXCEPT ![c] = [conns[c] EXCEPT ![k] = v]] EXCEPT
                        ![c] = [[conns EXCEPT ![c] = [conns[c] EXCEPT ![k] = v]][c]
                                  EXCEPT ![k] = w]]
    BY <1>1, <1>2 DEF Connection!ReadHello
  <2>2. \E w : conns' = [conns EXCEPT ![c] = [conns[c] EXCEPT ![k] = w]]
    BY <2>1, ConnChangedTwice
  <2> QED
    BY <2>2, ConnChanged
<1>5. CASE Connection!Goto(t, "flag") /\
           UNCHANGED <<handShaking, reconnecting, writer, own, recon>>
  <2>1. "flag" \in Label /\ "flag" \in Connection!HandshakePc
    BY DEF Label, Connection!HandshakePc
  <2> QED
    BY <1>2, <1>3, <1>4, <1>5, <2>1, Walks
<1>6. ASSUME NEW l \in {"ended", "rlock", "token"}, Connection!Release(t),
             threadPc' = [threadPc EXCEPT ![t] = l,
                                          ![Connection!Receiver(c, k)] = "token"]
      PROVE  ConnectionInv'
  <2>1. PICK e \in Connection!Thread : e = Connection!Receiver(c, k) /\ e # t
    BY <1>2, ReceiverThread
  <2>2. /\ threadPc' \in [Connection!Thread -> Label] /\ threadPc'[t] = l
        /\ threadPc'[e] = "token" /\ threadPc[e] = "new"
        /\ \A u \in Connection!Thread \ {t, e} : threadPc'[u] = threadPc[u]
    <3>1. threadPc \in [Connection!Thread -> Label] /\ l \in Label /\ "token" \in Label
      BY DEF ConnectionInv, ConnectionType, Label
    <3>2. threadPc' = [threadPc EXCEPT ![t] = l, ![e] = "token"]
      BY <1>6, <2>1
    <3> QED
      BY <1>2, <2>1, <3>1, <3>2
  <2>3. Owned' /\ own' \in [Connection!Thread -> BOOLEAN]
        /\ recon' \in [Connection!Thread -> BOOLEAN]
        /\ writer' = [d \in Client |-> writer'[d]]
    BY <1>6, <2>2, OwnerReleases
  <2>4. ConnectionType'
    BY <1>3, <1>4, <2>2, <2>3 DEF ConnectionType, IsSeq, Connection!Thread,
       Connection!Threads, Connection!Dialer, Connection!Sender, Connection!Receiver,
       Connection!Seqs
  <2>5. ReceiversNew'
    <3>1. ASSUME NEW d \in Client, NEW n \in 1..MaxConnections,
                 threadPc[Connection!Receiver(d, n)] = "new"
          PROVE  \/ threadPc'[Connection!Receiver(d, n)] = "new"
                 \/ \E u \in Connection!Thread :
                       /\ threadPc[u] = "hello" /\ threadPc'[u] # "hello"
                       /\ u[1] = d /\ at[u] = n
      <4>1. CASE Connection!Receiver(d, n) = e
        <5>1. d = c /\ n = k
          BY <2>1, <4>1, ReceiverThread
        <5> QED
          BY <1>1, <1>2, <2>2, <5>1
      <4>2. CASE Connection!Receiver(d, n) # e
        <5>1. Connection!Receiver(d, n) \in Connection!Thread \ {t, e}
          BY <1>2, <3>1, <4>2, ReceiverThread
        <5> QED
          BY <2>2, <3>1, <5>1
      <4> QED
        BY <4>1, <4>2
    <3>2. ASSUME NEW u \in Connection!Thread, threadPc'[u] = "hello"
          PROVE  threadPc[u] = "hello" /\ at'[u] = at[u]
      BY <1>3, <2>2, <3>2
    <3> QED
      BY <1>4, <3>1, <3>2, ReceiversStay
  <2> QED
    BY <2>3, <2>4, <2>5 DEF ConnectionInv
<1>7. Connection!Continue(t, t[2]) \in {"ended", "rlock", "token"}
  BY Goroutines DEF Connection!Continue
<1> QED
  BY <1>1, <1>2, <1>5, <1>6, <1>7 DEF Connection!ReadHello, Connection!globals

(* The application sends; a replica answers; a connection is lost.         *)
LEMMA OtherSteps ==
    ASSUME ConnectionInv,
           \/ \E c \in Client : \E s \in Connection!Seqs(c) : Connection!Send(c, s)
           \/ \E c \in Client : \E k \in DOMAIN conns[c] :
                 Connection!Serve(c, k) \/ Connection!Break(c, k)
    PROVE  ConnectionInv'
<1>1. CASE \E c \in Client : \E s \in Connection!Seqs(c) : Connection!Send(c, s)
  <2>0. PICK c \in Client : \E s \in Connection!Seqs(c) : Connection!Send(c, s)
    BY <1>1
  <2>1. PICK s \in Connection!Seqs(c) : Connection!Send(c, s)
    BY <2>0
  <2>2. PICK t \in Connection!Thread : t = Connection!Sender(c, s) /\ t[2] = "send"
    <3>1. Connection!Sender(c, s) \in Connection!Threads(c)
      BY DEF Connection!Threads
    <3> QED
      BY <3>1, OfOneClient DEF Connection!Sender
  <2>3. /\ threadPc[t] = "new" /\ Connection!Goto(t, "rlock")
        /\ UNCHANGED <<handShaking, reconnecting, writer, own, recon, at, conns>>
    BY <2>1, <2>2 DEF Connection!Send, Connection!globals
  <2>4. "rlock" \in Label /\ "new" \notin Connection!HandshakePc
    BY DEF Label, Connection!HandshakePc
  <2>5. \A d \in Client : Connection!Conn(d)' = Connection!Conn(d)
    BY <2>3 DEF Connection!Conn
  <2> QED
    BY <2>2, <2>3, <2>4, <2>5, Walks DEF ConnectionInv, ConnectionType
<1>2. CASE \E c \in Client : \E k \in DOMAIN conns[c] :
              Connection!Serve(c, k) \/ Connection!Break(c, k)
  <2>0. PICK c \in Client : \E k \in DOMAIN conns[c] :
                                Connection!Serve(c, k) \/ Connection!Break(c, k)
    BY <1>2
  <2>1. PICK k \in DOMAIN conns[c] : Connection!Serve(c, k) \/ Connection!Break(c, k)
    BY <2>0
  <2>2. UNCHANGED <<handShaking, reconnecting, writer, own, recon, at, threadPc>>
    BY <2>1 DEF Connection!Serve, Connection!Break, Connection!globals
  <2>3. \/ \E v : conns' = [conns EXCEPT ![c] = [conns[c] EXCEPT ![k] = v]]
        \/ \E v, w :
              conns' = [[conns EXCEPT ![c] = [conns[c] EXCEPT ![k] = v]] EXCEPT
                           ![c] = [[conns EXCEPT ![c] = [conns[c] EXCEPT ![k] = v]][c]
                                     EXCEPT ![k] = w]]
    <3>1. CASE Connection!Serve(c, k)
      <4>1. PICK g :
               conns' = [conns EXCEPT ![c][k].out = Tail(@), ![c][k].in = Append(@, g)]
        BY <3>1 DEF Connection!Serve
      <4> QED
        BY <4>1
    <3>2. CASE Connection!Break(c, k)
      BY <3>2 DEF Connection!Break
    <3> QED
      BY <2>1, <3>1, <3>2
  <2>4. /\ conns' = [d \in Client |-> conns'[d]] /\ \A d \in Client : IsSeq(conns'[d])
        /\ \A d \in Client : Connection!Conn(d)' = Connection!Conn(d)
    <3>1. \E v : conns' = [conns EXCEPT ![c] = [conns[c] EXCEPT ![k] = v]]
      BY <2>3, ConnChangedTwice
    <3> QED
      BY <3>1, ConnChanged
  <2>5. ConnectionType'
    BY <2>2, <2>4 DEF ConnectionInv, ConnectionType, IsSeq, Connection!Thread,
       Connection!Threads, Connection!Dialer, Connection!Sender, Connection!Receiver,
       Connection!Seqs
  <2>6. ReceiversNew'
    BY <2>2, <2>4, ReceiversStay
  <2>7. Owned'
    BY <2>2, OwnersStay
  <2> QED
    BY <2>5, <2>6, <2>7 DEF ConnectionInv
<1> QED
  BY <1>1, <1>2

LEMMA ConnectionStep ==
    ConnectionInv /\ [Connection!Next]_connectionVars => ConnectionInv'
<1> SUFFICES ASSUME ConnectionInv, [Connection!Next]_connectionVars PROVE ConnectionInv'
  OBVIOUS
<1>1. CASE UNCHANGED connectionVars
  <2>1. UNCHANGED <<handShaking, reconnecting, writer, own, recon, at, threadPc, conns>>
    BY <1>1 DEF connectionVars
  <2>2. \A c \in Client : Connection!Conn(c)' = Connection!Conn(c)
    BY <2>1 DEF Connection!Conn
  <2>3. ConnectionType'
    BY <2>1 DEF ConnectionInv, ConnectionType, IsSeq, Connection!Thread,
       Connection!Threads, Connection!Dialer, Connection!Sender, Connection!Receiver,
       Connection!Seqs
  <2>4. ReceiversNew'
    BY <2>1, <2>2, ReceiversStay
  <2>5. Owned'
    BY <2>1, OwnersStay
  <2> QED
    BY <2>3, <2>4, <2>5 DEF ConnectionInv
<1>2. ASSUME NEW t \in Connection!Thread, Connection!Step(t) PROVE ConnectionInv'
  BY <1>2, SendsAndReceives, Marks, Locks, Connects, Fails, ReadsHello DEF Connection!Step
<1> QED
  BY <1>1, <1>2, OtherSteps DEF Connection!Next

LEMMA InvFlagsHaveOwner == ConnectionInv => FlagsHaveOwner
BY OfOneClient DEF ConnectionInv, Owned, FlagsHaveOwner, Connection!FlagsHaveOwner

(* Neither a flag of the process nor the lock of a client is left behind:  *)
(* each has an owner that is in its handshake, and undoes it as it         *)
(* returns.  It holds for any clients, requests and connections, with any  *)
(* number of goroutines in their handshakes at a time.                     *)
THEOREM FlagsHaveOwnerTheorem == Connection!Spec => []FlagsHaveOwner
<1>1. [Connection!Next]_(Connection!vars) => [Connection!Next]_connectionVars
  BY DEF Connection!vars, Connection!globals, connectionVars
<1> QED
  BY <1>1, ConnectionInit, ConnectionStep, InvFlagsHaveOwner, PTL DEF Connection!Spec
=============================================================================
