----------------------------- MODULE BatchPaxos -----------------------------
(***************************************************************************)
(* BatchPaxos (package batchpaxos): clients send their requests to every   *)
(* replica; a replica tells the leader, in numbered batches, the highest   *)
(* sequence number it has of each client; the leader commits what a quorum *)
(* has, as a range per client; replicas execute the ranges in the order of *)
(* the batches, and ask each other for requests they miss.                 *)
(*                                                                         *)
(* One leader, as nothing is recovered when it changes.  Connections are   *)
(* in order and lose nothing; a request is known by its client and number. *)
(***************************************************************************)
EXTENDS Integers, Sequences, FiniteSets, SequencesExt

CONSTANTS
    Replica,
    Clients,      \* client ids, sorted
    MaxSeq,       \* bound on sequence numbers, which start at 0
    MaxBatch,     \* bound on batches
    BatchMaxReq   \* batchPaxosMaxSize

Client == {Clients[i] : i \in DOMAIN Clients}
Batch == 0..(MaxBatch - 1)
Quorum == Cardinality(Replica) \div 2 + 1

VARIABLES
    next,       \* requests a replica has had from each client itself
    values,     \* the log: requests a replica has, <<client, seq>>
    entries,    \* clients with an entry in CLog
    batchMap,   \* a replica's batches: HSS, by client
    learns,     \* how many batches of a replica the leader has learned
    batchPoints, \* the leader's batchpoints
    commits,    \* the leader's commits, ranges by client, in batch order
    committed,  \* how many commits a replica has handled
    execute,    \* batches a replica may execute
    executed,   \* requests it has executed
    batchAru,   \* batches it has executed
    updates     \* UpdateRequests and UpdateReplies on their way

replicaVars == <<next, values, entries, batchMap>>
leaderVars == <<learns, batchPoints, commits>>
execVars == <<committed, execute, executed, batchAru>>
vars == <<replicaVars, leaderVars, execVars, updates>>

Init ==
    /\ next = [r \in Replica |-> [c \in Client |-> 0]]
    /\ values = [r \in Replica |-> {}]
    /\ entries = [r \in Replica |-> {}]
    /\ batchMap = [r \in Replica |-> <<>>]
    /\ learns = [r \in Replica |-> 0]
    /\ batchPoints = <<>>
    /\ commits = <<>>
    /\ committed = [r \in Replica |-> 0]
    /\ execute = [r \in Replica |-> {}]
    /\ executed = [r \in Replica |-> <<>>]
    /\ batchAru = [r \in Replica |-> 0]
    /\ updates = {}

-----------------------------------------------------------------------------
(* The batcher.                                                            *)

(* HighestSeen: 0 also if the entry was made for a request not here yet.   *)
HighestSeen(vals, c) ==
    LET seqs == {v[2] : v \in {w \in vals : w[1] = c}} IN
    IF seqs = {} THEN 0 ELSE CHOOSE s \in seqs : \A t \in seqs : t <= s

GetCurrentBatchPoint(vals, es) == [c \in es |-> HighestSeen(vals, c)]

(* GetBatch: the batches with a new one, if the log has grown.             *)
GetBatch(batches, vals, es) ==
    LET hss == GetCurrentBatchPoint(vals, es)
        prev == batches[Len(batches)]
        grown == \/ Len(batches) = 0
                 \/ Cardinality(es) > Cardinality(DOMAIN prev)
                 \/ \E c \in es \cap DOMAIN prev : hss[c] > prev[c] IN
    IF es # {} /\ grown THEN Append(batches, hss) ELSE batches

(* The requests of ranges.                                                 *)
InRanges(ranges) ==
    UNION {{<<c, s>> : s \in ranges[c].start..ranges[c].stop} : c \in DOMAIN ranges}

(* GetIncompleteRanges; it makes an entry for every client asked for.      *)
GetIncompleteRanges(vals, ranges) ==
    LET inc == {c \in DOMAIN ranges :
                    \E s \in ranges[c].start..ranges[c].stop : <<c, s>> \notin vals} IN
    [c \in inc |-> ranges[c]]

(* ForEach: the requests of ranges, clients sorted.                        *)
ForEach(ranges) ==
    FlattenSeq([i \in DOMAIN Clients |->
        IF Clients[i] \notin DOMAIN ranges THEN <<>>
        ELSE LET g == ranges[Clients[i]] IN
             [k \in 1..(g.stop - g.start + 1) |-> <<Clients[i], g.start + k - 1>>]])

-----------------------------------------------------------------------------
(* Requests, batches and learns.                                           *)

NumReq(r) == FoldFunction(LAMBDA a, b : a + b, 0, next[r])

(* handleRequest: a full batch is sent at once.                            *)
HandleRequest(r, c) ==
    /\ next[r][c] <= MaxSeq
    /\ next' = [next EXCEPT ![r][c] = @ + 1]
    /\ values' = [values EXCEPT ![r] = @ \cup {<<c, next[r][c]>>}]
    /\ entries' = [entries EXCEPT ![r] = @ \cup {c}]
    /\ batchMap' =
        IF (NumReq(r) + 1) % BatchMaxReq = 0 /\ Len(batchMap[r]) < MaxBatch
        THEN [batchMap EXCEPT ![r] = GetBatch(@, values'[r], entries'[r])]
        ELSE batchMap
    /\ UNCHANGED <<leaderVars, execVars, updates>>

HandleBatchTimeout(r) ==
    /\ Len(batchMap[r]) < MaxBatch
    /\ batchMap' = [batchMap EXCEPT ![r] = GetBatch(@, values[r], entries[r])]
    /\ batchMap' # batchMap
    /\ UNCHANGED <<next, values, entries, leaderVars, execVars, updates>>

(* Intersect: the clients in all learns of a batch, with the least number. *)
Intersect(hsss) ==
    LET common == {c \in Client : \A h \in hsss : c \in DOMAIN h} IN
    [c \in common |-> CHOOSE s \in {h[c] : h \in hsss} : \A h \in hsss : s <= h[c]]

(* TryBatchPoint: the clients of the last batchpoint that are not in the   *)
(* new one are dropped.                                                    *)
Advances(last, nbp) ==
    \E c \in DOMAIN nbp : c \notin DOMAIN last \/ nbp[c] > last[c]

Greater(last, nbp) ==
    [c \in DOMAIN nbp |->
        IF c \in DOMAIN last /\ nbp[c] < last[c] THEN last[c] ELSE nbp[c]]

(* A bug: a new client's range starts as if numbers began at 1.            *)
MakeRangeMapSkip(last, bp) ==
    [c \in {c \in DOMAIN bp : c \notin DOMAIN last \/ bp[c] > last[c]} |->
        [start |-> IF c \in DOMAIN last THEN last[c] + 1 ELSE 1, stop |-> bp[c]]]

(* makeRangeMap1 and makeRangeMap2.                                        *)
MakeRangeMap(last, bp) ==
    [c \in {c \in DOMAIN bp : c \notin DOMAIN last \/ bp[c] > last[c]} |->
        [start |-> IF c \in DOMAIN last THEN last[c] + 1 ELSE 0, stop |-> bp[c]]]

(* handleLearnMsg at the leader: a batch is committed when a quorum has    *)
(* reported it, with no ranges if there is nothing new.                    *)
HandleLearnMsg(r) ==
    LET k == learns[r] + 1
        from == {s \in Replica : learns'[s] >= k}
        nbp == Intersect({batchMap[s][k] : s \in from})
        last == IF batchPoints = <<>> THEN <<>> ELSE Last(batchPoints) IN
    /\ k <= Len(batchMap[r])
    /\ learns' = [learns EXCEPT ![r] = k]
    /\ IF Cardinality(from) = Quorum
       THEN /\ batchPoints' = IF Advances(last, nbp)
                              THEN Append(batchPoints, Greater(last, nbp))
                              ELSE batchPoints
            /\ commits' = Append(commits,
                  IF Advances(last, nbp)
                  THEN MakeRangeMap(last, Greater(last, nbp)) ELSE <<>>)
       ELSE UNCHANGED <<batchPoints, commits>>
    /\ UNCHANGED <<replicaVars, execVars, updates>>

-----------------------------------------------------------------------------
(* Commits, updates and execution.                                         *)

(* A bug: batches are executed as they become complete.                    *)
TryToAdvanceAny(r, exec) ==
    LET new == exec \ execute[r] IN
    /\ executed' = [executed EXCEPT ![r] =
            @ \o FlattenSeq([i \in 1..Cardinality(new) |->
                    ForEach(commits[SetToSortSeq(new, <)[i]])])]
    /\ batchAru' = [batchAru EXCEPT ![r] = Cardinality(exec)]

(* tryToAdvance, once the batches exec may be executed.                    *)
TryToAdvance(r, exec) ==
    LET aru == CHOOSE k \in 0..Len(commits) :
                    1..k \subseteq exec /\ k + 1 \notin exec IN
    /\ executed' = [executed EXCEPT ![r] =
            @ \o FlattenSeq([i \in 1..(aru - batchAru[r]) |->
                                ForEach(commits[batchAru[r] + i])])]
    /\ batchAru' = [batchAru EXCEPT ![r] = aru]

(* handleCommitMsg: with all requests here the batch may be executed; else *)
(* all are asked for those of the incomplete ranges.                       *)
HandleCommitMsg(r) ==
    LET k == committed[r] + 1
        inc == GetIncompleteRanges(values[r], commits[k]) IN
    /\ k <= Len(commits)
    /\ committed' = [committed EXCEPT ![r] = k]
    /\ entries' = [entries EXCEPT ![r] = @ \cup DOMAIN commits[k]]
    /\ IF DOMAIN inc = {}
       THEN /\ execute' = [execute EXCEPT ![r] = @ \cup {k}]
            /\ TryToAdvance(r, execute'[r])
            /\ UNCHANGED updates
       ELSE /\ updates' = updates \cup
                 {[to |-> s, from |-> r, batch |-> k, ranges |-> inc,
                   reply |-> FALSE] : s \in Replica}
            /\ UNCHANGED <<execute, executed, batchAru>>
    /\ UNCHANGED <<next, values, batchMap, leaderVars>>

(* A bug: an UpdateRequest is never answered by who has not executed the   *)
(* batch.                                                                  *)
HandleUpdateRequestLate(m) ==
    LET r == m.to IN
    /\ m \in updates /\ ~m.reply
    /\ entries' = [entries EXCEPT ![r] = @ \cup DOMAIN m.ranges]
    /\ updates' = (updates \ {m}) \cup
          (IF m.batch <= batchAru[r]
           THEN {[to |-> m.from, from |-> r, batch |-> m.batch,
                  ranges |-> m.ranges, reply |-> TRUE]}
           ELSE {})
    /\ UNCHANGED <<next, values, batchMap, leaderVars, execVars>>

(* handleUpdateRequestMsg: answered by who has all of it.                  *)
HandleUpdateRequest(m) ==
    LET r == m.to IN
    /\ m \in updates /\ ~m.reply
    /\ entries' = [entries EXCEPT ![r] = @ \cup DOMAIN m.ranges]
    /\ updates' = (updates \ {m}) \cup
          (IF DOMAIN GetIncompleteRanges(values[r], m.ranges) = {}
           THEN {[to |-> m.from, from |-> r, batch |-> m.batch,
                  ranges |-> m.ranges, reply |-> TRUE]}
           ELSE {})
    /\ UNCHANGED <<next, values, batchMap, leaderVars, execVars>>

(* handleUpdateReplyMsg.  The program ends if the reply was not enough.    *)
HandleUpdateReply(m) ==
    LET r == m.to IN
    /\ m \in updates /\ m.reply
    /\ updates' = updates \ {m}
    /\ IF m.batch \in execute[r]
       THEN UNCHANGED <<values, execute, executed, batchAru>>
       ELSE /\ values' = [values EXCEPT ![r] = @ \cup InRanges(m.ranges)]
            /\ DOMAIN GetIncompleteRanges(values'[r], commits[m.batch]) = {}
            /\ execute' = [execute EXCEPT ![r] = @ \cup {m.batch}]
            /\ TryToAdvance(r, execute'[r])
    /\ UNCHANGED <<next, entries, batchMap, leaderVars, committed>>

-----------------------------------------------------------------------------
Next ==
    \/ \E r \in Replica :
        \/ \E c \in Client : HandleRequest(r, c)
        \/ HandleBatchTimeout(r)
        \/ HandleLearnMsg(r)
        \/ HandleCommitMsg(r)
    \/ \E m \in updates : HandleUpdateRequest(m) \/ HandleUpdateReply(m)

Spec == Init /\ [][Next]_vars

-----------------------------------------------------------------------------
(* Correctness.                                                            *)

(* All replicas execute the same requests in the same order: what one has  *)
(* executed begins what the other has, or the other way round, however the *)
(* requests reached them and whoever they had to ask.                      *)
SameOrder ==
    \A r, s \in Replica :
        IsPrefix(executed[r], executed[s]) \/ IsPrefix(executed[s], executed[r])

(* A replica executes only requests it has: neither a hole in its log nor  *)
(* an entry made for a client it has not heard of is ever executed.        *)
ExecutesWhatItHas ==
    \A r \in Replica : \A i \in DOMAIN executed[r] : executed[r][i] \in values[r]

(* A client's requests are executed in the order of their numbers, with no *)
(* gap: the next one is the one after the last, or one executed before.    *)
NoRequestSkipped ==
    \A r \in Replica : \A i \in DOMAIN executed[r] :
        LET c == executed[r][i][1]
            s == executed[r][i][2] IN
        s = 0 \/ \E j \in 1..(i - 1) : executed[r][j] = <<c, s - 1>>

(* The ranges of a batch are between two batchpoints, as the comments say: *)
(* no request is in the ranges of two batches. The code violates it: a     *)
(* client missing from a new batchpoint is forgotten, and its next range   *)
(* starts at 0.                                                            *)
RangesBetween ==
    \A j, k \in DOMAIN commits :
        j < k => InRanges(commits[j]) \cap InRanges(commits[k]) = {}

(* Every replica gets to execute all that is committed, with requests from *)
(* others if it misses some: an UpdateRequest is sent once, and somebody   *)
(* who has all of it is there to answer.                                   *)
CommittedExecuted == <>[](\A r \in Replica : batchAru[r] = Len(commits))
=============================================================================
