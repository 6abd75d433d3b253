-------------------------- MODULE ParallelLearner ---------------------------
(***************************************************************************)
(* The learner of ParallelPaxos (package parallelpaxos, learner.go): slots *)
(* are spread over processors, each of which counts the learns of its own; *)
(* a token goes round so that they deliver one after the other.  The token *)
(* is made where the first learn goes to, which may be any slot's: learns  *)
(* come from acceptors that handle slots in parallel.                      *)
(*                                                                         *)
(* A round has one value for a slot; a value is named by its round.        *)
(* Learns come in any order, and again.                                    *)
(***************************************************************************)
EXTENDS Integers, Sequences, FiniteSets

CONSTANTS
    Acceptor,
    NumProcessors,   \* parallelPaxosLearners
    ChanSize,        \* of learnChan, 10 in the code
    MaxSlot, MaxRound

Slot == 1..MaxSlot
Round == 1..MaxRound   \* 0 is ZeroRound
Proc == 0..(NumProcessors - 1)
Learn == [slot : Slot, rnd : Round, id : Acceptor]
Quorum == Cardinality(Acceptor) \div 2 + 1
ProcOf(s) == s % NumProcessors
Nowhere == -1

VARIABLES
    starter,        \* the processor of the first learn; Nowhere as long as
                    \* firstLearn is true
    learnChan,      \* of each processor
    tokenChan,      \* how many tokens are in the channel of each processor
    token,          \* nextToDecideToken
    nextToDecide,
    slots,          \* LearnerSlot of each slot
    decided         \* the slots on dcdChan, oldest first

vars == <<starter, learnChan, tokenChan, token, nextToDecide, slots, decided>>

NewSlot == [rnd |-> 0, learns |-> {}, votes |-> 0, learned |-> FALSE, val |-> 0]

Init ==
    /\ starter = Nowhere
    /\ learnChan = [p \in Proc |-> <<>>]
    /\ tokenChan = [p \in Proc |-> 0]
    /\ token = [p \in Proc |-> FALSE]
    /\ nextToDecide = [p \in Proc |-> IF p = 0 THEN NumProcessors ELSE p]
    /\ slots = [s \in Slot |-> NewSlot]
    /\ decided = <<>>

(* The loop that hands the learns out.                                     *)
Dispatch(m) ==
    /\ LET p == ProcOf(m.slot)
       IN  /\ Len(learnChan[p]) < ChanSize
           /\ learnChan' = [learnChan EXCEPT ![p] = Append(@, m)]
           /\ IF starter = Nowhere
              THEN starter' = p /\ tokenChan' = [tokenChan EXCEPT ![p] = @ + 1]
              ELSE UNCHANGED <<starter, tokenChan>>
    /\ UNCHANGED <<token, nextToDecide, slots, decided>>

(* A bug: the processor keeps the token it passes on.                      *)
DecideKeep(p) ==
    /\ decided' = Append(decided, nextToDecide[p])
    /\ nextToDecide' = [nextToDecide EXCEPT ![p] = @ + NumProcessors]
    /\ token' = [token EXCEPT ![p] = TRUE]

(* The slot's value to the server, its number to the proposer; the token   *)
(* is given up.                                                            *)
Decide(p) ==
    /\ decided' = Append(decided, nextToDecide[p])
    /\ nextToDecide' = [nextToDecide EXCEPT ![p] = @ + NumProcessors]
    /\ token' = [token EXCEPT ![p] = FALSE]

PassToken(chan, p) == [chan EXCEPT ![ProcOf(p + 1)] = @ + 1]

(* receiveNextToDecideToken                                                *)
ReceiveToken(p) ==
    /\ tokenChan[p] > 0
    /\ LET chan == [tokenChan EXCEPT ![p] = @ - 1]
       IN  IF nextToDecide[p] \in Slot /\ slots[nextToDecide[p]].learned
           THEN Decide(p) /\ tokenChan' = PassToken(chan, p)
           ELSE /\ token' = [token EXCEPT ![p] = TRUE]
                /\ tokenChan' = chan
                /\ UNCHANGED <<decided, nextToDecide>>
    /\ UNCHANGED <<starter, learnChan, slots>>

(* The slot with a learn of its round, or of a higher one, counted.        *)
Counted(slot, m) ==
    [slot EXCEPT !.rnd = m.rnd,
                 !.learns = IF m.rnd > slot.rnd THEN {m.id} ELSE @ \cup {m.id},
                 !.votes = IF m.rnd > slot.rnd THEN 1 ELSE @ + 1]

(* The learn changes nothing: the slot is learned, or its round higher, or *)
(* the sender's learn is there.                                            *)
Ignored(slot, m) ==
    \/ slot.learned
    \/ slot.rnd > m.rnd
    \/ slot.rnd = m.rnd /\ m.id \in slot.learns

(* handleLearn                                                             *)
HandleLearn(p) ==
    /\ learnChan[p] # <<>>
    /\ learnChan' = [learnChan EXCEPT ![p] = Tail(@)]
    /\ LET m == Head(learnChan[p])
           counted == Counted(slots[m.slot], m)
           ignored == Ignored(slots[m.slot], m)
           quorum == ~ignored /\ counted.votes >= Quorum
       IN  /\ slots' = [slots EXCEPT ![m.slot] =
                CASE ignored -> @
                  [] quorum -> [counted EXCEPT !.learned = TRUE, !.val = m.rnd]
                  [] OTHER -> counted]
           /\ IF quorum /\ token[p] /\ m.slot = nextToDecide[p]
              THEN Decide(p) /\ tokenChan' = PassToken(tokenChan, p)
              ELSE UNCHANGED <<decided, nextToDecide, token, tokenChan>>
    /\ UNCHANGED starter

Next ==
    \/ \E m \in Learn : Dispatch(m)
    \/ \E p \in Proc : ReceiveToken(p) \/ HandleLearn(p)

Spec == Init /\ [][Next]_vars

-----------------------------------------------------------------------------
(* Correctness.                                                            *)

(* The slots reach the server in the order of their numbers: the value     *)
(* delivered i-th is that of slot i, as handleDecidedVal takes it to be.   *)
(* The code violates it: when the first learn is for slot 2, the token     *)
(* begins its way there.                                                   *)
InOrder == \A i \in 1..Len(decided) : decided[i] = i

(* The processors deliver in turn, whichever begins, and each its own      *)
(* slots without a gap: while the token goes round once, the next          *)
(* NumProcessors slots are delivered.  So none is delivered twice, and     *)
(* they are in order if the processor of slot 1 began.                     *)
InTurn ==
    /\ \A i \in 1..Len(decided) :
          /\ ProcOf(decided[i]) = ProcOf(starter + i - 1)
          /\ IF i <= NumProcessors THEN decided[i] \in 1..NumProcessors
             ELSE decided[i] = decided[i - NumProcessors] + NumProcessors
    /\ starter = ProcOf(1) => InOrder

(* The token is at one processor or on its way to one.                     *)
OneToken ==
    starter # Nowhere =>
        \E p \in Proc :
            /\ tokenChan[p] + (IF token[p] THEN 1 ELSE 0) = 1
            /\ \A q \in Proc \ {p} : tokenChan[q] = 0 /\ ~token[q]

(* A slot is learned when a quorum sent learns of one round for it, and    *)
(* its value is that of the round.                                         *)
LearnedByQuorum ==
    \A s \in Slot :
        slots[s].learned => /\ Cardinality(slots[s].learns) >= Quorum
                            /\ slots[s].val = slots[s].rnd
=============================================================================
