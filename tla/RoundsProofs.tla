---------------------------- MODULE RoundsProofs ----------------------------
(***************************************************************************)
(* Proofs about Rounds, for every number of parties and every schedule.     *)
(*                                                                          *)
(* The invariant says what a party in the middle of a round knows: the      *)
(* messages it has read are those of the parties before the loop index, each *)
(* at its place, and each was handed to it in the round it is in; and that  *)
(* the store holds nothing but messages that were handed out, under the key *)
(* of their round.                                                          *)
(***************************************************************************)
EXTENDS Rounds, Schedules, SequenceTheorems, TLAPS

\* No two rounds of the schedule have the same name.  Without it a party would
\* read the message of an earlier round.
DistinctNames ==
    \A r, s \in RoundNo : Schedule[r].name = Schedule[s].name => r = s

\* Commitments come before what opens them.
RevealsOrdered ==
    \A c \in Reveals : \A r, s \in RoundNo :
        Schedule[r].name = c[1] /\ Schedule[s].name = c[2] => r < s

-----------------------------------------------------------------------------
\* Where the message of party j is found among the answers that p has read.
PlaceOf(p, j) == IF j < p THEN j ELSE j - 1

\* The message of round r that p has for q has been handed to q.
IsHanded(p, q, r) == HandedTo(p, q) >= r

\* Control state: what a party that is not in the middle of a poll looks like.
ControlOf(p) ==
    /\ i[p] # p
    /\ pc[p] # "poll" => ans_vec[p] = <<>> /\ answer[p] = NoAnswer
    /\ pc[p] = "done" => round[p] = Len(Schedule)

\* What a party has read in the round it is in.
ReadOf(p) ==
    pc[p] = "poll" =>
        /\ Len(ans_vec[p]) = PlaceOf(p, i[p]) - 1
        /\ \A j \in Others(p) : j < i[p] =>
              /\ ans_vec[p][PlaceOf(p, j)] = Message(j, round[p], p)
              /\ IsHanded(j, p, round[p])

\* What is on its way to it.
AnswerOf(p) ==
    answer[p].tag = "found" =>
        /\ answer[p].value = Message(i[p], round[p], p)
        /\ IsHanded(i[p], p, round[p])

\* What it has completed: everybody handed it a message, and the vector it put
\* together has them at their places.
CompletedOf(p) ==
    /\ \A q \in Others(p) : IsHanded(q, p, Completed(p))
    /\ Completed(p) > 0 => vector[p] = [j \in Party |-> Message(j, Completed(p), p)]

PartyInv(p) == ControlOf(p) /\ ReadOf(p) /\ AnswerOf(p) /\ CompletedOf(p)

\* Every entry of the store is the message of some round, under that round's
\* key, and has been handed out.
IsEntry(e, p, q, r) ==
    /\ e.key = PostedKey(p, q, r)
    /\ e.value = Message(p, r, q)
    /\ IF IsP2P(r) THEN q # p /\ IsHanded(p, q, r)
                   ELSE \A o \in Others(p) : IsHanded(p, o, r)

DbInv == \A e \in db : \E p, q \in Party, r \in RoundNo : IsEntry(e, p, q, r)

IInv ==
    /\ TypeOK
    /\ DbInv
    /\ \A p \in Party : PartyInv(p)

-----------------------------------------------------------------------------
\* The loops over the other parties stay within the parties.
LEMMA LoopIndices ==
    ASSUME NEW p \in Party
    PROVE  /\ FirstPeer(p) \in Party /\ FirstPeer(p) # p
           /\ \A j \in Party : NextPeer(p, j) # p /\ NextPeer(p, j) > j
           /\ \A j \in Party : NextPeer(p, j) \in Int
           /\ \A j \in Party : NextPeer(p, j) <= N => NextPeer(p, j) \in Party
           /\ \A j, k \in Others(p) : k < NextPeer(p, j) <=> k <= j
           /\ \A k \in Others(p) : ~ (k < FirstPeer(p))
           /\ PlaceOf(p, FirstPeer(p)) = 1
           /\ \A j \in Others(p) : PlaceOf(p, NextPeer(p, j)) = PlaceOf(p, j) + 1
           /\ \A j \in Others(p) : PlaceOf(p, j) \in 1 .. N - 1
  BY RoundsAssumption DEF FirstPeer, NextPeer, Skip, Party, Others, PlaceOf

\* Rounds are numbered from 1, and each has one of the two kinds and a name.
LEMMA ScheduleType ==
    /\ Len(Schedule) \in Nat /\ Len(Schedule) > 0
    /\ \A r \in RoundNo : Schedule[r] \in [name : STRING, kind : Kind]
<1>1. Len(Schedule) \in Nat /\ Len(Schedule) > 0
  BY RoundsAssumption, LenProperties
<1>2. \A r \in RoundNo : Schedule[r] \in [name : STRING, kind : Kind]
  BY RoundsAssumption, ElementOfSeq DEF RoundNo
<1> QED
  BY <1>1, <1>2

\* Messages and keys are typed.
LEMMA MessageType ==
    ASSUME NEW p \in Party, NEW q \in Party, NEW r \in RoundNo
    PROVE  Message(p, r, q) \in Messages /\ PostedKey(p, q, r) \in Keys
  BY RoundsAssumption, ScheduleType DEF Message, Messages, PostedKey, Keys, Party, RoundNo

\* A key determines who posted it in which round, and to whom.
LEMMA KeysDiffer ==
    ASSUME DistinctNames,
           NEW p \in Party, NEW q \in Others(p), NEW r \in RoundNo,
           NEW o \in Party, NEW t \in Party, NEW s \in RoundNo,
           PolledKey(p, q, r) = PostedKey(o, t, s)
    PROVE  o = q /\ s = r /\ (IsP2P(r) => t = p)
  BY ScheduleType DEF DistinctNames, PolledKey, PostedKey, Party, Others

LEMMA InitIInv == Init => IInv
<1> SUFFICES ASSUME Init PROVE IInv
  OBVIOUS
<1>1. TypeOK
  <2>1. db \subseteq [key : Keys, value : Messages] /\ deaths \in Nat
    BY DEF Init
  <2>2. i \in [Party -> Party] /\ round \in [Party -> RoundNo]
    BY LoopIndices, ScheduleType DEF Init, RoundNo
  <2>3. answer \in [Party -> Answers]
    BY DEF Init, Answers
  <2>4. /\ ans_vec \in [Party -> Seq(Messages)] /\ \A p \in Party : Len(ans_vec[p]) < N
        /\ vector \in [Party -> {<<>>} \cup [Party -> Messages]]
    BY RoundsAssumption DEF Init
  <2>5. /\ alive \in [Party -> BOOLEAN] /\ late \in [Party -> BOOLEAN]
        /\ pc \in [Party -> {"send", "poll", "done"}]
    BY DEF Init
  <2> QED
    BY <2>1, <2>2, <2>3, <2>4, <2>5 DEF TypeOK
<1>2. DbInv
  BY DEF Init, DbInv
<1>3. ASSUME NEW p \in Party PROVE PartyInv(p)
  <2>1. ControlOf(p) /\ ReadOf(p) /\ AnswerOf(p)
    BY LoopIndices DEF Init, ControlOf, ReadOf, AnswerOf, NoAnswer
  <2>2. Completed(p) = 0
    BY DEF Init, Completed
  <2>3. \A q \in Others(p) : HandedTo(q, p) \in Nat
    BY DEF Init, HandedTo, Others, FirstPeer
  <2> QED
    BY <2>1, <2>2, <2>3 DEF PartyInv, CompletedOf, IsHanded, Others
<1> QED
  BY <1>1, <1>2, <1>3 DEF IInv

-----------------------------------------------------------------------------
\* Progress is counted in natural numbers.
LEMMA CountsType ==
    ASSUME TypeOK
    PROVE  /\ \A p \in Party : Completed(p) \in Nat
           /\ \A p, q \in Party : HandedTo(p, q) \in Nat
  BY ScheduleType DEF TypeOK, Completed, HandedTo, RoundNo

\* Posting a message: it is handed out, and nothing else changes.
LEMMA BroadcastHands ==
    ASSUME TypeOK, NEW p \in Party, Broadcast(p)
    PROVE  /\ \A q \in Others(p) : HandedTo(p, q) = round[p] - 1 /\ HandedTo(p, q)' = round[p]
           /\ \A o \in Party : Completed(o)' = Completed(o)
           /\ \A o \in Others(p) : \A q \in Party : HandedTo(o, q)' = HandedTo(o, q)
  BY DEF TypeOK, Broadcast, StartPolling, HandedTo, Completed, Others

LEMMA SendP2PHands ==
    ASSUME TypeOK, NEW p \in Party, i[p] # p, SendP2P(p)
    PROVE  /\ i[p] \in Others(p)
           /\ \A q \in Others(p) :
                 IF q = i[p] THEN HandedTo(p, q) = round[p] - 1 /\ HandedTo(p, q)' = round[p]
                             ELSE HandedTo(p, q)' = HandedTo(p, q)
           /\ \A o \in Party : Completed(o)' = Completed(o)
           /\ \A o \in Others(p) : \A q \in Party : HandedTo(o, q)' = HandedTo(o, q)
<1>1. i[p] \in Others(p)
  BY DEF TypeOK, Others
<1>2. \A q \in Others(p) : (q < NextPeer(p, i[p])) <=> q <= i[p]
  BY <1>1, LoopIndices
<1>3. NextPeer(p, i[p]) \in Int
  BY LoopIndices DEF TypeOK
<1>8. NextPeer(p, i[p]) > N => \A q \in Others(p) : q <= i[p]
  BY <1>2, <1>3, RoundsAssumption DEF Others, Party
<1>4. \A o \in Party : Completed(o)' = Completed(o)
  BY DEF TypeOK, SendP2P, StartPolling, Completed
<1>5. \A o \in Others(p) : \A q \in Party : HandedTo(o, q)' = HandedTo(o, q)
  BY DEF TypeOK, SendP2P, StartPolling, HandedTo, Others
<1>6. CASE NextPeer(p, i[p]) > N
  <2>1. /\ pc[p] = "send" /\ IsP2P(round[p])
        /\ pc'[p] = "poll" /\ round' = round
    BY <1>6 DEF TypeOK, SendP2P, StartPolling
  <2>2. \A q \in Others(p) : q # i[p] => q < i[p]
    BY <1>1, <1>6, <1>8 DEF Others, Party
  <2> QED
    BY <1>1, <1>4, <1>5, <2>1, <2>2 DEF HandedTo, Others, Party
<1>7. CASE ~ (NextPeer(p, i[p]) > N)
  <2>1. /\ pc[p] = "send" /\ IsP2P(round[p]) /\ pc' = pc
        /\ i'[p] = NextPeer(p, i[p]) /\ round' = round
    BY <1>7 DEF TypeOK, SendP2P
  <2>2. \A q \in Others(p) : q # i[p] => (q < i'[p] <=> q < i[p])
    BY <1>1, <1>2, <2>1 DEF Others, Party
  <2>3. ~ (i[p] < i[p]) /\ i[p] < i'[p]
    BY <1>1, <1>2, <2>1 DEF Others, Party
  <2>4. \A q \in Others(p) : q = i[p] => HandedTo(p, q) = round[p] - 1 /\ HandedTo(p, q)' = round[p]
    BY <2>1, <2>3 DEF HandedTo
  <2>5. \A q \in Others(p) : q # i[p] => HandedTo(p, q)' = HandedTo(p, q)
    BY <2>1, <2>2 DEF HandedTo
  <2> QED
    BY <1>1, <1>4, <1>5, <2>4, <2>5
<1> QED
  BY <1>6, <1>7

\* Reading hands nothing out; the last answer of a round completes it.
LEMMA TakeHands ==
    ASSUME TypeOK, NEW p \in Party, Take(p)
    PROVE  /\ \A o \in Party : \A q \in Others(o) : HandedTo(o, q)' = HandedTo(o, q)
           /\ \A o \in Others(p) : Completed(o)' = Completed(o)
           /\ Completed(p) = round[p] - 1
           /\ Completed(p)' = IF NextPeer(p, i[p]) > N THEN round[p] ELSE round[p] - 1
<1>1. \A o \in Others(p) : /\ Completed(o)' = Completed(o)
                           /\ \A q \in Party : HandedTo(o, q)' = HandedTo(o, q)
  BY DEF TypeOK, Take, EndRound, Completed, HandedTo, Others
<1>2. CASE NextPeer(p, i[p]) > N
  <2>1. /\ pc[p] = "poll" /\ round[p] \in Nat /\ i'[p] = FirstPeer(p)
        /\ \/ pc'[p] = "send" /\ round'[p] = round[p] + 1
           \/ pc'[p] = "done" /\ round'[p] = round[p] /\ round[p] = Len(Schedule)
    BY <1>2, ScheduleType DEF TypeOK, Take, EndRound, RoundNo
  <2>2. \A q \in Others(p) : ~ (q < FirstPeer(p))
    BY LoopIndices
  <2>3. \A q \in Others(p) : HandedTo(p, q)' = HandedTo(p, q)
    BY <2>1, <2>2 DEF HandedTo
  <2>4. Completed(p) = round[p] - 1 /\ Completed(p)' = round[p]
    BY <2>1, ScheduleType DEF Completed
  <2> QED
    BY <1>1, <1>2, <2>3, <2>4 DEF Others
<1>3. CASE ~ (NextPeer(p, i[p]) > N)
  <2>1. pc[p] = "poll" /\ pc' = pc /\ round' = round
    BY <1>3 DEF Take
  <2> QED
    BY <1>1, <1>3, <2>1 DEF Completed, HandedTo, Others
<1> QED
  BY <1>2, <1>3

\* The other steps leave the control of every party alone.
LEMMA FrameHands ==
    ASSUME UNCHANGED loopVars
    PROVE  \A o \in Party : /\ Completed(o)' = Completed(o)
                            /\ \A q \in Party : HandedTo(o, q)' = HandedTo(o, q)
  BY DEF loopVars, Completed, HandedTo

-----------------------------------------------------------------------------
\* No step takes back what has been handed out.
Growth ==
    \A p \in Party : \A q \in Others(p) :
        HandedTo(p, q) \in Int /\ HandedTo(p, q)' \in Int /\ HandedTo(p, q)' >= HandedTo(p, q)

\* Each step is one that posts, one that takes an answer, or one that leaves
\* the control of all parties alone.
LEMMA StepKinds ==
    ASSUME [Next]_vars
    PROVE  \/ \E p \in Party : Broadcast(p) \/ SendP2P(p) \/ Take(p)
           \/ UNCHANGED loopVars
  BY DEF Next, PartyStep, Get, Retry, GiveUp, TimeIsOver, Die, Expire, vars

LEMMA StepGrows ==
    ASSUME TypeOK, \A p \in Party : i[p] # p, [Next]_vars
    PROVE  Growth
<1>1. \A p, q \in Party : HandedTo(p, q) \in Int
  BY CountsType
<1>2. \A p \in Party : round[p] \in Int
  BY DEF TypeOK, RoundNo
<1>3. ASSUME NEW p \in Party, Broadcast(p) PROVE Growth
  BY <1>1, <1>2, <1>3, BroadcastHands DEF Growth, Others
<1>4. ASSUME NEW p \in Party, SendP2P(p) PROVE Growth
  BY <1>1, <1>2, <1>4, SendP2PHands DEF Growth, Others
<1>5. ASSUME NEW p \in Party, Take(p) PROVE Growth
  BY <1>1, <1>5, TakeHands DEF Growth, Others
<1>6. CASE UNCHANGED loopVars
  BY <1>1, <1>6, FrameHands DEF Growth, Others
<1> QED
  BY <1>3, <1>4, <1>5, <1>6, StepKinds

\* So entries of the store stay entries, and a party that does not move still
\* has what it has read.
LEMMA EntriesStay ==
    ASSUME Growth,
           NEW e, NEW p \in Party, NEW q \in Party, NEW r \in RoundNo,
           IsEntry(e, p, q, r)
    PROVE  IsEntry(e, p, q, r)'
<1>1. \A o \in Others(p) : IsHanded(p, o, r) => IsHanded(p, o, r)'
  BY DEF Growth, IsHanded, Others, RoundNo
<1> QED
  BY <1>1 DEF IsEntry, Others

LEMMA DbStays ==
    ASSUME Growth, DbInv, db' \subseteq db
    PROVE  DbInv'
  BY EntriesStay DEF DbInv

LEMMA DbGrows ==
    ASSUME Growth, DbInv,
           NEW e, db' \subseteq db \cup {e},
           NEW p \in Party, NEW q \in Party, NEW r \in RoundNo, IsEntry(e, p, q, r)'
    PROVE  DbInv'
  BY EntriesStay DEF DbInv

LEMMA PartyStays ==
    ASSUME TypeOK, Growth, NEW o \in Party, PartyInv(o),
           pc'[o] = pc[o], i'[o] = i[o], round'[o] = round[o],
           ans_vec'[o] = ans_vec[o], vector'[o] = vector[o],
           answer'[o] \in {answer[o], NoAnswer}
    PROVE  PartyInv(o)'
<1>1. round[o] \in Int /\ Completed(o) \in Int /\ i[o] \in Party
  BY CountsType DEF TypeOK, RoundNo
<1>2. Completed(o)' = Completed(o)
  BY DEF Completed
<1>3. \A j \in Others(o) : \A r \in Int : HandedTo(j, o) >= r => HandedTo(j, o)' >= r
  BY DEF Growth, Others
<1>4. ControlOf(o)'
  BY DEF PartyInv, ControlOf
<1>5. ReadOf(o)'
  BY <1>1, <1>3 DEF PartyInv, ReadOf, IsHanded
<1>6. AnswerOf(o)'
  BY <1>1, <1>3 DEF PartyInv, ControlOf, AnswerOf, IsHanded, NoAnswer, Others
<1>7. CompletedOf(o)'
  BY <1>1, <1>2, <1>3 DEF PartyInv, CompletedOf, IsHanded
<1> QED
  BY <1>4, <1>5, <1>6, <1>7 DEF PartyInv

-----------------------------------------------------------------------------
(***************************************************************************)
(* Every step keeps the invariant: one lemma for each action.               *)
(***************************************************************************)

\* What all the lemmas below start from.
InvAt(p) ==
    /\ IInv
    /\ Growth
    /\ p \in Party

\* A store in which an entry is set.
LEMMA SetType ==
    ASSUME db \subseteq [key : Keys, value : Messages],
           NEW k \in Keys, NEW v \in Messages, Set(k, v)
    PROVE  /\ db' \subseteq [key : Keys, value : Messages]
           /\ db' \subseteq db \cup {[key |-> k, value |-> v]}
  BY DEF Set

\* Beginning to poll.
LEMMA StartPollingStep ==
    ASSUME NEW p \in Party, InvAt(p), pc[p] = "send", StartPolling(p),
           UNCHANGED <<round, answer, ans_vec, vector>>
    PROVE  PartyInv(p)'
<1>1. TypeOK /\ PartyInv(p)
  BY DEF InvAt, IInv
<1>2. /\ pc'[p] = "poll" /\ i'[p] = FirstPeer(p) /\ round'[p] = round[p]
      /\ ans_vec'[p] = <<>> /\ answer'[p] = NoAnswer /\ vector'[p] = vector[p]
  BY <1>1 DEF TypeOK, StartPolling, PartyInv, ControlOf
<1>3. Completed(p)' = Completed(p) /\ Completed(p) \in Int
  BY <1>1, <1>2, CountsType DEF Completed
<1>4. ControlOf(p)'
  BY <1>2, LoopIndices DEF ControlOf
<1>5. ReadOf(p)'
  BY <1>2, LoopIndices DEF ReadOf
<1>6. AnswerOf(p)'
  BY <1>2 DEF AnswerOf, NoAnswer
<1>7. CompletedOf(p)'
  BY <1>1, <1>2, <1>3 DEF InvAt, Growth, PartyInv, CompletedOf, IsHanded, Others
<1> QED
  BY <1>4, <1>5, <1>6, <1>7 DEF PartyInv

\* The next party in the loop, unless the loop is over.
LEMMA NextPeerType ==
    ASSUME NEW p \in Party, NEW j \in Party
    PROVE  /\ NextPeer(p, j) # p
           /\ ~ (NextPeer(p, j) > N) => NextPeer(p, j) \in Party
  BY RoundsAssumption DEF NextPeer, Skip, Party

LEMMA BroadcastStep ==
    ASSUME NEW p \in Party, InvAt(p), Broadcast(p)
    PROVE  IInv'
<1>1. TypeOK /\ DbInv /\ Growth /\ \A o \in Party : PartyInv(o)
  BY DEF InvAt, IInv
<1>2. round[p] \in RoundNo /\ round' = round /\ ~ IsP2P(round[p])
  BY <1>1 DEF TypeOK, Broadcast
<1>r. PICK r \in RoundNo : r = round[p]
  BY <1>2
<1>e. PICK e : e = [key |-> PostedKey(p, p, r), value |-> Message(p, r, p)]
  OBVIOUS
<1>3. r = round[p] /\ e = [key |-> PostedKey(p, p, r), value |-> Message(p, r, p)]
  BY <1>r, <1>e
<1>4. /\ db' \subseteq [key : Keys, value : Messages]
      /\ db' \subseteq db \cup {e}
  BY <1>1, <1>3, MessageType, SetType DEF TypeOK, Broadcast, Post
<1>5. TypeOK'
  BY <1>1, <1>4, LoopIndices DEF TypeOK, Broadcast, StartPolling
<1>6. DbInv'
  <2>1. \A o \in Others(p) : HandedTo(p, o)' >= r
    BY <1>1, <1>3, BroadcastHands DEF RoundNo
  <2>2. ~ IsP2P(r)
    BY <1>2, <1>3
  <2>3. IsEntry(e, p, p, r)'
    BY <1>3, <2>1, <2>2 DEF IsEntry, IsHanded, PostedKey, Message, IsP2P
  <2> QED
    BY <1>1, <1>4, <2>3, DbGrows
<1>7. PartyInv(p)'
  BY StartPollingStep DEF Broadcast
<1>8. ASSUME NEW o \in Others(p) PROVE PartyInv(o)'
  BY <1>1, PartyStays DEF TypeOK, Broadcast, StartPolling, Others
<1> QED
  BY <1>5, <1>6, <1>7, <1>8 DEF IInv, Others

LEMMA SendP2PStep ==
    ASSUME NEW p \in Party, InvAt(p), SendP2P(p)
    PROVE  IInv'
<1>1. TypeOK /\ DbInv /\ Growth /\ \A o \in Party : PartyInv(o)
  BY DEF InvAt, IInv
<1>2. /\ round[p] \in RoundNo /\ round' = round /\ IsP2P(round[p])
      /\ i[p] \in Party /\ i[p] # p
  BY <1>1 DEF TypeOK, SendP2P, PartyInv, ControlOf
<1>r. PICK r \in RoundNo, q \in Others(p) : r = round[p] /\ q = i[p]
  BY <1>2 DEF Others
<1>e. PICK e : e = [key |-> PostedKey(p, q, r), value |-> Message(p, r, q)]
  OBVIOUS
<1>3. /\ r = round[p] /\ q = i[p]
      /\ e = [key |-> PostedKey(p, q, r), value |-> Message(p, r, q)]
  BY <1>r, <1>e
<1>4. /\ db' \subseteq [key : Keys, value : Messages]
      /\ db' \subseteq db \cup {e}
  BY <1>1, <1>3, MessageType, SetType DEF TypeOK, SendP2P, Post, Others
<1>5. TypeOK'
  <2>1. ~ (NextPeer(p, i[p]) > N) => NextPeer(p, i[p]) \in Party
    BY <1>2, NextPeerType
  <2>2. FirstPeer(p) \in Party
    BY LoopIndices
  <2>3. /\ pc' \in [Party -> {"send", "poll", "done"}]
        /\ i' \in [Party -> Party]
    <3>1. CASE NextPeer(p, i[p]) > N
      <4>1. /\ pc' = [pc EXCEPT ![p] = "poll"]
            /\ i' = [i EXCEPT ![p] = FirstPeer(p)]
        BY <3>1 DEF SendP2P, StartPolling
      <4> QED
        BY <1>1, <2>2, <4>1 DEF TypeOK
    <3>2. CASE ~ (NextPeer(p, i[p]) > N)
      BY <1>1, <2>1, <3>2 DEF TypeOK, SendP2P
    <3> QED
      BY <3>1, <3>2
  <2> QED
    BY <1>1, <1>4, <2>3 DEF TypeOK, SendP2P
<1>6. DbInv'
  <2>1. HandedTo(p, q)' >= r
    BY <1>1, <1>2, <1>3, SendP2PHands DEF RoundNo
  <2>2. IsP2P(r)
    BY <1>2, <1>3
  <2>3. IsEntry(e, p, q, r)'
    BY <1>3, <2>1, <2>2 DEF IsEntry, IsHanded, PostedKey, Message, IsP2P, Others
  <2> QED
    BY <1>1, <1>4, <2>3, DbGrows DEF Others
<1>7. PartyInv(p)'
  <2>1. CASE NextPeer(p, i[p]) > N
    BY <2>1, StartPollingStep DEF SendP2P
  <2>2. CASE ~ (NextPeer(p, i[p]) > N)
    <3>1. /\ pc'[p] = "send" /\ i'[p] = NextPeer(p, i[p]) /\ pc[p] = "send" /\ pc' = pc
          /\ round' = round /\ answer' = answer /\ ans_vec' = ans_vec /\ vector' = vector
      BY <1>1, <2>2 DEF TypeOK, SendP2P
    <3>2. ControlOf(p)'
      <4>1. NextPeer(p, i[p]) # p
        BY <1>2, NextPeerType
      <4>2. ans_vec[p] = <<>> /\ answer[p] = NoAnswer
        BY <1>1, <3>1 DEF PartyInv, ControlOf
      <4> QED
        BY <3>1, <4>1, <4>2 DEF ControlOf
    <3>3. ReadOf(p)' /\ AnswerOf(p)'
      BY <1>1, <3>1 DEF ReadOf, AnswerOf, NoAnswer, PartyInv, ControlOf
    <3>4. Completed(p)' = Completed(p) /\ Completed(p) \in Int
      BY <1>1, <3>1, CountsType DEF Completed
    <3>5. CompletedOf(p)'
      BY <1>1, <3>1, <3>4 DEF Growth, PartyInv, CompletedOf, IsHanded, Others
    <3> QED
      BY <3>2, <3>3, <3>5 DEF PartyInv
  <2> QED
    BY <2>1, <2>2
<1>8. ASSUME NEW o \in Others(p) PROVE PartyInv(o)'
  BY <1>1, PartyStays DEF TypeOK, SendP2P, StartPolling, Others
<1> QED
  BY <1>5, <1>6, <1>7, <1>8 DEF IInv, Others

\* What the manager answers is the message that is waited for.  This is where
\* the names of the rounds have to differ.
LEMMA GetStep ==
    ASSUME DistinctNames, NEW p \in Party, InvAt(p), Get(p)
    PROVE  IInv'
<1>1. TypeOK /\ DbInv /\ Growth /\ \A o \in Party : PartyInv(o)
  BY DEF InvAt, IInv
<1>2. /\ pc[p] = "poll" /\ round[p] \in RoundNo /\ i[p] \in Others(p)
      /\ UNCHANGED <<db, alive, pc, round, i, ans_vec, vector, late, deaths>>
  BY <1>1 DEF TypeOK, Get, PartyInv, ControlOf, Others, loopVars
<1>3. PICK a : /\ answer' = [answer EXCEPT ![p] = a]
               /\ \/ a = Missing
                  \/ \E e \in db : e.key = PolledKey(p, i[p], round[p]) /\ a = Found(e.value)
  BY DEF Get
<1>4. answer'[p] = a /\ \A o \in Others(p) : answer'[o] = answer[o]
  BY <1>1, <1>3 DEF TypeOK, Others
<1>5. a \in Answers
  BY <1>1, <1>3 DEF TypeOK, Answers, Found
<1>6. TypeOK'
  BY <1>1, <1>2, <1>3, <1>5 DEF TypeOK
<1>7. DbInv'
  BY <1>1, <1>2, DbStays
<1>8. PartyInv(p)'
  <2>1. ControlOf(p)' /\ ReadOf(p)' /\ CompletedOf(p)'
    <3>1. Completed(p)' = Completed(p) /\ Completed(p) \in Int
      BY <1>1, <1>2, CountsType DEF Completed
    <3>2. \A q \in Others(p) : HandedTo(q, p)' = HandedTo(q, p)
      BY <1>2 DEF HandedTo
    <3> QED
      BY <1>1, <1>2, <3>1, <3>2
      DEF PartyInv, ControlOf, ReadOf, CompletedOf, IsHanded
  <2>2. AnswerOf(p)'
    <3>1. CASE a = Missing
      BY <1>4, <3>1 DEF AnswerOf, Missing
    <3>2. ASSUME NEW e \in db, e.key = PolledKey(p, i[p], round[p]), a = Found(e.value)
          PROVE  AnswerOf(p)'
      <4>1. PICK o \in Party, t \in Party, s \in RoundNo : IsEntry(e, o, t, s)
        BY <1>1 DEF DbInv
      <4>2. o = i[p] /\ s = round[p] /\ (IsP2P(s) => t = p)
        <5>1. PICK q \in Others(p), r \in RoundNo : q = i[p] /\ r = round[p]
          BY <1>2
        <5>2. PolledKey(p, q, r) = PostedKey(o, t, s)
          BY <3>2, <4>1, <5>1 DEF IsEntry
        <5> QED
          BY <5>1, <5>2, KeysDiffer
      <4>3. e.value = Message(i[p], round[p], p)
        BY <4>1, <4>2 DEF IsEntry, Message
      <4>4. IsHanded(o, p, s)
        BY <1>2, <4>1, <4>2 DEF IsEntry, Others
      <4>5. HandedTo(o, p) >= s
        BY <4>4 DEF IsHanded
      <4>6. HandedTo(o, p)' >= s
        BY <1>2, <4>5 DEF HandedTo
      <4>7. IsHanded(i[p], p, round[p])'
        BY <1>2, <4>2, <4>6 DEF IsHanded
      <4>8. answer'[p].value = Message(i[p], round[p], p)
        BY <1>4, <3>2, <4>3 DEF Found
      <4>9. Message(i[p], round[p], p)' = Message(i[p], round[p], p)
        BY <1>2 DEF Message, IsP2P
      <4> QED
        BY <4>7, <4>8, <4>9 DEF AnswerOf
    <3> QED
      BY <1>3, <3>1, <3>2
  <2> QED
    BY <2>1, <2>2 DEF PartyInv
<1>9. ASSUME NEW o \in Others(p) PROVE PartyInv(o)'
  BY <1>1, <1>2, <1>4, PartyStays DEF Others
<1> QED
  BY <1>6, <1>7, <1>8, <1>9 DEF IInv, Others

\* The answers with the last one: the messages of the parties up to the index.
LEMMA AnswersRead ==
    ASSUME NEW p \in Party, TypeOK, PartyInv(p), pc[p] = "poll", answer[p].tag = "found",
           NEW ans, ans = Append(ans_vec[p], answer[p].value)
    PROVE  /\ ans \in Seq(Messages) /\ Len(ans) = PlaceOf(p, i[p])
           /\ i[p] \in Others(p)
           /\ \A j \in Others(p) : j <= i[p] =>
                 /\ ans[PlaceOf(p, j)] = Message(j, round[p], p)
                 /\ IsHanded(j, p, round[p])
<1>1. /\ i[p] \in Others(p) /\ ans_vec[p] \in Seq(Messages)
      /\ round[p] \in RoundNo
  BY DEF TypeOK, PartyInv, ControlOf, Others
<1>2. /\ answer[p].value = Message(i[p], round[p], p)
      /\ IsHanded(i[p], p, round[p])
  BY DEF PartyInv, AnswerOf
<1>3. answer[p].value \in Messages
  BY <1>1, <1>2, MessageType DEF Others
<1>4. /\ Len(ans_vec[p]) = PlaceOf(p, i[p]) - 1
      /\ \A j \in Others(p) : j < i[p] =>
            /\ ans_vec[p][PlaceOf(p, j)] = Message(j, round[p], p)
            /\ IsHanded(j, p, round[p])
  BY DEF PartyInv, ReadOf
<1>5. PlaceOf(p, i[p]) \in Int
  BY <1>1 DEF PlaceOf, Others, Party
<1>6. /\ ans \in Seq(Messages) /\ Len(ans) = PlaceOf(p, i[p])
      /\ ans[PlaceOf(p, i[p])] = answer[p].value
      /\ \A k \in 1 .. Len(ans_vec[p]) : ans[k] = ans_vec[p][k]
  BY <1>1, <1>3, <1>4, <1>5, AppendProperties
<1>7. \A j \in Others(p) : j < i[p] => PlaceOf(p, j) \in 1 .. PlaceOf(p, i[p]) - 1
  BY <1>1, RoundsAssumption DEF PlaceOf, Others, Party
<1>8. \A j \in Others(p) : j <= i[p] => j < i[p] \/ j = i[p]
  BY <1>1 DEF Others, Party
<1> QED
  BY <1>1, <1>2, <1>4, <1>6, <1>7, <1>8

\* With an answer of every other party the vector has everything in its place.
LEMMA AssembledInPlace ==
    ASSUME NEW p \in Party, NEW r \in RoundNo, NEW ans,
           \A j \in Others(p) : ans[PlaceOf(p, j)] = Message(j, r, p)
    PROVE  Assembled(p, Message(p, r, p), ans) = [j \in Party |-> Message(j, r, p)]
  BY DEF Assembled, PlaceOf, Others

LEMMA TakeStep ==
    ASSUME NEW p \in Party, InvAt(p), Take(p)
    PROVE  IInv'
<1>1. TypeOK /\ DbInv /\ Growth /\ \A o \in Party : PartyInv(o)
  BY DEF InvAt, IInv
<1>2. /\ pc[p] = "poll" /\ answer[p].tag = "found"
      /\ answer' = [answer EXCEPT ![p] = NoAnswer]
      /\ late' = [late EXCEPT ![p] = FALSE]
      /\ UNCHANGED <<db, alive, deaths>>
      /\ round[p] \in RoundNo
  BY <1>1 DEF TypeOK, Take
<1>3. PICK ans : ans = Append(ans_vec[p], answer[p].value)
  OBVIOUS
<1>4. /\ ans \in Seq(Messages) /\ Len(ans) = PlaceOf(p, i[p])
      /\ i[p] \in Others(p)
      /\ \A j \in Others(p) : j <= i[p] =>
            /\ ans[PlaceOf(p, j)] = Message(j, round[p], p)
            /\ IsHanded(j, p, round[p])
  BY <1>1, <1>2, <1>3, AnswersRead
<1>5. \A j \in Others(p) : HandedTo(j, p)' = HandedTo(j, p)
  BY <1>1, TakeHands DEF Others
<1>6. DbInv'
  BY <1>1, <1>2, DbStays
<1>7. answer' \in [Party -> Answers] /\ answer'[p] = NoAnswer
  BY <1>1, <1>2 DEF TypeOK, Answers
<1>8. ASSUME NEW o \in Others(p)
      PROVE  /\ PartyInv(o)'
             /\ ans_vec'[o] = ans_vec[o] /\ vector'[o] = vector[o]
  <2>1. /\ pc'[o] = pc[o] /\ i'[o] = i[o] /\ round'[o] = round[o]
        /\ ans_vec'[o] = ans_vec[o] /\ vector'[o] = vector[o]
        /\ answer'[o] = answer[o]
    BY <1>1 DEF TypeOK, Take, EndRound, Others
  <2> QED
    BY <1>1, <2>1, PartyStays DEF Others
<1>9. AnswerOf(p)'
  BY <1>7 DEF AnswerOf, NoAnswer
<1>10. CASE NextPeer(p, i[p]) > N
  <2>1. \A j \in Others(p) : j <= i[p]
    <3>1. \A j \in Others(p) : j < NextPeer(p, i[p]) <=> j <= i[p]
      BY <1>4, LoopIndices
    <3>2. NextPeer(p, i[p]) \in Int
      BY <1>4, LoopIndices DEF Others
    <3> QED
      BY <1>10, <3>1, <3>2, RoundsAssumption DEF Others, Party
  <2>2. PICK r \in RoundNo : r = round[p]
    BY <1>2
  <2>3. Assembled(p, Message(p, r, p), ans) = [j \in Party |-> Message(j, r, p)]
    BY <1>4, <2>1, <2>2, AssembledInPlace
  <2>4. /\ vector'[p] = [j \in Party |-> Message(j, r, p)]
        /\ vector' = [vector EXCEPT ![p] = [j \in Party |-> Message(j, r, p)]]
        /\ ans_vec' = [ans_vec EXCEPT ![p] = <<>>]
        /\ i' = [i EXCEPT ![p] = FirstPeer(p)]
        /\ \/ /\ round' = [round EXCEPT ![p] = @ + 1] /\ pc' = [pc EXCEPT ![p] = "send"]
              /\ r < Len(Schedule)
           \/ round' = round /\ pc' = [pc EXCEPT ![p] = "done"] /\ ~ (r < Len(Schedule))
    BY <1>1, <1>3, <1>10, <2>2, <2>3 DEF TypeOK, Take, EndRound
  <2>5. TypeOK'
    <3>1. round' \in [Party -> RoundNo] /\ pc' \in [Party -> {"send", "poll", "done"}]
      <4>1. pc' \in [Party -> {"send", "poll", "done"}]
        BY <1>1, <2>4 DEF TypeOK
      <4>2. r < Len(Schedule) => r + 1 \in RoundNo
        BY ScheduleType DEF RoundNo
      <4>3. round' \in [Party -> RoundNo]
        BY <1>1, <2>2, <2>4, <4>2 DEF TypeOK
      <4> QED
        BY <4>1, <4>3
    <3>2. i' \in [Party -> Party]
      BY <1>1, <2>4, LoopIndices DEF TypeOK
    <3>3. [j \in Party |-> Message(j, r, p)] \in [Party -> Messages]
      BY MessageType
    <3>4. ans_vec'[p] = <<>> /\ <<>> \in Seq(Messages) /\ Len(<<>>) < N
      BY <1>1, <2>4, RoundsAssumption DEF TypeOK
    <3>5. /\ ans_vec' \in [Party -> Seq(Messages)]
          /\ \A o \in Party : Len(ans_vec'[o]) < N
          /\ vector' \in [Party -> {<<>>} \cup [Party -> Messages]]
      BY <1>1, <1>8, <2>4, <3>3, <3>4 DEF TypeOK, Others
    <3> QED
      BY <1>1, <1>2, <1>7, <3>1, <3>2, <3>5 DEF TypeOK
  <2>6. ControlOf(p)'
    <3>1. /\ i'[p] # p /\ ans_vec'[p] = <<>>
          /\ pc'[p] = "done" => round'[p] = Len(Schedule)
      BY <1>1, <1>2, <2>2, <2>4, LoopIndices, ScheduleType DEF TypeOK, RoundNo
    <3> QED
      BY <1>7, <3>1 DEF ControlOf
  <2>7. ReadOf(p)'
    BY <1>1, <2>4 DEF TypeOK, ReadOf
  <2>8. CompletedOf(p)'
    <3>1. Completed(p)' = r
      BY <1>1, <1>10, <2>2, TakeHands
    <3>2. \A q \in Others(p) : HandedTo(q, p)' >= r
      BY <1>4, <1>5, <2>1, <2>2 DEF IsHanded
    <3> QED
      BY <2>4, <3>1, <3>2 DEF CompletedOf, IsHanded, Message, IsP2P
  <2> QED
    BY <1>6, <1>8, <1>9, <2>5, <2>6, <2>7, <2>8 DEF IInv, PartyInv, Others
<1>11. CASE ~ (NextPeer(p, i[p]) > N)
  <2>1. /\ i' = [i EXCEPT ![p] = NextPeer(p, i[p])]
        /\ ans_vec' = [ans_vec EXCEPT ![p] = ans]
        /\ UNCHANGED <<pc, round, vector>>
    BY <1>3, <1>11 DEF Take
  <2>2. PICK k \in Others(p) : k = NextPeer(p, i[p])
    BY <1>4, <1>11, NextPeerType DEF Others
  <2>3. /\ PlaceOf(p, k) = PlaceOf(p, i[p]) + 1
        /\ \A j \in Others(p) : j < k => j <= i[p]
        /\ PlaceOf(p, k) \in 1 .. N - 1 /\ PlaceOf(p, i[p]) \in 1 .. N - 1
    BY <1>4, <2>2, LoopIndices DEF Others
  <2>4. i'[p] = k /\ ans_vec'[p] = ans
    BY <1>1, <2>1, <2>2 DEF TypeOK
  <2>5. TypeOK'
    <3>1. i' \in [Party -> Party]
      BY <1>1, <2>1, <2>2 DEF TypeOK, Others
    <3>2. Len(ans) < N
      BY <1>4, <2>3, RoundsAssumption
    <3>3. /\ ans_vec' \in [Party -> Seq(Messages)]
          /\ \A o \in Party : Len(ans_vec'[o]) < N
      BY <1>1, <1>4, <1>8, <2>1, <2>4, <3>2 DEF TypeOK, Others
    <3> QED
      BY <1>1, <1>2, <1>7, <2>1, <3>1, <3>3 DEF TypeOK
  <2>6. ControlOf(p)'
    BY <1>2, <2>1, <2>4 DEF ControlOf, Others
  <2>7. ReadOf(p)'
    <3>1. Len(ans) = PlaceOf(p, k) - 1
      BY <1>4, <2>3
    <3>2. \A j \in Others(p) : j < k =>
             /\ ans[PlaceOf(p, j)] = Message(j, round[p], p)
             /\ HandedTo(j, p)' >= round[p]
      BY <1>4, <1>5, <2>3 DEF IsHanded
    <3> QED
      BY <2>1, <2>4, <3>1, <3>2 DEF ReadOf, IsHanded, PlaceOf, Message, IsP2P
  <2>8. CompletedOf(p)'
    <3>1. Completed(p)' = Completed(p)
      BY <2>1 DEF Completed
    <3> QED
      BY <1>1, <1>5, <2>1, <3>1 DEF PartyInv, CompletedOf, IsHanded, Message, IsP2P
  <2> QED
    BY <1>6, <1>8, <1>9, <2>5, <2>6, <2>7, <2>8 DEF IInv, PartyInv, Others
<1> QED
  BY <1>10, <1>11

\* The other steps touch neither the control nor what was read.
LEMMA OtherStep ==
    ASSUME IInv, Growth, UNCHANGED loopVars, TypeOK', db' \subseteq db,
           \A o \in Party : answer'[o] \in {answer[o], NoAnswer}
    PROVE  IInv'
  BY DbStays, PartyStays DEF IInv, loopVars

\* The invariant is inductive.
LEMMA NextIInv ==
    ASSUME DistinctNames, IInv, [Next]_vars
    PROVE  IInv'
<1>1. TypeOK /\ \A p \in Party : i[p] # p
  BY DEF IInv, PartyInv, ControlOf
<1>2. Growth
  BY <1>1, StepGrows
<1>3. \A p \in Party : InvAt(p)
  BY <1>2 DEF InvAt
<1>4. ASSUME NEW p \in Party, Broadcast(p) PROVE IInv'
  BY <1>3, <1>4, BroadcastStep
<1>5. ASSUME NEW p \in Party, SendP2P(p) PROVE IInv'
  BY <1>3, <1>5, SendP2PStep
<1>6. ASSUME NEW p \in Party, Get(p) PROVE IInv'
  BY <1>3, <1>6, GetStep
<1>7. ASSUME NEW p \in Party, Take(p) PROVE IInv'
  BY <1>3, <1>7, TakeStep
<1>8. ASSUME NEW p \in Party, Retry(p) PROVE IInv'
  <2>1. TypeOK'
    BY <1>1, <1>8 DEF TypeOK, Retry, loopVars, Answers
  <2> QED
    BY <1>1, <1>2, <1>8, <2>1, OtherStep DEF Retry, TypeOK
<1>9. ASSUME NEW p \in Party, GiveUp(p) \/ Die(p) \/ TimeIsOver(p) PROVE IInv'
  <2>1. alive' \in [Party -> BOOLEAN] /\ late' \in [Party -> BOOLEAN] /\ deaths' \in Nat
    <3>1. CASE GiveUp(p)
      BY <1>1, <3>1 DEF TypeOK, GiveUp
    <3>2. CASE Die(p)
      BY <1>1, <3>2 DEF TypeOK, Die
    <3>3. CASE TimeIsOver(p)
      BY <1>1, <3>3 DEF TypeOK, TimeIsOver
    <3> QED
      BY <1>9, <3>1, <3>2, <3>3
  <2>2. UNCHANGED <<db, pc, round, i, answer, ans_vec, vector>>
    BY <1>9 DEF GiveUp, Die, TimeIsOver, loopVars
  <2>3. TypeOK'
    BY <1>1, <2>1, <2>2 DEF TypeOK
  <2> QED
    BY <1>2, <2>2, <2>3, OtherStep DEF loopVars
<1>10. CASE Expire
  <2>1. TypeOK'
    BY <1>1, <1>10 DEF TypeOK, Expire, loopVars
  <2> QED
    BY <1>1, <1>2, <1>10, <2>1, OtherStep DEF Expire
<1>11. CASE UNCHANGED vars
  <2>1. TypeOK'
    BY <1>1, <1>11 DEF TypeOK, vars, loopVars
  <2> QED
    BY <1>1, <1>2, <1>11, <2>1, OtherStep DEF vars
<1> QED
  BY <1>4, <1>5, <1>6, <1>7, <1>8, <1>9, <1>10, <1>11 DEF Next, PartyStep

-----------------------------------------------------------------------------
(***************************************************************************)
(* The theorems.                                                            *)
(***************************************************************************)

\* The strengthened invariant holds in every reachable state.
THEOREM Invariance ==
    ASSUME DistinctNames
    PROVE  Spec => []IInv
<1>1. IInv /\ [Next]_vars => IInv'
  BY NextIInv
<1> QED
  BY InitIInv, <1>1, PTL DEF Spec

\* Every variable keeps its type, for every number of parties and every
\* schedule: no loop over the parties leaves its range, and no party ever holds
\* more answers than there are other parties (broadcast, sendp2p and the polls).
THEOREM TypeCorrect ==
    ASSUME DistinctNames
    PROVE  Spec => []TypeOK
<1>1. IInv => TypeOK
  BY DEF IInv
<1> QED
  BY Invariance, <1>1, PTL

\* Every vector that is put together from a round's answers holds the messages
\* of that round by position (format_vec_from_reads and the loops like it).
THEOREM VectorsInPlace ==
    ASSUME DistinctNames
    PROVE  Spec => []VectorInPlace
<1>1. IInv => VectorInPlace
  BY DEF IInv, PartyInv, CompletedOf, VectorInPlace
<1> QED
  BY Invariance, <1>1, PTL

\* A party hands out at most the message of the round after those it completed.
LEMMA HandedBound ==
    ASSUME TypeOK, NEW p \in Party, ControlOf(p), NEW q \in Party
    PROVE  HandedTo(p, q) <= Completed(p) + 1
  BY ScheduleType DEF TypeOK, ControlOf, HandedTo, Completed, RoundNo

\* No one opens a commitment before all the commitments of that round are made,
\* if the schedule puts the round of the commitments first.
THEOREM CommitmentsBeforeReveals ==
    ASSUME DistinctNames, RevealsOrdered
    PROVE  Spec => []RevealsFollowCommitments
<1>1. ASSUME IInv PROVE RevealsFollowCommitments
  <2>1. SUFFICES ASSUME NEW c \in Reveals, NEW r \in RoundNo, NEW s \in RoundNo,
                        Schedule[r].name = c[1], Schedule[s].name = c[2],
                        NEW p \in Party, NEW o \in Others(p), HandedTo(p, o) >= s
                 PROVE  /\ Completed(p) >= r
                        /\ \A q \in Others(p) : HandedTo(q, p) >= r
    BY DEF RevealsFollowCommitments
  <2>2. r < s
    BY <2>1 DEF RevealsOrdered
  <2>3. /\ TypeOK /\ ControlOf(p)
        /\ \A q \in Others(p) : HandedTo(q, p) >= Completed(p)
    BY <1>1 DEF IInv, PartyInv, CompletedOf, IsHanded
  <2>4. /\ Completed(p) \in Nat /\ HandedTo(p, o) \in Nat
        /\ \A q \in Others(p) : HandedTo(q, p) \in Nat
    BY <2>3, CountsType DEF Others
  <2>5. HandedTo(p, o) <= Completed(p) + 1
    BY <2>3, HandedBound DEF Others
  <2>6. Completed(p) >= r
    BY <2>1, <2>2, <2>4, <2>5 DEF RoundNo
  <2> QED
    BY <2>3, <2>4, <2>6 DEF RoundNo
<1> QED
  BY Invariance, <1>1, PTL

-----------------------------------------------------------------------------
(***************************************************************************)
(* The rounds implement the lock step.                                      *)
(***************************************************************************)

\* The refinement mapping.
Stage  == [p \in Party |-> Completed(p)]
Handed == [p \in Party |-> [q \in Party |-> IF q = p THEN 0 ELSE HandedTo(p, q)]]

\* A party's row of the mapped matrix stays when its counts stay.
LEMMA RowStays ==
    ASSUME NEW o \in Party, \A q \in Others(o) : HandedTo(o, q)' = HandedTo(o, q)
    PROVE  Handed'[o] = Handed[o]
<1>1. \A q \in Party : (IF q = o THEN 0 ELSE HandedTo(o, q)') = IF q = o THEN 0 ELSE HandedTo(o, q)
  BY DEF Others
<1> QED
  BY <1>1 DEF Handed

LEMMA StageStays ==
    ASSUME \A o \in Party : Completed(o)' = Completed(o)
    PROVE  Stage' = Stage
  BY DEF Stage

LEMMA HandedStays ==
    ASSUME \A o \in Party : \A q \in Others(o) : HandedTo(o, q)' = HandedTo(o, q)
    PROVE  Handed' = Handed
<1>1. \A o \in Party : Handed'[o] = Handed[o]
  BY RowStays
<1>2. /\ DOMAIN Handed = Party /\ DOMAIN Handed' = Party
      /\ Handed = [o \in Party |-> Handed[o]] /\ Handed' = [o \in Party |-> Handed'[o]]
  BY DEF Handed
<1> QED
  BY <1>1, <1>2

\* Handing messages of the round a party is in to the parties of S.
LEMMA HandStep ==
    ASSUME NEW p \in Party, NEW S \in SUBSET Others(p),
           Completed(p) < Len(Schedule),
           \A o \in Party : Completed(o)' = Completed(o),
           \A q \in S : HandedTo(p, q) = Completed(p) /\ HandedTo(p, q)' = Completed(p) + 1,
           \A q \in Others(p) \ S : HandedTo(p, q)' = HandedTo(p, q),
           \A o \in Others(p) : \A q \in Party : HandedTo(o, q)' = HandedTo(o, q)
    PROVE  Lock!Next
<1>1. Stage' = Stage
  BY StageStays
<1>2. \A o \in Others(p) : Handed'[o] = Handed[o]
  BY RowStays DEF Others
<1>3. Handed'[p] = [q \in Party |-> IF q \in S THEN Stage[p] + 1 ELSE Handed[p][q]]
  <2>1. \A q \in Party : (IF q = p THEN 0 ELSE HandedTo(p, q)')
                            = IF q \in S THEN Stage[p] + 1 ELSE Handed[p][q]
    BY DEF Handed, Stage, Others
  <2> QED
    BY <2>1 DEF Handed
<1>4. Handed' = [Handed EXCEPT ![p] =
                    [q \in Party |-> IF q \in S THEN Stage[p] + 1 ELSE Handed[p][q]]]
  <2>1. /\ DOMAIN Handed = Party /\ DOMAIN Handed' = Party
        /\ Handed' = [o \in Party |-> Handed'[o]]
    BY DEF Handed
  <2> QED
    BY <1>2, <1>3, <2>1 DEF Others
<1>5. Stage[p] < Len(Schedule) /\ \A q \in S : Handed[p][q] = Stage[p]
  BY DEF Stage, Handed, Others
<1>6. Lock!Hand(p, S)
  BY <1>1, <1>4, <1>5 DEF Lock!Hand, Lock!Party, Party, Stage, Handed
<1> QED
  BY <1>6 DEF Lock!Next, Lock!Party, Lock!Others, Party, Others

\* Completing a round.
LEMMA CompleteStep ==
    ASSUME NEW p \in Party,
           Completed(p) < Len(Schedule), Completed(p)' = Completed(p) + 1,
           \A o \in Others(p) : Completed(o)' = Completed(o),
           \A o \in Party : \A q \in Others(o) : HandedTo(o, q)' = HandedTo(o, q),
           \A q \in Others(p) : HandedTo(p, q) > Completed(p) /\ HandedTo(q, p) > Completed(p)
    PROVE  Lock!Next
<1>1. Handed' = Handed
  BY HandedStays
<1>2. Stage' = [Stage EXCEPT ![p] = @ + 1]
  BY DEF Stage, Others
<1>3. /\ Stage[p] < Len(Schedule)
      /\ \A q \in Others(p) : Handed[p][q] > Stage[p] /\ Handed[q][p] > Stage[p]
  BY DEF Stage, Handed, Others
<1>4. Lock!Complete(p)
  BY <1>1, <1>2, <1>3 DEF Lock!Complete, Lock!Others, Lock!Party, Others, Party, Stage, Handed
<1> QED
  BY <1>4 DEF Lock!Next, Lock!Party, Party

LEMMA StepRefines ==
    ASSUME IInv, [Next]_vars
    PROVE  Lock!Next \/ UNCHANGED <<Stage, Handed>>
<1>1. TypeOK /\ \A p \in Party : PartyInv(p)
  BY DEF IInv
<1>2. \A p \in Party : round[p] \in Nat /\ 1 <= round[p] /\ round[p] <= Len(Schedule)
  BY <1>1, ScheduleType DEF TypeOK, RoundNo
<1>3. ASSUME NEW p \in Party, Broadcast(p) PROVE Lock!Next
  <2>1. Completed(p) = round[p] - 1
    BY <1>3 DEF Broadcast, Completed
  <2>2. PICK S \in SUBSET Others(p) : S = Others(p)
    OBVIOUS
  <2>3. \A q \in S : HandedTo(p, q) = Completed(p) /\ HandedTo(p, q)' = Completed(p) + 1
    BY <1>1, <1>2, <1>3, <2>1, <2>2, BroadcastHands
  <2>4. /\ \A o \in Party : Completed(o)' = Completed(o)
        /\ \A o \in Others(p) : \A q \in Party : HandedTo(o, q)' = HandedTo(o, q)
    BY <1>1, <1>3, BroadcastHands
  <2>5. Completed(p) < Len(Schedule) /\ Others(p) \ S = {}
    BY <1>2, <2>1, <2>2, ScheduleType
  <2> QED
    BY <2>3, <2>4, <2>5, HandStep
<1>4. ASSUME NEW p \in Party, SendP2P(p) PROVE Lock!Next
  <2>1. Completed(p) = round[p] - 1
    BY <1>4 DEF SendP2P, Completed
  <2>2. i[p] # p
    BY <1>1 DEF PartyInv, ControlOf
  <2>3. PICK S \in SUBSET Others(p) : S = {q \in Others(p) : q = i[p]}
    OBVIOUS
  <2>4. \A q \in S : HandedTo(p, q) = Completed(p) /\ HandedTo(p, q)' = Completed(p) + 1
    BY <1>1, <1>2, <1>4, <2>1, <2>2, <2>3, SendP2PHands
  <2>5. \A q \in Others(p) \ S : HandedTo(p, q)' = HandedTo(p, q)
    BY <1>1, <1>4, <2>2, <2>3, SendP2PHands
  <2>6. /\ \A o \in Party : Completed(o)' = Completed(o)
        /\ \A o \in Others(p) : \A q \in Party : HandedTo(o, q)' = HandedTo(o, q)
    BY <1>1, <1>4, <2>2, SendP2PHands
  <2>7. Completed(p) < Len(Schedule)
    BY <1>2, <2>1, ScheduleType
  <2> QED
    BY <2>4, <2>5, <2>6, <2>7, HandStep
<1>5. ASSUME NEW p \in Party, Take(p) PROVE Lock!Next \/ UNCHANGED <<Stage, Handed>>
  <2>1. CASE NextPeer(p, i[p]) > N
    <3>1. /\ Completed(p) = round[p] - 1 /\ Completed(p)' = Completed(p) + 1
          /\ Completed(p) < Len(Schedule)
      BY <1>1, <1>2, <1>5, <2>1, TakeHands, ScheduleType
    <3>2. \A q \in Others(p) : HandedTo(p, q) = round[p]
      BY <1>5 DEF Take, HandedTo
    <3>3. \A q \in Others(p) : HandedTo(q, p) >= round[p]
      <4>1. pc[p] = "poll" /\ answer[p].tag = "found"
        BY <1>5 DEF Take
      <4>2. /\ i[p] \in Others(p)
            /\ \A j \in Others(p) : j <= i[p] => HandedTo(j, p) >= round[p]
        BY <1>1, <4>1, AnswersRead DEF IsHanded
      <4>3. \A j \in Others(p) : j < NextPeer(p, i[p]) <=> j <= i[p]
        BY <4>2, LoopIndices
      <4>4. NextPeer(p, i[p]) \in Int
        BY <4>2, LoopIndices DEF Others
      <4> QED
        BY <2>1, <4>2, <4>3, <4>4, RoundsAssumption DEF Others, Party
    <3>4. \A q \in Others(p) : HandedTo(q, p) \in Nat
      BY <1>1, CountsType DEF Others
    <3>5. \A q \in Others(p) : HandedTo(p, q) > Completed(p) /\ HandedTo(q, p) > Completed(p)
      BY <1>2, <3>1, <3>2, <3>3, <3>4
    <3>6. /\ \A o \in Others(p) : Completed(o)' = Completed(o)
          /\ \A o \in Party : \A q \in Others(o) : HandedTo(o, q)' = HandedTo(o, q)
      BY <1>1, <1>5, TakeHands
    <3> QED
      BY <3>1, <3>5, <3>6, CompleteStep
  <2>2. CASE ~ (NextPeer(p, i[p]) > N)
    <3>1. /\ \A o \in Party : Completed(o)' = Completed(o)
          /\ \A o \in Party : \A q \in Others(o) : HandedTo(o, q)' = HandedTo(o, q)
      BY <1>1, <1>5, <2>2, TakeHands DEF Others
    <3> QED
      BY <3>1, StageStays, HandedStays
  <2> QED
    BY <2>1, <2>2
<1>6. CASE UNCHANGED loopVars
  BY <1>6, FrameHands, StageStays, HandedStays DEF Others
<1> QED
  BY <1>3, <1>4, <1>5, <1>6, StepKinds

LEMMA InitRefines == Init => Lock!Init
<1> SUFFICES ASSUME Init PROVE Lock!Init
  OBVIOUS
<1>1. \A p \in Party : Completed(p) = 0
  BY DEF Init, Completed
<1>2. ASSUME NEW p \in Party, NEW q \in Others(p) PROVE HandedTo(p, q) = 0
  BY LoopIndices DEF Init, HandedTo
<1> QED
  BY <1>1, <1>2 DEF Lock!Init, Lock!Party, Party, Others

\* The rounds of every protocol are in lock step: a party that completes a round
\* has handed its message to all the others and has one from each of them.
THEOREM LockStepImplemented ==
    ASSUME DistinctNames
    PROVE  Spec => ImplementsLockStep
<1>1. IInv /\ [Next]_vars => [Lock!Next]_<<Stage, Handed>>
  BY StepRefines
<1> QED
  BY Invariance, InitRefines, <1>1, PTL DEF Spec, ImplementsLockStep, Lock!Spec, Stage, Handed

-----------------------------------------------------------------------------
(***************************************************************************)
(* The four protocols of the program: their schedules satisfy what the      *)
(* theorems ask of a schedule, so vectors are in place and commitments      *)
(* precede openings for every number of parties.                            *)
(***************************************************************************)
\* The rounds of the key generations, written out.
LEMMA KeygenRounds ==
    /\ Len(EcdsaKeygen) = 7
    /\ EcdsaKeygen[1] = ToAll("round0_chain_code") /\ EcdsaKeygen[2] = ToAll("round1_chain_code")
    /\ EcdsaKeygen[3] = ToAll("round1") /\ EcdsaKeygen[4] = ToAll("round2")
    /\ EcdsaKeygen[5] = ToEach("round3")
    /\ EcdsaKeygen[6] = ToAll("round4") /\ EcdsaKeygen[7] = ToAll("round5")
<1> DEFINE S == {ChainCode[1], ChainCode[2], KeygenTail[1], KeygenTail[2],
                 KeygenTail[3], KeygenTail[4], KeygenTail[5]}
<1>1. Len(ChainCode) = 2 /\ ChainCode = <<ChainCode[1], ChainCode[2]>>
  BY DEF ChainCode
<1>2. /\ Len(KeygenTail) = 5
      /\ KeygenTail = <<KeygenTail[1], KeygenTail[2], KeygenTail[3], KeygenTail[4], KeygenTail[5]>>
  BY DEF KeygenTail
<1>3. ChainCode \in Seq(S) /\ KeygenTail \in Seq(S)
  <2>1. /\ ChainCode[1] \in S /\ ChainCode[2] \in S
        /\ KeygenTail[1] \in S /\ KeygenTail[2] \in S /\ KeygenTail[3] \in S
        /\ KeygenTail[4] \in S /\ KeygenTail[5] \in S
    OBVIOUS
  <2> HIDE DEF S
  <2>2. <<ChainCode[1], ChainCode[2]>> \in Seq(S)
    BY <2>1
  <2>3. <<KeygenTail[1], KeygenTail[2], KeygenTail[3], KeygenTail[4], KeygenTail[5]>> \in Seq(S)
    BY <2>1
  <2> QED
    BY <1>1, <1>2, <2>2, <2>3
<1> HIDE DEF S
<1>4. /\ Len(EcdsaKeygen) = 7
      /\ \A k \in 1 .. 7 : EcdsaKeygen[k] = IF k <= 2 THEN ChainCode[k] ELSE KeygenTail[k - 2]
  <2>1. /\ Len(ChainCode \o KeygenTail) = Len(ChainCode) + Len(KeygenTail)
        /\ \A k \in 1 .. Len(ChainCode) + Len(KeygenTail) :
              (ChainCode \o KeygenTail)[k] =
                  IF k <= Len(ChainCode) THEN ChainCode[k] ELSE KeygenTail[k - Len(ChainCode)]
    BY <1>3, ConcatProperties
  <2>2. Len(ChainCode) = 2 /\ Len(KeygenTail) = 5 /\ Len(ChainCode) + Len(KeygenTail) = 7
    BY <1>1, <1>2
  <2> QED
    BY <2>1, <2>2 DEF EcdsaKeygen
<1>5. /\ EcdsaKeygen[1] = ChainCode[1] /\ EcdsaKeygen[2] = ChainCode[2]
      /\ EcdsaKeygen[3] = KeygenTail[1] /\ EcdsaKeygen[4] = KeygenTail[2]
      /\ EcdsaKeygen[5] = KeygenTail[3] /\ EcdsaKeygen[6] = KeygenTail[4]
      /\ EcdsaKeygen[7] = KeygenTail[5]
  BY <1>4
<1> QED
  BY <1>4, <1>5 DEF ChainCode, KeygenTail

\* No round of a key generation has the name of another (the chain code has its
\* own names), and the keys are opened after they are committed to.
LEMMA KeygenSchedule ==
    ASSUME Schedule = EcdsaKeygen, Reveals = KeygenReveals
    PROVE  DistinctNames /\ RevealsOrdered
<1>1. Len(Schedule) = 7
  BY KeygenRounds
<1>2. /\ Schedule[1].name = "round0_chain_code" /\ Schedule[2].name = "round1_chain_code"
      /\ Schedule[3].name = "round1" /\ Schedule[4].name = "round2"
      /\ Schedule[5].name = "round3" /\ Schedule[6].name = "round4"
      /\ Schedule[7].name = "round5"
  BY KeygenRounds DEF ToAll, ToEach
<1>3. \A r \in RoundNo : r \in {1, 2, 3, 4, 5, 6, 7}
  BY <1>1 DEF RoundNo
<1>4. DistinctNames
  BY <1>2, <1>3 DEF DistinctNames
<1>5. RevealsOrdered
  BY <1>2, <1>3 DEF RevealsOrdered, KeygenReveals
<1> QED
  BY <1>4, <1>5

\* The same of the ten rounds of ECDSA signing.
LEMMA EcdsaSignSchedule ==
    ASSUME Schedule = EcdsaSign, Reveals = EcdsaSignReveals
    PROVE  DistinctNames /\ RevealsOrdered
<1>1. Len(Schedule) = 10
  BY DEF EcdsaSign
<1>2. /\ Schedule[1].name = "round0" /\ Schedule[2].name = "round1"
      /\ Schedule[3].name = "round2" /\ Schedule[4].name = "round3"
      /\ Schedule[5].name = "round4" /\ Schedule[6].name = "round5"
      /\ Schedule[7].name = "round6" /\ Schedule[8].name = "round7"
      /\ Schedule[9].name = "round8" /\ Schedule[10].name = "round9"
  BY DEF EcdsaSign, ToAll, ToEach
<1>3. \A r \in RoundNo : r \in {1, 2, 3, 4, 5, 6, 7, 8, 9, 10}
  BY <1>1 DEF RoundNo
<1>4. DistinctNames
  BY <1>2, <1>3 DEF DistinctNames
<1>5. RevealsOrdered
  BY <1>2, <1>3 DEF RevealsOrdered, EcdsaSignReveals
<1> QED
  BY <1>4, <1>5

\* And of the six of EdDSA signing.
LEMMA EddsaSignSchedule ==
    ASSUME Schedule = EddsaSign
    PROVE  DistinctNames
<1>1. Len(Schedule) = 6
  BY DEF EddsaSign
<1>2. /\ Schedule[1].name = "round0" /\ Schedule[2].name = "eph_keygen_round1"
      /\ Schedule[3].name = "eph_keygen_round2" /\ Schedule[4].name = "eph_keygen_round3"
      /\ Schedule[5].name = "eph_keygen_round4" /\ Schedule[6].name = "round1_local_sig"
  BY DEF EddsaSign, ToAll, ToEach
<1>3. \A r \in RoundNo : r \in {1, 2, 3, 4, 5, 6}
  BY <1>1 DEF RoundNo
<1> QED
  BY <1>2, <1>3 DEF DistinctNames

\* ECDSA and EdDSA key generation, with any number of parties: every vector is in
\* place, and no key is opened before all parties have committed to theirs.
THEOREM KeygenCorrect ==
    ASSUME Schedule = EcdsaKeygen \/ Schedule = EddsaKeygen, Reveals = KeygenReveals
    PROVE  Spec => [](VectorInPlace /\ RevealsFollowCommitments)
<1>1. Schedule = EcdsaKeygen
  BY DEF EcdsaKeygen, EddsaKeygen
<1>2. DistinctNames /\ RevealsOrdered
  BY <1>1, KeygenSchedule
<1>3. (Spec => []VectorInPlace) /\ (Spec => []RevealsFollowCommitments)
  BY <1>2, VectorsInPlace, CommitmentsBeforeReveals
<1> QED
  BY <1>3, PTL

\* ECDSA signing: every vector is in place, and gamma_i and the commitments of
\* phases 5A and 5C are opened only when all parties have committed.
THEOREM EcdsaSignCorrect ==
    ASSUME Schedule = EcdsaSign, Reveals = EcdsaSignReveals
    PROVE  Spec => [](VectorInPlace /\ RevealsFollowCommitments)
<1>1. DistinctNames /\ RevealsOrdered
  BY EcdsaSignSchedule
<1>2. (Spec => []VectorInPlace) /\ (Spec => []RevealsFollowCommitments)
  BY <1>1, VectorsInPlace, CommitmentsBeforeReveals
<1> QED
  BY <1>2, PTL

\* EdDSA signing: every vector is in place.
THEOREM EddsaSignCorrect ==
    ASSUME Schedule = EddsaSign
    PROVE  Spec => []VectorInPlace
  BY EddsaSignSchedule, VectorsInPlace

=============================================================================
