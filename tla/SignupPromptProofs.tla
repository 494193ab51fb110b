------------------------- MODULE SignupPromptProofs -------------------------
(***************************************************************************)
(* Proofs about SignupSignPrompt: what the signup promises when its clients *)
(* are prompt.  The time that passes between two answers is bounded by the  *)
(* requests of a process that can still ping for it; and when nothing fails *)
(* either, every seat of a room belongs to a process that still waits until *)
(* the room is closed, so nobody is counted twice or left out.              *)
(***************************************************************************)
EXTENDS SignupSignPrompt, SignupSignProofs

Waits(p) == pc[p] \in {"sleep", "poll"}

IsOpen == room.last_stage = "signup"

\* The requests p has under way, those it gave up included.
Pending(p) == {q \in requests : q.proc = p}

\* How often the manager can still hear of p, or its answer reach p.
Asked(p) == Cardinality(Pending(p))
Answers(p) == IF reply[p] # NoReply THEN 1 ELSE 0
Pings(p) == IF HasPinged(p) THEN 1 ELSE 0

\* Each failed exchange of a live process may have left a request behind.
AskedInv(p) ==
    pc[p] \notin {"panicked", "crashed", "ready"} =>
        Asked(p) + Answers(p) <= faults + (IF Awaiting(p) THEN 1 ELSE 0)

\* A second passes only when p has pinged in it, with a request that is then gone.
WaitInv(p) ==
    Waits(p) =>
        (now - signup[p].since) + Asked(p) + Pings(p)
            <= ClientTimeout + faults + (IF pc[p] = "sleep" THEN 1 ELSE 2)

BoundInv ==
    \A p \in Proc : IsFiniteSet(Pending(p)) /\ AskedInv(p) /\ WaitInv(p)

-----------------------------------------------------------------------------
\* A ping changes one member's last ping, and closes the room if it completes it.
LEMMA PingedRoom ==
    ASSUME NEW r, RoomTyped(r), NEW n \in Members(r), now \in Nat
    PROVE  LET s == UpdatePing(r, n, now)
               t == [s EXCEPT !.last_stage = r.last_stage]
           IN  /\ Members(s) = Members(r) /\ Members(t) = Members(r)
               /\ s.room_size = r.room_size /\ t.room_size = r.room_size
               /\ t.member_info = s.member_info
               /\ s.last_stage = IF EnoughActive(t, now) THEN "terminated" ELSE r.last_stage
               /\ s.member_info[n] = [r.member_info[n] EXCEPT !.last_ping = now]
               /\ s.member_info[n].last_ping = now
               /\ \A m \in Members(r) : m # n => s.member_info[m] = r.member_info[m]
<1> DEFINE f == [r.member_info EXCEPT ![n] = [@ EXCEPT !.last_ping = now]]
           t == [r EXCEPT !.member_info[n].last_ping = now]
           s == UpdatePing(r, n, now)
<1>1. /\ r.member_info \in [Members(r) -> MemberInfo]
      /\ r = [room_uuid |-> r.room_uuid, room_size |-> r.room_size,
              member_info |-> r.member_info, last_stage |-> r.last_stage]
  BY RoomFields
<1>2. t = [room_uuid |-> r.room_uuid, room_size |-> r.room_size,
           member_info |-> f, last_stage |-> r.last_stage]
  BY <1>1
<1>3. /\ DOMAIN f = Members(r) /\ f[n] = [r.member_info[n] EXCEPT !.last_ping = now]
      /\ f[n].last_ping = now
      /\ \A m \in Members(r) : m # n => f[m] = r.member_info[m]
  BY <1>1 DEF MemberInfo
<1>4. s = IF EnoughActive(t, now) THEN [t EXCEPT !.last_stage = "terminated"] ELSE t
  BY DEF UpdatePing, CloseSignupWindow
<1> HIDE DEF f, t, s
<1>5. /\ s.room_size = r.room_size /\ s.member_info = f
      /\ s.last_stage = IF EnoughActive(t, now) THEN "terminated" ELSE r.last_stage
      /\ [s EXCEPT !.last_stage = r.last_stage] = t
  BY <1>2, <1>4
<1>6. Members(s) = Members(r) /\ Members(t) = Members(r)
  BY <1>2, <1>3, <1>5 DEF Members
<1> QED
  BY <1>2, <1>3, <1>5, <1>6 DEF s

\* What serving a request does to the room: nothing; its sender's ping; or a new
\* seat in the room that takes signups.
LEMMA ServeRoom ==
    ASSUME IInv, NEW q \in requests, Serve(q)
    PROVE  LET n == NumberOf(q)
           IN  \/ UNCHANGED managerVars
               \/ /\ Ping(q) /\ CurrentRoom(q) = room /\ IsOpen
                  /\ n \in Members(room)
                  /\ q.party_uuid # NoUuid /\ room.member_info[n].party_id = q.party_uuid
                  /\ room' = UpdatePing(room, n, now)
               \/ /\ ReachesSignup(q) /\ IsNew(q)
                  /\ \/ CurrentRoom(q) = room /\ IsOpen
                     \/ Members(CurrentRoom(q)) = {}
                  /\ \E info \in MemberInfo :
                        /\ info.party_id = nextUuid + 1 /\ info.last_ping = now
                        /\ room' = SetMember(CurrentRoom(q), n, info)
<1> DEFINE n == NumberOf(q)
<1>1. TypeOK /\ RoomInv
  BY DEF IInv
<1>2. nextUuid + 1 \in Nat /\ now \in Nat
  BY <1>1, Typed
<1>3. CASE Ping(q)
  <2>1. ReachesSignup(q) /\ Holds(q, CurrentRoom(q)) /\ q.party_uuid # NoUuid
    BY <1>3 DEF Ping, IsNew
  <2>2. CurrentRoom(q) = room /\ room.last_stage = "signup"
    BY <1>1, <2>1, CurrentRoomFacts DEF Holds, HasMember
  <2> QED
    BY <1>3, <2>1, <2>2 DEF Ping, Store, Holds, HasMember, IsOpen
<1>4. CASE ReplaceTimedOutParty(q) \/ JoinRoom(q)
  <2>1. ReachesSignup(q) /\ IsNew(q)
    BY <1>4 DEF ReplaceTimedOutParty, JoinRoom, Admitted
  <2>2. /\ RoomTyped(CurrentRoom(q)) /\ Roster(CurrentRoom(q), nextUuid + 1, now)
        /\ CurrentRoom(q).last_stage = "signup"
        /\ Members(CurrentRoom(q)) = {} \/ CurrentRoom(q) = room
    BY <1>1, <2>1, CurrentRoomFacts
  <2>3. \E info \in MemberInfo :
           /\ info.party_id = nextUuid + 1 /\ info.last_ping = now
           /\ room' = SetMember(CurrentRoom(q), n, info)
    <3>1. CASE ReplaceTimedOutParty(q)
      <4> DEFINE order == CurrentRoom(q).member_info[n].party_order
                 info == Member(nextUuid + 1, order, now)
      <4>1. n \in Members(CurrentRoom(q))
        BY <3>1 DEF ReplaceTimedOutParty
      <4>2. order \in Order
        <5> HIDE DEF n
        <5> QED
          BY <2>2, <4>1, RoomFields DEF MemberInfo
      <4>3. room' = SetMember(CurrentRoom(q), n, info)
        BY <3>1 DEF ReplaceTimedOutParty, Store, ReplaceParty
      <4> HIDE DEF order
      <4>4. info \in MemberInfo /\ info.party_id = nextUuid + 1 /\ info.last_ping = now
        BY <1>2, <4>2 DEF Member, MemberInfo
      <4> QED
        BY <4>3, <4>4
    <3>2. CASE JoinRoom(q)
      <4> DEFINE order == NextOrder(CurrentRoom(q))
                 info == Member(nextUuid + 1, order, now)
      <4>1. order \in Order
        BY <2>2, FS_CardinalityType DEF Roster, NextOrder, Order
      <4>2. room' = SetMember(CurrentRoom(q), n, info)
        BY <3>2 DEF JoinRoom, Store, AddParty
      <4> HIDE DEF order
      <4>3. info \in MemberInfo /\ info.party_id = nextUuid + 1 /\ info.last_ping = now
        BY <1>2, <4>1 DEF Member, MemberInfo
      <4> QED
        BY <4>2, <4>3
    <3> QED
      BY <1>4, <3>1, <3>2
  <2> QED
    BY <2>1, <2>2, <2>3 DEF IsOpen
<1>5. CASE UNCHANGED managerVars
  BY <1>5
<1> QED
  BY <1>3, <1>4, <1>5 DEF Serve, ServeClosedRoom, RefuseClosedRoom, RefuseFullRoom,
     RefuseUnknownParty, RefuseActiveParty, Refuse

-----------------------------------------------------------------------------
(***************************************************************************)
(* The bound on a wait.                                                     *)
(***************************************************************************)

\* The identity p waits with is presented by p alone, and is not the next one.
LEMMA OwnIdentity ==
    ASSUME IInv, NEW p \in Proc, Waits(p)
    PROVE  /\ signup[p].party_uuid \in Nat /\ signup[p].party_uuid # NoUuid
           /\ signup[p].party_uuid # nextUuid + 1
           /\ \A q \in requests : q.party_uuid = signup[p].party_uuid => q.proc = p
<1> DEFINE w == signup[p].party_uuid
<1>1. TypeOK /\ OwnerInv /\ KnowledgeOf(p)
  BY DEF IInv, ClientInv
<1>2. w # NoUuid /\ w \in Nat /\ Owns(p, w)
  BY <1>1, RequestOwned DEF Waits, KnowledgeOf, TypeOK
<1>3. w < nextUuid /\ nextUuid \in Nat
  BY <1>1, <1>2, Typed DEF OwnerInv
<1>4. ASSUME NEW q \in requests, q.party_uuid = w PROVE q.proc = p
  BY <1>1, <1>2, <1>4, NumberType DEF OwnerInv, Owns
<1> QED
  BY <1>2, <1>3, <1>4

\* Nobody's request but p's own is a ping of p.
LEMMA OthersDoNotPing ==
    ASSUME IInv, NEW q \in requests, Serve(q), NEW p \in Proc, Waits(p), q.proc # p, HasPinged(p)'
    PROVE  HasPinged(p)
<1> DEFINE m == PartyNumber[p]
           n == NumberOf(q)
           w == signup[p].party_uuid
<1>1. TypeOK /\ now \in Nat /\ RoomTyped(room)
  BY Typed DEF IInv
<1>2. /\ now' = now /\ signup' = signup
      /\ m \in Members(room') /\ room'.member_info[m].party_id = w /\ room'.member_info[m].last_ping = now
  BY DEF Serve, clientVars, HasPinged, HasMember
<1>3. w # nextUuid + 1 /\ (q.party_uuid = w => q.proc = p)
  BY OwnIdentity
<1> HIDE DEF m, n, w
<1>4. CASE UNCHANGED managerVars
  BY <1>2, <1>4 DEF managerVars, HasPinged, HasMember, m, w
<1>5. CASE /\ n \in Members(room) /\ room.member_info[n].party_id = q.party_uuid
           /\ room' = UpdatePing(room, n, now)
  <2>0. Members(room') = Members(room)
    BY <1>1, <1>5, UpdatePingFacts
  <2>1. /\ m \in Members(room)
        /\ room'.member_info[m].party_id = room.member_info[m].party_id
        /\ m # n => room'.member_info[m] = room.member_info[m]
    <3>1. room'.member_info[m].party_id = room.member_info[m].party_id
      BY <1>1, <1>2, <1>5, <2>0, UpdatePingFacts
    <3>2. m # n => room'.member_info[m] = room.member_info[m]
      <4>1. \A k \in Members(room) :
              k # n => UpdatePing(room, n, now).member_info[k] = room.member_info[k]
        BY <1>1, <1>5, PingedRoom
      <4> QED
        BY <1>2, <1>5, <2>0, <4>1
    <3> QED
      BY <1>2, <2>0, <3>1, <3>2
  <2> QED
    BY <1>2, <1>3, <1>5, <2>1 DEF HasPinged, HasMember, m, w
<1>6. CASE /\ ReachesSignup(q)
           /\ CurrentRoom(q) = room \/ Members(CurrentRoom(q)) = {}
           /\ \E info \in MemberInfo :
                 info.party_id = nextUuid + 1 /\ room' = SetMember(CurrentRoom(q), n, info)
  <2>1. PICK info \in MemberInfo :
           info.party_id = nextUuid + 1 /\ room' = SetMember(CurrentRoom(q), n, info)
    BY <1>6
  <2>2. RoomTyped(CurrentRoom(q)) /\ n \in PartyNumbers
    BY <1>6, NumberType, CurrentRoomFacts DEF IInv, n
  <2>3. /\ Members(room') = Members(CurrentRoom(q)) \cup {n}
        /\ room'.member_info[n] = info
        /\ \A k \in Members(CurrentRoom(q)) :
              k # n => room'.member_info[k] = CurrentRoom(q).member_info[k]
    BY <2>1, <2>2, SetMemberFacts
  <2>4. m # n
    BY <1>2, <1>3, <2>1, <2>3
  <2> QED
    BY <1>2, <1>6, <2>3, <2>4 DEF HasPinged, HasMember, m, w
<1> QED
  BY <1>4, <1>5, <1>6, ServeRoom DEF n

\* Requests that are given up are still as many.
LEMMA AbandonedCount ==
    ASSUME TypeOK, NEW p \in Proc, NEW o \in Proc, IsFiniteSet(Pending(o))
    PROVE  LET left == {q \in Abandoned(p) : q.proc = o}
           IN  /\ IsFiniteSet(left)
               /\ Cardinality(left) <= Asked(o)
               /\ Cardinality(left) \in Nat
<1> DEFINE left == {q \in Abandoned(p) : q.proc = o}
           f == [q \in Pending(o) |-> IF o = p THEN [q EXCEPT !.live = FALSE] ELSE q]
<1>1. \A q \in requests : [q EXCEPT !.live = FALSE].proc = q.proc
  BY Typed DEF Requests
<1>2. f \in Surjection(Pending(o), left)
  BY <1>1 DEF Surjection, Pending, Abandoned
<1> HIDE DEF f, left
<1>3. IsFiniteSet(left) /\ Cardinality(left) <= Cardinality(Pending(o))
  BY <1>2, FS_Surjection
<1> QED
  BY <1>3, FS_CardinalityType DEF left, Asked

LEMMA CountTypes ==
    ASSUME TypeOK, NEW p \in Proc, IsFiniteSet(Pending(p))
    PROVE  /\ Asked(p) \in Nat /\ Answers(p) \in 0 .. 1 /\ Pings(p) \in 0 .. 1
           /\ now \in Nat /\ signup[p].since \in Nat /\ faults \in Nat /\ ClientTimeout \in Nat
  BY FS_CardinalityType, SignupSignAssumption DEF TypeOK, Asked, Answers, Pings

\* Serving p's request turns it into an answer, and possibly a ping.
LEMMA ServeBound ==
    ASSUME IInv, BoundInv, NEW q \in requests, Serve(q), NEW p \in Proc
    PROVE  (IsFiniteSet(Pending(p)) /\ AskedInv(p) /\ WaitInv(p))'
<1>1. /\ TypeOK /\ IsFiniteSet(Pending(p)) /\ AskedInv(p) /\ WaitInv(p)
      /\ q.proc \in Proc /\ reply \in [Proc -> Replies] /\ LiveInv
  BY NumberType DEF IInv, BoundInv, TypeOK, ClientInv
<1>2. /\ requests' = requests \ {q} /\ pc' = pc /\ signup' = signup
      /\ now' = now /\ faults' = faults
  BY DEF Serve, clientVars
<1>3. reply'[p] = reply[p] \/ (q.proc = p /\ q.live)
  BY <1>1 DEF Serve, ServeClosedRoom, RefuseClosedRoom, RefuseFullRoom, RefuseUnknownParty,
     Ping, RefuseActiveParty, ReplaceTimedOutParty, JoinRoom, Refuse, Answer
<1>4. CASE q.proc = p
  <2>1. Pending(p)' = Pending(p) \ {q} /\ q \in Pending(p)
    BY <1>2, <1>4 DEF Pending
  <2>2. IsFiniteSet(Pending(p)') /\ Asked(p)' = Asked(p) - 1
    BY <1>1, <2>1, FS_RemoveElement DEF Asked
  <2>3. /\ Asked(p) \in Nat /\ Answers(p)' \in 0 .. 1 /\ Pings(p)' \in 0 .. 1 /\ Pings(p) \in 0 .. 1
        /\ now \in Nat /\ signup[p].since \in Nat /\ faults \in Nat /\ ClientTimeout \in Nat
        /\ Answers(p) \in 0 .. 1
    BY <1>1, CountTypes DEF Answers, Pings
  <2>4. q.live => reply[p] = NoReply
    BY <1>1, <1>4 DEF LiveInv
  <2>5. Answers(p)' <= Answers(p) + 1
    BY <2>3
  <2>6. AskedInv(p)'
    BY <1>1, <1>2, <2>2, <2>3, <2>5 DEF AskedInv, Awaiting
  <2>7. WaitInv(p)'
    BY <1>1, <1>2, <2>2, <2>3 DEF WaitInv, Waits
  <2> QED
    BY <2>2, <2>6, <2>7
<1>5. CASE q.proc # p
  <2>1. Pending(p)' = Pending(p)
    BY <1>2, <1>5 DEF Pending
  <2>2. reply'[p] = reply[p] /\ Asked(p)' = Asked(p) /\ Answers(p)' = Answers(p)
    BY <1>3, <1>5, <2>1 DEF Asked, Answers
  <2>3. /\ Asked(p) \in Nat /\ Pings(p)' \in 0 .. 1 /\ Pings(p) \in 0 .. 1
        /\ now \in Nat /\ signup[p].since \in Nat /\ faults \in Nat /\ ClientTimeout \in Nat
    BY <1>1, CountTypes DEF Pings
  <2>4. Waits(p) => Pings(p)' <= Pings(p)
    BY <1>5, OthersDoNotPing DEF Pings
  <2>5. AskedInv(p)'
    BY <1>1, <1>2, <2>2 DEF AskedInv, Awaiting
  <2>6. WaitInv(p)'
    BY <1>1, <1>2, <2>2, <2>3, <2>4 DEF WaitInv, Waits
  <2> QED
    BY <1>1, <2>1, <2>5, <2>6
<1> QED
  BY <1>4, <1>5

\* What the step of another process leaves alone.
LEMMA OthersStep ==
    ASSUME IInv, NEW q \in Proc, Client(q), NEW p \in Proc, p # q, IsFiniteSet(Pending(p))
    PROVE  /\ pc'[p] = pc[p] /\ signup'[p] = signup[p] /\ reply'[p] = reply[p]
           /\ room' = room /\ now' = now /\ faults' \in {faults, faults + 1}
           /\ IsFiniteSet(Pending(p)') /\ Asked(p)' <= Asked(p) /\ Asked(p)' \in Nat
<1>1. /\ TypeOK /\ pc \in [Proc -> PC] /\ signup \in [Proc -> Signups] /\ reply \in [Proc -> Replies]
  BY DEF IInv, TypeOK, Signups
<1> DEFINE left == {x \in Abandoned(q) : x.proc = p}
<1>2. IsFiniteSet(left) /\ Cardinality(left) <= Asked(p) /\ Cardinality(left) \in Nat
  BY <1>1, AbandonedCount
<1>3. Asked(p) \in Nat
  BY <1>1, CountTypes
<1>4. \A n, u : Request(q, n, u).proc = q
  BY DEF Request
<1> HIDE DEF left
<1>5. Pending(p)' \in {Pending(p), left}
  <2>1. requests' = requests => Pending(p)' = Pending(p)
    BY DEF Pending
  <2>2. ASSUME NEW n, NEW u, requests' = requests \cup {Request(q, n, u)}
        PROVE  Pending(p)' = Pending(p)
    BY <1>4, <2>2 DEF Pending
  <2>3. requests' = Abandoned(q) => Pending(p)' = left
    BY DEF Pending, left
  <2>4. ASSUME NEW n, NEW u, requests' = Abandoned(q) \cup {Request(q, n, u)}
        PROVE  Pending(p)' = left
    BY <1>4, <2>4 DEF Pending, left
  <2> QED
    BY <2>1, <2>2, <2>3, <2>4 DEF Client, Start, Poll, ReceiveSignup, ReceivePoll, ReceiveError,
       SendFails, Crash, KeepsLoopingWith, Dies
<1>6. IsFiniteSet(Pending(p)') /\ Asked(p)' <= Asked(p) /\ Asked(p)' \in Nat
  BY <1>2, <1>3, <1>5 DEF Asked
<1>7. /\ pc'[p] = pc[p] /\ signup'[p] = signup[p] /\ reply'[p] = reply[p]
      /\ room' = room /\ now' = now /\ faults' \in {faults, faults + 1}
  BY <1>1 DEF Client, Start, Poll, ReceiveSignup, ReceivePoll, ReceiveError, SendFails, Crash,
     KeepsLoopingWith, Dies, managerVars
<1> QED
  BY <1>6, <1>7

LEMMA OthersBound ==
    ASSUME IInv, BoundInv, NEW q \in Proc, Client(q), NEW p \in Proc, p # q
    PROVE  (IsFiniteSet(Pending(p)) /\ AskedInv(p) /\ WaitInv(p))'
<1>1. /\ TypeOK /\ IsFiniteSet(Pending(p)) /\ AskedInv(p) /\ WaitInv(p)
  BY DEF IInv, BoundInv
<1>2. /\ pc'[p] = pc[p] /\ signup'[p] = signup[p] /\ reply'[p] = reply[p]
      /\ room' = room /\ now' = now /\ faults' \in {faults, faults + 1}
      /\ IsFiniteSet(Pending(p)') /\ Asked(p)' <= Asked(p) /\ Asked(p)' \in Nat
  BY <1>1, OthersStep
<1>3. /\ Asked(p) \in Nat /\ Answers(p) \in 0 .. 1 /\ Pings(p) \in 0 .. 1
      /\ now \in Nat /\ signup[p].since \in Nat /\ faults \in Nat /\ ClientTimeout \in Nat
  BY <1>1, CountTypes
<1>4. Answers(p)' = Answers(p) /\ Pings(p)' = Pings(p)
  BY <1>2 DEF Answers, Pings, HasPinged, HasMember, Members
<1>5. AskedInv(p)'
  BY <1>1, <1>2, <1>3, <1>4 DEF AskedInv, Awaiting
<1>6. WaitInv(p)'
  BY <1>1, <1>2, <1>3, <1>4 DEF WaitInv, Waits
<1> QED
  BY <1>2, <1>5, <1>6

\* p goes on with its loop: its answer is gone, and the time it has waited is
\* within the limit.
LEMMA LearnBound ==
    ASSUME IInv, BoundInv, NEW p \in Proc, Awaiting(p), reply[p].tag = "ok",
           NEW s \in Signups, s.uuid = NoUuid => now - s.since <= ClientTimeout,
           KeepsLoopingWith(p, s), reply' = [reply EXCEPT ![p] = NoReply],
           UNCHANGED <<now, managerVars, faults, crashes>>
    PROVE  (IsFiniteSet(Pending(p)) /\ AskedInv(p) /\ WaitInv(p))'
<1>1. /\ TypeOK /\ IsFiniteSet(Pending(p)) /\ AskedInv(p) /\ WaitInv(p)
      /\ pc \in [Proc -> PC] /\ signup \in [Proc -> Signups] /\ reply \in [Proc -> Replies]
  BY DEF IInv, BoundInv, TypeOK, Signups
<1>2. /\ pc'[p] = IF s.uuid = NoUuid THEN "sleep" ELSE "ready"
      /\ signup'[p] = s /\ reply'[p] = NoReply /\ requests' = requests
      /\ now' = now /\ faults' = faults
  BY <1>1 DEF KeepsLoopingWith
<1>3. Pending(p)' = Pending(p) /\ Asked(p)' = Asked(p) /\ Answers(p)' = 0 /\ Pings(p)' \in 0 .. 1
  BY <1>2 DEF Pending, Asked, Answers, Pings
<1>4. /\ Asked(p) \in Nat /\ Answers(p) = 1
      /\ now \in Nat /\ s.since \in Nat /\ faults \in Nat /\ ClientTimeout \in Nat
  BY <1>1, CountTypes DEF Answers, NoReply, Signups
<1>5. Asked(p) <= faults
  BY <1>1, <1>4 DEF AskedInv, Awaiting
<1>6. AskedInv(p)'
  BY <1>2, <1>3, <1>4, <1>5 DEF AskedInv, Awaiting
<1>7. WaitInv(p)'
  BY <1>2, <1>3, <1>4, <1>5 DEF WaitInv, Waits
<1> QED
  BY <1>1, <1>3, <1>6, <1>7

LEMMA DieBound ==
    ASSUME IInv, BoundInv, NEW p \in Proc, NEW end \in {"panicked", "crashed"}, Dies(p, end)
    PROVE  (IsFiniteSet(Pending(p)) /\ AskedInv(p) /\ WaitInv(p))'
<1>1. TypeOK /\ IsFiniteSet(Pending(p)) /\ pc \in [Proc -> PC]
  BY DEF IInv, BoundInv, TypeOK
<1>2. pc'[p] = end /\ requests' = Abandoned(p)
  BY <1>1 DEF Dies
<1>3. IsFiniteSet(Pending(p)')
  BY <1>1, <1>2, AbandonedCount DEF Pending
<1> QED
  BY <1>2, <1>3 DEF AskedInv, WaitInv, Waits

\* p posts once more what it has given up: one request more, and one failure.
LEMMA RetryBound ==
    ASSUME IInv, BoundInv, NEW p \in Proc, Awaiting(p),
           NEW r, r.proc = p, requests' = Abandoned(p) \cup {r},
           faults' = faults + 1, reply' = [reply EXCEPT ![p] = NoReply],
           UNCHANGED <<pc, signup, now, managerVars>>
    PROVE  (IsFiniteSet(Pending(p)) /\ AskedInv(p) /\ WaitInv(p))'
<1>1. /\ TypeOK /\ IsFiniteSet(Pending(p)) /\ AskedInv(p) /\ WaitInv(p) /\ reply \in [Proc -> Replies]
  BY DEF IInv, BoundInv, TypeOK
<1> DEFINE left == {q \in Abandoned(p) : q.proc = p}
<1>2. IsFiniteSet(left) /\ Cardinality(left) <= Asked(p) /\ Cardinality(left) \in Nat
  BY <1>1, AbandonedCount
<1>3. Pending(p)' = left \cup {r}
  BY DEF Pending
<1> HIDE DEF left
<1>4. IsFiniteSet(Pending(p)') /\ Asked(p)' \in Nat /\ Asked(p)' <= Cardinality(left) + 1
  <2>1. IsFiniteSet(left \cup {r}) /\ Cardinality(left \cup {r}) \in {Cardinality(left), Cardinality(left) + 1}
    BY <1>2, FS_AddElement
  <2> QED
    BY <1>2, <1>3, <2>1 DEF Asked
<1>5. /\ Asked(p) \in Nat /\ Answers(p) \in 0 .. 1 /\ Pings(p) \in 0 .. 1
      /\ now \in Nat /\ signup[p].since \in Nat /\ faults \in Nat /\ ClientTimeout \in Nat
  BY <1>1, CountTypes
<1>6. Answers(p)' = 0 /\ Pings(p)' = Pings(p) /\ Asked(p)' <= Asked(p) + 1
  BY <1>1, <1>2, <1>4, <1>5 DEF Answers, Pings, HasPinged, HasMember, Members, managerVars
<1>7. AskedInv(p)'
  BY <1>1, <1>4, <1>5, <1>6 DEF AskedInv, Awaiting
<1>8. WaitInv(p)'
  BY <1>1, <1>4, <1>5, <1>6 DEF WaitInv, Waits
<1> QED
  BY <1>4, <1>7, <1>8

\* p asks, first or again once it has slept.
LEMMA AskBound ==
    ASSUME IInv, BoundInv, NEW p \in Proc, Start(p) \/ Poll(p)
    PROVE  (IsFiniteSet(Pending(p)) /\ AskedInv(p) /\ WaitInv(p))'
<1>1. /\ TypeOK /\ IsFiniteSet(Pending(p)) /\ AskedInv(p) /\ WaitInv(p) /\ pc \in [Proc -> PC]
  BY DEF IInv, BoundInv, TypeOK
<1>2. PICK r : r.proc = p /\ requests' = requests \cup {r}
  <2>1. \A n, u : Request(p, n, u).proc = p
    BY DEF Request
  <2> QED
    BY <2>1 DEF Start, Poll
<1>3. /\ UNCHANGED <<now, room, signup, reply, faults>>
      /\ \/ pc[p] = "idle" /\ pc'[p] = "signup"
         \/ pc[p] = "sleep" /\ pc'[p] = "poll"
  BY <1>1 DEF Start, Poll, managerVars
<1>4. Pending(p)' = Pending(p) \cup {r}
  BY <1>2 DEF Pending
<1>5. /\ Asked(p) \in Nat /\ Answers(p) \in 0 .. 1 /\ Pings(p) \in 0 .. 1
      /\ now \in Nat /\ signup[p].since \in Nat /\ faults \in Nat /\ ClientTimeout \in Nat
  BY <1>1, CountTypes
<1>6. IsFiniteSet(Pending(p)') /\ Asked(p)' \in Nat /\ Asked(p)' <= Asked(p) + 1
  <2> DEFINE old == Pending(p)
  <2>1. IsFiniteSet(old) /\ Cardinality(old) \in Nat
    BY <1>1, <1>5 DEF Asked
  <2> HIDE DEF old
  <2>2. IsFiniteSet(old \cup {r}) /\ Cardinality(old \cup {r}) \in {Cardinality(old), Cardinality(old) + 1}
    BY <2>1, FS_AddElement
  <2>3. Pending(p)' = old \cup {r} /\ Asked(p)' = Cardinality(old \cup {r})
    BY <1>4 DEF old, Asked
  <2> QED
    BY <2>1, <2>2, <2>3 DEF old, Asked
<1>7. Answers(p)' = Answers(p) /\ Pings(p)' = Pings(p)
  BY <1>3 DEF Answers, Pings, HasPinged, HasMember, Members
<1>8. AskedInv(p)'
  BY <1>1, <1>3, <1>5, <1>6, <1>7 DEF AskedInv, Awaiting
<1>9. WaitInv(p)'
  BY <1>1, <1>3, <1>5, <1>6, <1>7 DEF WaitInv, Waits
<1> QED
  BY <1>6, <1>8, <1>9

LEMMA ClientBound ==
    ASSUME IInv, BoundInv, NEW p \in Proc, Client(p)
    PROVE  (IsFiniteSet(Pending(p)) /\ AskedInv(p) /\ WaitInv(p))'
<1>1. /\ TypeOK /\ now \in Nat /\ ClientTimeout \in Nat /\ signup[p] \in Signups
      /\ reply[p].tag = "ok" => reply[p].info \in SignupInfo
  BY Typed, SignupSignAssumption DEF IInv
<1>2. CASE Start(p) \/ Poll(p)
  BY <1>2, AskBound
<1>3. CASE ReceiveSignup(p)
  <2> DEFINE s == Learnt(reply[p].info.party_uuid, reply[p].info, now)
  <2>1. s \in Signups /\ now - s.since <= ClientTimeout
    BY <1>1, <1>3 DEF ReceiveSignup, Learnt, Signups, SignupInfo, Order
  <2>2. KeepsLoopingWith(p, s) /\ Awaiting(p)
    BY <1>3 DEF ReceiveSignup, Awaiting
  <2> HIDE DEF s
  <2> QED
    BY <1>3, <2>1, <2>2, LearnBound DEF ReceiveSignup
<1>4. CASE ReceivePoll(p)
  <2> DEFINE info == reply[p].info
             since == IF info.total_joined # signup[p].total THEN now ELSE signup[p].since
             s == Learnt(signup[p].party_uuid, info, since)
  <2>1. since \in Nat
    BY <1>1 DEF Signups
  <2>2. Awaiting(p) /\ reply[p].tag = "ok"
    BY <1>4 DEF ReceivePoll, Awaiting
  <2>3. (~ IsOutOfTime(s) /\ KeepsLoopingWith(p, s)) \/ Dies(p, "panicked")
    BY <1>4 DEF ReceivePoll
  <2> HIDE DEF since
  <2>4. s \in Signups
    BY <1>1, <2>1, <2>2 DEF Learnt, Signups, SignupInfo, Order
  <2> HIDE DEF s
  <2>5. ~ IsOutOfTime(s) => (s.uuid = NoUuid => now - s.since <= ClientTimeout)
    BY <1>1, <2>4 DEF IsOutOfTime, Signups
  <2>6. CASE Dies(p, "panicked")
    BY <2>6, DieBound
  <2>7. CASE ~ IsOutOfTime(s) /\ KeepsLoopingWith(p, s)
    BY <1>4, <2>2, <2>4, <2>5, <2>7, LearnBound DEF ReceivePoll
  <2> QED
    BY <2>3, <2>6, <2>7
<1>5. CASE ReceiveError(p)
  BY <1>5, DieBound DEF ReceiveError
<1>6. CASE SendFails(p)
  <2>1. CASE Dies(p, "panicked")
    BY <2>1, DieBound
  <2>2. CASE ~ Dies(p, "panicked")
    <3> DEFINE r == Request(p, faults + 1, signup[p].party_uuid)
    <3>1. r.proc = p
      BY DEF Request
    <3>2. /\ requests' = Abandoned(p) \cup {r} /\ Awaiting(p)
          /\ faults' = faults + 1 /\ reply' = [reply EXCEPT ![p] = NoReply]
          /\ UNCHANGED <<pc, signup, now, managerVars>>
      BY <1>6, <2>2 DEF SendFails
    <3> HIDE DEF r
    <3> QED
      BY <3>1, <3>2, RetryBound
  <2> QED
    BY <2>1, <2>2
<1>7. CASE Crash(p)
  BY <1>7, DieBound DEF Crash
<1> QED
  BY <1>2, <1>3, <1>4, <1>5, <1>6, <1>7 DEF Client

\* A second passes: everybody who waits has pinged in it, and has to ping again.
LEMMA TickBound ==
    ASSUME IInv, BoundInv, PromptTick, NEW p \in Proc
    PROVE  (IsFiniteSet(Pending(p)) /\ AskedInv(p) /\ WaitInv(p))'
<1>1. /\ TypeOK /\ IsFiniteSet(Pending(p)) /\ AskedInv(p) /\ WaitInv(p) /\ now \in Nat
  BY DEF IInv, BoundInv, TypeOK
<1>2. /\ now' = now + 1 /\ UNCHANGED <<room, pc, signup, requests, reply, faults>>
      /\ Waits(p) => HasPinged(p)
  BY DEF PromptTick, Prompt, Tick, managerVars, clientVars, Waits
<1>3. /\ Asked(p) \in Nat /\ Answers(p) \in 0 .. 1
      /\ signup[p].since \in Nat /\ faults \in Nat /\ ClientTimeout \in Nat
  BY <1>1, CountTypes
<1>4. Pending(p)' = Pending(p) /\ Asked(p)' = Asked(p) /\ Answers(p)' = Answers(p)
  BY <1>2 DEF Pending, Asked, Answers
<1>5. AskedInv(p)'
  BY <1>1, <1>2, <1>4 DEF AskedInv, Awaiting
<1>6. Waits(p) => Pings(p) = 1 /\ Pings(p)' = 0
  BY <1>1, <1>2 DEF Pings, HasPinged
<1>7. WaitInv(p)'
  BY <1>1, <1>2, <1>3, <1>4, <1>6 DEF WaitInv, Waits
<1> QED
  BY <1>1, <1>4, <1>5, <1>7

\* The store forgets the room: nobody in it has pinged.
LEMMA ExpireBound ==
    ASSUME IInv, BoundInv, Expire, NEW p \in Proc
    PROVE  (IsFiniteSet(Pending(p)) /\ AskedInv(p) /\ WaitInv(p))'
<1>1. /\ TypeOK /\ IsFiniteSet(Pending(p)) /\ AskedInv(p) /\ WaitInv(p)
  BY DEF IInv, BoundInv
<1>2. /\ room' = NoRoom /\ UNCHANGED <<now, pc, signup, requests, reply, faults>>
  BY DEF Expire, clientVars
<1>3. /\ Asked(p) \in Nat /\ Answers(p) \in 0 .. 1 /\ Pings(p) \in 0 .. 1
      /\ now \in Nat /\ signup[p].since \in Nat /\ faults \in Nat /\ ClientTimeout \in Nat
  BY <1>1, CountTypes
<1>4. Pending(p)' = Pending(p) /\ Asked(p)' = Asked(p) /\ Answers(p)' = Answers(p)
  BY <1>2 DEF Pending, Asked, Answers
<1>5. Pings(p)' = 0
  BY <1>2, NoRoomFacts DEF Pings, HasPinged, HasMember, Members
<1>6. AskedInv(p)'
  BY <1>1, <1>2, <1>4 DEF AskedInv, Awaiting
<1>7. WaitInv(p)'
  BY <1>1, <1>2, <1>3, <1>4, <1>5 DEF WaitInv, Waits
<1> QED
  BY <1>1, <1>4, <1>6, <1>7

LEMMA PromptNextIInv ==
    ASSUME IInv, [PromptNext]_vars
    PROVE  IInv'
  BY NextIInv DEF PromptNext, PromptTick, Next

LEMMA NextBound ==
    ASSUME IInv, BoundInv, [PromptNext]_vars
    PROVE  BoundInv'
<1> SUFFICES ASSUME NEW p \in Proc
             PROVE  (IsFiniteSet(Pending(p)) /\ AskedInv(p) /\ WaitInv(p))'
  BY DEF BoundInv
<1>1. ASSUME NEW q \in Proc, Client(q)
      PROVE  (IsFiniteSet(Pending(p)) /\ AskedInv(p) /\ WaitInv(p))'
  BY <1>1, ClientBound, OthersBound
<1>2. CASE UNCHANGED vars
  <2>1. UNCHANGED <<now, room, pc, signup, requests, reply, faults>>
    BY <1>2 DEF vars, managerVars, clientVars
  <2>2. IsFiniteSet(Pending(p)) /\ AskedInv(p) /\ WaitInv(p)
    BY DEF BoundInv
  <2> QED
    BY <2>1, <2>2 DEF Pending, AskedInv, WaitInv, Asked, Answers, Pings, HasPinged, HasMember,
       Members, Waits, Awaiting
<1> QED
  BY <1>1, <1>2, ServeBound, ExpireBound, TickBound DEF PromptNext

\* Whatever fails, and however the parties come and go, a process that has signed
\* up and is served every second does not wait longer than its time limit, two
\* seconds and one for each failed exchange after the count of parties changed.
THEOREM WaitsBounded == PromptSpec => []WaitBounded
<1>1. Init => BoundInv
  <2> SUFFICES ASSUME Init, NEW p \in Proc
               PROVE  IsFiniteSet(Pending(p)) /\ AskedInv(p) /\ WaitInv(p)
    BY DEF BoundInv
  <2>1. Pending(p) = {} /\ Answers(p) = 0 /\ pc[p] = "idle" /\ faults = 0
    BY DEF Init, Pending, Answers
  <2> QED
    BY <2>1, FS_EmptySet DEF AskedInv, WaitInv, Asked, Waits
<1>2. IInv /\ BoundInv => WaitBounded
  <2> SUFFICES ASSUME IInv, BoundInv, NEW p \in Proc, Waits(p)
               PROVE  now - signup[p].since <= ClientTimeout + 2 + faults
    BY DEF WaitBounded, Waits
  <2>1. TypeOK /\ IsFiniteSet(Pending(p)) /\ WaitInv(p)
    BY DEF IInv, BoundInv
  <2>2. /\ Asked(p) \in Nat /\ Pings(p) \in 0 .. 1
        /\ now \in Nat /\ signup[p].since \in Nat /\ faults \in Nat /\ ClientTimeout \in Nat
    BY <2>1, CountTypes
  <2> QED
    BY <2>1, <2>2 DEF WaitInv, Waits
<1> QED
  BY <1>1, <1>2, InitIInv, PromptNextIInv, NextBound, PTL DEF PromptSpec

-----------------------------------------------------------------------------
(***************************************************************************)
(* The count of parties when nothing fails.                                 *)
(***************************************************************************)

\* Nothing has failed so far.
Quiet == crashes = 0 /\ faults = 0

\* p has a seat in a room: it waits with it, or is about to hear of it.
Comes(p) == pc[p] = "signup" /\ reply[p].tag = "ok"
Sits(p) == Waits(p) \/ Comes(p)

\* The identity under which it has the seat.
IdentityOf(p) == IF pc[p] = "signup" THEN reply[p].info.party_uuid ELSE signup[p].party_uuid

HasSeat(p) == HasMember(room, PartyNumber[p], IdentityOf(p))

LastPing(n) == room.member_info[n].last_ping

\* Every member of the room pinged in the last second or in this one.
Fresh == \A n \in Members(room) : LastPing(n) >= now - 1

\* Who sits keeps the seat, and has pinged lately.
SitInv == \A p \in Proc : Sits(p) => HasSeat(p) /\ LastPing(PartyNumber[p]) >= now - 1

\* Nobody joins after the start; until then every seat of an open room is taken.
LateInv == now > StartBy => \A p \in Proc : pc[p] \notin {"idle", "signup"}
TakenInv ==
    IsOpen /\ now <= StartBy =>
        \A n \in Members(room) : \E p \in Proc : PartyNumber[p] = n /\ Sits(p) /\ HasSeat(p)

\* An open room has no more members than it is for; the next ping of a full one
\* finds all of them active.
OpenInv ==
    IsOpen =>
        /\ Cardinality(Members(room)) <= room.room_size
        /\ IsFull(room) => stored <= StartBy /\ (Fresh \/ \A p \in Proc : ~ Waits(p))

\* A room was closed with all its members there.
ClosedInv ==
    IsTerminated =>
        /\ Cardinality(Members(room)) = room.room_size
        /\ \A n \in Members(room) : LastPing(n) >= stored - 1

\* An answer is an error or a seat for who comes, and the seat or the session for
\* who waits; the session has its room's size.
AnswerInv ==
    \A p \in Proc :
        /\ pc[p] = "poll" => reply[p].tag # "err"
        /\ pc[p] = "signup" /\ reply[p].tag = "ok" => reply[p].info.room_uuid = NoUuid
        /\ reply[p].tag = "ok" /\ reply[p].info.room_uuid # NoUuid =>
              /\ IsTerminated
              /\ reply[p].info.total_joined = RoomSize(p)
              /\ reply[p].info.party_order \in 1 .. RoomSize(p)
        /\ IsReady(p) => signup[p].total = RoomSize(p) /\ signup[p].number \in 1 .. RoomSize(p)

QuietInv ==
    /\ \A q \in requests : q.live
    /\ \A p \in Proc : room # NoRoom => room.room_size = RoomSize(p)
    /\ SitInv /\ LateInv /\ TakenInv /\ OpenInv /\ ClosedInv /\ AnswerInv

PInv == Quiet => QuietInv

\* The processes are started while the first of them still waits, and are all
\* given the same t; the manager keeps members that pinged in the last two seconds,
\* and rooms that were pinged in the last one.
PromptTiming ==
    /\ SignupTimeout >= 2 /\ Ttl >= 1
    /\ StartBy <= ClientTimeout
    /\ \A p, q \in Proc : Threshold[p] = Threshold[q]

LEMMA TimeTypes ==
    ASSUME IInv
    PROVE  /\ now \in Nat /\ stored \in Nat /\ stored <= now /\ StartBy \in Nat
           /\ SignupTimeout \in Nat /\ Ttl \in Nat /\ ClientTimeout \in Nat
           /\ RoomTyped(room) /\ IsFiniteSet(Members(room))
           /\ \A n \in Members(room) : LastPing(n) \in Nat /\ LastPing(n) <= stored
<1>1. /\ TypeOK /\ RoomInv
  BY DEF IInv
<1>2. RoomTyped(room) /\ now \in Nat /\ stored \in Nat
  BY <1>1, Typed
<1>3. \A n \in Members(room) : LastPing(n) \in Nat
  BY <1>2, RoomFields DEF LastPing, MemberInfo
<1> QED
  BY <1>1, <1>2, <1>3, SignupTimeoutAssumption, SignupSignAssumption, PromptAssumption
     DEF RoomInv, Roster, LastPing

\* Who has a seat has it in a stored room, which was pinged lately.
LEMMA Sitting ==
    ASSUME IInv, QuietInv, NEW p \in Proc, Sits(p)
    PROVE  /\ room # NoRoom /\ (IsOpen \/ IsTerminated)
           /\ PartyNumber[p] \in Members(room)
           /\ room.member_info[PartyNumber[p]].party_id = IdentityOf(p)
           /\ LastPing(PartyNumber[p]) >= now - 1 /\ stored >= now - 1
<1>1. /\ PartyNumber[p] \in Members(room)
      /\ room.member_info[PartyNumber[p]].party_id = IdentityOf(p)
      /\ LastPing(PartyNumber[p]) >= now - 1
  BY DEF QuietInv, SitInv, HasSeat, HasMember
<1>2. room # NoRoom /\ (IsOpen \/ IsTerminated)
  BY <1>1, NoRoomFacts DEF IInv, RoomInv, IsOpen, IsTerminated
<1>3. stored >= now - 1
  BY <1>1, TimeTypes
<1> QED
  BY <1>1, <1>2, <1>3

\* A member that pinged two seconds ago or later is active.
LEMMA ActiveMember ==
    ASSUME IInv, PromptTiming, NEW r, NEW n \in Members(r),
           r.member_info[n].last_ping \in Nat, r.member_info[n].last_ping >= now - 2
    PROVE  IsMemberActive(r, n, now)
  BY TimeTypes DEF PromptTiming, IsMemberActive, IsTimeout

LEMMA AllActive ==
    ASSUME IInv, PromptTiming, NEW r,
           \A n \in Members(r) : r.member_info[n].last_ping \in Nat
                                 /\ r.member_info[n].last_ping >= now - 2
    PROVE  AreAllMembersActive(r, now) /\ ActiveMembers(r, now) = Members(r)
  BY ActiveMember DEF AreAllMembersActive, ActiveMembers

\* Until the last process has been started, an open room has no idle member.
LEMMA FreshRoom ==
    ASSUME QuietInv, IsOpen, now <= StartBy
    PROVE  Fresh
  BY DEF QuietInv, TakenInv, SitInv, Fresh

\* The store and the clock stand still: what a step has to keep.
LEMMA QuietFrame ==
    ASSUME QuietInv, UNCHANGED <<room, stored, now>>,
           \A q \in requests' : q.live,
           \A p \in Proc :
              /\ Sits(p)' => Sits(p) /\ IdentityOf(p)' = IdentityOf(p)
              /\ IsOpen /\ now <= StartBy /\ Sits(p) =>
                    Sits(p)' /\ IdentityOf(p)' = IdentityOf(p)
              /\ IsOpen /\ Waits(p)' => Waits(p) \/ Fresh,
           LateInv', AnswerInv'
    PROVE  QuietInv'
<1>1. /\ IsOpen' = IsOpen /\ IsTerminated' = IsTerminated /\ Members(room') = Members(room)
      /\ Fresh' = Fresh /\ IsFull(room') = IsFull(room)
      /\ \A n : LastPing(n)' = LastPing(n)
  BY DEF IsOpen, IsTerminated, Fresh, LastPing, Members, IsFull
<1>2. \A p \in Proc : IdentityOf(p)' = IdentityOf(p) => HasSeat(p)' = HasSeat(p)
  BY <1>1 DEF HasSeat, HasMember
<1>3. SitInv'
  BY <1>1, <1>2 DEF QuietInv, SitInv
<1>4. TakenInv'
  BY <1>1, <1>2 DEF QuietInv, TakenInv
<1>5. OpenInv'
  BY <1>1 DEF QuietInv, OpenInv
<1>6. ClosedInv'
  BY <1>1 DEF QuietInv, ClosedInv
<1>7. \A p \in Proc : room' # NoRoom => room'.room_size = RoomSize(p)
  BY DEF QuietInv
<1>8. (NoRoom)' = NoRoom /\ \A p \in Proc : RoomSize(p)' = RoomSize(p)
  BY DEF NoRoom, NewRoom, RoomSize
<1> QED
  BY <1>3, <1>4, <1>5, <1>6, <1>7, <1>8 DEF QuietInv

\* p asks, first or again: nobody's seat changes.
LEMMA QuietAsk ==
    ASSUME IInv, QuietInv, NEW p \in Proc, Start(p) \/ Poll(p)
    PROVE  QuietInv'
<1>1. /\ TypeOK /\ KnowledgeOf(p) /\ pc \in [Proc -> PC]
      /\ LateInv /\ AnswerInv /\ \A q \in requests : q.live
  BY DEF IInv, ClientInv, TypeOK, QuietInv
<1>2. /\ UNCHANGED <<room, stored, now, signup, reply>>
      /\ \A q \in requests' : q.live
  BY <1>1 DEF Start, Poll, Request, managerVars
<1>3. \/ pc[p] = "idle" /\ pc' = [pc EXCEPT ![p] = "signup"]
      \/ pc[p] = "sleep" /\ pc' = [pc EXCEPT ![p] = "poll"]
  BY DEF Start, Poll
<1>4. reply[p] = NoReply /\ reply[p].tag = "none"
  BY <1>1, <1>3 DEF KnowledgeOf, Awaiting, NoReply
<1>5. \A o \in Proc : Sits(o)' = Sits(o) /\ Waits(o)' = Waits(o)
                      /\ (Sits(o) => IdentityOf(o)' = IdentityOf(o))
  BY <1>1, <1>2, <1>3, <1>4 DEF Sits, Waits, Comes, IdentityOf
<1>6. LateInv'
  BY <1>1, <1>2, <1>3 DEF LateInv
<1>7. AnswerInv'
  <2>1. \A o \in Proc : o # p => pc'[o] = pc[o]
    BY <1>1, <1>3
  <2>2. \A o \in Proc : RoomSize(o)' = RoomSize(o)
    BY DEF RoomSize
  <2>3. pc'[p] \in {"signup", "poll"}
    BY <1>1, <1>3
  <2> QED
    BY <1>1, <1>2, <1>4, <2>1, <2>2, <2>3 DEF AnswerInv, IsTerminated, IsReady
<1> QED
  BY <1>2, <1>5, <1>6, <1>7, QuietFrame

\* p is answered, and goes on or is gone.
LEMMA QuietReceive ==
    ASSUME IInv, QuietInv, NEW p \in Proc, Awaiting(p), reply[p] # NoReply,
           UNCHANGED <<room, stored, now>>, reply' = [reply EXCEPT ![p] = NoReply],
           requests' \in {requests, Abandoned(p)},
           NEW x \in {"sleep", "ready", "panicked"}, pc' = [pc EXCEPT ![p] = x],
           NEW s, signup' = [signup EXCEPT ![p] = s],
           x = "sleep" => Sits(p) /\ s.party_uuid = IdentityOf(p),
           IsOpen /\ now <= StartBy /\ Sits(p) => x = "sleep",
           x = "ready" => s.total = RoomSize(p) /\ s.number \in 1 .. RoomSize(p)
    PROVE  QuietInv'
<1>1. /\ TypeOK /\ LiveInv /\ pc \in [Proc -> PC] /\ reply \in [Proc -> Replies]
      /\ signup \in [Proc -> Signups]
      /\ LateInv /\ AnswerInv /\ \A q \in requests : q.live
  BY DEF IInv, ClientInv, TypeOK, QuietInv, Signups
<1>2. \A q \in requests' : q.live
  BY <1>1 DEF LiveInv, Abandoned
<1>3. /\ pc'[p] = x /\ signup'[p] = s /\ reply'[p] = NoReply /\ NoReply.tag = "none"
      /\ \A o \in Proc : o # p => pc'[o] = pc[o] /\ signup'[o] = signup[o] /\ reply'[o] = reply[o]
  BY <1>1 DEF NoReply
<1>4. \A o \in Proc : o # p => Sits(o)' = Sits(o) /\ Waits(o)' = Waits(o)
                               /\ IdentityOf(o)' = IdentityOf(o)
  BY <1>3 DEF Sits, Waits, Comes, IdentityOf
<1>5. /\ Sits(p)' => Sits(p) /\ IdentityOf(p)' = IdentityOf(p)
      /\ IsOpen /\ now <= StartBy /\ Sits(p) => Sits(p)' /\ IdentityOf(p)' = IdentityOf(p)
  BY <1>3 DEF Sits, Waits, Comes, IdentityOf
<1>6. IsOpen /\ Waits(p)' => Waits(p) \/ Fresh
  <2>1. CASE pc[p] = "poll"
    BY <2>1 DEF Waits
  <2>2. CASE pc[p] = "signup"
    <3>1. now <= StartBy
      BY <1>1, <2>2, TimeTypes DEF LateInv
    <3> QED
      BY <3>1, FreshRoom
  <2> QED
    BY <2>1, <2>2 DEF Awaiting
<1>7. LateInv'
  BY <1>1, <1>3 DEF LateInv
<1>8. AnswerInv'
  <2>1. \A o \in Proc : RoomSize(o)' = RoomSize(o)
    BY DEF RoomSize
  <2> QED
    BY <1>1, <1>3, <2>1 DEF AnswerInv, IsTerminated, IsReady
<1> QED
  BY <1>2, <1>4, <1>5, <1>6, <1>7, <1>8, QuietFrame

LEMMA QuietClient ==
    ASSUME IInv, PromptTiming, QuietInv, NEW p \in Proc, Client(p), Quiet, Quiet'
    PROVE  QuietInv'
<1>1. /\ TypeOK /\ KnowledgeOf(p) /\ AnswerInv /\ faults \in Nat /\ crashes \in Nat
      /\ now \in Nat /\ signup[p].since \in Nat
  BY DEF IInv, ClientInv, TypeOK, QuietInv
<1>2. ~ SendFails(p) /\ ~ Crash(p)
  BY DEF Quiet, SendFails, Crash
<1>3. CASE Start(p) \/ Poll(p)
  BY <1>3, QuietAsk
<1>4. CASE ReceiveSignup(p)
  <2> DEFINE s == Learnt(reply[p].info.party_uuid, reply[p].info, now)
  <2>1. /\ Awaiting(p) /\ pc[p] = "signup" /\ reply[p] # NoReply /\ reply[p].tag = "ok"
        /\ UNCHANGED <<room, stored, now>> /\ reply' = [reply EXCEPT ![p] = NoReply]
        /\ KeepsLoopingWith(p, s)
    BY <1>4 DEF ReceiveSignup, Awaiting, NoReply, managerVars
  <2>2. s.uuid = NoUuid /\ Sits(p) /\ s.party_uuid = IdentityOf(p)
    BY <1>1, <2>1 DEF AnswerInv, Learnt, Sits, Comes, IdentityOf
  <2> HIDE DEF s
  <2>3. /\ pc' = [pc EXCEPT ![p] = "sleep"] /\ signup' = [signup EXCEPT ![p] = s]
        /\ requests' = requests
    BY <2>1, <2>2 DEF KeepsLoopingWith
  <2> QED
    BY <2>1, <2>2, <2>3, QuietReceive
<1>5. CASE ReceivePoll(p)
  <2> DEFINE info == reply[p].info
             since == IF info.total_joined # signup[p].total THEN now ELSE signup[p].since
             s == Learnt(signup[p].party_uuid, info, since)
  <2>1. /\ Awaiting(p) /\ pc[p] = "poll" /\ reply[p] # NoReply /\ reply[p].tag = "ok"
        /\ UNCHANGED <<room, stored, now>> /\ reply' = [reply EXCEPT ![p] = NoReply]
        /\ KeepsLoopingWith(p, s) \/ (IsOutOfTime(s) /\ Dies(p, "panicked"))
    BY <1>5 DEF ReceivePoll, Awaiting, NoReply, managerVars
  <2>2. since \in Nat
    BY <1>1
  <2> HIDE DEF since
  <2>3. Sits(p) /\ s.party_uuid = IdentityOf(p) /\ s.since \in Nat
    BY <2>1, <2>2 DEF Learnt, Sits, Waits, IdentityOf
  <2>4. s.uuid # NoUuid => /\ ~ IsOpen
                           /\ s.total = RoomSize(p) /\ s.number \in 1 .. RoomSize(p)
    BY <1>1, <2>1 DEF AnswerInv, Learnt, IsOpen, IsTerminated
  <2> HIDE DEF s
  <2>5. CASE KeepsLoopingWith(p, s)
    <3>1. /\ pc' = [pc EXCEPT ![p] = IF s.uuid = NoUuid THEN "sleep" ELSE "ready"]
          /\ signup' = [signup EXCEPT ![p] = s] /\ requests' = requests
      BY <2>5 DEF KeepsLoopingWith
    <3>2. CASE s.uuid = NoUuid
      BY <2>1, <2>3, <3>1, <3>2, QuietReceive
    <3>3. CASE s.uuid # NoUuid
      BY <2>1, <2>4, <3>1, <3>3, QuietReceive
    <3> QED
      BY <3>2, <3>3
  <2>6. CASE IsOutOfTime(s) /\ Dies(p, "panicked")
    <3>1. ~ (now <= StartBy)
      BY <1>1, <2>3, <2>6, TimeTypes DEF IsOutOfTime, PromptTiming
    <3>2. /\ pc' = [pc EXCEPT ![p] = "panicked"]
          /\ signup' = [signup EXCEPT ![p] = NotSignedUp] /\ requests' = Abandoned(p)
      BY <2>6 DEF Dies
    <3> QED
      BY <2>1, <3>1, <3>2, QuietReceive
  <2> QED
    BY <2>1, <2>5, <2>6
<1>6. CASE ReceiveError(p)
  <2>1. /\ Awaiting(p) /\ reply[p] # NoReply /\ reply[p].tag = "err"
        /\ UNCHANGED <<room, stored, now>> /\ reply' = [reply EXCEPT ![p] = NoReply]
        /\ pc' = [pc EXCEPT ![p] = "panicked"]
        /\ signup' = [signup EXCEPT ![p] = NotSignedUp] /\ requests' = Abandoned(p)
    BY <1>6 DEF ReceiveError, NoReply, managerVars, Dies
  <2>2. ~ Sits(p)
    BY <1>1, <2>1 DEF AnswerInv, Awaiting, Sits, Waits, Comes
  <2> QED
    BY <2>1, <2>2, QuietReceive
<1> QED
  BY <1>2, <1>3, <1>4, <1>5, <1>6 DEF Client

\* A second passes: everybody who waits has pinged in it, and nobody comes.
LEMMA QuietTick ==
    ASSUME IInv, QuietInv, PromptTick
    PROVE  QuietInv'
<1>1. /\ now \in Nat /\ stored \in Nat /\ StartBy \in Nat
      /\ \A n \in Members(room) : LastPing(n) \in Nat /\ LastPing(n) <= stored
  BY TimeTypes
<1>2. /\ now' = now + 1 /\ UNCHANGED <<room, stored, pc, signup, requests, reply>>
  BY DEF PromptTick, Tick, managerVars, clientVars
<1>3. \A p \in Proc : /\ pc[p] = "idle" => now < StartBy
                      /\ pc[p] # "signup"
                      /\ Waits(p) => HasPinged(p)
  BY DEF PromptTick, Prompt, Waits
<1>4. \A p \in Proc : /\ Sits(p)' = Sits(p) /\ Waits(p)' = Waits(p)
                      /\ HasSeat(p)' = HasSeat(p)
                      /\ Sits(p) => Waits(p)
                      /\ Sits(p) => LastPing(PartyNumber[p]) = now
  <2>1. \A p \in Proc : HasPinged(p) => LastPing(PartyNumber[p]) = now
    BY DEF HasPinged, LastPing
  <2> QED
    BY <1>2, <1>3, <2>1 DEF Sits, Waits, Comes, HasSeat, HasMember, Members, IdentityOf
<1>5. /\ IsOpen' = IsOpen /\ IsTerminated' = IsTerminated /\ Members(room') = Members(room)
      /\ IsFull(room') = IsFull(room) /\ \A n : LastPing(n)' = LastPing(n)
  BY <1>2 DEF IsOpen, IsTerminated, LastPing, Members, IsFull
<1>6. SitInv'
  BY <1>1, <1>2, <1>4, <1>5 DEF QuietInv, SitInv
<1>7. LateInv'
  BY <1>1, <1>2, <1>3 DEF LateInv
<1>8. TakenInv'
  BY <1>1, <1>2, <1>4, <1>5 DEF QuietInv, TakenInv
<1>9. OpenInv'
  <2> SUFFICES ASSUME IsOpen, IsFull(room)
               PROVE  Fresh' \/ \A p \in Proc : ~ Waits(p)'
    BY <1>2, <1>5 DEF QuietInv, OpenInv
  <2>1. CASE now <= StartBy
    <3>1. \A n \in Members(room) : \E p \in Proc : PartyNumber[p] = n /\ Sits(p)
      BY <2>1 DEF QuietInv, TakenInv
    <3>2. \A n \in Members(room) : LastPing(n) = now
      BY <1>4, <3>1
    <3> QED
      BY <1>1, <1>2, <1>5, <3>2 DEF Fresh
  <2>2. CASE now > StartBy
    <3>1. stored < now
      BY <1>1, <2>2 DEF QuietInv, OpenInv
    <3>2. ASSUME NEW p \in Proc, Waits(p) PROVE FALSE
      <4>1. PartyNumber[p] \in Members(room) /\ LastPing(PartyNumber[p]) = now
        BY <1>3, <3>2 DEF HasPinged, HasMember, LastPing
      <4> QED
        BY <1>1, <3>1, <4>1
    <3> QED
      BY <1>4, <3>2
  <2> QED
    BY <1>1, <2>1, <2>2
<1>10. ClosedInv'
  BY <1>2, <1>5 DEF QuietInv, ClosedInv
<1>11. AnswerInv'
  <2>1. \A p \in Proc : RoomSize(p)' = RoomSize(p)
    BY DEF RoomSize
  <2> QED
    BY <1>2, <1>5, <2>1 DEF QuietInv, AnswerInv, IsReady
<1>12. (\A q \in requests : q.live)' /\ (\A p \in Proc : room # NoRoom => room.room_size = RoomSize(p))'
  BY <1>2 DEF QuietInv, NoRoom, NewRoom, RoomSize
<1> QED
  BY <1>6, <1>7, <1>8, <1>9, <1>10, <1>11, <1>12 DEF QuietInv

\* The store forgets no room that somebody has a seat in.
LEMMA QuietExpire ==
    ASSUME IInv, PromptTiming, QuietInv, Expire
    PROVE  QuietInv'
<1>1. /\ now \in Nat /\ stored \in Nat /\ Ttl \in Nat
  BY TimeTypes
<1>2. room' = NoRoom /\ now - stored > Ttl /\ UNCHANGED <<now, stored, pc, signup, requests, reply>>
  BY DEF Expire, clientVars
<1>3. \A p \in Proc : ~ Sits(p)
  BY <1>1, <1>2, Sitting DEF PromptTiming
<1>4. \A p \in Proc : ~ Sits(p)' /\ ~ Waits(p)'
  BY <1>2, <1>3 DEF Sits, Waits, Comes
<1>5. ~ IsOpen' /\ ~ IsTerminated'
  BY <1>2, NoRoomFacts DEF IsOpen, IsTerminated
<1>6. SitInv' /\ TakenInv' /\ OpenInv' /\ ClosedInv'
  BY <1>4, <1>5 DEF SitInv, TakenInv, OpenInv, ClosedInv
<1>7. LateInv'
  BY <1>2 DEF QuietInv, LateInv
<1>8. AnswerInv'
  <2>1. ASSUME NEW p \in Proc, reply[p].tag = "ok", reply[p].info.room_uuid # NoUuid PROVE FALSE
    <3>1. Awaiting(p)
      BY <2>1 DEF IInv, ClientInv, KnowledgeOf, NoReply
    <3> QED
      BY <1>3, <2>1, <3>1 DEF QuietInv, AnswerInv, Awaiting, Sits, Waits
  <2>2. \A p \in Proc : RoomSize(p)' = RoomSize(p)
    BY DEF RoomSize
  <2> QED
    BY <1>2, <2>1, <2>2 DEF QuietInv, AnswerInv, IsReady
<1>9. (\A q \in requests : q.live)' /\ (\A p \in Proc : room # NoRoom => room.room_size = RoomSize(p))'
  BY <1>2 DEF QuietInv, NoRoom, NewRoom
<1> QED
  BY <1>6, <1>7, <1>8, <1>9 DEF QuietInv

\* The process whose request is served waits for the answer.
LEMMA Served1 ==
    ASSUME IInv, QuietInv, NEW q \in requests, Serve(q)
    PROVE  /\ q.proc \in Proc /\ q.live /\ NumberOf(q) = PartyNumber[q.proc]
           /\ Awaiting(q.proc) /\ reply[q.proc] = NoReply
           /\ q.party_uuid = signup[q.proc].party_uuid
           /\ pc[q.proc] = "signup" => IsNew(q) /\ now <= StartBy
           /\ pc[q.proc] = "poll" => ~ IsNew(q) /\ Sits(q.proc) /\ IdentityOf(q.proc) = q.party_uuid
           /\ UNCHANGED <<now, pc, signup>> /\ \A x \in requests' : x.live
           /\ \A r : Answer(q, r) => reply' = [reply EXCEPT ![q.proc] = r]
<1>1. /\ q.proc \in Proc /\ q.live /\ LiveInv /\ KnowledgeOf(q.proc) /\ LateInv
  BY NumberType DEF IInv, ClientInv, QuietInv
<1>2. /\ UNCHANGED <<now, pc, signup>> /\ \A x \in requests' : x.live
  BY DEF Serve, clientVars, QuietInv
<1>3. /\ Awaiting(q.proc) /\ reply[q.proc] = NoReply
      /\ q.party_uuid = signup[q.proc].party_uuid
  BY <1>1 DEF LiveInv
<1>4. pc[q.proc] = "signup" => IsNew(q) /\ now <= StartBy
  BY <1>1, <1>3, TimeTypes DEF KnowledgeOf, IsNew, LateInv, NotSignedUp
<1>5. pc[q.proc] = "poll" => ~ IsNew(q) /\ Sits(q.proc) /\ IdentityOf(q.proc) = q.party_uuid
  BY <1>1, <1>3 DEF KnowledgeOf, IsNew, Sits, Waits, IdentityOf
<1> QED
  BY <1>1, <1>2, <1>3, <1>4, <1>5 DEF NumberOf, Answer

\* An answer that gives nobody a seat and changes no room.
LEMMA QuietAnswer ==
    ASSUME IInv, QuietInv, NEW q \in requests, Serve(q), UNCHANGED managerVars,
           NEW r, Answer(q, r),
           pc[q.proc] = "signup" => r.tag = "err",
           pc[q.proc] = "poll" => /\ r.tag = "ok" /\ IsTerminated
                                  /\ r.info.total_joined = RoomSize(q.proc)
                                  /\ r.info.party_order \in 1 .. RoomSize(q.proc)
    PROVE  QuietInv'
<1>1. /\ q.proc \in Proc /\ Awaiting(q.proc) /\ reply[q.proc] = NoReply
      /\ UNCHANGED <<now, pc, signup>> /\ \A x \in requests' : x.live
      /\ reply' = [reply EXCEPT ![q.proc] = r]
  BY Served1
<1>2. UNCHANGED <<room, stored>> /\ reply \in [Proc -> Replies]
      /\ LateInv /\ AnswerInv
  BY DEF managerVars, IInv, TypeOK, QuietInv
<1>3. /\ reply'[q.proc] = r /\ \A p \in Proc : p # q.proc => reply'[p] = reply[p]
  BY <1>1, <1>2
<1>4. \A p \in Proc : /\ Sits(p)' = Sits(p) /\ Waits(p)' = Waits(p)
                      /\ Sits(p) => IdentityOf(p)' = IdentityOf(p)
  BY <1>1, <1>3 DEF Sits, Waits, Comes, IdentityOf, Awaiting, NoReply
<1>5. LateInv'
  BY <1>1, <1>2 DEF LateInv
<1>6. AnswerInv'
  <2>1. \A p \in Proc : RoomSize(p)' = RoomSize(p)
    BY DEF RoomSize
  <2> QED
    BY <1>1, <1>2, <1>3, <2>1 DEF AnswerInv, IsTerminated, IsReady, Awaiting
<1> QED
  BY <1>1, <1>2, <1>4, <1>5, <1>6, QuietFrame

\* Who polls is in the room that its request is checked against.
LEMMA PollerHolds ==
    ASSUME IInv, PromptTiming, QuietInv, NEW q \in requests, Serve(q), pc[q.proc] = "poll"
    PROVE  CurrentRoom(q) = room /\ Holds(q, room) /\ (IsOpen \/ IsTerminated)
<1> DEFINE n == NumberOf(q)
<1>1. /\ n \in Members(room) /\ room.member_info[n].party_id = q.party_uuid
      /\ LastPing(n) >= now - 1 /\ room # NoRoom /\ (IsOpen \/ IsTerminated)
  BY Served1, Sitting
<1>2. IsMemberActive(room, n, now)
  <2> HIDE DEF n
  <2>1. LastPing(n) \in Nat /\ LastPing(n) >= now - 2
    BY <1>1, TimeTypes
  <2> QED
    BY <1>1, <2>1, ActiveMember DEF LastPing
<1> QED
  BY <1>1, <1>2 DEF Holds, HasMember, CurrentRoom, AreAllMembersInactive

\* Somebody who waits has seen the closed room: all its members are still counted.
LEMMA ClosedCount ==
    ASSUME IInv, PromptTiming, QuietInv, IsTerminated, stored >= now - 1, NEW p \in Proc,
           NEW n \in Members(room)
    PROVE  LET info == GetSignupInfo(room, n, now)
           IN  /\ info.total_joined = RoomSize(p)
               /\ info.party_order \in 1 .. RoomSize(p)
<1>1. /\ now \in Nat /\ stored \in Nat
      /\ \A m \in Members(room) : LastPing(m) \in Nat /\ LastPing(m) >= stored - 1
  BY TimeTypes DEF QuietInv, ClosedInv
<1>2. ActiveMembers(room, now) = Members(room)
  <2>1. \A m \in Members(room) : LastPing(m) \in Nat /\ LastPing(m) >= now - 2
    BY <1>1
  <2> QED
    BY <2>1, AllActive DEF LastPing
<1>3. room # NoRoom
  BY NoRoomFacts DEF IsTerminated
<1>4. Cardinality(Members(room)) = RoomSize(p)
  BY <1>3 DEF QuietInv, ClosedInv
<1>5. room.member_info[n].party_order \in 1 .. Cardinality(Members(room))
  BY DEF IInv, RoomInv, Roster
<1> QED
  BY <1>2, <1>4, <1>5 DEF GetSignupInfo

LEMMA QuietPoll ==
    ASSUME IInv, PromptTiming, QuietInv, NEW q \in requests, Serve(q), pc[q.proc] = "poll",
           IsTerminated
    PROVE  QuietInv'
<1>1. Holds(q, room) /\ q.proc \in Proc /\ Sits(q.proc)
  BY PollerHolds, Served1
<1>2. ~ ReachesSignup(q)
  BY <1>1 DEF ReachesSignup
<1>3. ServeClosedRoom(q)
  BY <1>1, <1>2 DEF Serve, RefuseClosedRoom, RefuseFullRoom, RefuseUnknownParty, Ping,
     RefuseActiveParty, ReplaceTimedOutParty, JoinRoom, Admitted
<1> DEFINE info == GetSignupInfo(room, NumberOf(q), now)
<1>4. Answer(q, Ok(info)) /\ UNCHANGED managerVars /\ NumberOf(q) \in Members(room)
  BY <1>1, <1>3 DEF ServeClosedRoom, Holds, HasMember
<1>5. info.total_joined = RoomSize(q.proc) /\ info.party_order \in 1 .. RoomSize(q.proc)
  BY <1>1, <1>4, Sitting, ClosedCount
<1> HIDE DEF info
<1>6. Ok(info).tag = "ok" /\ Ok(info).info = info
  BY DEF Ok
<1> QED
  BY <1>4, <1>5, <1>6, QuietAnswer

\* A member of an open room pings; if the room is full, that closes it with all
\* its members counted.
LEMMA QuietPing ==
    ASSUME IInv, PromptTiming, QuietInv, NEW q \in requests, Serve(q), pc[q.proc] = "poll",
           IsOpen
    PROVE  QuietInv'
<1> DEFINE n == NumberOf(q)
           t == [room' EXCEPT !.last_stage = room.last_stage]
           info == GetSignupInfo(room', n, now)
<1>1. /\ q.proc \in Proc /\ pc[q.proc] = "poll" /\ Waits(q.proc) /\ ~ IsNew(q)
      /\ UNCHANGED <<now, pc, signup>> /\ \A x \in requests' : x.live
      /\ CurrentRoom(q) = room /\ Holds(q, room)
  BY Served1, PollerHolds DEF Waits
<1>2. ~ IsTerminated /\ room # NoRoom
  BY NoRoomFacts DEF IsOpen, IsTerminated
<1>3. Ping(q)
  BY <1>1, <1>2 DEF Serve, ServeClosedRoom, RefuseClosedRoom, RefuseFullRoom, RefuseUnknownParty,
     RefuseActiveParty, ReplaceTimedOutParty, JoinRoom, Admitted
<1>4. /\ n \in Members(room) /\ room' = UpdatePing(room, n, now) /\ stored' = now
      /\ reply' = [reply EXCEPT ![q.proc] = Ok(info)]
  BY <1>1, <1>3, Served1 DEF Ping, Store, Holds, HasMember
<1> HIDE DEF n, info
<1>5. /\ now \in Nat /\ RoomTyped(room) /\ reply \in [Proc -> Replies]
      /\ \A m \in Members(room) : LastPing(m) \in Nat
  BY TimeTypes DEF IInv, TypeOK
<1>6. /\ Members(room') = Members(room) /\ Members(t) = Members(room)
      /\ room'.room_size = room.room_size /\ t.room_size = room.room_size
      /\ t.member_info = room'.member_info
      /\ room'.last_stage = IF EnoughActive(t, now) THEN "terminated" ELSE room.last_stage
      /\ room'.member_info[n].last_ping = now
      /\ \A m \in Members(room) : m # n => room'.member_info[m] = room.member_info[m]
  <2> DEFINE s == UpdatePing(room, n, now)
             u == [s EXCEPT !.last_stage = room.last_stage]
  <2>1. /\ Members(s) = Members(room) /\ Members(u) = Members(room)
        /\ s.room_size = room.room_size /\ u.room_size = room.room_size
        /\ u.member_info = s.member_info
        /\ s.last_stage = IF EnoughActive(u, now) THEN "terminated" ELSE room.last_stage
        /\ s.member_info[n].last_ping = now
        /\ \A m \in Members(room) : m # n => s.member_info[m] = room.member_info[m]
    BY <1>4, <1>5, PingedRoom
  <2>2. room' = s
    BY <1>4
  <2> HIDE DEF s
  <2> QED
    BY <2>1, <2>2
<1>7. \A m \in Members(room) :
        /\ room'.member_info[m].party_id = room.member_info[m].party_id
        /\ room'.member_info[m].party_order = room.member_info[m].party_order
  BY <1>4, <1>5, UpdatePingFacts
<1> HIDE DEF t
<1>8. \A m \in Members(room) :
        /\ LastPing(m)' \in Nat
        /\ LastPing(m) >= now - 1 => LastPing(m)' >= now - 1
  BY <1>5, <1>6 DEF LastPing
<1>9. /\ Cardinality(Members(room)) \in Nat /\ room.room_size \in Nat
      /\ Cardinality(Members(room)) <= room.room_size
  BY <1>5, TimeTypes, FS_CardinalityType, RoomFields DEF QuietInv, OpenInv
<1>10. ASSUME IsFull(room)
      PROVE  /\ room'.last_stage = "terminated"
             /\ \A m \in Members(room) : LastPing(m)' >= now - 1
  <2>1. Fresh
    BY <1>1, <1>10 DEF QuietInv, OpenInv
  <2>2. \A m \in Members(room) : LastPing(m)' \in Nat /\ LastPing(m)' >= now - 1
                                 /\ LastPing(m)' >= now - 2
    BY <1>5, <1>8, <2>1 DEF Fresh
  <2>3. ActiveMembers(t, now) = Members(t)
    BY <1>6, <2>2, AllActive DEF LastPing
  <2>4. EnoughActive(t, now)
    BY <1>6, <1>10, <2>3 DEF EnoughActive, IsFull
  <2> QED
    BY <1>6, <2>2, <2>4
<1>11. ~ IsFull(room) => room'.last_stage = "signup"
  BY <1>6 DEF EnoughActive, IsFull, IsOpen
<1>12. SitInv'
  <2> SUFFICES ASSUME NEW p \in Proc, Sits(p)'
               PROVE  HasSeat(p)' /\ LastPing(PartyNumber[p])' >= now' - 1
    BY DEF SitInv
  <2>1. Sits(p) /\ IdentityOf(p)' = IdentityOf(p)
    BY <1>1, <1>4, <1>5 DEF Sits, Waits, Comes, IdentityOf
  <2>2. HasSeat(p) /\ LastPing(PartyNumber[p]) >= now - 1
    BY <2>1 DEF QuietInv, SitInv
  <2> QED
    BY <1>1, <1>6, <1>7, <1>8, <2>1, <2>2 DEF HasSeat, HasMember
<1>13. LateInv'
  BY <1>1 DEF QuietInv, LateInv
<1>14. TakenInv'
  <2> SUFFICES ASSUME now <= StartBy, NEW m \in Members(room)
               PROVE  \E p \in Proc : PartyNumber[p] = m /\ Sits(p)' /\ HasSeat(p)'
    BY <1>1, <1>6 DEF TakenInv
  <2>1. PICK p \in Proc : PartyNumber[p] = m /\ Sits(p) /\ HasSeat(p)
    BY DEF QuietInv, TakenInv
  <2>2. Sits(p)' /\ IdentityOf(p)' = IdentityOf(p)
    BY <1>1, <1>4, <1>5, <2>1 DEF Sits, Waits, Comes, IdentityOf
  <2> QED
    BY <1>6, <1>7, <2>1, <2>2 DEF HasSeat, HasMember
<1>15. OpenInv'
  BY <1>6, <1>9, <1>10, <1>11 DEF OpenInv, IsOpen, IsFull
<1>16. ClosedInv'
  BY <1>4, <1>6, <1>8, <1>9, <1>10, <1>11 DEF ClosedInv, IsTerminated, IsOpen, IsFull
<1>17. AnswerInv'
  <2>1. \A p \in Proc : RoomSize(p)' = RoomSize(p) /\ room.room_size = RoomSize(p)
    BY <1>2 DEF RoomSize, QuietInv
  <2>2. \A p \in Proc : reply[p].tag = "ok" => reply[p].info.room_uuid = NoUuid
    BY <1>2 DEF QuietInv, AnswerInv
  <2>3. /\ Ok(info).tag = "ok" /\ Ok(info).info = info
        /\ info.room_uuid = IF room'.last_stage = "signup" THEN NoUuid ELSE room'.room_uuid
        /\ info.total_joined = Cardinality(ActiveMembers(room', now))
        /\ info.party_order = room'.member_info[n].party_order
    BY DEF Ok, info, GetSignupInfo
  <2>4. info.party_order \in 1 .. Cardinality(Members(room))
    BY <1>4, <1>7, <2>3 DEF IInv, RoomInv, Roster
  <2>5. info.room_uuid # NoUuid =>
          /\ IsTerminated'
          /\ info.total_joined = RoomSize(q.proc)
          /\ info.party_order \in 1 .. RoomSize(q.proc)
    <3>1. ASSUME IsFull(room)
          PROVE  info.total_joined = RoomSize(q.proc) /\ info.party_order \in 1 .. RoomSize(q.proc)
      <4>1. \A m \in Members(room') :
              /\ room'.member_info[m].last_ping \in Nat
              /\ room'.member_info[m].last_ping >= now - 2
        BY <1>5, <1>6, <1>8, <1>10, <3>1 DEF LastPing
      <4>2. ActiveMembers(room', now) = Members(room)
        BY <1>6, <4>1, AllActive
      <4>3. Cardinality(Members(room)) = room.room_size
        BY <1>9, <3>1 DEF IsFull
      <4> QED
        BY <1>1, <2>1, <2>3, <2>4, <4>2, <4>3
    <3> QED
      BY <1>10, <1>11, <2>3, <3>1 DEF IsTerminated, IsOpen
  <2>6. \A p \in Proc : reply'[p] = IF p = q.proc THEN Ok(info) ELSE reply[p]
    BY <1>4, <1>5
  <2> QED
    BY <1>1, <2>1, <2>2, <2>3, <2>5, <2>6 DEF AnswerInv, QuietInv, IsReady
<1>18. (\A p \in Proc : room # NoRoom => room.room_size = RoomSize(p))'
  BY <1>2, <1>6 DEF QuietInv, RoomSize
<1> QED
  BY <1>1, <1>12, <1>13, <1>14, <1>15, <1>16, <1>17, <1>18 DEF QuietInv

\* A party that comes gets a seat of its own: nobody in an open room can be
\* replaced, and no room takes more than it is for.
LEMMA QuietJoin ==
    ASSUME IInv, PromptTiming, QuietInv, NEW q \in requests, Serve(q), pc[q.proc] = "signup",
           JoinRoom(q)
    PROVE  QuietInv'
<1> DEFINE n == NumberOf(q)
           cr == CurrentRoom(q)
           mem == Member(nextUuid + 1, NextOrder(cr), now)
           info == NewSignParty(NextOrder(cr), nextUuid + 1)
<1>1. /\ q.proc \in Proc /\ PartyNumber[q.proc] = n /\ reply[q.proc] = NoReply
      /\ UNCHANGED <<now, pc, signup>> /\ \A x \in requests' : x.live
      /\ IsNew(q) /\ now <= StartBy
  BY Served1
<1>2. /\ now \in Nat /\ TypeOK /\ RoomInv /\ reply \in [Proc -> Replies] /\ nextUuid + 1 \in Nat
      /\ \A m \in Members(room) : LastPing(m) \in Nat
  BY TimeTypes, Typed DEF IInv, TypeOK
<1>3. /\ ReachesSignup(q) /\ ~ IsFullAndActive(cr) /\ n \notin Members(cr)
      /\ room' = SetMember(cr, n, mem) /\ stored' = now
      /\ reply' = [reply EXCEPT ![q.proc] = Ok(info)]
  BY Served1 DEF JoinRoom, Admitted, Store, AddParty
<1>4. /\ RoomTyped(cr) /\ IsFiniteSet(Members(cr)) /\ cr.last_stage = "signup"
      /\ Members(cr) = {} \/ (cr = room /\ ~ IsTerminated)
  BY <1>2, <1>3, CurrentRoomFacts DEF Roster
<1>5. cr = RenewedRoom(q) \/ (cr = room /\ room # NoRoom)
  BY DEF CurrentRoom
<1>6. cr = room => IsOpen /\ room # NoRoom
  BY <1>4, NoRoomFacts DEF IsOpen
<1>7. ASSUME NEW p \in Proc, Sits(p) PROVE cr = room
  <2>1. /\ room # NoRoom /\ PartyNumber[p] \in Members(room)
        /\ LastPing(PartyNumber[p]) >= now - 1
    BY <1>7, Sitting
  <2>2. IsMemberActive(room, PartyNumber[p], now)
    <3>1. LastPing(PartyNumber[p]) \in Nat /\ LastPing(PartyNumber[p]) >= now - 2
      BY <1>2, <2>1
    <3> QED
      BY <2>1, <3>1, ActiveMember DEF LastPing
  <2> QED
    BY <2>1, <2>2 DEF CurrentRoom, AreAllMembersInactive
<1> HIDE DEF n, cr
<1>8. cr = room => Fresh
  BY <1>1, <1>6, FreshRoom
<1>9. /\ NextOrder(cr) \in Order
      /\ mem \in MemberInfo /\ mem.party_id = nextUuid + 1 /\ mem.last_ping = now
  <2>1. NextOrder(cr) \in Order
    BY <1>4, FS_CardinalityType DEF NextOrder, Order
  <2> QED
    BY <1>2, <2>1 DEF Member, MemberInfo
<1>10. /\ Ok(info).tag = "ok" /\ Ok(info).info = info
       /\ info.room_uuid = NoUuid /\ info.party_uuid = nextUuid + 1
  BY DEF Ok, NewSignParty
<1> HIDE DEF mem, info
<1>11. /\ Members(room') = Members(cr) \cup {n} /\ room'.last_stage = "signup"
       /\ room'.member_info[n] = mem
       /\ \A m \in Members(cr) : m # n => room'.member_info[m] = cr.member_info[m]
  <2>1. n \in PartyNumbers
    BY <1>1 DEF PartyNumbers
  <2> QED
    BY <1>3, <1>4, <1>9, <2>1, SetMemberFacts
<1>12. room'.room_size = cr.room_size /\ \A p \in Proc : cr.room_size = RoomSize(p)
  <2>1. room'.room_size = cr.room_size
    BY <1>3, <1>4, RoomFields DEF SetMember
  <2>2. \A p \in Proc : cr.room_size = RoomSize(p)
    <3>1. \A p \in Proc : RoomSize(q.proc) = RoomSize(p)
      BY <1>1 DEF PromptTiming, RoomSize
    <3>2. RenewedRoom(q).room_size = RoomSize(q.proc)
      BY DEF RenewedRoom, NewRoom
    <3> QED
      BY <1>5, <3>1, <3>2 DEF QuietInv
  <2> QED
    BY <2>1, <2>2
<1>13. /\ \A m \in Members(cr) : cr = room /\ LastPing(m) >= now - 1
       /\ Cardinality(Members(cr)) < cr.room_size /\ Cardinality(Members(cr)) \in Nat
  <2>1. \A m \in Members(cr) : cr = room /\ LastPing(m) >= now - 1
    BY <1>4, <1>8 DEF Fresh
  <2>2. AreAllMembersActive(cr, now)
    <3>1. \A m \in Members(cr) : /\ cr.member_info[m].last_ping \in Nat
                                 /\ cr.member_info[m].last_ping >= now - 2
      BY <1>2, <2>1 DEF LastPing
    <3> QED
      BY <3>1, AllActive
  <2>3. ~ (Cardinality(Members(cr)) >= cr.room_size)
    BY <1>3, <2>2 DEF IsFullAndActive, IsFull
  <2>4. Cardinality(Members(cr)) \in Nat /\ cr.room_size \in Nat
    BY <1>4, FS_CardinalityType, RoomFields
  <2> QED
    BY <2>1, <2>3, <2>4
<1>14. \A p \in Proc : reply'[p] = IF p = q.proc THEN Ok(info) ELSE reply[p]
  BY <1>2, <1>3
<1>15. \A p \in Proc : p # q.proc =>
         Sits(p)' = Sits(p) /\ IdentityOf(p)' = IdentityOf(p) /\ Waits(p)' = Waits(p)
  BY <1>1, <1>14 DEF Sits, Waits, Comes, IdentityOf
<1>16. Sits(q.proc)' /\ IdentityOf(q.proc)' = nextUuid + 1 /\ HasSeat(q.proc)' /\ LastPing(n)' = now
  BY <1>1, <1>9, <1>10, <1>11, <1>14 DEF Sits, Comes, IdentityOf, HasSeat, HasMember, LastPing
<1>17. ASSUME NEW p \in Proc, p # q.proc, Sits(p), HasSeat(p)
       PROVE  /\ PartyNumber[p] \in Members(cr) /\ Sits(p)' /\ HasSeat(p)'
              /\ LastPing(PartyNumber[p])' = LastPing(PartyNumber[p])
  <2>1. cr = room /\ PartyNumber[p] \in Members(cr) /\ PartyNumber[p] # n
    BY <1>3, <1>7, <1>17 DEF HasSeat, HasMember
  <2> QED
    BY <1>11, <1>15, <1>17, <2>1 DEF HasSeat, HasMember, LastPing
<1>18. SitInv'
  <2> SUFFICES ASSUME NEW p \in Proc, Sits(p)'
               PROVE  HasSeat(p)' /\ LastPing(PartyNumber[p])' >= now - 1
    BY <1>1 DEF SitInv
  <2>1. CASE p = q.proc
    BY <1>1, <1>2, <1>16, <2>1
  <2>2. CASE p # q.proc
    BY <1>15, <1>17, <2>2 DEF QuietInv, SitInv
  <2> QED
    BY <2>1, <2>2
<1>19. LateInv'
  BY <1>1 DEF QuietInv, LateInv
<1>20. TakenInv'
  <2> SUFFICES ASSUME NEW m \in Members(cr) \cup {n}
               PROVE  \E p \in Proc : PartyNumber[p] = m /\ Sits(p)' /\ HasSeat(p)'
    BY <1>11 DEF TakenInv
  <2>1. CASE m = n
    BY <1>1, <1>16, <2>1
  <2>2. CASE m \in Members(cr)
    <3>1. PICK p \in Proc : PartyNumber[p] = m /\ Sits(p) /\ HasSeat(p)
      BY <1>1, <1>6, <1>13, <2>2 DEF QuietInv, TakenInv
    <3>2. p # q.proc
      BY <1>3, <2>2, <3>1, <1>1
    <3> QED
      BY <1>17, <3>1, <3>2
  <2> QED
    BY <2>1, <2>2
<1>21. OpenInv'
  <2>1. Cardinality(Members(room')) <= room'.room_size
    <3>1. Cardinality(Members(cr) \cup {n}) = Cardinality(Members(cr)) + 1
      BY <1>3, <1>4, FS_AddElement
    <3>2. cr.room_size \in Nat
      BY <1>4, RoomFields
    <3> QED
      BY <1>11, <1>12, <1>13, <3>1, <3>2
  <2>2. Fresh'
    <3> SUFFICES ASSUME NEW m \in Members(cr) \cup {n} PROVE LastPing(m)' >= now - 1
      BY <1>1, <1>11 DEF Fresh
    <3>1. CASE m = n
      BY <1>2, <1>16, <3>1
    <3>2. CASE m # n /\ m \in Members(cr)
      BY <1>11, <1>13, <3>2 DEF LastPing
    <3> QED
      BY <3>1, <3>2
  <2> QED
    BY <1>1, <1>3, <2>1, <2>2 DEF OpenInv
<1>22. ClosedInv'
  BY <1>11 DEF ClosedInv, IsTerminated
<1>23. AnswerInv'
  <2>1. \A p \in Proc : RoomSize(p)' = RoomSize(p)
    BY DEF RoomSize
  <2>2. ASSUME NEW p \in Proc, reply[p].tag = "ok", reply[p].info.room_uuid # NoUuid PROVE FALSE
    <3>1. pc[p] = "poll" /\ IsTerminated
      BY <2>2 DEF IInv, ClientInv, KnowledgeOf, NoReply, QuietInv, AnswerInv, Awaiting
    <3>2. cr = room
      BY <1>7, <3>1 DEF Sits, Waits
    <3> QED
      BY <1>6, <3>1, <3>2 DEF IsOpen, IsTerminated
  <2>3. pc'[q.proc] = "signup"
    BY <1>1
  <2> QED
    BY <1>1, <1>10, <1>14, <2>1, <2>2, <2>3 DEF AnswerInv, QuietInv, IsReady
<1>24. (\A p \in Proc : room # NoRoom => room.room_size = RoomSize(p))'
  BY <1>12 DEF RoomSize
<1> QED
  BY <1>1, <1>18, <1>19, <1>20, <1>21, <1>22, <1>23, <1>24 DEF QuietInv

LEMMA QuietFirst ==
    ASSUME IInv, PromptTiming, QuietInv, NEW q \in requests, Serve(q), pc[q.proc] = "signup"
    PROVE  QuietInv'
<1>1. IsNew(q) /\ now <= StartBy /\ TypeOK /\ RoomInv
  BY Served1 DEF IInv
<1>2. ~ ServeClosedRoom(q) /\ ~ Ping(q) /\ ~ RefuseUnknownParty(q)
  BY <1>1 DEF ServeClosedRoom, Holds, HasMember, IsNew, RoomInv, Roster, Ping, RefuseUnknownParty
<1>3. ~ ReplaceTimedOutParty(q)
  <2> SUFFICES ASSUME ReplaceTimedOutParty(q) PROVE FALSE
    OBVIOUS
  <2> DEFINE n == NumberOf(q)
  <2>1. /\ ReachesSignup(q) /\ n \in Members(CurrentRoom(q))
        /\ ~ IsMemberActive(CurrentRoom(q), n, now)
    BY DEF ReplaceTimedOutParty, Admitted
  <2>2. CurrentRoom(q) = room /\ IsOpen
    BY <1>1, <2>1, CurrentRoomFacts DEF IsOpen
  <2> HIDE DEF n
  <2>3. room.member_info[n].last_ping \in Nat /\ room.member_info[n].last_ping >= now - 2
    BY <1>1, <2>1, <2>2, FreshRoom, TimeTypes DEF Fresh, LastPing
  <2> QED
    BY <2>1, <2>2, <2>3, ActiveMember
<1>4. CASE \E e \in Error : Refuse(q, e)
  <2>1. PICK e \in Error : Refuse(q, e)
    BY <1>4
  <2>2. UNCHANGED managerVars /\ Answer(q, Err(e)) /\ Err(e).tag = "err"
    BY <2>1 DEF Refuse, Err
  <2> QED
    BY <2>2, QuietAnswer
<1>5. CASE JoinRoom(q)
  BY <1>5, QuietJoin
<1> QED
  BY <1>2, <1>3, <1>4, <1>5 DEF Serve, RefuseClosedRoom, RefuseFullRoom, RefuseActiveParty, Error

LEMMA NextQuiet ==
    ASSUME IInv, PromptTiming, PInv, [PromptNext]_vars
    PROVE  PInv'
<1> SUFFICES ASSUME Quiet' PROVE QuietInv'
  BY DEF PInv
<1>1. Quiet
  <2>1. /\ crashes \in Nat /\ faults \in Nat
        /\ crashes' = crashes \/ crashes' = crashes + 1
        /\ faults' = faults \/ faults' = faults + 1
    BY DEF IInv, TypeOK, PromptNext, PromptTick, Tick, Serve, Expire, Client, Start, Poll,
       ReceiveSignup, ReceivePoll, ReceiveError, SendFails, Crash, vars
  <2> QED
    BY <2>1 DEF Quiet
<1>2. QuietInv
  BY <1>1 DEF PInv
<1>3. ASSUME NEW q \in requests, Serve(q) PROVE QuietInv'
  <2>1. pc[q.proc] \in {"signup", "poll"}
    BY <1>2, <1>3, Served1 DEF Awaiting
  <2>2. pc[q.proc] = "poll" => IsOpen \/ IsTerminated
    BY <1>2, <1>3, PollerHolds
  <2> QED
    BY <1>2, <1>3, <2>1, <2>2, QuietFirst, QuietPoll, QuietPing
<1>4. ASSUME UNCHANGED vars PROVE QuietInv'
  <2>1. UNCHANGED <<now, room, stored, pc, signup, requests, reply>>
    BY <1>4 DEF vars, managerVars, clientVars
  <2>2. \A p \in Proc : Sits(p)' = Sits(p) /\ Waits(p)' = Waits(p) /\ IdentityOf(p)' = IdentityOf(p)
    BY <2>1 DEF Sits, Waits, Comes, IdentityOf
  <2>3. LateInv' /\ AnswerInv' /\ \A q \in requests' : q.live
    BY <1>2, <2>1 DEF QuietInv, LateInv, AnswerInv, IsTerminated, IsReady, RoomSize
  <2> QED
    BY <1>2, <2>1, <2>2, <2>3, QuietFrame
<1> QED
  BY <1>1, <1>2, <1>3, <1>4, QuietClient, QuietTick, QuietExpire DEF PromptNext

\* When nothing fails, all were given the same t, and they are started while the
\* first still waits, whoever is told the room's identity was told that exactly
\* t+1 parties have joined, and has one of the numbers 1..t+1, even if more parties
\* come than the room takes, or a party comes twice.
THEOREM SlotsFilled ==
    ASSUME PromptTiming
    PROVE  PromptSpec => []SlotsFillTotal
<1>1. Init => PInv
  <2> SUFFICES ASSUME Init PROVE QuietInv
    BY DEF PInv
  <2>1. /\ requests = {} /\ room = NoRoom /\ now = 0
        /\ \A p \in Proc : pc[p] = "idle" /\ reply[p].tag = "none"
    BY DEF Init, NoReply
  <2>2. ~ IsOpen /\ ~ IsTerminated
    BY <2>1, NoRoomFacts DEF IsOpen, IsTerminated
  <2>3. LateInv
    BY <2>1, PromptAssumption DEF LateInv
  <2> QED
    BY <2>1, <2>2, <2>3 DEF QuietInv, SitInv, TakenInv, OpenInv, ClosedInv, AnswerInv, Sits, Waits,
       Comes, IsReady
<1>2. PInv => SlotsFillTotal
  BY DEF PInv, Quiet, QuietInv, AnswerInv, SlotsFillTotal
<1>3. IInv /\ PInv /\ [PromptNext]_vars => PInv'
  BY NextQuiet
<1> QED
  BY <1>1, <1>2, <1>3, InitIInv, PromptNextIInv, PTL DEF PromptSpec

=============================================================================
