-------------------------- MODULE SignupSignProofs --------------------------
(***************************************************************************)
(* Proofs about SignupSign, for any processes, party numbers, threshold and *)
(* timeouts, and any number of crashes, failed exchanges and expiries.      *)
(*                                                                          *)
(* The invariant follows an identity from the room to the process it was    *)
(* issued to: an identity belongs to one process, and a process that knows  *)
(* the identity of the stored room, or will know it when its answer         *)
(* arrives, is in the roster of that room, which is closed.                 *)
(***************************************************************************)
EXTENDS SignupSign, FiniteSetTheorems, TLAPS

\* What a process has been told, or will have been when its answer arrives:
\* its identity, its number, and the identity of the room.
Seat(info) == [id |-> info.party_uuid, order |-> info.party_order, room |-> info.room_uuid]
KeptSeat(p) == [id |-> signup[p].party_uuid, order |-> signup[p].number, room |-> signup[p].uuid]

Told(p, s) ==
    \/ s = KeptSeat(p)
    \/ reply[p].tag = "ok" /\ s = Seat(reply[p].info)

SeatT == [id : Nat, order : Nat, room : Nat]

\* The identity w is p's: p was told it, or presents it.
Owns(p, w) ==
    /\ w # NoUuid
    /\ \/ \E s \in SeatT : Told(p, s) /\ s.id = w
       \/ \E q \in requests : q.proc = p /\ q.party_uuid = w

\* A process waits for one request at most, and presents its own identity.
LiveInv ==
    \A q \in requests : q.live =>
        /\ Awaiting(q.proc)
        /\ reply[q.proc] = NoReply
        /\ q.party_uuid = signup[q.proc].party_uuid
        /\ \A r \in requests : r.live /\ r.proc = q.proc => r = q

\* What a process knows in each control state.
KnowledgeOf(p) ==
    /\ reply[p] # NoReply => Awaiting(p)
    /\ pc[p] \in {"idle", "signup"} => signup[p] = NotSignedUp
    /\ pc[p] \in {"sleep", "poll", "ready"} => signup[p].party_uuid # NoUuid
    /\ pc[p] = "ready" => signup[p].uuid # NoUuid
    /\ reply[p].tag = "ok" =>
          /\ reply[p].info.party_uuid # NoUuid
          /\ pc[p] = "poll" => reply[p].info.party_uuid = signup[p].party_uuid

ClientInv == LiveInv /\ \A p \in Proc : KnowledgeOf(p)

\* Identities are handed out once, and each belongs to one process.
OwnerInv ==
    \A p \in Proc : \A w \in Nat : Owns(p, w) =>
        /\ w < nextUuid
        /\ \A o \in Proc : Owns(o, w) => o = p

\* The stored room: its roster is in order, older than the next identity, and
\* no ping is later than the insertion of the entry.
Roster(r, uuids, time) ==
    /\ IsFiniteSet(Members(r))
    /\ r.room_uuid < uuids
    /\ \A n \in Members(r) :
          /\ r.member_info[n].party_id # NoUuid
          /\ r.member_info[n].last_ping <= time
          /\ r.member_info[n].party_order \in 1 .. Cardinality(Members(r))
          /\ \A m \in Members(r) :
                r.member_info[m].party_order = r.member_info[n].party_order => m = n

RoomInv ==
    /\ Roster(room, nextUuid, stored)
    /\ stored <= now
    /\ room = NoRoom \/ (room.last_stage \in {"signup", "terminated"} /\ room.room_uuid # NoUuid)

\* Who was told the identity of the stored room is in its roster, and it is
\* closed; nobody else was told the same number of the same room, nor anything of
\* it for the same party.
Seated(p, s) ==
    /\ IsTerminated
    /\ PartyNumber[p] \in Members(room)
    /\ room.member_info[PartyNumber[p]].party_id = s.id
    /\ room.member_info[PartyNumber[p]].party_order = s.order

SeatsInv ==
    \A p \in Proc : \A s \in SeatT : Told(p, s) /\ s.room # NoUuid =>
        /\ s.id # NoUuid
        /\ s.room < nextUuid
        /\ s.room = room.room_uuid => Seated(p, s)
        /\ \A o \in Proc : \A t \in SeatT :
              Told(o, t) /\ o # p /\ t.room = s.room =>
                 t.order # s.order /\ PartyNumber[o] # PartyNumber[p]

IInv == TypeOK /\ RoomInv /\ ClientInv /\ OwnerInv /\ SeatsInv

-----------------------------------------------------------------------------
(***************************************************************************)
(* The room's operators.                                                    *)
(***************************************************************************)
RoomTyped(r) == \E ns \in SUBSET PartyNumbers : r \in Rooms(ns)

LEMMA U16Range == ASSUME NEW x \in 0 .. U16 - 1 PROVE x \in Int /\ x + 1 \in Int
  BY DEF U16

LEMMA Wraps == ASSUME NEW x \in Int PROVE x % U16 \in 0 .. U16 - 1
  BY DEF U16

LEMMA RoomSizeType == ASSUME NEW p \in Proc PROVE RoomSize(p) \in 0 .. U16 - 1
<1>1. Threshold[p] \in 0 .. U16 - 1
  BY SignupSignAssumption
<1>2. Threshold[p] + 1 \in Int
  BY <1>1, U16Range
<1> QED
  BY <1>2, Wraps DEF RoomSize

\* A room's fields, without the set its members range over.
LEMMA RoomFields ==
    ASSUME NEW r, RoomTyped(r)
    PROVE  /\ r = [room_uuid |-> r.room_uuid, room_size |-> r.room_size,
                   member_info |-> r.member_info, last_stage |-> r.last_stage]
           /\ r.room_uuid \in Nat /\ r.room_size \in 0 .. U16 - 1
           /\ r.last_stage \in {"absent", "signup", "terminated"}
           /\ Members(r) \subseteq PartyNumbers
           /\ r.member_info \in [Members(r) -> MemberInfo]
  BY DEF RoomTyped, Rooms, Members

LEMMA FieldsRoom ==
    ASSUME NEW u \in Nat, NEW z \in 0 .. U16 - 1, NEW ns \in SUBSET PartyNumbers,
           NEW f \in [ns -> MemberInfo], NEW st \in {"absent", "signup", "terminated"},
           NEW r,
           r = [room_uuid |-> u, room_size |-> z, member_info |-> f, last_stage |-> st]
    PROVE  RoomTyped(r) /\ Members(r) = ns
  BY DEF RoomTyped, Rooms, Members

\* A room that is made now has no members and an unused identity.
LEMMA NewRoomFacts ==
    ASSUME NEW u \in Nat, NEW z \in 0 .. U16 - 1
    PROVE  /\ RoomTyped(NewRoom(u, z))
           /\ Members(NewRoom(u, z)) = {}
           /\ NewRoom(u, z).room_uuid = u
           /\ NewRoom(u, z).last_stage = "signup"
  BY FieldsRoom DEF NewRoom, NoUuid, RoomTyped, Rooms, Members

\* Setting a member changes no other.
LEMMA SetMemberFacts ==
    ASSUME NEW r, RoomTyped(r), NEW n \in PartyNumbers, NEW info \in MemberInfo
    PROVE  LET s == SetMember(r, n, info)
           IN  /\ RoomTyped(s)
               /\ Members(s) = Members(r) \cup {n}
               /\ s.room_uuid = r.room_uuid
               /\ s.last_stage = r.last_stage
               /\ s.member_info[n] = info
               /\ \A m \in Members(r) : m # n => s.member_info[m] = r.member_info[m]
<1> DEFINE ns == Members(r) \cup {n}
           f == [m \in ns |-> IF m = n THEN info ELSE r.member_info[m]]
<1>1. ns \in SUBSET PartyNumbers /\ f \in [ns -> MemberInfo]
  BY RoomFields
<1>2. SetMember(r, n, info) =
        [room_uuid |-> r.room_uuid, room_size |-> r.room_size,
         member_info |-> f, last_stage |-> r.last_stage]
  BY RoomFields DEF SetMember
<1> HIDE DEF ns
<1>3. RoomTyped(SetMember(r, n, info)) /\ Members(SetMember(r, n, info)) = ns
  <2>1. r.room_uuid \in Nat /\ r.room_size \in 0 .. U16 - 1
        /\ r.last_stage \in {"absent", "signup", "terminated"}
    BY RoomFields
  <2> HIDE DEF f
  <2> QED
    BY <1>1, <1>2, <2>1, FieldsRoom
<1>4. SetMember(r, n, info).member_info = f
  BY <1>2
<1> QED
  BY <1>2, <1>3, <1>4 DEF ns

\* A ping changes the time of one member's last ping, and may close the room.
LEMMA UpdatePingFacts ==
    ASSUME NEW r, RoomTyped(r), NEW n \in Members(r), now \in Nat
    PROVE  LET s == UpdatePing(r, n, now)
           IN  /\ RoomTyped(s)
               /\ Members(s) = Members(r)
               /\ s.room_uuid = r.room_uuid
               /\ s.last_stage \in {r.last_stage, "terminated"}
               /\ \A m \in Members(r) :
                     /\ s.member_info[m].party_id = r.member_info[m].party_id
                     /\ s.member_info[m].party_order = r.member_info[m].party_order
                     /\ s.member_info[m].last_ping \in {r.member_info[m].last_ping, now}
<1> DEFINE f == [r.member_info EXCEPT ![n] = [@ EXCEPT !.last_ping = now]]
           t == [r EXCEPT !.member_info[n].last_ping = now]
<1>1. f \in [Members(r) -> MemberInfo]
  BY RoomFields DEF MemberInfo
<1>2. t = [room_uuid |-> r.room_uuid, room_size |-> r.room_size,
           member_info |-> f, last_stage |-> r.last_stage]
  BY RoomFields
<1>3. \A m \in Members(r) :
        /\ f[m].party_id = r.member_info[m].party_id
        /\ f[m].party_order = r.member_info[m].party_order
        /\ f[m].last_ping \in {r.member_info[m].last_ping, now}
  BY RoomFields DEF MemberInfo
<1>4. PICK st \in {r.last_stage, "terminated"} :
        UpdatePing(r, n, now) =
          [room_uuid |-> r.room_uuid, room_size |-> r.room_size,
           member_info |-> f, last_stage |-> st]
  <2> HIDE DEF f
  <2>1. UpdatePing(r, n, now) \in {t, [t EXCEPT !.last_stage = "terminated"]}
    BY DEF UpdatePing, CloseSignupWindow
  <2> QED
    BY <1>2, <2>1
<1>5. RoomTyped(UpdatePing(r, n, now)) /\ Members(UpdatePing(r, n, now)) = Members(r)
  <2>1. /\ r.room_uuid \in Nat /\ r.room_size \in 0 .. U16 - 1
        /\ st \in {"absent", "signup", "terminated"}
        /\ Members(r) \in SUBSET PartyNumbers
    BY RoomFields
  <2> HIDE DEF f
  <2> QED
    BY <1>1, <1>4, <2>1, FieldsRoom
<1> HIDE DEF f
<1> QED
  BY <1>3, <1>4, <1>5

\* What a member is told.
LEMMA SignupInfoFacts ==
    ASSUME NEW r, RoomTyped(r), IsFiniteSet(Members(r)), NEW n \in Members(r)
    PROVE  LET info == GetSignupInfo(r, n, now)
           IN  /\ info \in SignupInfo
               /\ info.party_uuid = r.member_info[n].party_id
               /\ info.party_order = r.member_info[n].party_order
               /\ info.room_uuid = IF r.last_stage = "signup" THEN NoUuid ELSE r.room_uuid
<1>1. ActiveMembers(r, now) \subseteq Members(r)
  BY DEF ActiveMembers
<1>2. Cardinality(ActiveMembers(r, now)) \in Nat
  BY <1>1, FS_Subset, FS_CardinalityType
<1>3. r.member_info[n] \in MemberInfo /\ r.room_uuid \in Nat
  BY RoomFields
<1> QED
  BY <1>2, <1>3 DEF GetSignupInfo, SignupInfo, MemberInfo, NoUuid

LEMMA NewSignPartyFacts ==
    ASSUME NEW order \in Order, NEW uuid \in Nat
    PROVE  LET info == NewSignParty(order, uuid)
           IN  info \in SignupInfo /\ info.party_uuid = uuid /\ info.room_uuid = NoUuid
  BY DEF NewSignParty, SignupInfo, NoUuid

-----------------------------------------------------------------------------
(***************************************************************************)
(* What the steps have in common.                                           *)
(***************************************************************************)
Requests == [proc : Proc, serial : Nat, party_uuid : Nat, live : BOOLEAN]
Signups == [party_uuid : Nat, number : Nat, uuid : Nat, total : Nat, since : Nat]

LEMMA Typed ==
    ASSUME TypeOK
    PROVE  /\ now \in Nat /\ stored \in Nat /\ nextUuid \in Nat \ {NoUuid}
           /\ RoomTyped(room)
           /\ requests \subseteq Requests
           /\ \A p \in Proc :
                 /\ signup[p] \in Signups /\ pc[p] \in PC
                 /\ reply[p] \in Replies
                 /\ reply[p].tag = "ok" => reply[p].info \in SignupInfo
                 /\ reply[p].tag = "none" <=> reply[p] = NoReply
                 /\ KeptSeat(p) \in SeatT
                 /\ reply[p].tag = "ok" => Seat(reply[p].info) \in SeatT
<1>1. /\ now \in Nat /\ stored \in Nat /\ nextUuid \in Nat \ {NoUuid}
      /\ RoomTyped(room) /\ requests \subseteq Requests
  BY DEF TypeOK, RoomTyped, Requests
<1>2. ASSUME NEW p \in Proc
      PROVE  /\ signup[p] \in Signups /\ pc[p] \in PC /\ reply[p] \in Replies
             /\ reply[p].tag = "ok" => reply[p].info \in SignupInfo
             /\ reply[p].tag = "none" <=> reply[p] = NoReply
  <2>1. signup[p] \in Signups /\ pc[p] \in PC /\ reply[p] \in Replies
    BY DEF TypeOK, Signups
  <2>2. /\ reply[p].tag = "ok" => reply[p].info \in SignupInfo
        /\ reply[p].tag = "none" <=> reply[p] = NoReply
    BY <2>1 DEF Replies, NoReply
  <2> QED
    BY <2>1, <2>2
<1>3. ASSUME NEW p \in Proc
      PROVE  /\ KeptSeat(p) \in SeatT
             /\ reply[p].tag = "ok" => Seat(reply[p].info) \in SeatT
  BY <1>2, <1>3 DEF Signups, SignupInfo, Order, KeptSeat, Seat, SeatT
<1> QED
  BY <1>1, <1>2, <1>3

\* An identity stays with its process when no process comes to own another, ...
LEMMA OwnerStays ==
    ASSUME OwnerInv, nextUuid \in Nat, nextUuid' \in Nat, nextUuid' >= nextUuid,
           \A p \in Proc : \A w \in Nat : Owns(p, w)' => Owns(p, w)
    PROVE  OwnerInv'
  BY DEF OwnerInv

\* ... or one process comes to own a new one.
LEMMA OwnerGrows ==
    ASSUME OwnerInv, nextUuid \in Nat, nextUuid' \in Nat,
           NEW p \in Proc, NEW w \in Nat, w >= nextUuid, w < nextUuid',
           \A o \in Proc : \A v \in Nat : Owns(o, v)' => Owns(o, v) \/ (o = p /\ v = w)
    PROVE  OwnerInv'
  BY DEF OwnerInv

\* What a step may do to the identity of the stored room.
RoomMoves ==
    /\ nextUuid' \in Nat /\ nextUuid' >= nextUuid
    /\ \/ room' = room
       \/ room'.room_uuid = NoUuid
       \/ room'.room_uuid = nextUuid
       \/ ~ IsTerminated /\ room'.room_uuid = room.room_uuid

\* Who was told of a room before the step is still in order after it.
LEMMA OldSeat ==
    ASSUME TypeOK, SeatsInv, RoomMoves, NEW p \in Proc, NEW s \in SeatT,
           Told(p, s), s.room # NoUuid
    PROVE  /\ s.id # NoUuid
           /\ s.room < nextUuid'
           /\ s.room = room'.room_uuid => Seated(p, s)'
<1>1. /\ s.id # NoUuid /\ s.room < nextUuid
      /\ s.room = room.room_uuid => Seated(p, s)
  BY DEF SeatsInv
<1>2. s.room \in Nat /\ nextUuid \in Nat
  BY Typed DEF SeatT
<1>3. s.room < nextUuid'
  BY <1>1, <1>2 DEF RoomMoves
<1>4. s.room = room'.room_uuid => room' = room
  BY <1>1, <1>2 DEF RoomMoves, Seated
<1> QED
  BY <1>1, <1>3, <1>4 DEF Seated, IsTerminated

\* Seats are exclusive after a step if each is an old one of another room, or is
\* in the roster of the stored room.
LEMMA SeatsGrow ==
    ASSUME SeatsInv, OwnerInv', RoomInv',
           \A p \in Proc : \A s \in SeatT : Told(p, s)' /\ s.room # NoUuid =>
              /\ s.id # NoUuid
              /\ s.room < nextUuid'
              /\ IF s.room = room'.room_uuid THEN Seated(p, s)' ELSE Told(p, s)
    PROVE  SeatsInv'
<1> SUFFICES ASSUME NEW p \in Proc, NEW s \in SeatT, Told(p, s)', s.room # NoUuid,
                    NEW o \in Proc, NEW t \in SeatT, Told(o, t)', o # p, t.room = s.room
             PROVE  t.order # s.order /\ PartyNumber[o] # PartyNumber[p]
  BY DEF SeatsInv
<1>1. CASE s.room = room'.room_uuid
  <2> SUFFICES ASSUME t.order = s.order \/ PartyNumber[o] = PartyNumber[p] PROVE FALSE
    OBVIOUS
  <2>1. Seated(p, s)' /\ Seated(o, t)' /\ s.id # NoUuid
    BY <1>1
  <2>2. PartyNumber[o] = PartyNumber[p]
    BY <2>1 DEF RoomInv, Roster, Seated
  <2>3. s.id = t.id /\ s.id \in Nat
    BY <2>1, <2>2 DEF Seated, SeatT
  <2>4. Owns(p, s.id)' /\ Owns(o, s.id)'
    BY <2>1, <2>3 DEF Owns
  <2> QED
    BY <2>3, <2>4 DEF OwnerInv
<1>2. CASE s.room # room'.room_uuid
  BY <1>2 DEF SeatsInv
<1> QED
  BY <1>1, <1>2

\* A step that tells nobody of a room keeps seats exclusive.
LEMMA SeatsStay ==
    ASSUME TypeOK, SeatsInv, RoomMoves,
           \A p \in Proc : \A s \in SeatT : Told(p, s)' /\ s.room # NoUuid => Told(p, s)
    PROVE  SeatsInv'
<1>1. \A p \in Proc : \A s \in SeatT : Told(p, s)' /\ s.room # NoUuid =>
        /\ s.id # NoUuid
        /\ s.room < nextUuid'
        /\ s.room = room'.room_uuid => Seated(p, s)'
  BY OldSeat
<1> QED
  BY <1>1 DEF SeatsInv

\* The manager's part of the state after a request was served.
LEMMA ServedType ==
    ASSUME TypeOK, UNCHANGED <<now, clientVars, faults, crashes>>,
           RoomTyped(room)', stored' \in Nat, nextUuid' \in Nat \ {NoUuid},
           requests' \subseteq Requests, reply' \in [Proc -> Replies]
    PROVE  TypeOK'
  BY DEF TypeOK, clientVars, RoomTyped, Requests

\* An answer to a request reaches its sender or nobody.
LEMMA Answered ==
    ASSUME TypeOK, ClientInv, NEW q \in requests, requests' = requests \ {q},
           UNCHANGED clientVars,
           NEW r \in Replies, r.tag # "none", Answer(q, r),
           r.tag = "ok" =>
              /\ r.info.party_uuid # NoUuid
              /\ q.party_uuid # NoUuid => r.info.party_uuid = q.party_uuid
    PROVE  /\ q.proc \in Proc
           /\ requests' \subseteq Requests
           /\ reply' \in [Proc -> Replies]
           /\ ClientInv'
           /\ \A o \in Proc : \A s \in SeatT : Told(o, s)' =>
                 Told(o, s) \/ (o = q.proc /\ r.tag = "ok" /\ s = Seat(r.info))
<1>1. q \in Requests /\ q.proc \in Proc /\ requests' \subseteq Requests
  BY Typed DEF Requests
<1>2. reply' = IF q.live THEN [reply EXCEPT ![q.proc] = r] ELSE reply
  BY DEF Answer
<1>3. reply \in [Proc -> Replies]
  BY DEF TypeOK
<1>4. reply' \in [Proc -> Replies]
  BY <1>1, <1>2, <1>3
<1>5. pc' = pc /\ signup' = signup
  BY DEF clientVars
<1>6. \A o \in Proc : reply'[o] = reply[o] \/ (o = q.proc /\ q.live /\ reply'[o] = r)
  BY <1>1, <1>2, <1>3
<1>7. LiveInv'
  <2> SUFFICES ASSUME NEW x \in requests', x.live
               PROVE  /\ Awaiting(x.proc)'
                      /\ reply'[x.proc] = NoReply
                      /\ x.party_uuid = signup'[x.proc].party_uuid
                      /\ \A y \in requests' : y.live /\ y.proc = x.proc => y = x
    BY DEF LiveInv
  <2>1. x \in requests /\ x # q
    OBVIOUS
  <2>2. /\ Awaiting(x.proc) /\ reply[x.proc] = NoReply
        /\ x.party_uuid = signup[x.proc].party_uuid
        /\ \A y \in requests : y.live /\ y.proc = x.proc => y = x
    BY <2>1 DEF ClientInv, LiveInv
  <2>3. ~ (q.live /\ q.proc = x.proc)
    BY <2>1, <2>2
  <2>4. x.proc \in Proc
    BY <1>1 DEF Requests
  <2> QED
    BY <1>5, <1>6, <2>1, <2>2, <2>3, <2>4 DEF Awaiting
<1>8. ASSUME NEW o \in Proc PROVE KnowledgeOf(o)'
  <2>1. KnowledgeOf(o)
    BY DEF ClientInv
  <2>2. CASE reply'[o] = reply[o]
    BY <1>5, <2>1, <2>2 DEF KnowledgeOf, Awaiting
  <2>3. CASE o = q.proc /\ q.live /\ reply'[o] = r
    <3>1. Awaiting(o) /\ q.party_uuid = signup[o].party_uuid
      BY <2>3 DEF ClientInv, LiveInv
    <3>2. r.tag = "ok" /\ pc[o] = "poll" => r.info.party_uuid = signup[o].party_uuid
      BY <2>1, <3>1 DEF KnowledgeOf
    <3> QED
      BY <1>5, <2>1, <2>3, <3>1, <3>2 DEF KnowledgeOf, Awaiting
  <2> QED
    BY <1>6, <2>2, <2>3
<1>9. \A o \in Proc : \A s \in SeatT : Told(o, s)' =>
        Told(o, s) \/ (o = q.proc /\ r.tag = "ok" /\ s = Seat(r.info))
  BY <1>5, <1>6 DEF Told, KeptSeat
<1> QED
  BY <1>1, <1>4, <1>7, <1>8, <1>9 DEF ClientInv

\* What it lets its sender own is what the answer names.
LEMMA AnsweredOwns ==
    ASSUME NEW q \in requests, requests' = requests \ {q}, NEW id,
           \A o \in Proc : \A s \in SeatT : Told(o, s)' =>
              Told(o, s) \/ (o = q.proc /\ s.id = id)
    PROVE  \A o \in Proc : \A w \in Nat : Owns(o, w)' => Owns(o, w) \/ (o = q.proc /\ w = id)
  BY DEF Owns

-----------------------------------------------------------------------------
(***************************************************************************)
(* The manager's steps.                                                     *)
(***************************************************************************)
Served(q) ==
    /\ requests' = requests \ {q}
    /\ UNCHANGED <<now, clientVars, faults, crashes>>

\* A refusal changes nothing but the answer.
LEMMA RefuseStep ==
    ASSUME IInv, NEW q \in requests, Served(q), NEW e \in Error, Refuse(q, e)
    PROVE  IInv'
<1>1. TypeOK /\ RoomInv /\ ClientInv /\ OwnerInv /\ SeatsInv
  BY DEF IInv
<1>2. Err(e) \in Replies /\ Err(e).tag = "err"
  BY DEF Err, Replies
<1>3. requests' = requests \ {q} /\ UNCHANGED clientVars /\ Answer(q, Err(e))
  BY DEF Served, Refuse
<1>4. UNCHANGED <<room, stored, nextUuid, now>>
  BY DEF Served, Refuse, managerVars
<1>5. /\ requests' \subseteq Requests /\ reply' \in [Proc -> Replies] /\ ClientInv'
      /\ \A o \in Proc : \A s \in SeatT : Told(o, s)' => Told(o, s)
  BY <1>1, <1>2, <1>3, Answered
<1>6. nextUuid \in Nat \ {NoUuid} /\ nextUuid >= nextUuid /\ stored \in Nat /\ RoomTyped(room)
  BY <1>1, Typed
<1>7. TypeOK'
  BY <1>1, <1>4, <1>5, <1>6, ServedType DEF Served, RoomTyped
<1>8. RoomInv'
  BY <1>1, <1>4 DEF RoomInv, Roster, Members
<1>9. OwnerInv'
  <2>1. \A o \in Proc : \A w \in Nat : Owns(o, w)' => Owns(o, w)
    BY <1>3, <1>5 DEF Owns
  <2> QED
    BY <1>1, <1>4, <1>6, <2>1, OwnerStays
<1>10. SeatsInv'
  BY <1>1, <1>4, <1>5, <1>6, SeatsStay DEF RoomMoves
<1> QED
  BY <1>5, <1>7, <1>8, <1>9, <1>10 DEF IInv

\* The party number of a request is one of the parties'.
LEMMA NumberType ==
    ASSUME TypeOK, NEW q \in requests
    PROVE  NumberOf(q) \in PartyNumbers /\ q.proc \in Proc /\ q.party_uuid \in Nat
  BY Typed DEF Requests, NumberOf, PartyNumbers

\* The seat that a member of the closed room is told: its own, in the roster.
LEMMA ClosedStep ==
    ASSUME IInv, NEW q \in requests, Served(q), ServeClosedRoom(q)
    PROVE  IInv'
<1> DEFINE n == NumberOf(q)
           info == GetSignupInfo(room, n, now)
<1>1. TypeOK /\ RoomInv /\ ClientInv /\ OwnerInv /\ SeatsInv
  BY DEF IInv
<1>2. /\ RoomTyped(room) /\ IsFiniteSet(Members(room))
      /\ n \in Members(room) /\ room.member_info[n].party_id = q.party_uuid
      /\ IsTerminated /\ q.party_uuid # NoUuid
  BY <1>1, Typed DEF RoomInv, Roster, ServeClosedRoom, Holds, HasMember
<1>3. /\ info \in SignupInfo /\ info.party_uuid = q.party_uuid
      /\ info.party_order = room.member_info[n].party_order
      /\ info.room_uuid = room.room_uuid
  BY <1>2, SignupInfoFacts DEF IsTerminated
<1> HIDE DEF info
<1>4. Ok(info) \in Replies /\ Ok(info).tag = "ok" /\ Ok(info).info = info
  BY <1>3 DEF Ok, Replies
<1>5. requests' = requests \ {q} /\ UNCHANGED clientVars /\ Answer(q, Ok(info))
  BY DEF Served, ServeClosedRoom, info
<1>6. UNCHANGED <<room, stored, nextUuid, now>>
  BY DEF Served, ServeClosedRoom, managerVars
<1>7. /\ requests' \subseteq Requests /\ reply' \in [Proc -> Replies] /\ ClientInv'
      /\ \A o \in Proc : \A s \in SeatT : Told(o, s)' =>
            Told(o, s) \/ (o = q.proc /\ s = Seat(info))
  BY <1>1, <1>2, <1>3, <1>4, <1>5, Answered
<1>8. nextUuid \in Nat \ {NoUuid} /\ nextUuid >= nextUuid /\ stored \in Nat
  BY <1>1, Typed
<1>9. TypeOK'
  BY <1>1, <1>2, <1>6, <1>7, <1>8, ServedType DEF Served, RoomTyped
<1>10. RoomInv'
  BY <1>1, <1>6 DEF RoomInv, Roster, Members
<1>11. Seat(info).id = q.party_uuid /\ Seat(info).room = room.room_uuid
       /\ Seat(info).order = room.member_info[n].party_order
  BY <1>3 DEF Seat
<1>12. OwnerInv'
  <2>1. \A o \in Proc : \A w \in Nat : Owns(o, w)' => Owns(o, w) \/ (o = q.proc /\ w = q.party_uuid)
    BY <1>5, <1>7, <1>11, AnsweredOwns
  <2>2. Owns(q.proc, q.party_uuid)
    BY <1>2 DEF Owns
  <2> QED
    BY <1>1, <1>6, <1>8, <2>1, <2>2, OwnerStays
<1>13. SeatsInv'
  <2>1. RoomMoves
    BY <1>6, <1>8 DEF RoomMoves
  <2>2. ASSUME NEW p \in Proc, NEW s \in SeatT, Told(p, s)', s.room # NoUuid
        PROVE  /\ s.id # NoUuid
               /\ s.room < nextUuid'
               /\ IF s.room = room'.room_uuid THEN Seated(p, s)' ELSE Told(p, s)
    <3>1. CASE Told(p, s)
      BY <1>1, <2>1, <2>2, <3>1, OldSeat
    <3>2. CASE p = q.proc /\ s = Seat(info)
      <4>1. s.id # NoUuid /\ s.room = room.room_uuid /\ s.room < nextUuid
        BY <1>1, <1>2, <1>11, <3>2 DEF RoomInv, Roster
      <4>2. Seated(p, s)
        BY <1>2, <1>11, <3>2 DEF Seated, NumberOf
      <4> QED
        BY <1>6, <4>1, <4>2 DEF Seated, IsTerminated, Members
    <3> QED
      BY <1>7, <2>2, <3>1, <3>2
  <2> QED
    BY <1>1, <1>10, <1>12, <2>2, SeatsGrow
<1> QED
  BY <1>7, <1>9, <1>10, <1>12, <1>13 DEF IInv

\* The room a request that reaches the signup phase is checked against.
LEMMA CurrentRoomFacts ==
    ASSUME TypeOK, RoomInv, NEW q \in requests, ReachesSignup(q)
    PROVE  /\ RoomTyped(CurrentRoom(q))
           /\ Roster(CurrentRoom(q), nextUuid + 1, now)
           /\ CurrentRoom(q).last_stage = "signup"
           /\ CurrentRoom(q).room_uuid # NoUuid
           /\ \/ CurrentRoom(q).room_uuid = nextUuid /\ Members(CurrentRoom(q)) = {}
              \/ CurrentRoom(q) = room /\ ~ IsTerminated
<1>1. /\ now \in Nat /\ stored \in Nat /\ nextUuid \in Nat \ {NoUuid} /\ RoomTyped(room)
  BY Typed
<1>2. CASE CurrentRoom(q) = RenewedRoom(q)
  <2>0. q.proc \in Proc
    BY Typed DEF Requests
  <2>1. /\ RoomTyped(CurrentRoom(q)) /\ Members(CurrentRoom(q)) = {}
        /\ CurrentRoom(q).room_uuid = nextUuid /\ CurrentRoom(q).last_stage = "signup"
    BY <1>1, <1>2, <2>0, RoomSizeType, NewRoomFacts DEF RenewedRoom
  <2>2. Roster(CurrentRoom(q), nextUuid + 1, now)
    BY <1>1, <2>1, FS_EmptySet DEF Roster
  <2> QED
    BY <1>1, <2>1, <2>2
<1>3. CASE CurrentRoom(q) # RenewedRoom(q)
  <2>1. /\ CurrentRoom(q) = room /\ room # NoRoom /\ ~ (IsTerminated /\ AreAllMembersInactive(room, now))
    BY <1>3 DEF CurrentRoom
  <2>2. room.last_stage = "signup" /\ room.room_uuid # NoUuid
    BY <2>1 DEF ReachesSignup, RoomInv, IsTerminated
  <2>3. /\ room.room_uuid \in Nat /\ Members(room) = DOMAIN room.member_info
        /\ \A n \in Members(room) : room.member_info[n] \in MemberInfo
    BY <1>1, RoomFields DEF Members
  <2>4. Roster(room, nextUuid + 1, now)
    BY <1>1, <2>3 DEF RoomInv, Roster, MemberInfo
  <2> QED
    BY <1>1, <2>1, <2>2, <2>4 DEF IsTerminated
<1> QED
  BY <1>2, <1>3

\* The roster after a party joined at the end, ...
LEMMA RosterAdd ==
    ASSUME NEW r, RoomTyped(r), NEW u \in Nat, now \in Nat, Roster(r, u, now),
           NEW n \in PartyNumbers, n \notin Members(r),
           NEW id \in Nat \ {NoUuid}, NEW v \in Nat, v >= u
    PROVE  LET s == AddParty(r, n, id, now)
           IN  /\ RoomTyped(s) /\ Roster(s, v, now)
               /\ s.room_uuid = r.room_uuid /\ s.last_stage = r.last_stage
               /\ NextOrder(r) \in Order
<1> DEFINE s == AddParty(r, n, id, now)
           info == Member(id, NextOrder(r), now)
           k == Cardinality(Members(r))
<1>1. IsFiniteSet(Members(r)) /\ k \in Nat /\ NextOrder(r) = k + 1
  BY FS_CardinalityType DEF Roster, NextOrder
<1>2. /\ info \in MemberInfo /\ info.party_id = id /\ info.party_order = k + 1
      /\ info.last_ping = now
  BY <1>1 DEF Member, MemberInfo, Order
<1>3. s = SetMember(r, n, info)
  BY DEF AddParty
<1> HIDE DEF s, info
<1>4. /\ RoomTyped(s) /\ Members(s) = Members(r) \cup {n}
      /\ s.room_uuid = r.room_uuid /\ s.last_stage = r.last_stage
      /\ s.member_info[n] = info
      /\ \A m \in Members(r) : m # n => s.member_info[m] = r.member_info[m]
  BY <1>2, <1>3, SetMemberFacts
<1>5. IsFiniteSet(Members(s)) /\ Cardinality(Members(s)) = k + 1
  BY <1>1, <1>4, FS_AddElement
<1>6. r.room_uuid \in Nat /\ \A m \in Members(r) : r.member_info[m].party_order \in Nat
  BY RoomFields DEF MemberInfo, Order
<1> HIDE DEF k
<1>7. \A m \in Members(r) :
        /\ r.member_info[m].party_id # NoUuid /\ r.member_info[m].last_ping <= now
        /\ r.member_info[m].party_order \in 1 .. k
        /\ \A o \in Members(r) :
              r.member_info[o].party_order = r.member_info[m].party_order => o = m
  BY DEF Roster, k
<1>8. ASSUME NEW m \in Members(s)
      PROVE  /\ s.member_info[m].party_id # NoUuid
             /\ s.member_info[m].last_ping <= now
             /\ s.member_info[m].party_order \in 1 .. k + 1
             /\ \A o \in Members(s) :
                   s.member_info[o].party_order = s.member_info[m].party_order => o = m
  <2>1. CASE m = n
    BY <1>1, <1>2, <1>4, <1>7, <2>1
  <2>2. CASE m \in Members(r)
    BY <1>1, <1>2, <1>4, <1>7, <2>2
  <2> QED
    BY <1>4, <2>1, <2>2
<1>9. s.room_uuid < v
  BY <1>4, <1>6 DEF Roster
<1>10. Roster(s, v, now)
  BY <1>5, <1>8, <1>9 DEF Roster
<1> QED
  BY <1>1, <1>4, <1>10 DEF s, Order

\* ... and after one was replaced.
LEMMA RosterReplace ==
    ASSUME NEW r, RoomTyped(r), NEW u \in Nat, now \in Nat, Roster(r, u, now),
           NEW n \in Members(r),
           NEW id \in Nat \ {NoUuid}, NEW v \in Nat, v >= u
    PROVE  LET s == ReplaceParty(r, n, id, now)
           IN  /\ RoomTyped(s) /\ Roster(s, v, now)
               /\ s.room_uuid = r.room_uuid /\ s.last_stage = r.last_stage
               /\ r.member_info[n].party_order \in Order
<1> DEFINE s == ReplaceParty(r, n, id, now)
           info == Member(id, r.member_info[n].party_order, now)
<1>1. /\ n \in PartyNumbers /\ r.member_info[n] \in MemberInfo /\ r.room_uuid \in Nat
  BY RoomFields
<1>2. /\ info \in MemberInfo /\ info.party_id = id
      /\ info.party_order = r.member_info[n].party_order /\ info.last_ping = now
  BY <1>1 DEF Member, MemberInfo
<1>3. s = SetMember(r, n, info)
  BY DEF ReplaceParty
<1> HIDE DEF s, info
<1>4. /\ RoomTyped(s) /\ Members(s) = Members(r)
      /\ s.room_uuid = r.room_uuid /\ s.last_stage = r.last_stage
      /\ s.member_info[n] = info
      /\ \A m \in Members(r) : m # n => s.member_info[m] = r.member_info[m]
  <2>1. /\ RoomTyped(s) /\ Members(s) = Members(r) \cup {n}
        /\ s.room_uuid = r.room_uuid /\ s.last_stage = r.last_stage
        /\ s.member_info[n] = info
        /\ \A m \in Members(r) : m # n => s.member_info[m] = r.member_info[m]
    BY <1>1, <1>2, <1>3, SetMemberFacts
  <2>2. Members(r) \cup {n} = Members(r)
    OBVIOUS
  <2> QED
    BY <2>1, <2>2
<1>5. \A m \in Members(r) : s.member_info[m].party_order = r.member_info[m].party_order
  BY <1>2, <1>4
<1>6. \A m \in Members(r) : s.member_info[m].party_id # NoUuid /\ s.member_info[m].last_ping <= now
  BY <1>2, <1>4 DEF Roster
<1>7. s.room_uuid < v
  BY <1>1, <1>4 DEF Roster
<1>8. Roster(s, v, now)
  BY <1>4, <1>5, <1>6, <1>7 DEF Roster
<1> QED
  BY <1>1, <1>4, <1>8 DEF s, MemberInfo

\* A party gets a seat in the room that takes signups: it is told a new identity,
\* and not yet which room it is.
LEMMA AdmitStep ==
    ASSUME IInv, NEW q \in requests, Served(q), ReachesSignup(q), IsNew(q),
           NEW s, NEW order \in Order,
           RoomTyped(s), Roster(s, nextUuid + 2, now),
           s.room_uuid = CurrentRoom(q).room_uuid, s.last_stage = "signup",
           Store(s), Answer(q, Ok(NewSignParty(order, nextUuid + 1))),
           nextUuid' = nextUuid + 2
    PROVE  IInv'
<1> DEFINE info == NewSignParty(order, nextUuid + 1)
<1>1. TypeOK /\ RoomInv /\ ClientInv /\ OwnerInv /\ SeatsInv
  BY DEF IInv
<1>2. /\ now \in Nat /\ nextUuid \in Nat /\ nextUuid > 0 /\ nextUuid + 1 \in Nat \ {NoUuid}
      /\ nextUuid' \in Nat \ {NoUuid} /\ nextUuid' >= nextUuid
  BY <1>1, Typed DEF NoUuid
<1>3. info \in SignupInfo /\ info.party_uuid = nextUuid + 1 /\ info.room_uuid = NoUuid
  BY <1>2, NewSignPartyFacts
<1>4. room' = s /\ stored' = now /\ now' = now
  BY DEF Store, Served
<1>5. requests' = requests \ {q} /\ UNCHANGED clientVars /\ Answer(q, Ok(info))
  BY DEF Served
<1> HIDE DEF info
<1>6. Ok(info) \in Replies /\ Ok(info).tag = "ok" /\ Ok(info).info = info
  BY <1>3 DEF Ok, Replies
<1>7. q.party_uuid = NoUuid
  BY DEF IsNew
<1>8. /\ requests' \subseteq Requests /\ reply' \in [Proc -> Replies] /\ ClientInv'
      /\ q.proc \in Proc
      /\ \A o \in Proc : \A t \in SeatT : Told(o, t)' =>
            Told(o, t) \/ (o = q.proc /\ t = Seat(info))
  BY <1>1, <1>2, <1>3, <1>5, <1>6, <1>7, Answered
<1>9. Seat(info).id = nextUuid + 1 /\ Seat(info).room = NoUuid
  BY <1>3 DEF Seat
<1>10. TypeOK'
  <2>1. RoomTyped(room)'
    BY <1>4 DEF RoomTyped
  <2> QED
    BY <1>1, <1>2, <1>4, <1>8, <2>1, ServedType DEF Served
<1>11. CurrentRoom(q).room_uuid # NoUuid /\ (CurrentRoom(q).room_uuid = nextUuid \/ (CurrentRoom(q) = room /\ ~ IsTerminated))
  BY <1>1, CurrentRoomFacts
<1>12. RoomInv'
  <2>1. Roster(room, nextUuid, stored)'
    BY <1>4 DEF Roster, Members
  <2> QED
    BY <1>2, <1>4, <1>11, <2>1 DEF RoomInv
<1>13. OwnerInv'
  <2>1. \A o \in Proc : \A w \in Nat : Owns(o, w)' => Owns(o, w) \/ (o = q.proc /\ w = nextUuid + 1)
    BY <1>5, <1>8, <1>9, AnsweredOwns
  <2>2. nextUuid + 1 \in Nat /\ nextUuid + 1 >= nextUuid /\ nextUuid + 1 < nextUuid'
    BY <1>2
  <2> QED
    BY <1>1, <1>2, <1>8, <2>1, <2>2, OwnerGrows
<1>14. SeatsInv'
  <2>1. RoomMoves
    BY <1>2, <1>4, <1>11 DEF RoomMoves
  <2> QED
    BY <1>1, <1>8, <1>9, <2>1, SeatsStay
<1> QED
  BY <1>8, <1>10, <1>12, <1>13, <1>14 DEF IInv

LEMMA JoinStep ==
    ASSUME IInv, NEW q \in requests, Served(q), JoinRoom(q)
    PROVE  IInv'
<1> DEFINE n == NumberOf(q)
           s == AddParty(CurrentRoom(q), n, nextUuid + 1, now)
           order == NextOrder(CurrentRoom(q))
<1>1. TypeOK /\ RoomInv /\ ReachesSignup(q) /\ IsNew(q)
  BY DEF IInv, JoinRoom, Admitted
<1>2. /\ now \in Nat /\ nextUuid \in Nat /\ nextUuid + 1 \in Nat \ {NoUuid}
      /\ nextUuid + 2 \in Nat /\ nextUuid + 2 >= nextUuid + 1
  BY <1>1, Typed DEF NoUuid
<1>3. /\ RoomTyped(CurrentRoom(q)) /\ Roster(CurrentRoom(q), nextUuid + 1, now)
      /\ CurrentRoom(q).last_stage = "signup"
  BY <1>1, CurrentRoomFacts
<1>4. n \in PartyNumbers /\ n \notin Members(CurrentRoom(q))
  BY <1>1, NumberType DEF JoinRoom
<1>5. /\ RoomTyped(s) /\ Roster(s, nextUuid + 2, now)
      /\ s.room_uuid = CurrentRoom(q).room_uuid /\ s.last_stage = "signup"
      /\ order \in Order
  <2> HIDE DEF n
  <2> QED
    BY <1>2, <1>3, <1>4, RosterAdd
<1>6. /\ Store(s) /\ Answer(q, Ok(NewSignParty(order, nextUuid + 1)))
      /\ nextUuid' = nextUuid + 2
  BY DEF JoinRoom
<1> HIDE DEF s, order
<1> QED
  BY <1>1, <1>5, <1>6, AdmitStep

LEMMA ReplaceStep ==
    ASSUME IInv, NEW q \in requests, Served(q), ReplaceTimedOutParty(q)
    PROVE  IInv'
<1> DEFINE n == NumberOf(q)
           s == ReplaceParty(CurrentRoom(q), n, nextUuid + 1, now)
           order == CurrentRoom(q).member_info[n].party_order
<1>1. TypeOK /\ RoomInv /\ ReachesSignup(q) /\ IsNew(q)
  BY DEF IInv, ReplaceTimedOutParty, Admitted
<1>2. /\ now \in Nat /\ nextUuid \in Nat /\ nextUuid + 1 \in Nat \ {NoUuid}
      /\ nextUuid + 2 \in Nat /\ nextUuid + 2 >= nextUuid + 1
  BY <1>1, Typed DEF NoUuid
<1>3. /\ RoomTyped(CurrentRoom(q)) /\ Roster(CurrentRoom(q), nextUuid + 1, now)
      /\ CurrentRoom(q).last_stage = "signup"
  BY <1>1, CurrentRoomFacts
<1>4. n \in Members(CurrentRoom(q))
  BY DEF ReplaceTimedOutParty
<1>5. /\ RoomTyped(s) /\ Roster(s, nextUuid + 2, now)
      /\ s.room_uuid = CurrentRoom(q).room_uuid /\ s.last_stage = "signup"
      /\ order \in Order
  <2> HIDE DEF n
  <2> QED
    BY <1>2, <1>3, <1>4, RosterReplace
<1>6. /\ Store(s) /\ Answer(q, Ok(NewSignParty(order, nextUuid + 1)))
      /\ nextUuid' = nextUuid + 2
  BY DEF ReplaceTimedOutParty
<1> HIDE DEF s, order
<1> QED
  BY <1>1, <1>5, <1>6, AdmitStep

\* A member of the room that takes signups pings.  If that closes the room the
\* member is the first to be told its identity.
LEMMA PingStep ==
    ASSUME IInv, NEW q \in requests, Served(q), Ping(q)
    PROVE  IInv'
<1> DEFINE n == NumberOf(q)
           s == UpdatePing(room, n, now)
           info == GetSignupInfo(s, n, now)
<1>1. TypeOK /\ RoomInv /\ ClientInv /\ OwnerInv /\ SeatsInv /\ ReachesSignup(q)
  BY DEF IInv, Ping
<1>2. /\ now \in Nat /\ nextUuid \in Nat \ {NoUuid} /\ stored \in Nat /\ RoomTyped(room)
      /\ nextUuid >= nextUuid
  BY <1>1, Typed
<1>3. Holds(q, CurrentRoom(q)) /\ q.party_uuid # NoUuid
  BY DEF Ping, IsNew
<1>4. CurrentRoom(q) = room /\ room.last_stage = "signup" /\ room.room_uuid # NoUuid /\ ~ IsTerminated
  BY <1>1, <1>3, CurrentRoomFacts DEF Holds, HasMember, IsTerminated
<1>5. /\ n \in Members(room) /\ room.member_info[n].party_id = q.party_uuid
      /\ Roster(room, nextUuid + 1, now) /\ Roster(room, nextUuid, stored)
  BY <1>1, <1>3, <1>4, CurrentRoomFacts DEF Holds, HasMember, RoomInv
<1>6. /\ room' = s /\ stored' = now /\ now' = now /\ nextUuid' = nextUuid
      /\ requests' = requests \ {q} /\ UNCHANGED clientVars /\ Answer(q, Ok(info))
  BY <1>4 DEF Ping, Store, Served
<1>7. /\ RoomTyped(s) /\ Members(s) = Members(room)
      /\ s.room_uuid = room.room_uuid /\ s.last_stage \in {"signup", "terminated"}
      /\ \A m \in Members(room) :
            /\ s.member_info[m].party_id = room.member_info[m].party_id
            /\ s.member_info[m].party_order = room.member_info[m].party_order
            /\ s.member_info[m].last_ping \in {room.member_info[m].last_ping, now}
  <2> HIDE DEF n
  <2> QED
    BY <1>2, <1>4, <1>5, UpdatePingFacts
<1> HIDE DEF s
<1>8. Roster(s, nextUuid, now)
  <2>1. /\ IsFiniteSet(Members(s)) /\ s.room_uuid < nextUuid
    BY <1>5, <1>7 DEF Roster
  <2>2. \A m \in Members(s) :
          /\ s.member_info[m].party_id # NoUuid
          /\ s.member_info[m].last_ping <= now
    BY <1>2, <1>5, <1>7 DEF Roster
  <2>3. \A m \in Members(s) :
          /\ s.member_info[m].party_order \in 1 .. Cardinality(Members(s))
          /\ \A o \in Members(s) :
                s.member_info[o].party_order = s.member_info[m].party_order => o = m
    BY <1>5, <1>7 DEF Roster
  <2> QED
    BY <2>1, <2>2, <2>3 DEF Roster
<1>9. /\ info \in SignupInfo /\ info.party_uuid = q.party_uuid
      /\ info.party_order = s.member_info[n].party_order
      /\ info.room_uuid = IF s.last_stage = "signup" THEN NoUuid ELSE s.room_uuid
  <2> HIDE DEF n
  <2>1. n \in Members(s) /\ IsFiniteSet(Members(s))
    BY <1>5, <1>7, <1>8 DEF Roster
  <2> QED
    BY <1>5, <1>7, <2>1, SignupInfoFacts
<1> HIDE DEF info
<1>10. Ok(info) \in Replies /\ Ok(info).tag = "ok" /\ Ok(info).info = info
  BY <1>9 DEF Ok, Replies
<1>11. /\ requests' \subseteq Requests /\ reply' \in [Proc -> Replies] /\ ClientInv'
       /\ \A o \in Proc : \A t \in SeatT : Told(o, t)' =>
             Told(o, t) \/ (o = q.proc /\ t = Seat(info))
  BY <1>1, <1>3, <1>6, <1>9, <1>10, Answered
<1>12. TypeOK'
  <2>1. RoomTyped(room)'
    BY <1>6, <1>7 DEF RoomTyped
  <2> QED
    BY <1>1, <1>2, <1>6, <1>11, <2>1, ServedType DEF Served
<1>13. RoomInv'
  <2>1. Roster(room, nextUuid, stored)'
    BY <1>6, <1>8 DEF Roster, Members
  <2> QED
    BY <1>2, <1>4, <1>6, <1>7, <2>1 DEF RoomInv
<1>14. /\ Seat(info).id = q.party_uuid /\ Seat(info).room = info.room_uuid
       /\ Seat(info).order = s.member_info[n].party_order
  BY <1>9 DEF Seat
<1>15. OwnerInv'
  <2>1. \A o \in Proc : \A w \in Nat : Owns(o, w)' => Owns(o, w) \/ (o = q.proc /\ w = q.party_uuid)
    BY <1>6, <1>11, <1>14, AnsweredOwns
  <2>2. Owns(q.proc, q.party_uuid)
    BY <1>3 DEF Owns
  <2> QED
    BY <1>1, <1>2, <1>6, <2>1, <2>2, OwnerStays
<1>16. SeatsInv'
  <2>1. RoomMoves
    BY <1>2, <1>4, <1>6, <1>7 DEF RoomMoves
  <2>2. ASSUME NEW p \in Proc, NEW t \in SeatT, Told(p, t)', t.room # NoUuid
        PROVE  /\ t.id # NoUuid
               /\ t.room < nextUuid'
               /\ IF t.room = room'.room_uuid THEN Seated(p, t)' ELSE Told(p, t)
    <3>1. CASE Told(p, t)
      BY <1>1, <2>1, <2>2, <3>1, OldSeat
    <3>2. CASE p = q.proc /\ t = Seat(info)
      <4>1. s.last_stage = "terminated" /\ t.room = s.room_uuid
        BY <1>7, <1>9, <1>14, <2>2, <3>2
      <4>2. t.id # NoUuid /\ t.room < nextUuid
        BY <1>3, <1>8, <1>14, <3>2, <4>1 DEF Roster
      <4>3. Seated(p, t)'
        BY <1>5, <1>6, <1>7, <1>14, <3>2, <4>1 DEF Seated, NumberOf, IsTerminated, Members
      <4> QED
        BY <1>6, <4>1, <4>2, <4>3
    <3> QED
      BY <1>11, <2>2, <3>1, <3>2
  <2> QED
    BY <1>1, <1>13, <1>15, <2>2, SeatsGrow
<1> QED
  BY <1>11, <1>12, <1>13, <1>15, <1>16 DEF IInv

LEMMA ServeStep ==
    ASSUME IInv, NEW q \in requests, Serve(q)
    PROVE  IInv'
<1>1. Served(q)
  BY DEF Serve, Served
<1>2. {"terminated", "full", "unknown", "active"} = Error
  BY DEF Error
<1>3. CASE \E e \in Error : Refuse(q, e)
  BY <1>1, <1>3, RefuseStep
<1>4. \/ ServeClosedRoom(q) \/ Ping(q) \/ ReplaceTimedOutParty(q) \/ JoinRoom(q)
      \/ \E e \in Error : Refuse(q, e)
  BY <1>2 DEF Serve, RefuseClosedRoom, RefuseFullRoom, RefuseUnknownParty, RefuseActiveParty
<1> QED
  BY <1>1, <1>3, <1>4, ClosedStep, PingStep, ReplaceStep, JoinStep

-----------------------------------------------------------------------------
(***************************************************************************)
(* The clients' steps, expiry and the clock.                                *)
(***************************************************************************)

\* A client's step tells nobody anything new, and requests present an identity
\* that their process owns.
LEMMA ClientFrame ==
    ASSUME TypeOK, OwnerInv, SeatsInv, UNCHANGED <<room, nextUuid>>,
           \A o \in Proc : \A t \in SeatT : Told(o, t)' =>
              Told(o, t) \/ (t.id = NoUuid /\ t.room = NoUuid),
           \A r \in requests' : r.party_uuid = NoUuid \/ Owns(r.proc, r.party_uuid)
    PROVE  OwnerInv' /\ SeatsInv'
<1>1. nextUuid \in Nat /\ nextUuid' = nextUuid /\ nextUuid >= nextUuid
  BY Typed
<1>2. ASSUME NEW o \in Proc, NEW w \in Nat, Owns(o, w)' PROVE Owns(o, w)
  BY <1>2 DEF Owns
<1>3. OwnerInv'
  BY <1>1, <1>2, OwnerStays
<1>4. SeatsInv'
  BY <1>1, SeatsStay DEF RoomMoves
<1> QED
  BY <1>3, <1>4

LEMMA RequestOwned ==
    ASSUME TypeOK, NEW p \in Proc
    PROVE  \/ signup[p].party_uuid = NoUuid
           \/ Owns(p, signup[p].party_uuid)
  BY Typed DEF Owns, Told, KeptSeat

LEMMA AbandonedFacts ==
    ASSUME TypeOK, NEW p \in Proc, NEW r \in Abandoned(p)
    PROVE  /\ r \in Requests
           /\ r.live => r \in requests /\ r.proc # p
           /\ r.party_uuid = NoUuid \/ Owns(r.proc, r.party_uuid)
<1>1. PICK q \in requests : r = IF q.proc = p THEN [q EXCEPT !.live = FALSE] ELSE q
  BY DEF Abandoned
<1>2. q \in Requests
  BY Typed
<1>3. /\ r \in Requests /\ r.proc = q.proc /\ r.party_uuid = q.party_uuid
      /\ r.live => r = q /\ q.proc # p
  BY <1>1, <1>2 DEF Requests
<1> QED
  BY <1>3 DEF Owns

LEMMA RoomStays ==
    ASSUME RoomInv, UNCHANGED <<managerVars, now>>
    PROVE  RoomInv' /\ UNCHANGED <<room, nextUuid, stored, now>>
  BY DEF RoomInv, Roster, Members, managerVars

LEMMA RequestType ==
    ASSUME NEW p \in Proc, NEW serial \in Nat, NEW uuid \in Nat
    PROVE  LET r == Request(p, serial, uuid)
           IN  r \in Requests /\ r.proc = p /\ r.party_uuid = uuid /\ r.live
  BY DEF Request, Requests

\* A process asks: first, or again once it has slept.
LEMMA AskStep ==
    ASSUME IInv, NEW p \in Proc, Start(p) \/ Poll(p)
    PROVE  IInv'
<1> DEFINE r == Request(p, faults, signup[p].party_uuid)
<1>1. TypeOK /\ RoomInv /\ ClientInv /\ OwnerInv /\ SeatsInv /\ KnowledgeOf(p)
  BY DEF IInv, ClientInv
<1>2. PICK x \in {"signup", "poll"} :
        /\ pc[p] = IF x = "signup" THEN "idle" ELSE "sleep"
        /\ pc' = [pc EXCEPT ![p] = x]
        /\ requests' = requests \cup {r}
        /\ UNCHANGED <<now, managerVars, attempt, signup, reply, faults, crashes>>
  <2>1. CASE Start(p)
    <3>1. signup[p].party_uuid = NoUuid
      BY <1>1, <2>1 DEF KnowledgeOf, Start, NotSignedUp
    <3> QED
      BY <2>1, <3>1 DEF Start
  <2>2. CASE Poll(p)
    BY <2>2 DEF Poll
  <2> QED
    BY <2>1, <2>2
<1>3. /\ r \in Requests /\ r.proc = p /\ r.party_uuid = signup[p].party_uuid /\ r.live
  BY <1>1, RequestType DEF TypeOK
<1> HIDE DEF r
<1>4. ~ Awaiting(p) /\ reply[p] = NoReply
  BY <1>1, <1>2 DEF KnowledgeOf, Awaiting
<1>5. pc \in [Proc -> PC] /\ requests \subseteq Requests
  BY <1>1, Typed DEF TypeOK
<1>6. TypeOK'
  <2>1. pc' \in [Proc -> PC] /\ requests' \subseteq Requests
    BY <1>2, <1>3, <1>5 DEF PC
  <2> QED
    BY <1>1, <1>2, <2>1 DEF TypeOK, Requests, managerVars
<1>7. LiveInv'
  <2>1. \A y \in requests : y.live => y.proc # p
    BY <1>1, <1>4 DEF ClientInv, LiveInv
  <2>2. Awaiting(p)'
    BY <1>2, <1>5 DEF Awaiting
  <2>3. \A y \in requests : y.live => Awaiting(y.proc)'
    BY <1>1, <1>2, <1>5, <2>1 DEF ClientInv, LiveInv, Awaiting, Requests
  <2> QED
    BY <1>1, <1>2, <1>3, <1>4, <2>1, <2>2, <2>3 DEF ClientInv, LiveInv
<1>8. ASSUME NEW o \in Proc PROVE KnowledgeOf(o)'
  <2>1. KnowledgeOf(o)
    BY <1>1 DEF ClientInv
  <2>2. CASE o = p
    BY <1>2, <1>4, <1>5, <2>1, <2>2 DEF KnowledgeOf, Awaiting, NoReply
  <2>3. CASE o # p
    BY <1>2, <1>5, <2>1, <2>3 DEF KnowledgeOf, Awaiting
  <2> QED
    BY <2>2, <2>3
<1>9. OwnerInv' /\ SeatsInv'
  <2>1. \A o \in Proc : \A t \in SeatT : Told(o, t)' => Told(o, t)
    BY <1>2 DEF Told, KeptSeat
  <2>2. \A y \in requests' : y.party_uuid = NoUuid \/ Owns(y.proc, y.party_uuid)
    <3>1. \A y \in requests : y.party_uuid = NoUuid \/ Owns(y.proc, y.party_uuid)
      BY DEF Owns
    <3> QED
      BY <1>1, <1>2, <1>3, <3>1, RequestOwned
  <2> QED
    BY <1>1, <1>2, <2>1, <2>2, ClientFrame DEF managerVars
<1> QED
  BY <1>1, <1>2, <1>6, <1>7, <1>8, <1>9, RoomStays DEF IInv, ClientInv

\* An answer arrives and the process goes on: it keeps the seat it was told.
LEMMA LearnStep ==
    ASSUME IInv, NEW p \in Proc, NEW since \in Nat, Awaiting(p), reply[p].tag = "ok",
           KeepsLoopingWith(p, Learnt(reply[p].info.party_uuid, reply[p].info, since)),
           reply' = [reply EXCEPT ![p] = NoReply],
           UNCHANGED <<now, managerVars, faults, crashes>>
    PROVE  IInv'
<1> DEFINE info == reply[p].info
           s == Learnt(info.party_uuid, info, since)
<1>1. TypeOK /\ RoomInv /\ ClientInv /\ OwnerInv /\ SeatsInv /\ KnowledgeOf(p)
  BY DEF IInv, ClientInv
<1>2. /\ info \in SignupInfo /\ info.party_uuid # NoUuid /\ Seat(info) \in SeatT
  BY <1>1, Typed DEF KnowledgeOf
<1>3. /\ s \in Signups /\ s.party_uuid = info.party_uuid
      /\ s.uuid = info.room_uuid /\ s.number = info.party_order
  BY <1>2 DEF Learnt, Signups, SignupInfo, Order
<1>4. /\ pc' = [pc EXCEPT ![p] = IF s.uuid = NoUuid THEN "sleep" ELSE "ready"]
      /\ signup' = [signup EXCEPT ![p] = s]
      /\ attempt' = [attempt EXCEPT ![p] = 1]
      /\ requests' = requests
  BY DEF KeepsLoopingWith
<1> HIDE DEF s
<1>5. /\ pc \in [Proc -> PC] /\ signup \in [Proc -> Signups] /\ reply \in [Proc -> Replies]
      /\ requests \subseteq Requests
  BY <1>1, Typed DEF TypeOK, Signups
<1>6. TypeOK'
  <2>1. pc' \in [Proc -> PC] /\ signup' \in [Proc -> Signups] /\ reply' \in [Proc -> Replies]
    <3>1. NoReply \in Replies
      BY DEF NoReply, Replies
    <3> QED
      BY <1>3, <1>4, <1>5, <3>1 DEF PC
  <2>2. attempt' \in [Proc -> 1 .. PostAttempts]
    BY <1>1, <1>4 DEF TypeOK, PostAttempts
  <2> QED
    BY <1>1, <1>4, <2>1, <2>2 DEF TypeOK, Signups, managerVars
<1>7. LiveInv'
  <2>1. \A y \in requests : y.live => y.proc # p /\ y.proc \in Proc
    <3>1. reply[p] # NoReply
      BY DEF NoReply
    <3> QED
      BY <1>1, <1>5, <3>1 DEF ClientInv, LiveInv, Requests
  <2>2. \A o \in Proc : o # p => pc'[o] = pc[o] /\ signup'[o] = signup[o] /\ reply'[o] = reply[o]
    BY <1>4, <1>5
  <2> QED
    BY <1>1, <1>4, <2>1, <2>2 DEF ClientInv, LiveInv, Awaiting
<1>8. ASSUME NEW o \in Proc PROVE KnowledgeOf(o)'
  <2>1. KnowledgeOf(o)
    BY <1>1 DEF ClientInv
  <2>2. CASE o = p
    <3>1. /\ pc'[o] = IF s.uuid = NoUuid THEN "sleep" ELSE "ready"
          /\ signup'[o] = s /\ reply'[o] = NoReply
      BY <1>4, <1>5, <2>2
    <3>2. NoReply.tag = "none"
      BY DEF NoReply
    <3> QED
      BY <1>2, <1>3, <3>1, <3>2 DEF KnowledgeOf
  <2>3. CASE o # p
    BY <1>4, <1>5, <2>1, <2>3 DEF KnowledgeOf, Awaiting
  <2> QED
    BY <2>2, <2>3
<1>9. OwnerInv' /\ SeatsInv'
  <2>1. \A o \in Proc : \A t \in SeatT : Told(o, t)' => Told(o, t)
    <3> SUFFICES ASSUME NEW o \in Proc, NEW t \in SeatT, Told(o, t)' PROVE Told(o, t)
      OBVIOUS
    <3>1. CASE o = p
      <4>1. signup'[p] = s /\ reply'[p] = NoReply /\ NoReply.tag = "none"
        BY <1>4, <1>5 DEF NoReply
      <4>2. t = Seat(info)
        BY <1>3, <3>1, <4>1 DEF Told, KeptSeat, Seat
      <4> QED
        BY <3>1, <4>2 DEF Told
    <3>2. CASE o # p
      BY <1>4, <1>5, <3>2 DEF Told, KeptSeat
    <3> QED
      BY <3>1, <3>2
  <2>2. \A y \in requests' : y.party_uuid = NoUuid \/ Owns(y.proc, y.party_uuid)
    BY <1>4 DEF Owns
  <2> QED
    BY <1>1, <2>1, <2>2, ClientFrame DEF managerVars
<1> QED
  BY <1>1, <1>6, <1>7, <1>8, <1>9, RoomStays DEF IInv, ClientInv

\* The process is gone, and nobody waits for its answers.
LEMMA DieStep ==
    ASSUME IInv, NEW p \in Proc, NEW end \in {"panicked", "crashed"}, Dies(p, end),
           reply' = [reply EXCEPT ![p] = NoReply],
           UNCHANGED <<now, managerVars>>, faults' \in Nat, crashes' \in Nat
    PROVE  IInv'
<1>1. TypeOK /\ RoomInv /\ ClientInv /\ OwnerInv /\ SeatsInv
  BY DEF IInv
<1>2. /\ pc' = [pc EXCEPT ![p] = end]
      /\ attempt' = [attempt EXCEPT ![p] = 1]
      /\ signup' = [signup EXCEPT ![p] = NotSignedUp]
      /\ requests' = Abandoned(p)
  BY DEF Dies
<1>3. /\ pc \in [Proc -> PC] /\ signup \in [Proc -> Signups] /\ reply \in [Proc -> Replies]
      /\ requests \subseteq Requests
  BY <1>1, Typed DEF TypeOK, Signups
<1>4. \A r \in requests' :
        /\ r \in Requests
        /\ r.live => r \in requests /\ r.proc # p
        /\ r.party_uuid = NoUuid \/ Owns(r.proc, r.party_uuid)
  BY <1>1, <1>2, AbandonedFacts
<1>5. \A o \in Proc : o # p => pc'[o] = pc[o] /\ signup'[o] = signup[o] /\ reply'[o] = reply[o]
  BY <1>2, <1>3
<1>6. pc'[p] = end /\ signup'[p] = NotSignedUp /\ reply'[p] = NoReply
  BY <1>2, <1>3
<1>7. /\ NoReply.tag = "none" /\ NoReply \in Replies /\ NotSignedUp \in Signups
      /\ NotSignedUp.party_uuid = NoUuid /\ NotSignedUp.uuid = NoUuid
  BY DEF NoReply, Replies, NotSignedUp, Signups, NoUuid
<1>8. TypeOK'
  <2>1. pc' \in [Proc -> PC] /\ signup' \in [Proc -> Signups] /\ reply' \in [Proc -> Replies]
    BY <1>2, <1>3, <1>7 DEF PC
  <2>2. attempt' \in [Proc -> 1 .. PostAttempts] /\ requests' \subseteq Requests
    BY <1>1, <1>2, <1>4 DEF TypeOK, PostAttempts
  <2> QED
    BY <1>1, <2>1, <2>2 DEF TypeOK, Signups, Requests, managerVars
<1>9. LiveInv'
  <2> SUFFICES ASSUME NEW x \in requests', x.live
               PROVE  /\ Awaiting(x.proc)'
                      /\ reply'[x.proc] = NoReply
                      /\ x.party_uuid = signup'[x.proc].party_uuid
                      /\ \A y \in requests' : y.live /\ y.proc = x.proc => y = x
    BY DEF LiveInv
  <2>1. x \in requests /\ x.proc # p /\ x.proc \in Proc
    BY <1>4 DEF Requests
  <2>2. /\ Awaiting(x.proc) /\ reply[x.proc] = NoReply
        /\ x.party_uuid = signup[x.proc].party_uuid
        /\ \A y \in requests : y.live /\ y.proc = x.proc => y = x
    BY <1>1, <2>1 DEF ClientInv, LiveInv
  <2> QED
    BY <1>4, <1>5, <2>1, <2>2 DEF Awaiting
<1>10. ASSUME NEW o \in Proc PROVE KnowledgeOf(o)'
  <2>1. KnowledgeOf(o)
    BY <1>1 DEF ClientInv
  <2>2. CASE o = p
    BY <1>6, <1>7, <2>2 DEF KnowledgeOf
  <2>3. CASE o # p
    BY <1>5, <2>1, <2>3 DEF KnowledgeOf, Awaiting
  <2> QED
    BY <2>2, <2>3
<1>11. OwnerInv' /\ SeatsInv'
  <2>1. \A o \in Proc : \A t \in SeatT : Told(o, t)' =>
          Told(o, t) \/ (t.id = NoUuid /\ t.room = NoUuid)
    BY <1>5, <1>6, <1>7 DEF Told, KeptSeat
  <2> QED
    BY <1>1, <1>4, <2>1, ClientFrame DEF managerVars
<1> QED
  BY <1>1, <1>8, <1>9, <1>10, <1>11, RoomStays DEF IInv, ClientInv

\* The first attempt failed: the same request is posted once more.
LEMMA RetryStep ==
    ASSUME IInv, NEW p \in Proc, Awaiting(p),
           attempt[p] < PostAttempts, attempt' = [attempt EXCEPT ![p] = @ + 1],
           faults' = faults + 1, reply' = [reply EXCEPT ![p] = NoReply],
           requests' = Abandoned(p) \cup {Request(p, faults + 1, signup[p].party_uuid)},
           UNCHANGED <<pc, signup, now, managerVars, crashes>>
    PROVE  IInv'
<1> DEFINE r == Request(p, faults + 1, signup[p].party_uuid)
<1>1. TypeOK /\ RoomInv /\ ClientInv /\ OwnerInv /\ SeatsInv
  BY DEF IInv
<1>2. faults + 1 \in Nat /\ signup[p].party_uuid \in Nat
  BY <1>1 DEF TypeOK
<1>3. r \in Requests /\ r.proc = p /\ r.party_uuid = signup[p].party_uuid /\ r.live
  BY <1>2, RequestType
<1> HIDE DEF r
<1>4. requests' = Abandoned(p) \cup {r}
  BY DEF r
<1>5. \A y \in Abandoned(p) :
        /\ y \in Requests
        /\ y.live => y \in requests /\ y.proc # p
        /\ y.party_uuid = NoUuid \/ Owns(y.proc, y.party_uuid)
  BY <1>1, AbandonedFacts
<1>6. reply \in [Proc -> Replies] /\ NoReply \in Replies /\ NoReply.tag = "none"
  BY <1>1 DEF TypeOK, NoReply, Replies
<1>7. reply'[p] = NoReply /\ \A o \in Proc : o # p => reply'[o] = reply[o]
  BY <1>6
<1>8. TypeOK'
  <2>1. requests' \subseteq Requests /\ reply' \in [Proc -> Replies] /\ faults' \in Nat
    BY <1>2, <1>3, <1>4, <1>5, <1>6
  <2>2. attempt' \in [Proc -> 1 .. PostAttempts]
    BY <1>1 DEF TypeOK, PostAttempts
  <2> QED
    BY <1>1, <2>1, <2>2 DEF TypeOK, Requests, managerVars
<1>9. LiveInv'
  <2> SUFFICES ASSUME NEW x \in requests', x.live
               PROVE  /\ Awaiting(x.proc)'
                      /\ reply'[x.proc] = NoReply
                      /\ x.party_uuid = signup'[x.proc].party_uuid
                      /\ \A y \in requests' : y.live /\ y.proc = x.proc => y = x
    BY DEF LiveInv
  <2>1. CASE x = r
    BY <1>3, <1>4, <1>5, <1>7, <2>1 DEF Awaiting
  <2>2. CASE x \in Abandoned(p)
    <3>1. x \in requests /\ x.proc # p /\ x.proc \in Proc
      BY <1>5, <2>2 DEF Requests
    <3>2. /\ Awaiting(x.proc) /\ reply[x.proc] = NoReply
          /\ x.party_uuid = signup[x.proc].party_uuid
          /\ \A y \in requests : y.live /\ y.proc = x.proc => y = x
      BY <1>1, <3>1 DEF ClientInv, LiveInv
    <3> QED
      BY <1>3, <1>4, <1>5, <1>7, <3>1, <3>2 DEF Awaiting
  <2> QED
    BY <1>4, <2>1, <2>2
<1>10. ASSUME NEW o \in Proc PROVE KnowledgeOf(o)'
  <2>1. KnowledgeOf(o)
    BY <1>1 DEF ClientInv
  <2> QED
    BY <1>6, <1>7, <2>1 DEF KnowledgeOf, Awaiting
<1>11. OwnerInv' /\ SeatsInv'
  <2>1. \A o \in Proc : \A t \in SeatT : Told(o, t)' => Told(o, t)
    BY <1>6, <1>7 DEF Told, KeptSeat
  <2>2. \A y \in requests' : y.party_uuid = NoUuid \/ Owns(y.proc, y.party_uuid)
    BY <1>1, <1>3, <1>4, <1>5, RequestOwned
  <2> QED
    BY <1>1, <2>1, <2>2, ClientFrame DEF managerVars
<1> QED
  BY <1>1, <1>8, <1>9, <1>10, <1>11, RoomStays DEF IInv, ClientInv

LEMMA ClientStep ==
    ASSUME IInv, NEW p \in Proc, Client(p)
    PROVE  IInv'
<1>1. TypeOK /\ KnowledgeOf(p) /\ now \in Nat /\ faults \in Nat /\ crashes \in Nat
  BY DEF IInv, ClientInv, TypeOK
<1>2. CASE Start(p) \/ Poll(p)
  BY <1>2, AskStep
<1>3. CASE ReceiveSignup(p)
  <2>1. Awaiting(p)
    BY <1>3 DEF ReceiveSignup, Awaiting
  <2> QED
    BY <1>1, <1>3, <2>1, LearnStep DEF ReceiveSignup
<1>4. CASE ReceivePoll(p)
  <2> DEFINE info == reply[p].info
             since == IF info.total_joined # signup[p].total THEN now ELSE signup[p].since
             s == Learnt(signup[p].party_uuid, info, since)
  <2>1. Awaiting(p) /\ info.party_uuid = signup[p].party_uuid
    BY <1>1, <1>4 DEF ReceivePoll, Awaiting, KnowledgeOf
  <2>2. since \in Nat
    BY <1>1 DEF TypeOK
  <2>3. /\ reply[p].tag = "ok" /\ reply' = [reply EXCEPT ![p] = NoReply]
        /\ UNCHANGED <<now, managerVars, faults, crashes>>
        /\ KeepsLoopingWith(p, s) \/ Dies(p, "panicked")
    BY <1>4 DEF ReceivePoll
  <2> HIDE DEF since
  <2>4. CASE KeepsLoopingWith(p, s)
    BY <2>1, <2>2, <2>3, <2>4, LearnStep
  <2>5. CASE Dies(p, "panicked")
    BY <1>1, <2>3, <2>5, DieStep
  <2> QED
    BY <2>3, <2>4, <2>5
<1>5. CASE ReceiveError(p)
  BY <1>1, <1>5, DieStep DEF ReceiveError
<1>6. CASE SendFails(p)
  <2>1. CASE attempt[p] < PostAttempts
    <3>1. attempt[p] \in Int /\ ~ (attempt[p] >= PostAttempts)
      BY <1>1, <2>1 DEF TypeOK, PostAttempts
    <3> QED
      BY <1>6, <2>1, <3>1, RetryStep DEF SendFails
  <2>2. CASE ~ (attempt[p] < PostAttempts)
    <3>1. /\ Dies(p, "panicked") /\ reply' = [reply EXCEPT ![p] = NoReply]
          /\ UNCHANGED <<now, managerVars, crashes>> /\ faults' = faults + 1
      BY <1>6, <2>2 DEF SendFails
    <3>2. faults' \in Nat /\ crashes' \in Nat
      BY <1>1, <1>6, <3>1 DEF SendFails
    <3> QED
      BY <3>1, <3>2, DieStep
  <2> QED
    BY <2>1, <2>2
<1>7. CASE Crash(p)
  <2>1. /\ Dies(p, "crashed") /\ reply' = [reply EXCEPT ![p] = NoReply]
        /\ UNCHANGED <<now, managerVars, faults>> /\ crashes' = crashes + 1
    BY <1>7 DEF Crash
  <2>2. faults' \in Nat /\ crashes' \in Nat
    BY <1>1, <2>1
  <2> QED
    BY <2>1, <2>2, DieStep
<1> QED
  BY <1>2, <1>3, <1>4, <1>5, <1>6, <1>7 DEF Client

\* The empty place in the store: no members, and the identity of no room.
LEMMA NoRoomFacts ==
    /\ RoomTyped(NoRoom) /\ Members(NoRoom) = {} /\ NoRoom.room_uuid = NoUuid
    /\ NoRoom.last_stage = "absent"
<1>1. 0 \in 0 .. U16 - 1
  BY DEF U16
<1>2. NoRoom = [room_uuid |-> NoUuid, room_size |-> 0,
                member_info |-> [n \in {} |-> NoUuid], last_stage |-> "absent"]
  BY DEF NoRoom, NewRoom
<1>3. {} \in SUBSET PartyNumbers /\ [n \in {} |-> NoUuid] \in [{} -> MemberInfo] /\ NoUuid \in Nat
  BY DEF NoUuid
<1>4. RoomTyped(NoRoom) /\ Members(NoRoom) = {}
  BY <1>1, <1>2, <1>3 DEF RoomTyped, Rooms, Members
<1> QED
  BY <1>2, <1>4

LEMMA ExpireStep ==
    ASSUME IInv, Expire
    PROVE  IInv'
<1>1. TypeOK /\ RoomInv /\ ClientInv /\ OwnerInv /\ SeatsInv
  BY DEF IInv
<1>2. /\ room' = NoRoom
      /\ UNCHANGED <<now, stored, nextUuid, clientVars, requests, reply, faults, crashes>>
  BY DEF Expire
<1>3. nextUuid \in Nat \ {NoUuid} /\ nextUuid >= nextUuid /\ nextUuid > NoUuid
  BY <1>1, Typed DEF NoUuid
<1>4. TypeOK'
  BY <1>1, <1>2, NoRoomFacts DEF TypeOK, RoomTyped, clientVars
<1>5. RoomInv'
  <2>1. Roster(NoRoom, nextUuid, stored)
    BY <1>3, NoRoomFacts, FS_EmptySet DEF Roster
  <2>2. Roster(room, nextUuid, stored)'
    BY <1>2, <2>1 DEF Roster, Members
  <2> QED
    BY <1>1, <1>2, <2>2 DEF RoomInv, NoRoom, NewRoom
<1>6. ClientInv'
  BY <1>1, <1>2 DEF ClientInv, LiveInv, KnowledgeOf, Awaiting, clientVars
<1>7. \A o \in Proc : \A t \in SeatT : Told(o, t)' => Told(o, t)
  BY <1>2 DEF Told, KeptSeat, clientVars
<1>8. OwnerInv'
  <2>1. \A o \in Proc : \A w \in Nat : Owns(o, w)' => Owns(o, w)
    BY <1>2, <1>7 DEF Owns
  <2> QED
    BY <1>1, <1>2, <1>3, <2>1, OwnerStays
<1>9. SeatsInv'
  <2>1. RoomMoves
    BY <1>2, <1>3, NoRoomFacts DEF RoomMoves
  <2> QED
    BY <1>1, <1>7, <2>1, SeatsStay
<1> QED
  BY <1>4, <1>5, <1>6, <1>8, <1>9 DEF IInv

\* Only the clock moves, or nothing.
LEMMA ClockStep ==
    ASSUME IInv, now' \in Nat, now' >= now,
           UNCHANGED <<managerVars, clientVars, requests, reply, faults, crashes>>
    PROVE  IInv'
<1>1. TypeOK /\ RoomInv /\ ClientInv /\ OwnerInv /\ SeatsInv
  BY DEF IInv
<1>2. /\ now \in Nat /\ stored \in Nat /\ nextUuid \in Nat /\ nextUuid >= nextUuid
  BY <1>1, Typed
<1>3. UNCHANGED <<room, stored, nextUuid, pc, attempt, signup, requests, reply, faults, crashes>>
  BY DEF managerVars, clientVars
<1>4. TypeOK'
  BY <1>1, <1>3 DEF TypeOK
<1>5. RoomInv'
  <2>1. Roster(room, nextUuid, stored)'
    BY <1>1, <1>3 DEF RoomInv, Roster, Members
  <2> QED
    BY <1>1, <1>2, <1>3, <2>1 DEF RoomInv
<1>6. ClientInv'
  BY <1>1, <1>3 DEF ClientInv, LiveInv, KnowledgeOf, Awaiting
<1>7. OwnerInv' /\ SeatsInv'
  <2>1. \A o \in Proc : \A t \in SeatT : Told(o, t)' => Told(o, t)
    BY <1>3 DEF Told, KeptSeat
  <2>2. \A y \in requests' : y.party_uuid = NoUuid \/ Owns(y.proc, y.party_uuid)
    BY <1>3 DEF Owns
  <2> QED
    BY <1>1, <1>3, <2>1, <2>2, ClientFrame
<1> QED
  BY <1>4, <1>5, <1>6, <1>7 DEF IInv

LEMMA NextIInv ==
    ASSUME IInv, [Next]_vars
    PROVE  IInv'
<1>1. now \in Nat
  BY DEF IInv, TypeOK
<1>2. CASE Tick
  BY <1>1, <1>2, ClockStep DEF Tick
<1>3. CASE UNCHANGED vars
  BY <1>1, <1>3, ClockStep DEF vars
<1> QED
  BY <1>2, <1>3, ServeStep, ClientStep, ExpireStep DEF Next

LEMMA InitIInv == Init => IInv
<1> SUFFICES ASSUME Init PROVE IInv
  OBVIOUS
<1>1. /\ NoReply.tag = "none" /\ NoReply \in Replies
      /\ NotSignedUp \in Signups /\ NotSignedUp.party_uuid = NoUuid /\ NotSignedUp.uuid = NoUuid
  BY DEF NoReply, Replies, NotSignedUp, Signups, NoUuid
<1>2. TypeOK
  <2>1. \E ns \in SUBSET PartyNumbers : room \in Rooms(ns)
    BY NoRoomFacts DEF Init, RoomTyped
  <2> QED
    BY <1>1, <2>1 DEF Init, TypeOK, Signups, PC, PostAttempts, NoUuid
<1>3. RoomInv
  BY NoRoomFacts, FS_EmptySet DEF Init, RoomInv, Roster, NoUuid
<1>4. ClientInv
  BY <1>1 DEF Init, ClientInv, LiveInv, KnowledgeOf
<1>5. \A p \in Proc : \A s \in SeatT : Told(p, s) => s.id = NoUuid /\ s.room = NoUuid
  BY <1>1 DEF Init, Told, KeptSeat
<1>6. OwnerInv
  BY <1>5 DEF Init, OwnerInv, Owns
<1>7. SeatsInv
  BY <1>5 DEF SeatsInv
<1> QED
  BY <1>2, <1>3, <1>4, <1>6, <1>7 DEF IInv

-----------------------------------------------------------------------------
\* The strengthened invariant holds in every reachable state.
THEOREM Invariance == Spec => []IInv
  BY InitIInv, NextIInv, PTL DEF Spec

\* Every variable keeps its type.
THEOREM SignupTypeCorrect == Spec => []TypeOK
<1>1. IInv => TypeOK
  BY DEF IInv
<1> QED
  BY <1>1, Invariance, PTL

\* The orders in a room are 1, 2, ... without gap or repetition, through every
\* join, replacement and renewal.
THEOREM OrdersCorrect == Spec => []OrdersArePositions
<1>1. IInv => OrdersArePositions
  BY DEF IInv, RoomInv, Roster, OrdersArePositions
<1> QED
  BY <1>1, Invariance, PTL

\* Two processes of a session were told of the same room.
LEMMA SeatsApart ==
    ASSUME IInv, NEW p \in Proc, NEW q \in Proc, p # q, IsReady(p), IsReady(q),
           signup[p].uuid = signup[q].uuid
    PROVE  signup[p].number # signup[q].number /\ PartyNumber[p] # PartyNumber[q]
<1>1. /\ TypeOK /\ SeatsInv /\ signup[p].uuid # NoUuid
  BY DEF IInv, ClientInv, KnowledgeOf, IsReady
<1>2. /\ KeptSeat(p) \in SeatT /\ Told(p, KeptSeat(p))
      /\ KeptSeat(q) \in SeatT /\ Told(q, KeptSeat(q))
  BY <1>1, Typed DEF Told
<1>3. /\ KeptSeat(p).room = signup[p].uuid /\ KeptSeat(p).order = signup[p].number
      /\ KeptSeat(q).room = signup[q].uuid /\ KeptSeat(q).order = signup[q].number
  BY DEF KeptSeat
<1> QED
  BY <1>1, <1>2, <1>3 DEF SeatsInv

LEMMA SlotsFromIInv == IInv => SlotsExclusive
  BY SeatsApart DEF SlotsExclusive

\* No two processes get the same number of the same session, however requests
\* are lost, repeated or served late, and whoever is replaced.
THEOREM SignupExclusive == Spec => []SlotsExclusive
  BY SlotsFromIInv, Invariance, PTL

\* Nobody holds the identity of a room that still takes signups.
THEOREM OpenRoomsUnknown == Spec => []OpenRoomUuidUnheld
<1>1. IInv => OpenRoomUuidUnheld
  <2> SUFFICES ASSUME IInv, NEW p \in Proc, IsReady(p), signup[p].uuid = room.room_uuid
               PROVE  IsTerminated
    BY DEF OpenRoomUuidUnheld
  <2>1. TypeOK /\ SeatsInv /\ signup[p].uuid # NoUuid
    BY DEF IInv, ClientInv, KnowledgeOf, IsReady
  <2>2. KeptSeat(p) \in SeatT /\ Told(p, KeptSeat(p)) /\ KeptSeat(p).room = signup[p].uuid
    BY <2>1, Typed DEF Told, KeptSeat
  <2> QED
    BY <2>1, <2>2 DEF SeatsInv, Seated
<1> QED
  BY <1>1, Invariance, PTL

\* What a step does to the stored room.
LEMMA RoomSteps ==
    ASSUME IInv, Next
    PROVE  \/ room' = room
           \/ Expire
           \/ \E q \in requests : Ping(q) /\ CurrentRoom(q) = room /\ ~ IsTerminated
           \/ \E q \in requests : (ReplaceTimedOutParty(q) \/ JoinRoom(q)) /\ ReachesSignup(q)
<1>1. ASSUME NEW q \in requests, Serve(q)
      PROVE  \/ room' = room
             \/ Ping(q) /\ CurrentRoom(q) = room /\ ~ IsTerminated
             \/ (ReplaceTimedOutParty(q) \/ JoinRoom(q)) /\ ReachesSignup(q)
  <2>1. CASE Ping(q)
    <3>1. /\ TypeOK /\ RoomInv /\ ReachesSignup(q) /\ Holds(q, CurrentRoom(q))
      BY <2>1 DEF IInv, Ping
    <3> QED
      BY <2>1, <3>1, CurrentRoomFacts DEF Holds, HasMember
  <2>2. CASE ReplaceTimedOutParty(q) \/ JoinRoom(q)
    BY <2>2 DEF ReplaceTimedOutParty, JoinRoom, Admitted
  <2>3. CASE UNCHANGED managerVars
    BY <2>3 DEF managerVars
  <2> QED
    BY <1>1, <2>1, <2>2, <2>3 DEF Serve, ServeClosedRoom, RefuseClosedRoom, RefuseFullRoom,
       RefuseUnknownParty, RefuseActiveParty, Refuse
<1>2. ASSUME NEW p \in Proc, Client(p) PROVE room' = room
  BY <1>2 DEF Client, Start, Poll, ReceiveSignup, ReceivePoll, ReceiveError, SendFails,
     Crash, managerVars
<1>3. Tick => room' = room
  BY DEF Tick, managerVars
<1> QED
  BY <1>1, <1>2, <1>3 DEF Next

\* The roster of a closed room never changes under the same identity.
THEOREM ClosedRoomsFrozen == Spec => ClosedRoomFrozen
<1>1. ASSUME IInv, [Next]_vars, IsTerminated, room'.room_uuid = room.room_uuid
      PROVE  room' = room
  <2>1. /\ TypeOK /\ RoomInv
    BY <1>1 DEF IInv
  <2>2. /\ room.room_uuid # NoUuid /\ room.room_uuid < nextUuid
        /\ room.room_uuid \in Nat /\ nextUuid \in Nat
        /\ now \in Nat /\ RoomTyped(room)
    <3>1. RoomTyped(room) /\ now \in Nat /\ nextUuid \in Nat
      BY <2>1, Typed
    <3> QED
      BY <1>1, <2>1, <3>1, RoomFields, NoRoomFacts DEF RoomInv, Roster, IsTerminated
  <2>3. CASE Expire
    BY <1>1, <2>2, <2>3, NoRoomFacts DEF Expire
  <2>4. ASSUME NEW q \in requests, ReplaceTimedOutParty(q) \/ JoinRoom(q), ReachesSignup(q)
        PROVE  FALSE
    <3>1. /\ CurrentRoom(q).room_uuid = nextUuid /\ Members(CurrentRoom(q)) = {}
          /\ RoomTyped(CurrentRoom(q)) /\ Roster(CurrentRoom(q), nextUuid + 1, now)
      BY <1>1, <2>1, <2>4, CurrentRoomFacts
    <3>2. JoinRoom(q)
      BY <2>4, <3>1 DEF ReplaceTimedOutParty
    <3>3. /\ NumberOf(q) \in PartyNumbers /\ NumberOf(q) \notin Members(CurrentRoom(q))
          /\ nextUuid + 1 \in Nat \ {NoUuid} /\ nextUuid + 2 \in Nat /\ nextUuid + 2 >= nextUuid + 1
      BY <2>1, <2>2, <3>1, NumberType DEF NoUuid
    <3>4. room'.room_uuid = nextUuid
      <4>1. AddParty(CurrentRoom(q), NumberOf(q), nextUuid + 1, now).room_uuid = nextUuid
        BY <2>2, <3>1, <3>3, RosterAdd
      <4> QED
        BY <3>2, <4>1 DEF JoinRoom, Store
    <3> QED
      BY <1>1, <2>2, <3>4
  <2>5. CASE UNCHANGED vars
    BY <2>5 DEF vars, managerVars
  <2> QED
    BY <1>1, <2>3, <2>4, <2>5, RoomSteps
<1>2. IInv /\ [Next]_vars => [IsTerminated /\ room'.room_uuid = room.room_uuid => room' = room]_vars
  BY <1>1
<1> QED
  BY <1>2, Invariance, PTL DEF Spec, ClosedRoomFrozen

\* A member that pings keeps its seat, provided that entries of the store live at
\* least as long as the signup timeout.
THEOREM SeatsKept ==
    ASSUME Ttl >= SignupTimeout
    PROVE  Spec => SeatKept
<1> DEFINE Kept(n) ==
             /\ n \in Members(room')
             /\ room'.room_uuid = room.room_uuid
             /\ room'.member_info[n].party_id = room.member_info[n].party_id
             /\ room'.member_info[n].party_order = room.member_info[n].party_order
<1>1. ASSUME IInv, [Next]_vars, NEW n \in Members(room), IsMemberActive(room, n, now)
      PROVE  Kept(n)
  <2>1. TypeOK /\ RoomInv
    BY <1>1 DEF IInv
  <2>2. /\ now \in Nat /\ stored \in Nat /\ nextUuid \in Nat \ {NoUuid} /\ RoomTyped(room)
        /\ SignupTimeout \in Nat /\ Ttl \in Nat
    BY <2>1, Typed, SignupTimeoutAssumption, SignupSignAssumption
  <2>3. /\ room.member_info[n].last_ping <= stored /\ room.member_info[n] \in MemberInfo
        /\ ~ (room.member_info[n].last_ping < now - SignupTimeout)
    BY <1>1, <2>1, <2>2, RoomFields DEF RoomInv, Roster, IsMemberActive, IsTimeout
  <2>4. ~ AreAllMembersInactive(room, now)
    BY <1>1 DEF AreAllMembersInactive
  <2>5. CASE room' = room
    BY <2>5 DEF Members
  <2>6. CASE Expire
    BY <2>2, <2>3, <2>6 DEF Expire, MemberInfo
  <2>7. ASSUME NEW q \in requests, Ping(q), CurrentRoom(q) = room PROVE Kept(n)
    <3>1. NumberOf(q) \in Members(room) /\ room' = UpdatePing(room, NumberOf(q), now)
      BY <2>7 DEF Ping, Store, Holds, HasMember
    <3> DEFINE m == NumberOf(q)
    <3> HIDE DEF m
    <3>2. m \in Members(room) /\ room' = UpdatePing(room, m, now)
      BY <3>1 DEF m
    <3> QED
      BY <2>2, <3>2, UpdatePingFacts
  <2>8. ASSUME NEW q \in requests, ReplaceTimedOutParty(q) \/ JoinRoom(q), ReachesSignup(q)
        PROVE  Kept(n)
    <3> DEFINE m == NumberOf(q)
    <3>1. CurrentRoom(q) = room
      <4>1. room # NoRoom
        BY NoRoomFacts
      <4>2. ~ IsTerminated
        BY <2>4, <2>8 DEF ReachesSignup
      <4> QED
        BY <4>1, <4>2 DEF CurrentRoom
    <3>2. m \in PartyNumbers
      BY <2>1, NumberType
    <3>3. PICK info \in MemberInfo : room' = SetMember(room, m, info) /\ m # n
      <4>1. CASE ReplaceTimedOutParty(q)
        <5>1. m \in Members(room) /\ m # n
          BY <1>1, <3>1, <4>1 DEF ReplaceTimedOutParty
        <5>2. Member(nextUuid + 1, room.member_info[m].party_order, now) \in MemberInfo
          <6> HIDE DEF m
          <6> QED
            BY <2>2, <5>1, RoomFields DEF Member, MemberInfo
        <5> QED
          BY <3>1, <4>1, <5>1, <5>2 DEF ReplaceTimedOutParty, Store, ReplaceParty
      <4>2. CASE JoinRoom(q)
        <5>1. m \notin Members(room) /\ m # n
          BY <3>1, <4>2 DEF JoinRoom
        <5>2. NextOrder(room) \in Order
          BY <2>1, FS_CardinalityType DEF RoomInv, Roster, NextOrder, Order
        <5>3. Member(nextUuid + 1, NextOrder(room), now) \in MemberInfo
          BY <2>2, <5>2 DEF Member, MemberInfo
        <5> QED
          BY <3>1, <4>2, <5>1, <5>3 DEF JoinRoom, Store, AddParty
      <4> QED
        BY <2>8, <4>1, <4>2
    <3> HIDE DEF m
    <3> QED
      BY <2>2, <3>2, <3>3, SetMemberFacts
  <2>9. CASE UNCHANGED vars
    BY <2>5, <2>9 DEF vars, managerVars
  <2> QED
    BY <1>1, <2>5, <2>6, <2>7, <2>8, <2>9, RoomSteps
<1>2. IInv /\ [Next]_vars => [\A n \in Members(room) : IsMemberActive(room, n, now) => Kept(n)]_vars
  BY <1>1
<1> QED
  BY <1>2, Invariance, PTL DEF Spec, SeatKept

-----------------------------------------------------------------------------
\* With the largest threshold there is, the room is for threshold + 1 = 0 parties
\* in a release build.
Wrapped == \A p \in Proc : Threshold[p] = U16 - 1

\* It is full before anybody is in it.
Deserted ==
    /\ room = NoRoom
    /\ \A q \in requests : IsNew(q)
    /\ \A p \in Proc : reply[p].tag # "ok" /\ ~ IsReady(p) /\ signup[p].party_uuid = NoUuid

LEMMA DesertedServe ==
    ASSUME Wrapped, TypeOK, Deserted, NEW q \in requests, Serve(q)
    PROVE  Deserted'
<1>0. q.proc \in Proc
  BY Typed DEF Requests
<1>1. RoomSize(q.proc) = 0
  BY <1>0 DEF Wrapped, RoomSize, U16
<1>2. /\ CurrentRoom(q) = NewRoom(nextUuid, 0) /\ ~ IsTerminated /\ IsNew(q)
      /\ q.proc \in Proc /\ reply \in [Proc -> Replies]
  BY <1>1, NoRoomFacts, Typed DEF Deserted, CurrentRoom, RenewedRoom, IsTerminated, TypeOK, Requests
<1>3. /\ Members(CurrentRoom(q)) = {} /\ CurrentRoom(q).room_size = 0
  BY <1>2 DEF NewRoom, Members
<1>4. IsFullAndActive(CurrentRoom(q))
  BY <1>3, FS_EmptySet DEF IsFullAndActive, IsFull, AreAllMembersActive
<1>5. /\ RefuseFullRoom(q) /\ requests' = requests \ {q}
      /\ UNCHANGED clientVars
  BY <1>2, <1>4 DEF Serve, ServeClosedRoom, RefuseClosedRoom, RefuseUnknownParty, Ping,
     RefuseActiveParty, ReplaceTimedOutParty, JoinRoom, Admitted
<1>6. /\ UNCHANGED <<room, pc, signup>>
      /\ \A p \in Proc : reply'[p].tag \in {reply[p].tag, "err"}
  BY <1>2, <1>5 DEF RefuseFullRoom, Refuse, Answer, Err, managerVars, clientVars
<1> QED
  BY <1>5, <1>6, NoRoomFacts DEF Deserted, IsReady, IsNew, NoRoom, NewRoom

LEMMA DesertedClient ==
    ASSUME TypeOK, ClientInv, Deserted, NEW p \in Proc, Client(p)
    PROVE  Deserted'
<1>1. /\ pc \in [Proc -> PC] /\ signup \in [Proc -> Signups] /\ reply \in [Proc -> Replies]
      /\ reply[p].tag # "ok" /\ pc[p] # "sleep" /\ UNCHANGED room
  BY DEF TypeOK, Signups, Deserted, ClientInv, KnowledgeOf, Client, Start, Poll, ReceiveSignup,
     ReceivePoll, ReceiveError, SendFails, Crash, managerVars
<1>2. NoReply.tag = "none" /\ NotSignedUp.party_uuid = NoUuid
  BY DEF NoReply, NotSignedUp
<1>3. \A q \in Abandoned(p) : IsNew(q)
  <2>1. ASSUME NEW q \in requests PROVE [q EXCEPT !.live = FALSE].party_uuid = q.party_uuid
    BY Typed DEF Requests
  <2> QED
    BY <2>1 DEF Deserted, Abandoned, IsNew
<1>4. ASSUME NEW n PROVE IsNew(Request(p, n, NoUuid))
  BY DEF Request, IsNew
<1>5. CASE Start(p)
  BY <1>1, <1>4, <1>5 DEF Start, Deserted, IsReady, NoRoom, NewRoom
<1>6. ASSUME NEW end \in {"panicked", "crashed"}, Dies(p, end),
             reply' = [reply EXCEPT ![p] = NoReply]
      PROVE  Deserted'
  BY <1>1, <1>2, <1>3, <1>6 DEF Dies, Deserted, IsReady, NoRoom, NewRoom
<1>7. CASE ReceiveError(p) \/ Crash(p)
  BY <1>6, <1>7 DEF ReceiveError, Crash
<1>8. CASE SendFails(p)
  <2>1. CASE Dies(p, "panicked")
    BY <1>6, <1>8, <2>1 DEF SendFails
  <2>2. CASE /\ requests' = Abandoned(p) \cup {Request(p, faults + 1, signup[p].party_uuid)}
             /\ UNCHANGED <<pc, signup>>
    BY <1>1, <1>2, <1>3, <1>4, <1>8, <2>2 DEF SendFails, Deserted, IsReady, NoRoom, NewRoom
  <2> QED
    BY <1>8, <2>1, <2>2 DEF SendFails
<1> QED
  BY <1>1, <1>5, <1>7, <1>8 DEF Client, Poll, ReceiveSignup, ReceivePoll

\* For the threshold 65535 the size of the room wraps to zero: every first request
\* is refused as if the room were full, no room is ever stored, and nobody is ready.
THEOREM RoomForNobody ==
    ASSUME Wrapped
    PROVE  Spec => [](room = NoRoom /\ \A p \in Proc : ~ IsReady(p))
<1>1. Init => Deserted
  BY DEF Init, Deserted, NoReply, IsReady, NotSignedUp
<1>2. IInv /\ Deserted /\ [Next]_vars => Deserted'
  <2> SUFFICES ASSUME IInv, Deserted, [Next]_vars PROVE Deserted'
    OBVIOUS
  <2>1. TypeOK /\ ClientInv
    BY DEF IInv
  <2>2. CASE UNCHANGED <<room, pc, signup, requests, reply>>
    BY <2>2 DEF Deserted, IsReady, IsNew, NoRoom, NewRoom
  <2>3. ~ Expire
    BY DEF Expire, Deserted
  <2> QED
    BY <2>1, <2>2, <2>3, DesertedServe, DesertedClient DEF Next, Tick, vars, managerVars, clientVars
<1>3. Deserted => room = NoRoom /\ \A p \in Proc : ~ IsReady(p)
  BY DEF Deserted
<1> QED
  BY <1>1, <1>2, <1>3, Invariance, PTL DEF Spec

=============================================================================
