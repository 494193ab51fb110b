----------------------------- MODULE SignupSign -----------------------------
(***************************************************************************)
(* Signup for a signing session: the manager's `signup_sign` handler        *)
(* (src/common/manager.rs), the room it keeps in its store, and the clients *)
(* that call it from the `signup` loop of src/common/mod.rs through `postb`. *)
(*                                                                          *)
(* A process is one execution of `tss_cli sign`.  Two processes may carry   *)
(* the same party number: the second one is the restart of a party whose    *)
(* first process died or hangs.  All of them sign the same message on the   *)
(* same curve, so they share one store key and one room.                    *)
(*                                                                          *)
(* The handler runs under the write lock of the store, so it is one step.   *)
(* A request and its reply are separate steps: between them the process may *)
(* crash, its HTTP client may give up and post again, and other processes   *)
(* may be served.  A request whose sender gave up may still be served.      *)
(***************************************************************************)
EXTENDS SigningRoom

CONSTANTS
    Proc,           \* the executions of `tss_cli sign`
    PartyNumber,    \* the party number of each, read from its key file
    Threshold,      \* the t of the t/n parameter of each
    ClientTimeout,  \* TSS_CLI_SIGNUP_TIMEOUT
    Ttl,            \* TSS_CLI_MANAGER_TTL
    MaxTime,        \* bound on the clock
    MaxFaults,      \* bound on failed HTTP exchanges
    MaxCrashes      \* bound on killed processes

U16 == 65536

ASSUME SignupSignAssumption ==
    /\ IsFiniteSet(Proc)
    /\ PartyNumber \in [Proc -> Nat]
    /\ Threshold \in [Proc -> 0 .. U16 - 1]
    /\ {ClientTimeout, Ttl, MaxTime, MaxFaults, MaxCrashes} \subseteq Nat

VARIABLES
    now,        \* the clock, in whole seconds
    room,       \* the room stored under the key, or NoRoom
    stored,     \* when the room was last inserted
    nextUuid,   \* the next unused identity (Uuid::new_v4)
    pc,         \* control state of each process
    attempt,    \* which of postb's attempts is under way
    signup,     \* what each process has learnt from the manager
    requests,   \* requests the manager has not served yet
    reply,      \* the reply on its way to each process
    faults,     \* failed HTTP exchanges so far
    crashes     \* killed processes so far

managerVars == <<room, stored, nextUuid>>
clientVars  == <<pc, attempt, signup>>
vars == <<now, managerVars, clientVars, requests, reply, faults, crashes>>

\* The size of a room that p's request opens; whoever comes later finds it so.
RoomSize(p) == (Threshold[p] + 1) % U16

NoRoom == [NewRoom(NoUuid, 0) EXCEPT !.last_stage = "absent"]

PostAttempts == 2       \* `for _i in 1..retries` with retries = 3

NotSignedUp ==
    [party_uuid |-> NoUuid, number |-> 0, uuid |-> NoUuid, total |-> 0, since |-> 0]

NoReply  == [tag |-> "none"]
Ok(info) == [tag |-> "ok", info |-> info]
Err(e)   == [tag |-> "err", error |-> e]

Init ==
    /\ now = 0
    /\ room = NoRoom
    /\ stored = 0
    /\ nextUuid = 1
    /\ pc = [p \in Proc |-> "idle"]
    /\ attempt = [p \in Proc |-> 1]
    /\ signup = [p \in Proc |-> NotSignedUp]
    /\ requests = {}
    /\ reply = [p \in Proc |-> NoReply]
    /\ faults = 0
    /\ crashes = 0

-----------------------------------------------------------------------------
(***************************************************************************)
(* The manager: signup_sign.                                                *)
(***************************************************************************)

NumberOf(q) == PartyNumber[q.proc]
IsNew(q) == q.party_uuid = NoUuid
IsTerminated == room.last_stage = "terminated"

\* Faulty variant: the members are dropped but the room keeps its identity.
RenewedRoomKeepingUuid(q) ==
    NewRoom(IF IsTerminated THEN room.room_uuid ELSE nextUuid, RoomSize(q.proc))

RenewedRoom(q) == NewRoom(nextUuid, RoomSize(q.proc))

\* The room a request is checked against: the stored one, or a new one when
\* none is stored or the stored one is closed and abandoned.
CurrentRoom(q) ==
    IF room = NoRoom \/ (IsTerminated /\ AreAllMembersInactive(room, now))
    THEN RenewedRoom(q)
    ELSE room

Holds(q, r) == HasMember(r, NumberOf(q), q.party_uuid)

\* The reply reaches the process only if it still waits for this request.
Answer(q, r) == reply' = IF q.live THEN [reply EXCEPT ![q.proc] = r] ELSE reply

Refuse(q, e) ==
    /\ Answer(q, Err(e))
    /\ UNCHANGED managerVars

Store(r) ==
    /\ room' = r
    /\ stored' = now

\* A member of a closed room asks again: it is told the room's identity.
\* Its ping is not updated.
ServeClosedRoom(q) ==
    /\ IsTerminated
    /\ Holds(q, room)
    /\ Answer(q, Ok(GetSignupInfo(room, NumberOf(q), now)))
    /\ UNCHANGED managerVars

RefuseClosedRoom(q) ==
    /\ IsTerminated
    /\ ~ Holds(q, room)
    /\ ~ AreAllMembersInactive(room, now)
    /\ Refuse(q, "terminated")

\* Faulty variant: a closed room takes signups like an open one.
ReachesSignupAlways(q) == TRUE

\* The conditions under which the handler gets past the closed-room checks.
ReachesSignup(q) ==
    IsTerminated => ~ Holds(q, room) /\ AreAllMembersInactive(room, now)

IsFullAndActive(r) == IsFull(r) /\ AreAllMembersActive(r, now)

RefuseFullRoom(q) ==
    /\ ReachesSignup(q)
    /\ IsNew(q)
    /\ IsFullAndActive(CurrentRoom(q))
    /\ Refuse(q, "full")

RefuseUnknownParty(q) ==
    /\ ReachesSignup(q)
    /\ ~ IsNew(q)
    /\ ~ Holds(q, CurrentRoom(q))
    /\ Refuse(q, "unknown")

Ping(q) ==
    /\ ReachesSignup(q)
    /\ ~ IsNew(q)
    /\ Holds(q, CurrentRoom(q))
    /\ LET r == UpdatePing(CurrentRoom(q), NumberOf(q), now)
       IN  /\ Store(r)
           /\ Answer(q, Ok(GetSignupInfo(r, NumberOf(q), now)))
    /\ UNCHANGED nextUuid

\* A first request that is admitted to the signup phase.
Admitted(q) ==
    /\ ReachesSignup(q)
    /\ IsNew(q)
    /\ ~ IsFullAndActive(CurrentRoom(q))

RefuseActiveParty(q) ==
    /\ Admitted(q)
    /\ NumberOf(q) \in Members(CurrentRoom(q))
    /\ IsMemberActive(CurrentRoom(q), NumberOf(q), now)
    /\ Refuse(q, "active")

\* Faulty variant: a party is replaced whether or not it still pings.
ReplaceAnyParty(q) ==
    /\ Admitted(q)
    /\ NumberOf(q) \in Members(CurrentRoom(q))
    /\ Store(ReplaceParty(CurrentRoom(q), NumberOf(q), nextUuid + 1, now))
    /\ Answer(q, Ok(NewSignParty(CurrentRoom(q).member_info[NumberOf(q)].party_order, nextUuid + 1)))
    /\ nextUuid' = nextUuid + 2

ReplaceTimedOutParty(q) ==
    /\ Admitted(q)
    /\ NumberOf(q) \in Members(CurrentRoom(q))
    /\ ~ IsMemberActive(CurrentRoom(q), NumberOf(q), now)
    /\ Store(ReplaceParty(CurrentRoom(q), NumberOf(q), nextUuid + 1, now))
    /\ Answer(q, Ok(NewSignParty(CurrentRoom(q).member_info[NumberOf(q)].party_order, nextUuid + 1)))
    /\ nextUuid' = nextUuid + 2

JoinRoom(q) ==
    /\ Admitted(q)
    /\ NumberOf(q) \notin Members(CurrentRoom(q))
    /\ Store(AddParty(CurrentRoom(q), NumberOf(q), nextUuid + 1, now))
    /\ Answer(q, Ok(NewSignParty(NextOrder(CurrentRoom(q)), nextUuid + 1)))
    /\ nextUuid' = nextUuid + 2

Serve(q) ==
    /\ requests' = requests \ {q}
    /\ \/ ServeClosedRoom(q)
       \/ RefuseClosedRoom(q)
       \/ RefuseFullRoom(q)
       \/ RefuseUnknownParty(q)
       \/ Ping(q)
       \/ RefuseActiveParty(q)
       \/ ReplaceTimedOutParty(q)
       \/ JoinRoom(q)
    /\ UNCHANGED <<now, clientVars, faults, crashes>>

\* The store forgets an entry some time after its time to live has passed.
Expire ==
    /\ room # NoRoom
    /\ now - stored > Ttl
    /\ room' = NoRoom
    /\ UNCHANGED <<now, stored, nextUuid, clientVars, requests, reply, faults, crashes>>

-----------------------------------------------------------------------------
(***************************************************************************)
(* The clients: signup and postb.                                           *)
(***************************************************************************)

Awaiting(p) == pc[p] \in {"signup", "poll"}

\* Faulty variant: the identity is not put into the request.
RequestAnonymous(p, serial, uuid) ==
    [proc |-> p, serial |-> serial, party_uuid |-> NoUuid, live |-> TRUE]

\* The serial number keeps apart the requests of a process that were abandoned
\* by different failures.
Request(p, serial, uuid) ==
    [proc |-> p, serial |-> serial, party_uuid |-> uuid, live |-> TRUE]

\* The requests of p that are under way, once nobody waits for their replies.
Abandoned(p) ==
    {IF q.proc = p THEN [q EXCEPT !.live = FALSE] ELSE q : q \in requests}

Start(p) ==
    /\ pc[p] = "idle"
    /\ pc' = [pc EXCEPT ![p] = "signup"]
    /\ requests' = requests \cup {Request(p, faults, NoUuid)}
    /\ UNCHANGED <<now, managerVars, attempt, signup, reply, faults, crashes>>

\* Sleep over: ask the manager whether the room is complete.
Poll(p) ==
    /\ pc[p] = "sleep"
    /\ pc' = [pc EXCEPT ![p] = "poll"]
    /\ requests' = requests \cup {Request(p, faults, signup[p].party_uuid)}
    /\ UNCHANGED <<now, managerVars, attempt, signup, reply, faults, crashes>>

\* What a process keeps of a reply.  Every poll presents the identity that the
\* first reply brought, whatever identity later replies echo.
Learnt(uuid, info, since) ==
    [party_uuid |-> uuid,
     number     |-> info.party_order,
     uuid       |-> info.room_uuid,
     total      |-> info.total_joined,
     since      |-> since]

\* The process is gone, and what it knew with it.
Dies(p, end) ==
    /\ pc' = [pc EXCEPT ![p] = end]
    /\ attempt' = [attempt EXCEPT ![p] = 1]
    /\ signup' = [signup EXCEPT ![p] = NotSignedUp]
    /\ requests' = Abandoned(p)

\* The loop is left as soon as the room's identity is known.
KeepsLoopingWith(p, s) ==
    /\ pc' = [pc EXCEPT ![p] = IF s.uuid = NoUuid THEN "sleep" ELSE "ready"]
    /\ signup' = [signup EXCEPT ![p] = s]
    /\ attempt' = [attempt EXCEPT ![p] = 1]
    /\ UNCHANGED requests

\* Faulty variant: the time limit is never tested.
IsOutOfTimeNever(s) == FALSE

\* The room is not complete, and the time limit of the loop has passed since
\* the count of parties last changed.
IsOutOfTime(s) ==
    /\ s.uuid = NoUuid
    /\ now - s.since > ClientTimeout

ReceiveSignup(p) ==
    /\ pc[p] = "signup"
    /\ reply[p].tag = "ok"
    /\ reply' = [reply EXCEPT ![p] = NoReply]
    /\ LET info == reply[p].info
       IN  KeepsLoopingWith(p, Learnt(info.party_uuid, info, now))
    /\ UNCHANGED <<now, managerVars, faults, crashes>>

ReceivePoll(p) ==
    /\ pc[p] = "poll"
    /\ reply[p].tag = "ok"
    /\ reply' = [reply EXCEPT ![p] = NoReply]
    /\ LET info == reply[p].info
           s == Learnt(signup[p].party_uuid, info,
                       IF info.total_joined # signup[p].total THEN now ELSE signup[p].since)
       IN  \/ ~ IsOutOfTime(s) /\ KeepsLoopingWith(p, s)
           \/ IsOutOfTime(s) /\ Dies(p, "panicked")
    /\ UNCHANGED <<now, managerVars, faults, crashes>>

ReceiveError(p) ==
    /\ Awaiting(p)
    /\ reply[p].tag = "err"
    /\ reply' = [reply EXCEPT ![p] = NoReply]
    /\ Dies(p, "panicked")
    /\ UNCHANGED <<now, managerVars, faults, crashes>>

\* send() fails, before or after the manager served the request: postb posts
\* once more and then returns None, which its caller unwraps.
SendFails(p) ==
    /\ Awaiting(p)
    /\ faults < MaxFaults
    /\ faults' = faults + 1
    /\ reply' = [reply EXCEPT ![p] = NoReply]
    /\ \/ /\ attempt[p] < PostAttempts
          /\ attempt' = [attempt EXCEPT ![p] = @ + 1]
          /\ requests' = Abandoned(p) \cup {Request(p, faults + 1, signup[p].party_uuid)}
          /\ UNCHANGED <<pc, signup>>
       \/ /\ attempt[p] >= PostAttempts
          /\ Dies(p, "panicked")
    /\ UNCHANGED <<now, managerVars, crashes>>

Crash(p) ==
    /\ pc[p] \in {"signup", "sleep", "poll"}
    /\ crashes < MaxCrashes
    /\ crashes' = crashes + 1
    /\ reply' = [reply EXCEPT ![p] = NoReply]
    /\ Dies(p, "crashed")
    /\ UNCHANGED <<now, managerVars, faults>>

Tick ==
    /\ now < MaxTime
    /\ now' = now + 1
    /\ UNCHANGED <<managerVars, clientVars, requests, reply, faults, crashes>>

Client(p) ==
    \/ Start(p)
    \/ Poll(p)
    \/ ReceiveSignup(p)
    \/ ReceivePoll(p)
    \/ ReceiveError(p)
    \/ SendFails(p)
    \/ Crash(p)

Next ==
    \/ \E q \in requests : Serve(q)
    \/ Expire
    \/ \E p \in Proc : Client(p)
    \/ Tick

Spec == Init /\ [][Next]_vars

-----------------------------------------------------------------------------
(***************************************************************************)
(* Properties.                                                              *)
(***************************************************************************)

Order == Nat \ {0}
MemberInfo == [party_id : Nat, party_order : Order, last_ping : Nat]

PartyNumbers == {PartyNumber[p] : p \in Proc}

Rooms(ns) ==
    [room_uuid   : Nat,
     room_size   : 0 .. U16 - 1,
     member_info : [ns -> MemberInfo],
     last_stage  : {"absent", "signup", "terminated"}]

SignupInfo == [party_order : Order, party_uuid : Nat, room_uuid : Nat, total_joined : Nat]
Error == {"terminated", "full", "unknown", "active"}
Replies == [tag : {"none"}] \cup [tag : {"ok"}, info : SignupInfo] \cup [tag : {"err"}, error : Error]
PC == {"idle", "signup", "sleep", "poll", "ready", "panicked", "crashed"}

\* Every variable has its type.
TypeOK ==
    /\ now \in Nat
    /\ \E ns \in SUBSET PartyNumbers : room \in Rooms(ns)
    /\ stored \in Nat
    /\ nextUuid \in Nat \ {NoUuid}
    /\ pc \in [Proc -> PC]
    /\ attempt \in [Proc -> 1 .. PostAttempts]
    /\ signup \in [Proc -> [party_uuid : Nat, number : Nat, uuid : Nat, total : Nat, since : Nat]]
    /\ requests \subseteq [proc : Proc, serial : Nat, party_uuid : Nat, live : BOOLEAN]
    /\ reply \in [Proc -> Replies]
    /\ faults \in Nat
    /\ crashes \in Nat

\* The orders of a room's members are the numbers 1, 2, ... up to the number of
\* members, each given once, through every join and every replacement: the
\* rounds poll the orders 1..n one after the other (poll_for_broadcasts).
OrdersArePositions ==
    \A n \in Members(room) :
        /\ room.member_info[n].party_order \in 1 .. Cardinality(Members(room))
        /\ \A m \in Members(room) :
              room.member_info[m].party_order = room.member_info[n].party_order => m = n

IsReady(p) == pc[p] = "ready"

\* Two processes that were told the same room identity have different numbers,
\* so that neither overwrites what the other broadcasts in the rounds under
\* "<number>-<round>-<room uuid>".  In particular the first process of a party
\* that has been replaced never gets in beside its replacement.
SlotsExclusive ==
    \A p, q \in Proc :
        /\ p # q
        /\ IsReady(p) /\ IsReady(q)
        /\ signup[p].uuid = signup[q].uuid
        => signup[p].number # signup[q].number

\* The identity of a room that still takes signups is known to no process: what
\* a session writes under it cannot be read by a process of an earlier signing
\* of the same message, whose room had the same key.
OpenRoomUuidUnheld ==
    \A p \in Proc : IsReady(p) /\ signup[p].uuid = room.room_uuid => IsTerminated

\* The roster of a closed room never changes again under the same identity.
ClosedRoomFrozen ==
    [][IsTerminated /\ room'.room_uuid = room.room_uuid => room' = room]_vars

\* A member whose last ping is recent keeps its seat, with its identity and
\* order, whatever else the manager does: no re-signup, no renewal of the room
\* and, when entries live at least as long as the signup timeout, no expiry of
\* the store takes it away.
SeatKept ==
    [][\A n \in Members(room) :
          IsMemberActive(room, n, now) =>
            /\ n \in Members(room')
            /\ room'.room_uuid = room.room_uuid
            /\ room'.member_info[n].party_id = room.member_info[n].party_id
            /\ room'.member_info[n].party_order = room.member_info[n].party_order]_vars

\* What src/protocols/eddsa/signer.rs asserts when it enters the ephemeral key
\* generation, `parties.len() as u16 <= n`: parties has t+1 entries and n is the
\* count of parties that signup returned.
EnoughPartiesCounted ==
    \A p \in Proc : IsReady(p) => Threshold[p] + 1 <= signup[p].total

=============================================================================
