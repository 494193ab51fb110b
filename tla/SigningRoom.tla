---------------------------- MODULE SigningRoom ----------------------------
(***************************************************************************)
(* The data type behind a signing signup: `SigningRoom` of                  *)
(* src/common/signing_room.rs, as a record and one operator per method.     *)
(*                                                                          *)
(* A room collects the parties that want to sign one message.  Its members  *)
(* are keyed by the party number (the index of the party's key fragment);   *)
(* each has an identity issued by the manager (`party_id`), an order (the   *)
(* number it will use during the signing rounds) and the time of its last   *)
(* ping.  A method that mutates the room is the operator that returns the   *)
(* mutated room; the clock is passed in where the code reads it.            *)
(***************************************************************************)
EXTENDS Integers, FiniteSets

CONSTANT SignupTimeout  \* TSS_MANAGER_SIGNUP_TIMEOUT, in whole seconds

ASSUME SignupTimeoutAssumption == SignupTimeout \in Nat

(***************************************************************************)
(* Identities are positive numbers handed out by a counter; 0 is the empty  *)
(* string, which the code uses for "no identity yet".                       *)
(***************************************************************************)
NoUuid == 0

NewRoom(uuid, size) ==
    [room_uuid   |-> uuid,
     room_size   |-> size,
     member_info |-> [n \in {} |-> NoUuid],
     last_stage  |-> "signup"]

Members(room) == DOMAIN room.member_info

\* Faulty variant: one more party than the room is for.
IsFullOffByOne(room) == Cardinality(Members(room)) > room.room_size

IsFull(room) == Cardinality(Members(room)) >= room.room_size

IsTimeout(info, now) == info.last_ping < now - SignupTimeout

IsMemberActive(room, n, now) == ~ IsTimeout(room.member_info[n], now)

ActiveMembers(room, now) == {n \in Members(room) : IsMemberActive(room, n, now)}

AreAllMembersActive(room, now) ==
    \A n \in Members(room) : IsMemberActive(room, n, now)

AreAllMembersInactive(room, now) ==
    /\ IsFull(room)
    /\ \A n \in Members(room) : ~ IsMemberActive(room, n, now)

\* Faulty variant: the identity presented by the caller is not compared.
HasMemberByNumber(room, n, uuid) == n \in Members(room)

HasMember(room, n, uuid) ==
    /\ n \in Members(room)
    /\ room.member_info[n].party_id = uuid

SetMember(room, n, info) ==
    [room EXCEPT !.member_info =
        [m \in Members(room) \cup {n} |->
            IF m = n THEN info ELSE room.member_info[m]]]

Member(uuid, order, now) ==
    [party_id |-> uuid, party_order |-> order, last_ping |-> now]

\* Faulty variant: orders counted from 0.
NextOrderFromZero(room) == Cardinality(Members(room))

NextOrder(room) == Cardinality(Members(room)) + 1

\* Faulty variant: orders counted over the members that are active.
AddPartyAfterActive(room, n, uuid, now) ==
    SetMember(room, n, Member(uuid, Cardinality(ActiveMembers(room, now)) + 1, now))

AddParty(room, n, uuid, now) == SetMember(room, n, Member(uuid, NextOrder(room), now))

ReplaceParty(room, n, uuid, now) ==
    SetMember(room, n, Member(uuid, room.member_info[n].party_order, now))

\* The answer to a party that has just been added or has replaced another.
NewSignParty(order, uuid) ==
    [party_order |-> order, party_uuid |-> uuid, room_uuid |-> NoUuid, total_joined |-> 0]

\* Faulty variant: the room closes one party early.
EnoughActiveEarly(room, now) ==
    Cardinality(ActiveMembers(room, now)) + 1 >= room.room_size

EnoughActive(room, now) ==
    /\ IsFull(room)
    /\ Cardinality(ActiveMembers(room, now)) >= room.room_size

CloseSignupWindow(room, now) ==
    IF EnoughActive(room, now) THEN [room EXCEPT !.last_stage = "terminated"] ELSE room

\* The room after a ping.  The code tests EnoughActive before it calls
\* close_signup_window, which tests it again.
UpdatePing(room, n, now) ==
    CloseSignupWindow([room EXCEPT !.member_info[n].last_ping = now], now)

GetSignupInfo(room, n, now) ==
    [party_order  |-> room.member_info[n].party_order,
     party_uuid   |-> room.member_info[n].party_id,
     room_uuid    |-> IF room.last_stage = "signup" THEN NoUuid ELSE room.room_uuid,
     total_joined |-> Cardinality(ActiveMembers(room, now))]

=============================================================================
