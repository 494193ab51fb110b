---------------------------- MODULE KeygenSignup ----------------------------
(***************************************************************************)
(* Signup for key generation: the manager's `signup_keygen` handler         *)
(* (src/common/manager.rs) and the processes that call it once, through     *)
(* `keygen_signup` and `postb` (src/common/mod.rs).                         *)
(*                                                                          *)
(* The manager keeps one counter per curve.  Unlike the signup for signing  *)
(* nothing tells it who asks: every request that reaches it takes a slot,   *)
(* also the one whose sender gave up and posts again.                       *)
(***************************************************************************)
EXTENDS Integers, FiniteSets

CONSTANTS
    Proc,           \* the executions of `tss_cli keygen` on one curve
    Parties,        \* the n of the t/n parameter of each
    MaxFaults,      \* bound on failed HTTP exchanges
    MaxExpiries     \* bound on expiries of the counter

U16Max == 65535         \* the number of parties is a u16

ASSUME KeygenSignupAssumption ==
    /\ IsFiniteSet(Proc)
    /\ Parties \in [Proc -> 1 .. U16Max]
    /\ {MaxFaults, MaxExpiries} \subseteq Nat

VARIABLES
    counter,    \* the entry "signup-keygen-<curve>": the last slot handed out
    nextUuid,   \* the next unused session identity (Uuid::new_v4)
    pc,         \* control state of each process
    attempt,    \* which of postb's attempts is under way
    slot,       \* the slot each process got
    requests,   \* requests the manager has not served yet
    reply,      \* the reply on its way to each process
    faults,     \* failed HTTP exchanges so far
    expiries,   \* expiries so far
    handed      \* history: every slot the manager has handed out

vars == <<counter, nextUuid, pc, attempt, slot, requests, reply, faults, expiries, handed>>

Slot(uuid, number) == [uuid |-> uuid, number |-> number]

NoSlot == Slot(0, 0)    \* no entry in the store, no reply, no slot yet

PostAttempts == 2       \* `for _i in 1..retries` with retries = 3

Init ==
    /\ counter = NoSlot
    /\ nextUuid = 1
    /\ pc = [p \in Proc |-> "idle"]
    /\ attempt = [p \in Proc |-> 1]
    /\ slot = [p \in Proc |-> NoSlot]
    /\ requests = {}
    /\ reply = [p \in Proc |-> NoSlot]
    /\ faults = 0
    /\ expiries = 0
    /\ handed = {}

\* Faulty variant: the last number is handed out once more than there are
\* parties.
HasRoomForOneMore(last, parties) == last.number <= parties

HasRoom(last, parties) == last.number < parties

\* The entry the handler works on: a missing one counts as number 0 of a new
\* session.
CurrentSlot == IF counter = NoSlot THEN Slot(nextUuid, 0) ELSE counter

\* Faulty variant: a new round of signups keeps the session's identity.
NextSlotSameSession(parties) ==
    IF HasRoom(CurrentSlot, parties)
    THEN Slot(CurrentSlot.uuid, CurrentSlot.number + 1)
    ELSE Slot(CurrentSlot.uuid, 1)

NextSlot(parties) ==
    IF HasRoom(CurrentSlot, parties)
    THEN Slot(CurrentSlot.uuid, CurrentSlot.number + 1)
    ELSE Slot(nextUuid + 1, 1)

\* The handler, under the write lock.
Serve(q) ==
    /\ LET s == NextSlot(Parties[q.proc])
       IN  /\ counter' = s
           /\ reply' = IF q.live THEN [reply EXCEPT ![q.proc] = s] ELSE reply
           /\ handed' = handed \cup {<<s.uuid, s.number>>}
    /\ nextUuid' = nextUuid + 2
    /\ requests' = requests \ {q}
    /\ UNCHANGED <<pc, attempt, slot, faults, expiries>>

\* The store forgets the counter when nobody has signed up for a while.
Expire ==
    /\ counter # NoSlot
    /\ expiries < MaxExpiries
    /\ expiries' = expiries + 1
    /\ counter' = NoSlot
    /\ UNCHANGED <<nextUuid, pc, attempt, slot, requests, reply, faults, handed>>

Request(p, serial) == [proc |-> p, serial |-> serial, live |-> TRUE]

Start(p) ==
    /\ pc[p] = "idle"
    /\ pc' = [pc EXCEPT ![p] = "signup"]
    /\ requests' = requests \cup {Request(p, faults)}
    /\ UNCHANGED <<counter, nextUuid, attempt, slot, reply, faults, expiries, handed>>

Receive(p) ==
    /\ pc[p] = "signup"
    /\ reply[p] # NoSlot
    /\ pc' = [pc EXCEPT ![p] = "ready"]
    /\ slot' = [slot EXCEPT ![p] = reply[p]]
    /\ reply' = [reply EXCEPT ![p] = NoSlot]
    /\ UNCHANGED <<counter, nextUuid, attempt, requests, faults, expiries, handed>>

Abandoned(p) ==
    {IF q.proc = p THEN [q EXCEPT !.live = FALSE] ELSE q : q \in requests}

\* send() fails, before or after the manager served the request: postb posts
\* once more and then returns None, which keygen_signup unwraps.
SendFails(p) ==
    /\ pc[p] = "signup"
    /\ faults < MaxFaults
    /\ faults' = faults + 1
    /\ reply' = [reply EXCEPT ![p] = NoSlot]
    /\ \/ /\ attempt[p] < PostAttempts
          /\ attempt' = [attempt EXCEPT ![p] = @ + 1]
          /\ requests' = Abandoned(p) \cup {Request(p, faults + 1)}
          /\ UNCHANGED pc
       \/ /\ attempt[p] >= PostAttempts
          /\ pc' = [pc EXCEPT ![p] = "panicked"]
          /\ requests' = Abandoned(p)
          /\ UNCHANGED attempt
    /\ UNCHANGED <<counter, nextUuid, slot, expiries, handed>>

Next ==
    \/ \E q \in requests : Serve(q)
    \/ Expire
    \/ \E p \in Proc : Start(p) \/ Receive(p) \/ SendFails(p)

Fairness ==
    \A p \in Proc :
        /\ WF_vars(Start(p))
        /\ WF_vars(\E q \in requests : q.proc = p /\ Serve(q))
        /\ WF_vars(Receive(p))

Spec == Init /\ [][Next]_vars /\ Fairness

-----------------------------------------------------------------------------
Slotted == [uuid : Nat, number : 0 .. U16Max]

\* Every variable has its type; the counter never passes the largest number of
\* parties that asked, so that adding one to it cannot overflow its u16.
TypeOK ==
    /\ counter \in Slotted
    /\ counter = NoSlot \/ \E p \in Proc : counter.number <= Parties[p]
    /\ nextUuid \in Nat \ {0}
    /\ pc \in [Proc -> {"idle", "signup", "ready", "panicked"}]
    /\ attempt \in [Proc -> 1 .. PostAttempts]
    /\ slot \in [Proc -> Slotted]
    /\ requests \subseteq [proc : Proc, serial : Nat, live : BOOLEAN]
    /\ reply \in [Proc -> Slotted]
    /\ faults \in Nat
    /\ expiries \in Nat
    /\ handed \subseteq Nat \X Nat

IsReady(p) == pc[p] = "ready"

\* Two processes never hold the same number of the same session, whatever is
\* retried, expires, or disagrees about the number of parties.  The rounds key
\* their messages by number and session.
KeygenSlotsExclusive ==
    \A p, q \in Proc : p # q /\ IsReady(p) /\ IsReady(q) => slot[p] # slot[q]

\* The number of a process is one of those its rounds are run over (1..=PARTIES
\* of its own parameter), and the numbers below it have been handed out.
NumberWithinParties ==
    \A p \in Proc : IsReady(p) =>
        /\ slot[p].number \in 1 .. Parties[p]
        /\ \A k \in 1 .. slot[p].number : <<slot[p].uuid, k>> \in handed

\* The slots handed out are those of the abstract allocator: the handler draws
\* two identities each time it hands one out, and it never repeats one.
Allocator == INSTANCE Slots WITH served <- nextUuid \div 2
ImplementsSlots == Allocator!Spec

SessionOf(p) == {q \in Proc : IsReady(q) /\ slot[q].uuid = slot[p].uuid}

\* If no exchange fails and the counter does not expire, the processes end up in
\* sessions of exactly as many members as they are to have.  (Stated for
\* instances whose processes agree on the number of parties, and whose number
\* is a multiple of it.)
SessionsFill ==
    ([](faults = 0 /\ expiries = 0)) =>
        <>[](\A p \in Proc : IsReady(p) /\ Cardinality(SessionOf(p)) = Parties[p])
=============================================================================
