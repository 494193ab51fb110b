------------------------- MODULE KeygenSignupProofs -------------------------
(***************************************************************************)
(* Proofs about KeygenSignup, for any processes and numbers of parties, and *)
(* any number of failed exchanges and expiries.                             *)
(*                                                                          *)
(* The invariant follows a slot from the counter to its holder: the counter *)
(* is the largest number handed out in its session, every session known is  *)
(* older than the next identity, and the slots on their way to a process or *)
(* held by it were handed out and belong to no other process.               *)
(***************************************************************************)
EXTENDS KeygenSignup, TLAPS

\* The counter is the last slot handed out in its session.
CounterInv ==
    counter # NoSlot =>
        /\ <<counter.uuid, counter.number>> \in handed
        /\ \A s \in handed : s[1] = counter.uuid => s[2] <= counter.number

\* The slots handed out have old identities, and no gaps below them.
HandedInv ==
    \A s \in handed :
        /\ s[1] < nextUuid /\ s[2] > 0
        /\ \A k \in 1 .. s[2] : <<s[1], k>> \in handed

\* A slot that is p's, or on its way to p.
Holding(p, s) == s # NoSlot /\ s \in {slot[p], reply[p]}

\* What is held was handed out, is within the parties, and is held once.
HolderInv ==
    \A p \in Proc :
        /\ IsReady(p) => slot[p] # NoSlot
        /\ \A s \in Slotted : Holding(p, s) =>
              /\ <<s.uuid, s.number>> \in handed
              /\ s.number \in 1 .. Parties[p]
              /\ \A q \in Proc : Holding(q, s) => q = p

IInv == TypeOK /\ CounterInv /\ HandedInv /\ HolderInv

-----------------------------------------------------------------------------
LEMMA U16MaxPositive == U16Max \in Nat /\ U16Max > 0
  BY DEF U16Max

LEMMA NoSlotType == NoSlot \in Slotted
  BY U16MaxPositive DEF NoSlot, Slot, Slotted

\* The number of parties of a process is a positive u16.
LEMMA PartiesType ==
    ASSUME NEW p \in Proc
    PROVE  /\ Parties[p] \in 1 .. U16Max
           /\ Parties[p] \in Nat /\ Parties[p] > 0 /\ Parties[p] <= U16Max
<1>1. Parties \in [Proc -> 1 .. U16Max]
  BY KeygenSignupAssumption
<1>2. Parties[p] \in 1 .. U16Max
  BY <1>1
<1> QED
  BY <1>2, U16MaxPositive

-----------------------------------------------------------------------------
\* What the handler hands out: a new slot, within the caller's parties, whose
\* predecessor has been handed out, and the largest of its session.
LEMMA NextSlotFresh ==
    ASSUME TypeOK, CounterInv, HandedInv, NEW p \in Proc,
           NEW s, s = NextSlot(Parties[p])
    PROVE  /\ s \in Slotted /\ s # NoSlot
           /\ s.number \in 1 .. Parties[p]
           /\ s.uuid < nextUuid + 2
           /\ <<s.uuid, s.number>> \notin handed
           /\ s.number = 1 \/ <<s.uuid, s.number - 1>> \in handed
           /\ \A t \in handed : t[1] = s.uuid => t[2] < s.number
<1>1. /\ Parties[p] \in Nat /\ Parties[p] > 0 /\ Parties[p] <= U16Max
      /\ U16Max \in Nat /\ U16Max > 0
  BY PartiesType, U16MaxPositive
<1>2. /\ nextUuid \in Nat \ {0} /\ counter \in Slotted /\ handed \subseteq Nat \X Nat
      /\ \A t \in handed : t[1] < nextUuid /\ t[1] \in Nat /\ t[2] \in Nat
  BY DEF TypeOK, HandedInv
<1>3. CASE counter = NoSlot
  <2>1. s = Slot(nextUuid, 1)
    BY <1>1, <1>2, <1>3 DEF NextSlot, CurrentSlot, HasRoom, Slot
  <2> QED
    BY <1>1, <1>2, <2>1 DEF Slot, NoSlot, Slotted
<1>4. CASE counter # NoSlot /\ HasRoom(counter, Parties[p])
  <2>1. s = Slot(counter.uuid, counter.number + 1) /\ counter.number < Parties[p]
    BY <1>4 DEF NextSlot, CurrentSlot, HasRoom
  <2>2. /\ <<counter.uuid, counter.number>> \in handed
        /\ \A t \in handed : t[1] = counter.uuid => t[2] <= counter.number
    BY <1>4 DEF CounterInv
  <2>3. counter.uuid < nextUuid /\ counter.uuid \in Nat /\ counter.number \in Nat
    BY <1>2, <2>2 DEF Slotted
  <2>4. s.uuid = counter.uuid /\ s.number = counter.number + 1
    BY <2>1 DEF Slot
  <2>5. s \in Slotted /\ s # NoSlot
    BY <1>1, <2>1, <2>3 DEF Slot, Slotted, NoSlot
  <2>6. \A t \in handed : t[1] = s.uuid => t[2] < s.number
    BY <1>2, <2>2, <2>3, <2>4
  <2>7. <<s.uuid, s.number>> \notin handed
    BY <2>3, <2>4, <2>6
  <2> QED
    BY <1>1, <1>2, <2>1, <2>2, <2>3, <2>4, <2>5, <2>6, <2>7
<1>5. CASE counter # NoSlot /\ ~ HasRoom(counter, Parties[p])
  <2>1. s = Slot(nextUuid + 1, 1)
    BY <1>5 DEF NextSlot, CurrentSlot
  <2> QED
    BY <1>1, <1>2, <2>1 DEF Slot, NoSlot, Slotted
<1> QED
  BY <1>3, <1>4, <1>5

LEMMA InitIInv == Init => IInv
<1> SUFFICES ASSUME Init PROVE IInv
  OBVIOUS
<1>2. TypeOK
  BY NoSlotType DEF Init, TypeOK, PostAttempts
<1>3. CounterInv /\ HandedInv
  BY DEF Init, CounterInv, HandedInv
<1>4. HolderInv
  BY DEF Init, HolderInv, Holding, IsReady
<1> QED
  BY <1>2, <1>3, <1>4 DEF IInv

-----------------------------------------------------------------------------
\* The requests keep their type when some are abandoned.
LEMMA AbandonedType ==
    ASSUME TypeOK, NEW p \in Proc
    PROVE  Abandoned(p) \subseteq [proc : Proc, serial : Nat, live : BOOLEAN]
  BY DEF TypeOK, Abandoned

\* So do the requests of a process, numbered by the failures so far.
LEMMA RequestType ==
    ASSUME NEW p \in Proc, NEW serial \in Nat
    PROVE  Request(p, serial) \in [proc : Proc, serial : Nat, live : BOOLEAN]
  BY DEF Request

LEMMA ServeStep ==
    ASSUME IInv, NEW q \in requests, Serve(q)
    PROVE  IInv'
<1>1. TypeOK /\ CounterInv /\ HandedInv /\ HolderInv /\ q.proc \in Proc
  BY DEF IInv, TypeOK
<1>2. PICK p \in Proc : p = q.proc
  BY <1>1
<1>3. PICK s : s = NextSlot(Parties[p])
  OBVIOUS
<1>4. /\ s \in Slotted /\ s # NoSlot
      /\ s.number \in 1 .. Parties[p]
      /\ s.uuid < nextUuid + 2
      /\ <<s.uuid, s.number>> \notin handed
      /\ s.number = 1 \/ <<s.uuid, s.number - 1>> \in handed
      /\ \A u \in handed : u[1] = s.uuid => u[2] < s.number
  BY <1>1, <1>3, NextSlotFresh
<1>5. /\ counter' = s /\ nextUuid' = nextUuid + 2
      /\ handed' = handed \cup {<<s.uuid, s.number>>}
      /\ reply' \in {reply, [reply EXCEPT ![p] = s]}
      /\ requests' \subseteq requests
      /\ UNCHANGED <<pc, attempt, slot, faults, expiries>>
  BY <1>2, <1>3 DEF Serve
<1>6. TypeOK'
  <2>1. s.uuid \in Nat /\ s.number \in Nat /\ s.number <= Parties[p]
    BY <1>4, KeygenSignupAssumption DEF Slotted
  <2>2. reply' \in [Proc -> Slotted] /\ nextUuid' \in Nat \ {0} /\ handed' \subseteq Nat \X Nat
    BY <1>1, <1>4, <1>5, <2>1 DEF TypeOK
  <2>3. counter' \in Slotted /\ \E o \in Proc : counter'.number <= Parties[o]
    BY <1>4, <1>5, <2>1
  <2> QED
    BY <1>1, <1>5, <2>2, <2>3 DEF TypeOK
<1>7. CounterInv'
  <2>1. s.uuid \in Nat /\ s.number \in Nat
    BY <1>4, PartiesType DEF Slotted
  <2>2. \A u \in handed : u[1] \in Nat /\ u[2] \in Nat
    BY <1>1 DEF TypeOK
  <2>3. \A u \in handed' : u[1] = s.uuid => u[2] <= s.number
    BY <1>4, <1>5, <2>1, <2>2
  <2> QED
    BY <1>5, <2>3 DEF CounterInv
<1>8. HandedInv'
  <2>1. ASSUME NEW u \in handed'
        PROVE  /\ u[1] < nextUuid' /\ u[2] > 0
               /\ \A k \in 1 .. u[2] : <<u[1], k>> \in handed'
    <3>1. CASE u \in handed
      BY <1>1, <1>5, <3>1 DEF HandedInv, TypeOK
    <3>2. CASE u = <<s.uuid, s.number>>
      <4>1. s.number \in Nat /\ s.number > 0
        BY <1>4, KeygenSignupAssumption
      <4>2. \A k \in 1 .. s.number - 1 : <<s.uuid, k>> \in handed
        BY <1>1, <1>4, <4>1 DEF HandedInv
      <4> QED
        BY <1>4, <1>5, <3>2, <4>1, <4>2
    <3> QED
      BY <1>5, <3>1, <3>2
  <2> QED
    BY <2>1 DEF HandedInv
<1>9. HolderInv'
  <2>1. \A o \in Proc : \A u \in Slotted : Holding(o, u)' => Holding(o, u) \/ (o = p /\ u = s)
    BY <1>1, <1>5 DEF Holding, TypeOK
  <2>2. \A o \in Proc : ~ Holding(o, s)
    BY <1>1, <1>4 DEF HolderInv
  <2>3. \A o \in Proc : IsReady(o)' => slot'[o] # NoSlot
    BY <1>1, <1>5 DEF HolderInv, IsReady
  <2>4. ASSUME NEW o \in Proc, NEW u \in Slotted, Holding(o, u)'
        PROVE  /\ <<u.uuid, u.number>> \in handed'
               /\ u.number \in 1 .. Parties[o]
               /\ \A r \in Proc : Holding(r, u)' => r = o
    <3>1. CASE u = s
      BY <1>4, <1>5, <2>1, <2>2, <2>4, <3>1
    <3>2. CASE u # s
      BY <1>1, <1>5, <2>1, <2>4, <3>2 DEF HolderInv
    <3> QED
      BY <3>1, <3>2
  <2> QED
    BY <2>3, <2>4 DEF HolderInv
<1> QED
  BY <1>6, <1>7, <1>8, <1>9 DEF IInv

\* A client's step, and an expiry, hands out nothing and gives no process a slot
\* that was not on its way to it.
LEMMA HolderStays ==
    ASSUME HolderInv, handed' = handed,
           \A p \in Proc : IsReady(p)' => slot'[p] # NoSlot,
           \A p \in Proc : \A s \in Slotted : Holding(p, s)' => Holding(p, s)
    PROVE  HolderInv'
  BY DEF HolderInv

LEMMA ExpireStep ==
    ASSUME IInv, Expire
    PROVE  IInv'
<1>1. TypeOK'
  BY NoSlotType DEF IInv, TypeOK, Expire
<1>2. CounterInv' /\ HandedInv'
  BY DEF IInv, CounterInv, HandedInv, Expire
<1>3. HolderInv'
  BY HolderStays DEF IInv, HolderInv, Expire, IsReady, Holding
<1> QED
  BY <1>1, <1>2, <1>3 DEF IInv

LEMMA ClientStep ==
    ASSUME IInv, NEW p \in Proc, Start(p) \/ Receive(p) \/ SendFails(p)
    PROVE  IInv'
<1>1. TypeOK /\ CounterInv /\ HandedInv /\ HolderInv
  BY DEF IInv
<1>2. UNCHANGED <<counter, nextUuid, handed, expiries>>
  BY DEF Start, Receive, SendFails
<1>3. NoSlot \in Slotted
  BY NoSlotType
<1>4. TypeOK'
  <2>1. CASE Start(p)
    <3>1. requests' \subseteq [proc : Proc, serial : Nat, live : BOOLEAN]
      <4>1. faults \in Nat /\ requests \subseteq [proc : Proc, serial : Nat, live : BOOLEAN]
        BY <1>1 DEF TypeOK
      <4>2. Request(p, faults) \in [proc : Proc, serial : Nat, live : BOOLEAN]
        BY <4>1, RequestType
      <4>3. requests' = requests \cup {Request(p, faults)}
        BY <2>1 DEF Start
      <4> QED
        BY <4>1, <4>2, <4>3
    <3> QED
      BY <1>1, <1>2, <2>1, <3>1 DEF TypeOK, Start
  <2>2. CASE Receive(p)
    BY <1>1, <1>2, <1>3, <2>2 DEF TypeOK, Receive
  <2>3. CASE SendFails(p)
    <3>1. requests' \subseteq [proc : Proc, serial : Nat, live : BOOLEAN]
      <4>1. faults + 1 \in Nat
        BY <1>1 DEF TypeOK
      <4>2. Request(p, faults + 1) \in [proc : Proc, serial : Nat, live : BOOLEAN]
        BY <4>1, RequestType
      <4>3. requests' \subseteq Abandoned(p) \cup {Request(p, faults + 1)}
        BY <2>3 DEF SendFails
      <4> QED
        BY <1>1, <4>2, <4>3, AbandonedType
    <3>2. attempt' \in [Proc -> 1 .. PostAttempts]
      BY <1>1, <2>3 DEF TypeOK, SendFails, PostAttempts
    <3>3. pc' \in [Proc -> {"idle", "signup", "ready", "panicked"}]
      BY <1>1, <2>3 DEF TypeOK, SendFails
    <3>4. reply' \in [Proc -> Slotted] /\ faults' \in Nat /\ slot' = slot
      BY <1>1, <1>3, <2>3 DEF TypeOK, SendFails
    <3> QED
      BY <1>1, <1>2, <3>1, <3>2, <3>3, <3>4 DEF TypeOK
  <2> QED
    BY <2>1, <2>2, <2>3
<1>5. CounterInv' /\ HandedInv'
  BY <1>1, <1>2 DEF CounterInv, HandedInv
<1>6. HolderInv'
  <2>1. CASE Start(p)
    BY <1>1, <1>2, <2>1, HolderStays DEF TypeOK, Start, HolderInv, IsReady, Holding
  <2>2. CASE Receive(p)
    <3>1. /\ slot' = [slot EXCEPT ![p] = reply[p]] /\ reply' = [reply EXCEPT ![p] = NoSlot]
          /\ reply[p] # NoSlot /\ pc' = [pc EXCEPT ![p] = "ready"]
      BY <2>2 DEF Receive
    <3>2. \A o \in Proc : IsReady(o)' => slot'[o] # NoSlot
      BY <1>1, <3>1 DEF TypeOK, HolderInv, IsReady
    <3>3. \A o \in Proc : \A s \in Slotted : Holding(o, s)' => Holding(o, s)
      BY <1>1, <3>1 DEF TypeOK, Holding
    <3> QED
      BY <1>1, <1>2, <3>2, <3>3, HolderStays
  <2>3. CASE SendFails(p)
    <3>1. /\ slot' = slot /\ reply' = [reply EXCEPT ![p] = NoSlot]
          /\ \A o \in Proc : IsReady(o)' => IsReady(o)
      BY <1>1, <2>3 DEF TypeOK, SendFails, IsReady
    <3>2. \A o \in Proc : \A s \in Slotted : Holding(o, s)' => Holding(o, s)
      BY <1>1, <3>1 DEF TypeOK, Holding
    <3> QED
      BY <1>1, <1>2, <3>1, <3>2, HolderStays DEF HolderInv
  <2> QED
    BY <2>1, <2>2, <2>3
<1> QED
  BY <1>4, <1>5, <1>6 DEF IInv

LEMMA NextIInv ==
    ASSUME IInv, [Next]_vars
    PROVE  IInv'
<1>1. CASE UNCHANGED vars
  BY <1>1 DEF vars, IInv, TypeOK, CounterInv, HandedInv, HolderInv, Holding, IsReady
<1> QED
  BY <1>1, ServeStep, ExpireStep, ClientStep DEF Next

-----------------------------------------------------------------------------
\* The strengthened invariant holds in every reachable state.
THEOREM Invariance == Spec => []IInv
  BY InitIInv, NextIInv, PTL DEF Spec

\* Every variable keeps its type: in particular the counter never passes the
\* number of parties that some caller asked for, so number + 1 stays a u16.
THEOREM KeygenTypeCorrect == Spec => []TypeOK
<1>1. IInv => TypeOK
  BY DEF IInv
<1> QED
  BY <1>1, Invariance, PTL

\* signup_keygen never gives one slot to two processes, whatever is retried,
\* expires or disagrees about the number of parties.
THEOREM KeygenExclusive == Spec => []KeygenSlotsExclusive
<1>1. IInv => KeygenSlotsExclusive
  BY DEF IInv, TypeOK, HolderInv, Holding, KeygenSlotsExclusive
<1> QED
  BY <1>1, Invariance, PTL

\* The number of a process is one its rounds are run over, and those below it
\* have been handed out.
THEOREM KeygenNumbers == Spec => []NumberWithinParties
<1>1. IInv => NumberWithinParties
  <2> SUFFICES ASSUME IInv, NEW p \in Proc, IsReady(p)
               PROVE  /\ slot[p].number \in 1 .. Parties[p]
                      /\ \A k \in 1 .. slot[p].number : <<slot[p].uuid, k>> \in handed
    BY DEF NumberWithinParties
  <2>1. Holding(p, slot[p]) /\ slot[p] \in Slotted
    BY DEF IInv, TypeOK, HolderInv, Holding
  <2>2. /\ <<slot[p].uuid, slot[p].number>> \in handed
        /\ slot[p].number \in 1 .. Parties[p]
    BY <2>1 DEF IInv, HolderInv
  <2> QED
    BY <2>2 DEF IInv, HandedInv
<1> QED
  BY <1>1, Invariance, PTL

\* The handler implements the slot allocator.
THEOREM SlotsImplemented == Spec => ImplementsSlots
<1>1. Init => Allocator!Init
  <2>1. 1 \div 2 = 0
    OBVIOUS
  <2> QED
    BY <2>1 DEF Init, Allocator!Init
<1>2. ASSUME IInv, [Next]_vars
      PROVE  [Allocator!Next]_<<handed, nextUuid \div 2>>
  <2>1. ASSUME NEW q \in requests, Serve(q) PROVE Allocator!Next
    <3>1. PICK p \in Proc : p = q.proc
      BY <1>2 DEF IInv, TypeOK
    <3>2. PICK s : s = NextSlot(Parties[p])
      OBVIOUS
    <3>3. /\ s \in Slotted /\ s.number \in 1 .. Parties[p]
          /\ <<s.uuid, s.number>> \notin handed
          /\ s.number = 1 \/ <<s.uuid, s.number - 1>> \in handed
      BY <1>2, <3>2, NextSlotFresh DEF IInv
    <3>4. handed' = handed \cup {<<s.uuid, s.number>>} /\ nextUuid' = nextUuid + 2
      BY <2>1, <3>1, <3>2 DEF Serve
    <3>5. s.uuid \in Nat /\ s.number \in Nat \ {0}
      BY <3>3, PartiesType DEF Slotted
    <3>6. nextUuid' \div 2 = nextUuid \div 2 + 1
      <4>1. nextUuid \in Nat
        BY <1>2 DEF IInv, TypeOK
      <4> QED
        BY <3>4, <4>1
    <3>7. Allocator!HandOut(s.uuid, s.number)
      BY <3>3, <3>4, <3>5, <3>6 DEF Allocator!HandOut
    <3>8. <<s.uuid, s.number>> \in handed'
      BY <3>4
    <3> QED
      BY <3>7, <3>8 DEF Allocator!Next
  <2>2. CASE UNCHANGED <<handed, nextUuid>>
    BY <2>2
  <2> QED
    BY <1>2, <2>1, <2>2 DEF Next, Expire, Start, Receive, SendFails, vars
<1> QED
  BY <1>1, <1>2, Invariance, PTL DEF Spec, ImplementsSlots, Allocator!Spec

=============================================================================
