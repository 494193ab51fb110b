------------------------ MODULE SigningSessionProofs ------------------------
(***************************************************************************)
(* Proofs about SigningSession, for any processes, party numbers,           *)
(* thresholds, timeouts and failures.                                       *)
(*                                                                          *)
(* A signing keeps the invariant of its signup, and the two meet in the     *)
(* store: an entry belongs to the one process that has the number and the   *)
(* session of its key, so it says who that process is, and stays.           *)
(***************************************************************************)
EXTENDS SigningSession, SignupPromptProofs

\* p has not yet posted what it posts in round r.
Unposted(p, r) ==
    \/ stage[p] = "signup"
    \/ stage[p] = Indices /\ r # Indices
    \/ stage[p] = Shares /\ r = Results

\* An entry is under the number and session of its author, who has posted it in
\* that round and holds what it says.
EntryInv(e) ==
    LET p == e.author
    IN  /\ e \in Entry
        /\ IsReady(p)
        /\ e.key[1] = signup[p].uuid
        /\ e.key[2] = Number(p)
        /\ ~ Unposted(p, e.key[4])
        /\ e.key[4] = Indices => e.value = <<PartyNumber[p]>>
        /\ e.key[4] # Indices /\ stage[p] \in {Shares, Results, "signed"} => e.value = signers[p]

StoreInv ==
    /\ \A e \in entries : EntryInv(e)
    /\ \A e, f \in entries : e.key = f.key => e = f

\* n is the fragment of the process that has number j in p's session.
IsFragmentOf(p, j, n) ==
    \E q \in Proc :
        /\ IsReady(q)
        /\ signup[q].uuid = signup[p].uuid
        /\ Number(q) = j
        /\ PartyNumber[q] = n

\* s may be the signers of p: one for each number, p's among them, and no more
\* than p hears of in the last round.
IsVector(p, s) ==
    /\ s \in Seq(PartyNumbers)
    /\ DOMAIN s = 1 .. Width(p, Indices)
    /\ Number(p) <= Width(p, Indices)
    /\ Width(p, Indices) <= Width(p, Results)
    /\ \A j \in DOMAIN s : IsFragmentOf(p, j, s[j])

\* p has verified a signature that all others made for the same signers.
HasSigned(p) ==
    /\ Cardinality(SetOf(signers[p])) > KeyThreshold
    /\ \A j \in Peers(p, Results) :
          \E e \in FoundAt(p, Results, j) : SetOf(e.value) = SetOf(signers[p])

ProcInv(p) ==
    /\ stage[p] # "signup" => IsReady(p)
    /\ IsReady(p) => Number(p) \in Order
    /\ IF stage[p] \in {Shares, Results, "signed"}
       THEN IsVector(p, signers[p]) ELSE signers[p] = <<>>
    /\ stage[p] = "signed" => HasSigned(p)

SInv == SessionTypeOK /\ StoreInv /\ \A p \in Proc : ProcInv(p)

\* Nothing in the store is replaced.
Keep == \A e \in entries : \A f \in entries' : f.key = e.key => f = e

-----------------------------------------------------------------------------
\* A session is a signup with more to it.
LEMMA SignupStep == ASSUME [SessionNext]_allVars PROVE [Next]_vars
  BY DEF SessionNext, SessionStep, allVars

\* Every behaviour of a whole signing is one of the signup, so that what is proved
\* of the signup holds in it.
THEOREM SessionSignup == SessionSpec => Spec
<1>1. SessionInit => Init
  BY DEF SessionInit
<1>2. [SessionNext]_allVars => [Next]_vars
  BY SignupStep
<1> QED
  BY <1>1, <1>2, PTL DEF SessionSpec, Spec

\* The signing with prompt clients is a special case of the one without.
THEOREM PromptSession == PromptSessionSpec => SessionSpec
<1>1. [PromptSessionNext]_allVars => [SessionNext]_allVars
  BY DEF PromptSessionNext, SessionNext, PromptNext, PromptTick, Next
<1> QED
  BY <1>1, PTL DEF PromptSessionSpec, SessionSpec

\* What a process has learnt stays once it is ready, and its number is one from 1.
ReadyMoves(p) ==
    /\ IsReady(p) => pc'[p] = "ready" /\ signup'[p] = signup[p]
    /\ pc'[p] = "ready" /\ ~ IsReady(p) => signup'[p].number \in Order

LEMMA ReadyClient ==
    ASSUME TypeOK, NEW p \in Proc, NEW q \in Proc, Client(q)
    PROVE  ReadyMoves(p)
<1>1. pc \in [Proc -> PC] /\ signup \in [Proc -> Signups]
  BY DEF TypeOK, Signups
<1>2. ASSUME NEW end \in {"panicked", "crashed"}, Dies(q, end), ~ IsReady(q)
      PROVE  ReadyMoves(p)
  BY <1>1, <1>2 DEF Dies, IsReady, ReadyMoves
<1>3. ASSUME NEW s, KeepsLoopingWith(q, s), s.number \in Order, ~ IsReady(q)
      PROVE  ReadyMoves(p)
  BY <1>1, <1>3 DEF KeepsLoopingWith, IsReady, ReadyMoves
<1>4. ASSUME reply[q].tag = "ok" PROVE reply[q].info.party_order \in Order
  BY <1>4, Typed DEF SignupInfo
<1>5. Awaiting(q) => ~ IsReady(q)
  BY DEF Awaiting, IsReady
<1>6. CASE Start(q) \/ Poll(q)
  BY <1>1, <1>6 DEF Start, Poll, IsReady, ReadyMoves
<1>7. CASE ReceiveSignup(q)
  <2> DEFINE s == Learnt(reply[q].info.party_uuid, reply[q].info, now)
  <2>1. KeepsLoopingWith(q, s) /\ s.number = reply[q].info.party_order /\ Awaiting(q)
    BY <1>7 DEF ReceiveSignup, Learnt, Awaiting
  <2> HIDE DEF s
  <2> QED
    BY <1>3, <1>4, <1>5, <1>7, <2>1 DEF ReceiveSignup
<1>8. CASE ReceivePoll(q)
  <2> DEFINE since == IF reply[q].info.total_joined # signup[q].total THEN now ELSE signup[q].since
             s == Learnt(signup[q].party_uuid, reply[q].info, since)
  <2>1. /\ KeepsLoopingWith(q, s) \/ Dies(q, "panicked")
        /\ s.number = reply[q].info.party_order /\ Awaiting(q)
    BY <1>8 DEF ReceivePoll, Learnt, Awaiting
  <2> HIDE DEF s
  <2> QED
    BY <1>2, <1>3, <1>4, <1>5, <1>8, <2>1 DEF ReceivePoll
<1>9. CASE ReceiveError(q) \/ Crash(q)
  BY <1>2, <1>9 DEF ReceiveError, Crash, Awaiting, IsReady
<1>10. CASE SendFails(q)
  BY <1>2, <1>5, <1>10 DEF SendFails, IsReady, ReadyMoves
<1> QED
  BY <1>6, <1>7, <1>8, <1>9, <1>10 DEF Client

LEMMA ReadyStep ==
    ASSUME TypeOK, [Next]_vars, NEW p \in Proc
    PROVE  ReadyMoves(p)
<1>1. CASE UNCHANGED clientVars
  BY <1>1 DEF clientVars, IsReady, ReadyMoves
<1> QED
  BY <1>1, ReadyClient DEF Next, Serve, Expire, Tick, vars

\* A step of the signup alone changes nothing of the session.
LEMMA SInvSignup ==
    ASSUME TypeOK, SInv, [Next]_vars, UNCHANGED sessionVars
    PROVE  SInv' /\ Keep
<1>1. /\ SessionTypeOK /\ StoreInv /\ \A p \in Proc : ProcInv(p)
      /\ curve' = curve /\ entries' = entries /\ stage' = stage /\ signers' = signers
  BY DEF SInv, sessionVars
<1>2. \A p \in Proc : ReadyMoves(p)
  BY ReadyStep
<1>3. SessionTypeOK'
  BY <1>1 DEF SessionTypeOK, Entry, PartyNumbers
<1>4. ASSUME NEW e \in entries PROVE EntryInv(e)'
  <2>1. EntryInv(e) /\ e.author \in Proc
    BY <1>1 DEF StoreInv, EntryInv, Entry
  <2> QED
    BY <1>1, <1>2, <2>1 DEF EntryInv, ReadyMoves, IsReady, Number, Unposted, Entry, PartyNumbers
<1>5. ASSUME NEW p \in Proc PROVE ProcInv(p)'
  <2>1. ProcInv(p) /\ (IsReady(p) => IsReady(p)' /\ signup'[p] = signup[p])
    BY <1>1, <1>2 DEF ReadyMoves, IsReady
  <2>2. IsReady(p)' => Number(p)' \in Order
    BY <1>2, <2>1 DEF ProcInv, ReadyMoves, IsReady, Number
  <2>3. ASSUME IsReady(p), NEW j, NEW n, IsFragmentOf(p, j, n) PROVE IsFragmentOf(p, j, n)'
    BY <1>2, <2>1, <2>3 DEF IsFragmentOf, ReadyMoves, IsReady, Number
  <2>4. ASSUME IsReady(p), IsVector(p, signers[p]) PROVE IsVector(p, signers[p])'
    BY <1>1, <2>1, <2>3, <2>4 DEF IsVector, Width, Number, RoomSize, PartyNumbers
  <2>5. ASSUME IsReady(p), HasSigned(p) PROVE HasSigned(p)'
    <3>1. Peers(p, Results)' = Peers(p, Results)
      BY <1>1, <2>1, <2>5 DEF Peers, Width, Number, RoomSize
    <3>2. \A j : FoundAt(p, Results, j)' = FoundAt(p, Results, j)
      BY <1>1, <2>1, <2>5 DEF FoundAt, EntryKey, IsPointToPoint, Number
    <3>3. SetOf(signers[p])' = SetOf(signers[p]) /\ \A e : SetOf(e.value)' = SetOf(e.value)
      BY <1>1 DEF SetOf
    <3> QED
      BY <2>5, <3>1, <3>2, <3>3 DEF HasSigned
  <2>6. CASE stage[p] \in {Shares, Results, "signed"}
    BY <1>1, <2>1, <2>2, <2>4, <2>5, <2>6 DEF ProcInv, Shares, Results
  <2>7. CASE ~ (stage[p] \in {Shares, Results, "signed"})
    BY <1>1, <2>1, <2>2, <2>7 DEF ProcInv
  <2> QED
    BY <2>6, <2>7
<1>6. StoreInv' /\ Keep
  BY <1>1, <1>4 DEF StoreInv, Keep
<1> QED
  BY <1>3, <1>5, <1>6 DEF SInv

-----------------------------------------------------------------------------
(***************************************************************************)
(* The steps of the rounds.                                                 *)
(***************************************************************************)

LEMMA Constants == KeyThreshold \in Nat /\ \A p \in Proc : RoomSize(p) \in Nat
<1>1. KeyThreshold \in Nat
  BY SessionAssumption
<1>2. ASSUME NEW p \in Proc PROVE RoomSize(p) \in Nat
  BY RoomSizeType, <1>2
<1> QED
  BY <1>1, <1>2

LEMMA Distinct ==
    /\ Indices = "indices" /\ Shares = "shares" /\ Results = "results"
    /\ Polling = {Indices, Shares, Results}
    /\ \A r \in Polling : r \notin {"signup", "signed", "stopped"}
  BY DEF Indices, Shares, Results, Polling

\* The facts of a process that hold as long as it is told nothing new and its part
\* of the session stays.
LEMMA OtherProc ==
    ASSUME UNCHANGED <<vars, curve>>, NEW o \in Proc, ProcInv(o),
           stage'[o] = stage[o], signers'[o] = signers[o], entries \subseteq entries'
    PROVE  ProcInv(o)'
<1>1. UNCHANGED <<pc, signup, curve>>
  BY DEF vars, clientVars
<1>2. \A j, n : IsFragmentOf(o, j, n) => IsFragmentOf(o, j, n)'
  BY <1>1 DEF IsFragmentOf, IsReady, Number
<1>3. ASSUME IsVector(o, signers[o]) PROVE IsVector(o, signers[o])'
  BY <1>1, <1>2, <1>3 DEF IsVector, Width, Number, RoomSize, PartyNumbers
<1>4. ASSUME HasSigned(o) PROVE HasSigned(o)'
  <2>1. Peers(o, Results)' = Peers(o, Results)
    BY <1>1 DEF Peers, Width, Number, RoomSize
  <2>2. \A j : FoundAt(o, Results, j) \subseteq FoundAt(o, Results, j)'
    BY <1>1 DEF FoundAt, EntryKey, IsPointToPoint, Number
  <2>3. SetOf(signers[o])' = SetOf(signers[o]) /\ \A e : SetOf(e.value)' = SetOf(e.value)
    BY DEF SetOf
  <2> QED
    BY <1>4, <2>1, <2>2, <2>3 DEF HasSigned
<1>5. (IsReady(o) => IsReady(o)') /\ (IsReady(o)' => IsReady(o)) /\ Number(o)' = Number(o)
  BY <1>1 DEF IsReady, Number
<1>6. CASE stage[o] \in {Shares, Results, "signed"}
  BY <1>3, <1>4, <1>5, <1>6 DEF ProcInv, Shares, Results
<1>7. CASE ~ (stage[o] \in {Shares, Results, "signed"})
  BY <1>5, <1>7 DEF ProcInv
<1> QED
  BY <1>6, <1>7

\* The entries of others are untouched when p moves on, and so are p's own.
LEMMA OldEntry ==
    ASSUME UNCHANGED <<vars, curve>>, NEW e, EntryInv(e), NEW p \in Proc,
           \A o \in Proc : o # p => stage'[o] = stage[o] /\ signers'[o] = signers[o],
           \A r \in Polling : ~ Unposted(p, r) => ~ Unposted(p, r)',
           stage[p] \in {Shares, Results, "signed"} => stage'[p] = "stopped" \/ signers'[p] = signers[p],
           Unposted(p, Shares) \/ stage[p] \in {Shares, Results, "signed"} \/ stage'[p] = "stopped"
    PROVE  EntryInv(e)'
<1>1. UNCHANGED <<pc, signup>>
  BY DEF vars, clientVars
<1>2. e \in Entry /\ e.author \in Proc /\ e.key[4] \in Polling
  BY DEF EntryInv, Entry
<1>3. CASE e.author # p
  BY <1>1, <1>2, <1>3 DEF EntryInv, IsReady, Number, Unposted, Entry, PartyNumbers
<1>4. CASE e.author = p
  <2>1. ~ Unposted(p, e.key[4])'
    BY <1>2, <1>4 DEF EntryInv
  <2>2. e.key[4] # Indices /\ stage'[p] \in {Shares, Results, "signed"} => e.value = signers'[p]
    <3>1. e.key[4] # Indices => ~ Unposted(p, Shares)
      BY <1>2, <1>4, Distinct DEF EntryInv, Unposted
    <3> QED
      BY <1>2, <1>4, <3>1, Distinct DEF EntryInv
  <2> QED
    BY <1>1, <1>2, <1>4, <2>1, <2>2 DEF EntryInv, IsReady, Number, Entry, PartyNumbers
<1> QED
  BY <1>3, <1>4

\* A process stops, and its entries stay.
LEMMA StopInv ==
    ASSUME SInv, UNCHANGED <<vars, curve>>, NEW p \in Proc, stage[p] # "signup", Stop(p)
    PROVE  SInv' /\ Keep
<1>1. /\ SessionTypeOK /\ StoreInv /\ \A o \in Proc : ProcInv(o)
      /\ entries' = entries /\ curve' = curve
      /\ stage' = [stage EXCEPT ![p] = "stopped"] /\ signers' = [signers EXCEPT ![p] = <<>>]
  BY DEF SInv, Stop
<1>2. /\ stage'[p] = "stopped" /\ signers'[p] = <<>>
      /\ \A o \in Proc : o # p => stage'[o] = stage[o] /\ signers'[o] = signers[o]
  BY <1>1 DEF SessionTypeOK
<1>3. <<>> \in Seq(PartyNumbers)
  OBVIOUS
<1>4. SessionTypeOK'
  BY <1>1, <1>3 DEF SessionTypeOK, Entry, PartyNumbers
<1>5. StoreInv' /\ Keep
  <2>1. \A r \in Polling : ~ Unposted(p, r)'
    BY <1>2 DEF Unposted, Indices, Shares
  <2>2. \A e \in entries : EntryInv(e)'
    BY <1>1, <1>2, <2>1, OldEntry, Distinct DEF StoreInv
  <2> QED
    BY <1>1, <2>2 DEF StoreInv, Keep
<1>6. ProcInv(p)'
  <2>1. IsReady(p) /\ pc' = pc /\ signup' = signup
    BY <1>1 DEF ProcInv, vars, clientVars
  <2>2. stage'[p] \notin {Shares, Results, "signed"}
    BY <1>2, Distinct
  <2> QED
    BY <1>1, <1>2, <2>1, <2>2 DEF ProcInv, IsReady, Number
<1>7. \A o \in Proc : o # p => ProcInv(o)'
  BY <1>1, <1>2, OtherProc
<1> QED
  BY <1>4, <1>5, <1>6, <1>7 DEF SInv

\* A process goes on to round r: what it posts meets no other entry.
LEMMA GoOnInv ==
    ASSUME IInv, SInv, UNCHANGED <<vars, curve>>, NEW p \in Proc, NEW r \in Polling, NEW s,
           IsReady(p), Unposted(p, r), GoOn(p, r, s),
           IF r = Indices THEN stage[p] = "signup" /\ s = <<>>
           ELSE /\ IsVector(p, s)
                /\ IF r = Shares THEN stage[p] = Indices ELSE stage[p] = Shares /\ s = signers[p]
    PROVE  SInv' /\ Keep
<1> DEFINE new == Posts(p, r, s)
           targets == IF IsPointToPoint(r) THEN Peers(p, r) ELSE {0}
<1>1. /\ SessionTypeOK /\ StoreInv /\ TypeOK /\ SlotsExclusive /\ \A o \in Proc : ProcInv(o)
      /\ curve' = curve /\ Put(new)
      /\ stage' = [stage EXCEPT ![p] = r] /\ signers' = [signers EXCEPT ![p] = s]
  BY SlotsFromIInv DEF SInv, GoOn, IInv
<1>2. /\ stage'[p] = r /\ signers'[p] = s
      /\ \A o \in Proc : o # p => stage'[o] = stage[o] /\ signers'[o] = signers[o]
  BY <1>1 DEF SessionTypeOK
<1>3. s \in Seq(PartyNumbers)
  <2>1. <<>> \in Seq(PartyNumbers)
    OBVIOUS
  <2> QED
    BY <2>1 DEF IsVector
<1>4. /\ signup[p] \in Signups /\ PartyNumber[p] \in PartyNumbers
      /\ targets \subseteq Nat
  <2>1. signup[p] \in Signups /\ PartyNumber[p] \in PartyNumbers
    BY <1>1, Typed DEF PartyNumbers
  <2> QED
    BY <2>1, Constants DEF Peers, Width, Signups
<1>5. ASSUME NEW e \in new
      PROVE  \E to \in targets :
                e = [key |-> <<signup[p].uuid, Number(p), to, r>>, author |-> p,
                     value |-> IF r = Indices THEN <<PartyNumber[p]>> ELSE s]
  BY <1>5 DEF Posts, EntryKey
<1> HIDE DEF new, targets
<1>6. ASSUME NEW e \in new PROVE EntryInv(e)'
  <2>1. PICK to \in targets :
           e = [key |-> <<signup[p].uuid, Number(p), to, r>>, author |-> p,
                value |-> IF r = Indices THEN <<PartyNumber[p]>> ELSE s]
    BY <1>5
  <2>2. /\ signup[p].uuid \in Nat /\ Number(p) \in Nat /\ to \in Nat
    BY <1>4 DEF Signups, Number
  <2>3. (IF r = Indices THEN <<PartyNumber[p]>> ELSE s) \in Seq(PartyNumbers)
    BY <1>3, <1>4
  <2>4. e \in Entry
    BY <2>1, <2>2, <2>3 DEF Entry
  <2>5. /\ e.author = p /\ e.key[1] = signup[p].uuid /\ e.key[2] = Number(p) /\ e.key[4] = r
        /\ e.value = IF r = Indices THEN <<PartyNumber[p]>> ELSE s
    BY <2>1
  <2>6. ~ Unposted(p, r)'
    BY <1>2, Distinct DEF Unposted
  <2>7. UNCHANGED <<pc, signup>>
    BY DEF vars, clientVars
  <2> QED
    BY <1>2, <2>4, <2>5, <2>6, <2>7, Distinct DEF EntryInv, IsReady, Number, Entry, PartyNumbers
<1>7. ASSUME NEW e \in entries PROVE EntryInv(e)'
  <2>1. \A q \in Polling : ~ Unposted(p, q) => ~ Unposted(p, q)'
    BY <1>2, Distinct DEF Unposted
  <2>2. Unposted(p, Shares) \/ (stage[p] = Shares /\ s = signers[p])
    BY Distinct DEF Unposted
  <2>3. stage[p] \in {Shares, Results, "signed"} => signers'[p] = signers[p]
    BY <1>2, <2>2, Distinct DEF Unposted
  <2> QED
    BY <1>1, <1>2, <2>1, <2>2, <2>3, OldEntry, Distinct DEF StoreInv
<1>8. \A e \in entries : \A f \in new : e.key # f.key
  <2> SUFFICES ASSUME NEW e \in entries, NEW f \in new, e.key = f.key PROVE FALSE
    OBVIOUS
  <2>1. f.key[1] = signup[p].uuid /\ f.key[2] = Number(p) /\ f.key[4] = r
    BY <1>5
  <2>2. EntryInv(e) /\ e.author \in Proc
    BY <1>1 DEF StoreInv, EntryInv, Entry
  <2>3. e.author = p
    BY <1>1, <2>1, <2>2 DEF EntryInv, SlotsExclusive, Number
  <2> QED
    BY <2>1, <2>2, <2>3 DEF EntryInv
<1>9. entries' = entries \cup new
  BY <1>1, <1>8 DEF Put
<1>10. StoreInv' /\ Keep
  <2>1. \A e, f \in new : e.key = f.key => e = f
    BY <1>5
  <2>2. \A e, f \in entries' : e.key = f.key => e = f
    BY <1>1, <1>8, <1>9, <2>1 DEF StoreInv
  <2> QED
    BY <1>6, <1>7, <1>9, <2>2 DEF StoreInv, Keep
<1>11. SessionTypeOK'
  <2>1. entries' \subseteq Entry'
    BY <1>6, <1>7, <1>9 DEF EntryInv
  <2> QED
    BY <1>1, <1>3, <2>1 DEF SessionTypeOK, Polling, Indices, Shares, Results, PartyNumbers
<1>12. ProcInv(p)'
  <2>1. /\ UNCHANGED <<pc, signup>> /\ ProcInv(p)
    BY <1>1 DEF vars, clientVars
  <2>2. \A j, n : IsFragmentOf(p, j, n) => IsFragmentOf(p, j, n)'
    BY <2>1 DEF IsFragmentOf, IsReady, Number
  <2>3. CASE r = Indices
    BY <1>2, <2>1, <2>3, Distinct DEF ProcInv, IsReady, Number
  <2>4. CASE r # Indices
    <3>1. IsVector(p, signers[p])'
      BY <1>1, <1>2, <2>1, <2>2, <2>4 DEF IsVector, Width, Number, RoomSize, PartyNumbers
    <3>2. stage'[p] \in {Shares, Results, "signed"} /\ stage'[p] # "signed"
      BY <1>2, <2>4, Distinct
    <3> QED
      BY <2>1, <3>1, <3>2 DEF ProcInv, IsReady, Number
  <2> QED
    BY <2>3, <2>4
<1>13. \A o \in Proc : o # p => ProcInv(o)'
  BY <1>1, <1>2, <1>9, OtherProc
<1> QED
  BY <1>10, <1>11, <1>12, <1>13 DEF SInv

\* The indices read are those of the processes that have the numbers.
LEMMA ReadVector ==
    ASSUME SInv, TypeOK, NEW p \in Proc, stage[p] = Indices, HasAll(p, Indices),
           ~ CannotIndex(p)
    PROVE  IsVector(p, SignersRead(p))
<1> DEFINE n == Width(p, Indices)
           s == SignersRead(p)
<1>1. IsReady(p) /\ signup[p] \in Signups /\ Number(p) \in Order
  BY Typed, Distinct DEF SInv, ProcInv
<1>2. /\ n \in Nat /\ Number(p) <= n /\ n <= Width(p, Results)
  BY <1>1, Constants DEF Width, CannotIndex, Signups, Order, Results, Indices
<1>3. ASSUME NEW j \in 1 .. n
      PROVE  s[j] \in PartyNumbers /\ IsFragmentOf(p, j, s[j])
  <2>1. CASE j = Number(p)
    BY <1>1, <2>1 DEF SignersRead, IsFragmentOf, PartyNumbers
  <2>2. CASE j # Number(p)
    <3>1. FoundAt(p, Indices, j) # {}
      BY <2>2 DEF HasAll, Peers
    <3>2. PICK e \in FoundAt(p, Indices, j) : ValueAt(p, Indices, j) = e.value
      BY <3>1 DEF ValueAt
    <3>3. EntryInv(e) /\ e.author \in Proc
      BY <3>2 DEF SInv, StoreInv, FoundAt, EntryInv, Entry
    <3>4. e.key[1] = signup[p].uuid /\ e.key[2] = j /\ e.key[4] = Indices
      BY <3>2 DEF FoundAt, EntryKey
    <3>5. s[j] = PartyNumber[e.author]
      BY <2>2, <3>2, <3>3, <3>4 DEF SignersRead, EntryInv
    <3> QED
      BY <3>3, <3>4, <3>5 DEF IsFragmentOf, EntryInv, PartyNumbers
  <2> QED
    BY <2>1, <2>2
<1>4. s \in [1 .. n -> PartyNumbers]
  BY <1>3 DEF SignersRead
<1>5. s \in Seq(PartyNumbers) /\ DOMAIN s = 1 .. n
  <2> HIDE DEF s, n
  <2> QED
    BY <1>2, <1>4
<1> QED
  BY <1>2, <1>3, <1>5 DEF IsVector

\* A process has verified the signature.
LEMMA SignedInv ==
    ASSUME SInv, UNCHANGED <<vars, curve>>, NEW p \in Proc, stage[p] = Results,
           HasAll(p, Results), Verifies(p), stage' = [stage EXCEPT ![p] = "signed"],
           UNCHANGED <<entries, signers>>
    PROVE  SInv' /\ Keep
<1>1. /\ SessionTypeOK /\ StoreInv /\ \A o \in Proc : ProcInv(o)
      /\ stage'[p] = "signed" /\ \A o \in Proc : o # p => stage'[o] = stage[o]
  BY DEF SInv, SessionTypeOK
<1>2. SessionTypeOK'
  BY <1>1 DEF SessionTypeOK, Entry, PartyNumbers
<1>3. StoreInv' /\ Keep
  <2>1. \A r \in Polling : ~ Unposted(p, r)'
    BY <1>1 DEF Unposted, Indices, Shares
  <2>2. \A e \in entries : EntryInv(e)'
    BY <1>1, <2>1, OldEntry DEF StoreInv
  <2> QED
    BY <1>1, <2>2 DEF StoreInv, Keep
<1>4. HasSigned(p)
  <2>1. ASSUME NEW j \in Peers(p, Results)
        PROVE  \E e \in FoundAt(p, Results, j) : SetOf(e.value) = SetOf(signers[p])
    <3>1. PICK e \in FoundAt(p, Results, j) : ValueAt(p, Results, j) = e.value
      BY <2>1 DEF HasAll, ValueAt
    <3> QED
      BY <2>1, <3>1 DEF Verifies
  <2> QED
    BY <2>1 DEF Verifies, HasSigned
<1>5. ProcInv(p)'
  <2>1. IsReady(p) /\ Number(p) \in Order /\ IsVector(p, signers[p])
    BY <1>1, Distinct DEF ProcInv
  <2>2. UNCHANGED <<pc, signup>>
    BY DEF vars, clientVars
  <2>3. IsVector(p, signers[p])'
    <3>1. \A j, n : IsFragmentOf(p, j, n) => IsFragmentOf(p, j, n)'
      BY <2>2 DEF IsFragmentOf, IsReady, Number
    <3> QED
      BY <2>1, <2>2, <3>1 DEF IsVector, Width, Number, RoomSize, PartyNumbers
  <2>4. HasSigned(p)'
    <3>1. Peers(p, Results)' = Peers(p, Results)
      BY <2>2 DEF Peers, Width, Number, RoomSize
    <3>2. \A j : FoundAt(p, Results, j)' = FoundAt(p, Results, j)
      BY <2>2 DEF FoundAt, EntryKey, IsPointToPoint, Number
    <3>3. SetOf(signers[p])' = SetOf(signers[p]) /\ \A e : SetOf(e.value)' = SetOf(e.value)
      BY DEF SetOf
    <3> QED
      BY <1>4, <3>1, <3>2, <3>3 DEF HasSigned
  <2> QED
    BY <1>1, <2>1, <2>2, <2>3, <2>4 DEF ProcInv, IsReady, Number
<1>6. \A o \in Proc : o # p => ProcInv(o)'
  BY <1>1, OtherProc
<1> QED
  BY <1>2, <1>3, <1>5, <1>6 DEF SInv

\* One step of a process in the rounds.
LEMMA RoundInv ==
    ASSUME IInv, SInv, UNCHANGED <<vars, curve>>, NEW p \in Proc,
           RoundStep(p) \/ StopInRounds(p)
    PROVE  SInv' /\ Keep
<1>1. TypeOK /\ ProcInv(p)
  BY DEF IInv, SInv
<1>2. CASE EnterRounds(p)
  <2>1. IsReady(p) /\ Unposted(p, Indices) /\ Indices \in Polling
    BY <1>2 DEF EnterRounds, IsReady, Unposted, Polling
  <2> QED
    BY <1>2, <2>1, GoOnInv DEF EnterRounds
<1>3. CASE CompleteIndices(p)
  <2>1. CASE CannotIndex(p)
    BY <1>3, <2>1, StopInv, Distinct DEF CompleteIndices
  <2>2. CASE ~ CannotIndex(p)
    <3>1. IsVector(p, SignersRead(p)) /\ GoOn(p, Shares, SignersRead(p)) /\ stage[p] = Indices
      BY <1>1, <1>3, <2>2, ReadVector DEF CompleteIndices
    <3>2. IsReady(p) /\ Unposted(p, Shares) /\ Shares \in Polling /\ Shares # Indices
      BY <1>1, <3>1, Distinct DEF ProcInv, Unposted
    <3> QED
      BY <3>1, <3>2, GoOnInv
  <2> QED
    BY <2>1, <2>2
<1>4. CASE CompleteShares(p)
  <2>1. CASE RejectsShares(p)
    BY <1>4, <2>1, StopInv, Distinct DEF CompleteShares
  <2>2. CASE ~ RejectsShares(p)
    <3>1. IsVector(p, signers[p]) /\ GoOn(p, Results, signers[p]) /\ stage[p] = Shares
      BY <1>1, <1>4, <2>2, Distinct DEF CompleteShares, ProcInv
    <3>2. IsReady(p) /\ Unposted(p, Results) /\ Results \in Polling
          /\ Results # Indices /\ Results # Shares
      BY <1>1, <3>1, Distinct DEF ProcInv, Unposted
    <3> QED
      BY <3>1, <3>2, GoOnInv
  <2> QED
    BY <2>1, <2>2
<1>5. CASE CompleteResults(p)
  BY <1>5, StopInv, SignedInv, Distinct DEF CompleteResults
<1>6. CASE StopInRounds(p)
  BY <1>6, StopInv, Distinct DEF StopInRounds
<1> QED
  BY <1>2, <1>3, <1>4, <1>5, <1>6 DEF RoundStep

LEMMA SessionNextInv ==
    ASSUME IInv, SInv, [SessionNext]_allVars
    PROVE  SInv' /\ Keep
<1>1. TypeOK
  BY DEF IInv
<1>2. CASE [Next]_vars /\ UNCHANGED sessionVars
  BY <1>1, <1>2, SInvSignup
<1>3. CASE SessionStep
  BY <1>3, RoundInv DEF SessionStep
<1> QED
  BY <1>2, <1>3 DEF SessionNext, allVars

LEMMA SessionInitInv == SessionInit => SInv
<1> SUFFICES ASSUME SessionInit PROVE SInv
  OBVIOUS
<1>1. SessionTypeOK
  <2>1. <<>> \in Seq(PartyNumbers)
    OBVIOUS
  <2> QED
    BY <2>1, SessionAssumption DEF SessionInit, SessionTypeOK
<1>2. StoreInv
  BY DEF SessionInit, StoreInv
<1>3. ASSUME NEW p \in Proc PROVE ProcInv(p)
  <2>1. stage[p] = "signup" /\ signers[p] = <<>> /\ ~ IsReady(p)
    BY DEF SessionInit, Init, IsReady
  <2> QED
    BY <2>1, Distinct DEF ProcInv
<1> QED
  BY <1>1, <1>2, <1>3 DEF SInv

-----------------------------------------------------------------------------
\* The invariants of the signup and of the rounds hold together.
THEOREM SessionInvariance == SessionSpec => [](IInv /\ SInv)
<1>1. SessionInit => IInv /\ SInv
  BY InitIInv, SessionInitInv DEF SessionInit
<1>2. IInv /\ SInv /\ [SessionNext]_allVars => (IInv /\ SInv)'
  BY SignupStep, NextIInv, SessionNextInv
<1> QED
  BY <1>1, <1>2, PTL DEF SessionSpec

\* Every variable keeps its type.
THEOREM SessionTypeCorrect == SessionSpec => []SessionTypeOK
<1>1. SInv => SessionTypeOK
  BY DEF SInv
<1> QED
  BY <1>1, SessionInvariance, PTL

\* No entry of the store is ever replaced by another, whichever rooms are renewed
\* and parties replaced while a session is under way.
THEOREM EntriesKept == SessionSpec => EntriesKeepAuthor
<1>1. IInv /\ SInv /\ [SessionNext]_allVars => [Keep]_allVars
  BY SessionNextInv
<1> QED
  BY <1>1, SessionInvariance, PTL DEF SessionSpec, EntriesKeepAuthor, Keep

\* Everybody that signs knows which fragment each number of its session has.
THEOREM SignersCorrect == SessionSpec => []SignersAreTheNumbered
<1>1. ASSUME SInv, NEW p \in Proc, NEW j \in DOMAIN signers[p]
      PROVE  IsFragmentOf(p, j, signers[p][j])
  <2>1. CASE signers[p] = <<>>
    BY <1>1, <2>1
  <2>2. CASE IsVector(p, signers[p])
    BY <1>1, <2>2 DEF IsVector
  <2> QED
    BY <1>1, <2>1, <2>2 DEF SInv, ProcInv
<1>2. SInv => SignersAreTheNumbered
  BY <1>1 DEF SignersAreTheNumbered, IsFragmentOf
<1> QED
  BY <1>2, SessionInvariance, PTL

\* No fragment has two processes in a session.
THEOREM FragmentsOnce == SessionSpec => []NoFragmentTwice
<1>1. IInv => NoFragmentTwice
  BY SeatsApart DEF NoFragmentTwice
<1> QED
  BY <1>1, SessionInvariance, PTL

-----------------------------------------------------------------------------
(***************************************************************************)
(* Who ends with a signature made it for the same signers.                  *)
(***************************************************************************)

\* A set of signers is no larger than their vector.
LEMMA SetOfVector ==
    ASSUME NEW S, NEW s \in Seq(S)
    PROVE  Cardinality(SetOf(s)) <= Len(s) /\ Cardinality(SetOf(s)) \in Nat
<1>1. DOMAIN s = 1 .. Len(s) /\ Len(s) \in Nat
  OBVIOUS
<1>2. IsFiniteSet(1 .. Len(s)) /\ Cardinality(1 .. Len(s)) = Len(s)
  BY <1>1, FS_Interval
<1> DEFINE f == [j \in 1 .. Len(s) |-> s[j]]
<1>3. f \in Surjection(1 .. Len(s), SetOf(s))
  BY <1>1 DEF Surjection, SetOf
<1> HIDE DEF f
<1>4. IsFiniteSet(SetOf(s)) /\ Cardinality(SetOf(s)) <= Cardinality(1 .. Len(s))
  BY <1>2, <1>3, FS_Surjection
<1> QED
  BY <1>2, <1>4, FS_CardinalityType

\* Vectors of one session over the same signers are equally long: the last of the
\* longer one would be a fragment that has two numbers.
LEMMA NotShorter ==
    ASSUME IInv, NEW p \in Proc, NEW q \in Proc, signup[p].uuid = signup[q].uuid,
           NEW s, NEW t, IsVector(p, s), IsVector(q, t), SetOf(s) = SetOf(t)
    PROVE  DOMAIN t \subseteq DOMAIN s /\ \A j \in DOMAIN t : t[j] = s[j]
<1>1. ASSUME NEW j \in DOMAIN t PROVE j \in DOMAIN s /\ t[j] = s[j]
  <2>1. PICK y \in Proc : /\ IsReady(y) /\ signup[y].uuid = signup[q].uuid
                          /\ Number(y) = j /\ PartyNumber[y] = t[j]
    BY <1>1 DEF IsVector, IsFragmentOf
  <2>2. PICK i \in DOMAIN s : s[i] = t[j]
    BY <1>1 DEF SetOf
  <2>3. PICK x \in Proc : /\ IsReady(x) /\ signup[x].uuid = signup[p].uuid
                          /\ Number(x) = i /\ PartyNumber[x] = s[i]
    BY <2>2 DEF IsVector, IsFragmentOf
  <2>4. x = y
    BY <2>1, <2>2, <2>3, SeatsApart
  <2> QED
    BY <2>1, <2>2, <2>3, <2>4
<1> QED
  BY <1>1

\* p is among those that q has heard of in the last round.
LEMMA SameSigners ==
    ASSUME IInv, SInv, NEW p \in Proc, NEW q \in Proc, p # q,
           stage[p] = "signed", stage[q] = "signed", signup[p].uuid = signup[q].uuid,
           Width(p, Indices) <= Width(q, Indices)
    PROVE  SetOf(signers[p]) = SetOf(signers[q])
<1>1. /\ IsReady(p) /\ Number(p) \in Order /\ IsVector(p, signers[p])
      /\ IsReady(q) /\ IsVector(q, signers[q]) /\ HasSigned(q)
  BY DEF SInv, ProcInv
<1>2. /\ Width(p, Indices) \in Nat /\ Width(q, Indices) \in Nat /\ Width(q, Results) \in Nat
  BY Typed, Constants DEF IInv, Width, Signups
<1>3. Number(p) # Number(q)
  BY <1>1, SeatsApart DEF Number
<1>4. Number(p) \in Peers(q, Results)
  BY <1>1, <1>2, <1>3 DEF IsVector, Peers, Order
<1>5. PICK e \in FoundAt(q, Results, Number(p)) : SetOf(e.value) = SetOf(signers[q])
  BY <1>1, <1>4 DEF HasSigned
<1>6. EntryInv(e) /\ e.author \in Proc
  BY <1>5 DEF SInv, StoreInv, FoundAt, EntryInv, Entry
<1>7. e.key[1] = signup[q].uuid /\ e.key[2] = Number(p) /\ e.key[4] = Results
  BY <1>5 DEF FoundAt, EntryKey
<1>8. e.author = p
  BY <1>1, <1>6, <1>7, SeatsApart DEF EntryInv, Number
<1> QED
  BY <1>5, <1>6, <1>7, <1>8, Distinct DEF EntryInv

\* Processes of one session that end with a signature made it for the same
\* signers, enough of them for the key, although they may have been told different
\* counts of parties and given different t.
THEOREM CosignersCorrect == SessionSpec => []CosignersAgree
<1>1. ASSUME IInv, SInv, NEW p \in Proc, NEW q \in Proc,
             stage[p] = "signed", stage[q] = "signed", signup[p].uuid = signup[q].uuid
      PROVE  signers[p] = signers[q] /\ Len(signers[p]) > KeyThreshold
  <2>1. /\ IsVector(p, signers[p]) /\ HasSigned(p) /\ IsVector(q, signers[q])
    BY <1>1 DEF SInv, ProcInv
  <2>2. Len(signers[p]) > KeyThreshold
    <3>1. signers[p] \in Seq(PartyNumbers) /\ Len(signers[p]) \in Nat
      BY <2>1 DEF IsVector
    <3>2. Cardinality(SetOf(signers[p])) > KeyThreshold
      BY <2>1 DEF HasSigned
    <3> QED
      BY <3>1, <3>2, SetOfVector, Constants
  <2>3. SetOf(signers[p]) = SetOf(signers[q])
    <3>1. Width(p, Indices) \in Nat /\ Width(q, Indices) \in Nat
      BY <1>1, Typed, Constants DEF IInv, Width, Signups
    <3>2. CASE p # q /\ Width(p, Indices) <= Width(q, Indices)
      BY <1>1, <3>2, SameSigners
    <3>3. CASE p # q /\ Width(q, Indices) <= Width(p, Indices)
      BY <1>1, <3>3, SameSigners
    <3> QED
      BY <3>1, <3>2, <3>3
  <2>4. DOMAIN signers[p] = DOMAIN signers[q]
        /\ \A j \in DOMAIN signers[p] : signers[p][j] = signers[q][j]
    <3>1. /\ DOMAIN signers[q] \subseteq DOMAIN signers[p]
          /\ \A j \in DOMAIN signers[q] : signers[q][j] = signers[p][j]
      BY <1>1, <2>1, <2>3, NotShorter
    <3>2. DOMAIN signers[p] \subseteq DOMAIN signers[q]
      BY <1>1, <2>1, <2>3, NotShorter
    <3> QED
      BY <3>1, <3>2
  <2>5. signers[p] \in Seq(PartyNumbers) /\ signers[q] \in Seq(PartyNumbers)
    BY <2>1 DEF IsVector
  <2>6. Len(signers[p]) = Len(signers[q])
    <3> DEFINE a == signers[p]
               b == signers[q]
    <3>1. a \in Seq(PartyNumbers) /\ b \in Seq(PartyNumbers) /\ DOMAIN a = DOMAIN b
      BY <2>4, <2>5
    <3> HIDE DEF a, b
    <3>2. Len(a) = Len(b)
      BY <3>1
    <3> QED
      BY <3>2 DEF a, b
  <2> QED
    BY <2>2, <2>4, <2>5, <2>6
<1>2. IInv /\ SInv => CosignersAgree
  BY <1>1 DEF CosignersAgree
<1> QED
  BY <1>2, SessionInvariance, PTL

-----------------------------------------------------------------------------
(***************************************************************************)
(* A signing does what Cosigning promises.                                  *)
(***************************************************************************)

\* The refinement mapping of ImplementsCosigning.
TakenSeats == [p \in Proc |-> SeatTaken(p)]
Offers     == [p \in Proc |-> Offered(p)]
Signed     == {p \in Proc : stage[p] = "signed"}

OwnEntries(p) == FoundAt(p, Results, Number(p))

\* What anybody posted in the last round was a vector of signers then and is one
\* for ever, even if its author has stopped; and who waits in the last round, or is
\* through it, has posted.
OfferInv ==
    /\ \A e \in entries : e.key[4] = Results => IsVector(e.author, e.value)
    /\ \A p \in Proc : stage[p] \in {Results, "signed"} => OwnEntries(p) # {}

CInv == IInv /\ SInv /\ OfferInv

\* The steps of p, as far as they can be seen in the last round.
Hidden(p) ==
    /\ stage[p] # "signed" /\ stage'[p] \notin {Results, "signed"}
    /\ \A e \in entries' \ entries : e.key[4] # Results

Offering(p) ==
    /\ stage[p] = Shares /\ stage'[p] = Results
    /\ Put(Posts(p, Results, signers[p]))

Signing(p) ==
    /\ stage[p] = Results /\ stage'[p] = "signed"
    /\ HasAll(p, Results) /\ Verifies(p)
    /\ entries' = entries

LEMMA StepKind ==
    ASSUME SInv, NEW p \in Proc, RoundStep(p) \/ StopInRounds(p)
    PROVE  /\ Hidden(p) \/ Offering(p) \/ Signing(p)
           /\ \A o \in Proc \ {p} : stage'[o] = stage[o]
<1>1. stage \in [Proc -> {"signup", "signed", "stopped"} \cup Polling]
  BY DEF SInv, SessionTypeOK
<1>2. ASSUME NEW r, NEW s, Put(Posts(p, r, s)), r # Results
      PROVE  \A e \in entries' \ entries : e.key[4] # Results
  BY <1>2 DEF Put, Posts, EntryKey
<1>3. ASSUME Stop(p), stage[p] # "signed" PROVE Hidden(p)
  BY <1>1, <1>3, Distinct DEF Stop, Hidden
<1>4. ASSUME NEW r \in Polling \ {Results}, NEW s, GoOn(p, r, s), stage[p] # "signed"
      PROVE  Hidden(p)
  <2>1. stage'[p] = r /\ r \notin {Results, "signed"}
    BY <1>1, <1>4, Distinct DEF GoOn
  <2>2. \A e \in entries' \ entries : e.key[4] # Results
    BY <1>2, <1>4 DEF GoOn
  <2> QED
    BY <1>4, <2>1, <2>2 DEF Hidden
<1>5. Hidden(p) \/ Offering(p) \/ Signing(p)
  <2>1. CASE EnterRounds(p)
    BY <1>4, <2>1, Distinct DEF EnterRounds
  <2>2. CASE CompleteIndices(p)
    BY <1>3, <1>4, <2>2, Distinct DEF CompleteIndices
  <2>3. CASE CompleteShares(p)
    BY <1>1, <1>3, <2>3, Distinct DEF CompleteShares, GoOn, Offering
  <2>4. CASE CompleteResults(p)
    BY <1>1, <1>3, <2>4, Distinct DEF CompleteResults, Signing
  <2>5. CASE StopInRounds(p)
    BY <1>3, <2>5, Distinct DEF StopInRounds
  <2> QED
    BY <2>1, <2>2, <2>3, <2>4, <2>5 DEF RoundStep
<1>6. \A o \in Proc \ {p} : stage'[o] = stage[o]
  BY <1>1 DEF RoundStep, EnterRounds, CompleteIndices, CompleteShares, CompleteResults,
     StopInRounds, GoOn, Stop
<1> QED
  BY <1>5, <1>6

\* What stays in a step: what has been posted, and what a process learnt that is
\* ready.
LEMMA Lasting ==
    ASSUME IInv, SInv, [SessionNext]_allVars
    PROVE  /\ entries \subseteq entries' /\ curve' = curve
           /\ \A p \in Proc : ReadyMoves(p)
<1>1. Keep
  BY SessionNextInv
<1>2. curve' = curve
  BY DEF SessionNext, SessionStep, sessionVars, allVars
<1>3. \A p \in Proc : ReadyMoves(p)
  BY SignupStep, ReadyStep DEF IInv
<1>4. ASSUME NEW es, Put(es) PROVE entries \subseteq entries'
  BY <1>1, <1>4 DEF Put, Keep
<1>5. ASSUME NEW p \in Proc, RoundStep(p) \/ StopInRounds(p) PROVE entries \subseteq entries'
  BY <1>4, <1>5 DEF RoundStep, EnterRounds, CompleteIndices, CompleteShares, CompleteResults,
     StopInRounds, GoOn, Stop
<1> QED
  BY <1>2, <1>3, <1>5 DEF SessionNext, SessionStep, sessionVars, allVars

LEMMA VectorStays ==
    ASSUME curve' = curve, \A q \in Proc : ReadyMoves(q),
           NEW p \in Proc, IsReady(p), NEW s, IsVector(p, s)
    PROVE  IsVector(p, s)'
<1>1. signup'[p] = signup[p]
  BY DEF ReadyMoves
<1>2. ASSUME NEW j, NEW n, IsFragmentOf(p, j, n) PROVE IsFragmentOf(p, j, n)'
  BY <1>1, <1>2 DEF IsFragmentOf, ReadyMoves, IsReady, Number
<1> QED
  BY <1>1, <1>2 DEF IsVector, Width, Number, RoomSize, PartyNumbers

\* What p posts in the last round.
LEMMA NewOffer ==
    ASSUME NEW p \in Proc, Put(Posts(p, Results, signers[p]))
    PROVE  LET e == [key |-> <<signup[p].uuid, Number(p), 0, Results>>, author |-> p,
                     value |-> signers[p]]
           IN  e \in entries' /\ entries' \subseteq entries \cup {e}
<1>1. ~ IsPointToPoint(Results) /\ Results # Indices
  BY Distinct DEF IsPointToPoint
<1>2. Posts(p, Results, signers[p]) =
        {[key |-> <<signup[p].uuid, Number(p), 0, Results>>, author |-> p, value |-> signers[p]]}
  BY <1>1 DEF Posts, EntryKey
<1> QED
  BY <1>2 DEF Put

LEMMA OfferStep ==
    ASSUME CInv, [SessionNext]_allVars
    PROVE  OfferInv'
<1>1. /\ IInv /\ SInv /\ OfferInv /\ SInv'
      /\ entries \subseteq entries' /\ curve' = curve
      /\ \A p \in Proc : ReadyMoves(p)
  BY SessionNextInv, Lasting DEF CInv
<1>2. ASSUME NEW p \in Proc, IsReady(p), OwnEntries(p) # {} PROVE OwnEntries(p)' # {}
  BY <1>1, <1>2 DEF OwnEntries, FoundAt, EntryKey, IsPointToPoint, ReadyMoves, Number
<1>3. ASSUME NEW e \in entries, e.key[4] = Results PROVE IsVector(e.author, e.value)'
  <2>1. e.author \in Proc /\ IsReady(e.author) /\ IsVector(e.author, e.value)
    BY <1>1, <1>3 DEF SInv, StoreInv, EntryInv, Entry, OfferInv
  <2> QED
    BY <1>1, <2>1, VectorStays
<1>4. CASE UNCHANGED <<entries, stage>>
  <2>1. \A p \in Proc : stage[p] \in {Results, "signed"} => IsReady(p)
    BY <1>1, Distinct DEF SInv, ProcInv
  <2> QED
    BY <1>1, <1>2, <1>3, <1>4, <2>1 DEF OfferInv
<1>5. ASSUME NEW p \in Proc, RoundStep(p) \/ StopInRounds(p), UNCHANGED <<vars, curve>>
      PROVE  OfferInv'
  <2>1. /\ Hidden(p) \/ Offering(p) \/ Signing(p)
        /\ \A o \in Proc \ {p} : stage'[o] = stage[o]
    BY <1>1, <1>5, StepKind
  <2>2. \A q \in Proc : stage[q] \in {Results, "signed"} => IsReady(q) /\ OwnEntries(q)' # {}
    BY <1>1, <1>2, Distinct DEF SInv, ProcInv, OfferInv
  <2>3. CASE Hidden(p)
    BY <1>3, <2>1, <2>2, <2>3 DEF OfferInv, Hidden
  <2>4. CASE Signing(p)
    BY <1>3, <2>1, <2>2, <2>4 DEF OfferInv, Signing
  <2>5. CASE Offering(p)
    <3> DEFINE e == [key |-> <<signup[p].uuid, Number(p), 0, Results>>, author |-> p,
                     value |-> signers[p]]
    <3>1. e \in entries' /\ entries' \subseteq entries \cup {e}
      BY <2>5, NewOffer DEF Offering
    <3>2. IsVector(p, signers[p])
      BY <1>1, <2>5, Distinct DEF SInv, ProcInv, Offering
    <3>3. UNCHANGED <<pc, signup>>
      BY <1>5 DEF vars, clientVars
    <3>4. OwnEntries(p)' # {}
      BY <3>1, <3>3, Distinct DEF OwnEntries, FoundAt, EntryKey, IsPointToPoint, Number
    <3>5. ASSUME NEW f \in entries', f.key[4] = Results PROVE IsVector(f.author, f.value)'
      <4>1. CASE f \in entries
        BY <1>3, <3>5, <4>1
      <4>2. CASE f \notin entries
        <5>1. f.author = p /\ f.value = signers[p]
          BY <3>1, <4>2
        <5>2. IsReady(p) /\ IsVector(p, f.value)
          BY <1>1, <2>5, <3>2, <5>1, Distinct DEF SInv, ProcInv, Offering
        <5> QED
          BY <1>1, <5>1, <5>2, VectorStays
      <4> QED
        BY <4>1, <4>2
    <3> QED
      BY <2>1, <2>2, <3>4, <3>5 DEF OfferInv
  <2> QED
    BY <2>1, <2>3, <2>4, <2>5
<1> QED
  BY <1>4, <1>5 DEF SessionNext, SessionStep, sessionVars, allVars

LEMMA OfferInvariance == SessionSpec => []CInv
<1>1. SessionInit => OfferInv
  BY Distinct DEF SessionInit, OfferInv
<1>2. CInv /\ [SessionNext]_allVars => OfferInv'
  BY OfferStep
<1> QED
  BY <1>1, <1>2, SessionInvariance, PTL DEF SessionSpec, CInv

-----------------------------------------------------------------------------
\* An entry that is found under p's own number of its session is p's.
LEMMA OwnEntry ==
    ASSUME IInv, SInv, NEW p \in Proc, IsReady(p), NEW e \in OwnEntries(p)
    PROVE  /\ e.author = p /\ Offered(p) = e.value
           /\ stage[p] \in {Results, "signed"} => e.value = signers[p]
<1>1. /\ e \in entries /\ e.key[1] = signup[p].uuid /\ e.key[2] = Number(p)
      /\ e.key[4] = Results
  BY DEF OwnEntries, FoundAt, EntryKey
<1>2. EntryInv(e) /\ e.author \in Proc
  BY <1>1 DEF SInv, StoreInv, EntryInv, Entry
<1>3. e.author = p
  BY <1>1, <1>2, SeatsApart DEF EntryInv, Number
<1>4. \A f \in OwnEntries(p) : f = e
  BY DEF OwnEntries, FoundAt, SInv, StoreInv
<1>5. Offered(p) = e.value
  BY <1>4 DEF Offered, OwnEntries, ValueAt
<1> QED
  BY <1>1, <1>2, <1>3, <1>5, Distinct DEF EntryInv

\* The same after a step.
LEMMA OwnEntryNext ==
    ASSUME SInv', NEW p \in Proc, IsReady(p)', NEW e \in OwnEntries(p)'
    PROVE  Offered(p)' = e.value
<1>1. \A f \in OwnEntries(p)' : f = e
  BY DEF OwnEntries, FoundAt, SInv, StoreInv
<1> QED
  BY <1>1 DEF Offered, OwnEntries, ValueAt

LEMMA ApartNext == IInv' => SlotsExclusive' /\ NoFragmentTwice'
<1>1. IInv => SlotsExclusive /\ NoFragmentTwice
  BY SeatsApart DEF SlotsExclusive, NoFragmentTwice
<1> QED
  BY <1>1, PTL

\* As long as nobody posts in the last round under p's number, p's offer stands.
LEMMA OfferStands ==
    ASSUME CInv, [SessionNext]_allVars, NEW p \in Proc,
           \A e \in entries' \ entries : e.key[4] = Results => e.author # p
    PROVE  Offered(p)' = Offered(p)
<1>1. /\ IInv /\ SInv /\ IInv' /\ SInv' /\ entries \subseteq entries' /\ ReadyMoves(p)
      /\ \A q \in Proc : ReadyMoves(q)
  BY SignupStep, NextIInv, SessionNextInv, Lasting DEF CInv
<1>2. CASE ~ IsReady(p)'
  <2>1. ~ IsReady(p)
    BY <1>1, <1>2 DEF ReadyMoves, IsReady
  <2> QED
    BY <1>2, <2>1 DEF Offered
<1>3. CASE IsReady(p) /\ IsReady(p)'
  <2>1. signup'[p] = signup[p]
    BY <1>1, <1>3 DEF ReadyMoves
  <2>2. OwnEntries(p) \subseteq OwnEntries(p)'
    <3>1. \A e : e \in OwnEntries(p) <=> e \in entries /\ e.key = <<signup[p].uuid, Number(p), 0, Results>>
      BY Distinct DEF OwnEntries, FoundAt, EntryKey, IsPointToPoint
    <3>2. \A e : e \in OwnEntries(p)' <=>
                   e \in entries' /\ e.key = <<signup'[p].uuid, Number(p)', 0, Results>>
      BY Distinct DEF OwnEntries, FoundAt, EntryKey, IsPointToPoint
    <3> QED
      BY <1>1, <2>1, <3>1, <3>2 DEF Number
  <2>3. CASE OwnEntries(p) = {}
    <3>1. OwnEntries(p)' = {}
      <4> SUFFICES ASSUME NEW e \in OwnEntries(p)' PROVE FALSE
        OBVIOUS
      <4>1. /\ e \in entries' /\ e.key[1] = signup'[p].uuid /\ e.key[2] = Number(p)'
            /\ e.key[4] = Results
        BY DEF OwnEntries, FoundAt, EntryKey
      <4>2. /\ e.author \in Proc /\ IsReady(e.author)'
            /\ e.key[1] = signup'[e.author].uuid /\ e.key[2] = Number(e.author)'
        BY <1>1, <4>1 DEF SInv, StoreInv, EntryInv, Entry
      <4>3. e.author = p
        BY <1>1, <1>3, <4>1, <4>2, ApartNext DEF SlotsExclusive, Number
      <4>4. e \in entries
        BY <4>1, <4>3
      <4>5. e \in OwnEntries(p)
        <5>1. e.key = <<signup'[p].uuid, Number(p)', 0, Results>>
          BY Distinct DEF OwnEntries, FoundAt, EntryKey, IsPointToPoint
        <5> QED
          BY <2>1, <4>4, <5>1, Distinct DEF OwnEntries, FoundAt, EntryKey, IsPointToPoint, Number
      <4> QED
        BY <2>3, <4>5
    <3> QED
      BY <2>3, <3>1 DEF Offered, OwnEntries
  <2>4. CASE OwnEntries(p) # {}
    <3>1. PICK e \in OwnEntries(p) : TRUE
      BY <2>4
    <3> QED
      BY <1>1, <1>3, <2>2, <3>1, OwnEntry, OwnEntryNext
  <2> QED
    BY <2>3, <2>4
<1>4. CASE ~ IsReady(p) /\ IsReady(p)'
  <2>1. OwnEntries(p)' = {}
    <3> SUFFICES ASSUME NEW e \in OwnEntries(p)' PROVE FALSE
      OBVIOUS
    <3>1. /\ e \in entries' /\ e.key[1] = signup'[p].uuid /\ e.key[2] = Number(p)'
          /\ e.key[4] = Results
      BY DEF OwnEntries, FoundAt, EntryKey
    <3>2. /\ e.author \in Proc /\ IsReady(e.author)'
          /\ e.key[1] = signup'[e.author].uuid /\ e.key[2] = Number(e.author)'
      BY <1>1, <3>1 DEF SInv, StoreInv, EntryInv, Entry
    <3>3. e.author = p
      BY <1>1, <1>4, <3>1, <3>2, ApartNext DEF SlotsExclusive, Number
    <3>4. e \in entries
      BY <3>1, <3>3
    <3> QED
      BY <1>1, <1>4, <3>3, <3>4 DEF SInv, StoreInv, EntryInv
  <2> QED
    BY <1>4, <2>1 DEF Offered, OwnEntries
<1> QED
  BY <1>2, <1>3, <1>4

-----------------------------------------------------------------------------
\* The mapping, one process at a time.
LEMMA Mapped ==
    /\ DOMAIN TakenSeats = Proc /\ DOMAIN TakenSeats' = Proc
    /\ DOMAIN Offers = Proc /\ DOMAIN Offers' = Proc
    /\ \A p \in Proc : /\ TakenSeats[p] = SeatTaken(p) /\ TakenSeats'[p] = SeatTaken(p)'
                       /\ Offers[p] = Offered(p) /\ Offers'[p] = Offered(p)'
    /\ TakenSeats = [p \in Proc |-> TakenSeats[p]]
    /\ TakenSeats' = [p \in Proc |-> TakenSeats'[p]]
    /\ Offers = [p \in Proc |-> Offers[p]]
    /\ Offers' = [p \in Proc |-> Offers'[p]]
  BY DEF TakenSeats, Offers

LEMMA SeatingStays ==
    ASSUME \A p \in Proc : SeatTaken(p)' = SeatTaken(p)
    PROVE  TakenSeats' = TakenSeats
<1>1. \A p \in Proc : TakenSeats'[p] = TakenSeats[p]
  BY Mapped
<1> QED
  BY <1>1, Mapped

LEMMA OfferingStays ==
    ASSUME \A p \in Proc : Offered(p)' = Offered(p)
    PROVE  Offers' = Offers
<1>1. \A p \in Proc : Offers'[p] = Offers[p]
  BY Mapped
<1> QED
  BY <1>1, Mapped

\* Only one process leaves the signup in a step.
LEMMA OneLeaves ==
    ASSUME TypeOK, [Next]_vars
    PROVE  \/ \A o \in Proc : ~ IsReady(o) => ~ IsReady(o)'
           \/ \E p \in Proc : \A o \in Proc \ {p} : ~ IsReady(o) => ~ IsReady(o)'
<1>1. pc \in [Proc -> PC]
  BY DEF TypeOK
<1>2. ASSUME NEW p \in Proc, Client(p) PROVE \A o \in Proc \ {p} : pc'[o] = pc[o]
  BY <1>1, <1>2 DEF Client, Start, Poll, ReceiveSignup, ReceivePoll, ReceiveError, SendFails,
     Crash, KeepsLoopingWith, Dies
<1>3. CASE pc' = pc
  BY <1>3 DEF IsReady
<1> QED
  BY <1>2, <1>3 DEF Next, Serve, Expire, Tick, vars, clientVars, IsReady

\* p leaves the signup, and nobody else.
LEMMA SitStep ==
    ASSUME CInv, [SessionNext]_allVars, Signed' = Signed,
           \A o \in Proc : Offered(o)' = Offered(o),
           NEW p \in Proc, ~ IsReady(p), IsReady(p)',
           \A o \in Proc \ {p} : SeatTaken(o)' = SeatTaken(o)
    PROVE  Promise!Sit(p)
<1>1. /\ IInv' /\ \A q \in Proc : ReadyMoves(q)
  BY SignupStep, NextIInv, Lasting DEF CInv
<1>2. /\ SeatTaken(p) = [session |-> 0, number |-> 0]
      /\ SeatTaken(p)' = [session |-> signup'[p].uuid, number |-> signup'[p].number]
  BY DEF SeatTaken, Number
<1>3. signup'[p].uuid \in Nat /\ signup'[p].number \in Nat \ {0}
  <2>1. signup' \in [Proc -> Signups]
    BY <1>1 DEF IInv, TypeOK, Signups
  <2>2. signup'[p] \in Signups
    BY <2>1
  <2>3. pc'[p] = "ready"
    BY DEF IsReady
  <2> QED
    BY <1>1, <2>2, <2>3 DEF ReadyMoves, Order, Signups
<1>4. ASSUME NEW q \in Proc \ {p}, SeatTaken(q) # [session |-> 0, number |-> 0],
             SeatTaken(q).session = SeatTaken(p)'.session
      PROVE  SeatTaken(q).number # SeatTaken(p)'.number /\ PartyNumber[q] # PartyNumber[p]
  <2>1. IsReady(q) /\ IsReady(q)' /\ signup'[q] = signup[q]
    BY <1>1, <1>4 DEF SeatTaken, ReadyMoves, IsReady
  <2>2. signup[q].uuid = signup'[p].uuid
    BY <1>2, <1>4, <2>1 DEF SeatTaken
  <2>3. signup'[q].number # signup'[p].number /\ PartyNumber[q] # PartyNumber[p]
    BY <1>1, <2>1, <2>2, ApartNext DEF SlotsExclusive, NoFragmentTwice
  <2> QED
    BY <1>2, <2>1, <2>3 DEF SeatTaken, Number
<1>5. TakenSeats' = [TakenSeats EXCEPT ![p] = TakenSeats'[p]]
  BY Mapped
<1>6. Offers' = Offers
  BY OfferingStays
<1> QED
  BY <1>2, <1>3, <1>4, <1>5, <1>6, Mapped
  DEF Promise!Sit, Promise!NoSeat, Promise!Seats, TakenSeats, Offers, Signed

\* Who is ready has a seat.
LEMMA ReadySeat ==
    ASSUME SInv, NEW p \in Proc, IsReady(p)
    PROVE  /\ SeatTaken(p) = [session |-> signup[p].uuid, number |-> Number(p)]
           /\ Number(p) \in Nat \ {0}
           /\ SeatTaken(p) # [session |-> 0, number |-> 0]
<1>1. Number(p) \in Nat \ {0}
  BY DEF SInv, ProcInv, Order
<1>2. SeatTaken(p) = [session |-> signup[p].uuid, number |-> Number(p)]
  BY DEF SeatTaken
<1>3. SeatTaken(p).number = Number(p)
  BY <1>2
<1> QED
  BY <1>1, <1>2, <1>3

\* Who names a vector of signers names whoever is seated.
LEMMA VectorSeats ==
    ASSUME SInv, NEW p \in Proc, IsReady(p), NEW s, IsVector(p, s), NEW j \in DOMAIN s
    PROVE  \E q \in Proc : /\ SeatTaken(q) = [session |-> SeatTaken(p).session, number |-> j]
                           /\ PartyNumber[q] = s[j]
<1>1. PICK q \in Proc : /\ IsReady(q) /\ signup[q].uuid = signup[p].uuid
                        /\ Number(q) = j /\ PartyNumber[q] = s[j]
  BY DEF IsVector, IsFragmentOf
<1> QED
  BY <1>1, ReadySeat

LEMMA SeqWidens == ASSUME NEW S, NEW T, S \subseteq T, NEW s \in Seq(S) PROVE s \in Seq(T)
<1>1. s \in [1 .. Len(s) -> S] /\ Len(s) \in Nat
  OBVIOUS
<1>2. s \in [1 .. Len(s) -> T]
  BY <1>1
<1> QED
  BY <1>1, <1>2

\* p posts in the last round.
LEMMA OfferingStep ==
    ASSUME CInv, [SessionNext]_allVars, UNCHANGED vars, NEW p \in Proc, Offering(p),
           \A o \in Proc \ {p} : stage'[o] = stage[o]
    PROVE  Promise!Offer(p)
<1> DEFINE e == [key |-> <<signup[p].uuid, Number(p), 0, Results>>, author |-> p,
                 value |-> signers[p]]
<1>1. /\ IInv /\ SInv /\ SInv' /\ IsReady(p) /\ IsReady(p)' /\ IsVector(p, signers[p])
      /\ UNCHANGED <<pc, signup>>
  BY SessionNextInv, Distinct DEF CInv, SInv, ProcInv, Offering, vars, clientVars, IsReady
<1>2. e \in entries' /\ entries' \subseteq entries \cup {e}
  BY NewOffer DEF Offering
<1>3. OwnEntries(p) = {}
  <2> SUFFICES ASSUME NEW f \in OwnEntries(p) PROVE FALSE
    OBVIOUS
  <2>1. f \in entries /\ f.author = p /\ f.key[4] = Results
    BY <1>1, OwnEntry DEF OwnEntries, FoundAt, EntryKey
  <2> QED
    BY <1>1, <2>1, Distinct DEF SInv, StoreInv, EntryInv, Unposted, Offering
<1>4. Offered(p) = <<>>
  BY <1>3 DEF Offered, OwnEntries
<1>5. Offered(p)' = signers[p]
  <2>1. e \in OwnEntries(p)'
    BY <1>1, <1>2, Distinct DEF OwnEntries, FoundAt, EntryKey, IsPointToPoint, Number
  <2> QED
    BY <1>1, <2>1, OwnEntryNext
<1>6. \A o \in Proc \ {p} : Offered(o)' = Offered(o)
  BY <1>2, OfferStands
<1>7. SeatTaken(p) # [session |-> 0, number |-> 0] /\ SeatTaken(p).number \in DOMAIN signers[p]
  BY <1>1, ReadySeat DEF IsVector, Number
<1>8. signers[p] \in Seq(Nat)
  <2>1. PartyNumbers \subseteq Nat
    BY SignupSignAssumption DEF PartyNumbers
  <2>2. signers[p] \in Seq(PartyNumbers)
    BY <1>1 DEF IsVector
  <2> QED
    BY <2>1, <2>2, SeqWidens
<1>9. TakenSeats' = TakenSeats
  <2>1. \A o \in Proc : SeatTaken(o)' = SeatTaken(o)
    BY <1>1 DEF SeatTaken, IsReady, Number
  <2> QED
    BY <2>1, SeatingStays
<1>10. Offers' = [Offers EXCEPT ![p] = Offers'[p]]
  BY <1>6, Mapped
<1>11. Signed' = Signed
  BY Distinct DEF Signed, Offering
<1>12. \A j \in DOMAIN signers[p] :
          \E q \in Proc : /\ SeatTaken(q) = [session |-> SeatTaken(p).session, number |-> j]
                          /\ PartyNumber[q] = signers[p][j]
  BY <1>1, VectorSeats
<1> QED
  BY <1>4, <1>5, <1>7, <1>8, <1>9, <1>10, <1>11, <1>12, Mapped
  DEF Promise!Offer, Promise!NoSeat, Promise!HasNumber, TakenSeats, Offers, Signed

\* Vectors of one session over the same signers are the same.
LEMMA SameOffer ==
    ASSUME IInv, NEW p \in Proc, NEW q \in Proc, signup[p].uuid = signup[q].uuid,
           NEW s, NEW t, IsVector(p, s), IsVector(q, t), SetOf(s) = SetOf(t)
    PROVE  s = t
<1>1. s \in Seq(PartyNumbers) /\ t \in Seq(PartyNumbers)
  BY DEF IsVector
<1>2. DOMAIN s = DOMAIN t /\ \A j \in DOMAIN s : s[j] = t[j]
  <2>1. DOMAIN t \subseteq DOMAIN s
    BY NotShorter
  <2>2. DOMAIN s \subseteq DOMAIN t /\ \A j \in DOMAIN s : s[j] = t[j]
    BY NotShorter
  <2> QED
    BY <2>1, <2>2
<1>3. Len(s) = Len(t)
  BY <1>1, <1>2
<1> QED
  BY <1>1, <1>2, <1>3

\* p ends with a signature: all of its signers have offered what p did.
LEMMA SigningStep ==
    ASSUME CInv, [SessionNext]_allVars, UNCHANGED vars, NEW p \in Proc, Signing(p),
           \A o \in Proc \ {p} : stage'[o] = stage[o]
    PROVE  Promise!Sign(p)
<1>1. /\ IInv /\ SInv /\ OfferInv /\ IsReady(p) /\ IsVector(p, signers[p])
      /\ UNCHANGED <<pc, signup>>
  BY Distinct DEF CInv, SInv, ProcInv, Signing, vars, clientVars
<1>2. Offered(p) = signers[p]
  <2>1. PICK e \in OwnEntries(p) : TRUE
    BY <1>1 DEF OfferInv, Signing
  <2> QED
    BY <1>1, <2>1, OwnEntry DEF Signing
<1>3. Len(signers[p]) > KeyThreshold
  <2>1. signers[p] \in Seq(PartyNumbers) /\ Len(signers[p]) \in Nat
    BY <1>1 DEF IsVector
  <2>2. Cardinality(SetOf(signers[p])) > KeyThreshold
    BY DEF Signing, Verifies
  <2> QED
    BY <2>1, <2>2, SetOfVector, Constants
<1>4. ASSUME NEW j \in DOMAIN signers[p]
      PROVE  \E q \in Proc : /\ SeatTaken(q) = [session |-> SeatTaken(p).session, number |-> j]
                             /\ Offered(q) = signers[p]
  <2>1. CASE j = Number(p)
    BY <1>1, <1>2, <2>1, ReadySeat
  <2>2. CASE j # Number(p)
    <3>1. j \in Peers(p, Results)
      <4>1. Width(p, Indices) \in Nat /\ Width(p, Results) \in Nat
        BY <1>1, Typed, Constants DEF IInv, Width, Signups
      <4> QED
        BY <1>1, <1>4, <2>2, <4>1 DEF IsVector, Peers
    <3>2. PICK e \in FoundAt(p, Results, j) : ValueAt(p, Results, j) = e.value
      BY <3>1 DEF Signing, HasAll, ValueAt
    <3>3. SetOf(e.value) = SetOf(signers[p])
      BY <3>1, <3>2 DEF Signing, Verifies
    <3>4. /\ e \in entries /\ e.key = <<signup[p].uuid, j, 0, Results>>
      BY <3>2, Distinct DEF FoundAt, EntryKey, IsPointToPoint
    <3>5. /\ e.author \in Proc /\ IsReady(e.author)
          /\ signup[e.author].uuid = signup[p].uuid /\ Number(e.author) = j
          /\ IsVector(e.author, e.value)
      BY <1>1, <3>4 DEF SInv, StoreInv, EntryInv, Entry, OfferInv
    <3>6. e \in OwnEntries(e.author)
      BY <3>4, <3>5, Distinct DEF OwnEntries, FoundAt, EntryKey, IsPointToPoint
    <3>7. Offered(e.author) = e.value
      BY <1>1, <3>5, <3>6, OwnEntry
    <3>8. e.value = signers[p]
      BY <1>1, <3>3, <3>5, SameOffer
    <3> QED
      BY <1>1, <3>5, <3>7, <3>8, ReadySeat
  <2> QED
    BY <2>1, <2>2
<1>5. TakenSeats' = TakenSeats
  <2>1. \A o \in Proc : SeatTaken(o)' = SeatTaken(o)
    BY <1>1 DEF SeatTaken, IsReady, Number
  <2> QED
    BY <2>1, SeatingStays
<1>6. Offers' = Offers
  <2>1. entries' = entries
    BY DEF Signing
  <2>2. \A o \in Proc : Offered(o)' = Offered(o)
    BY <2>1, OfferStands
  <2> QED
    BY <2>2, OfferingStays
<1>7. p \notin Signed /\ Signed' = Signed \cup {p}
  BY Distinct DEF Signed, Signing
<1> QED
  BY <1>2, <1>3, <1>4, <1>5, <1>6, <1>7, Mapped
  DEF Promise!Sign, Promise!HasNumber, TakenSeats, Offers, Signed

LEMMA PromiseStep ==
    ASSUME CInv, [SessionNext]_allVars
    PROVE  Promise!Next \/ UNCHANGED <<TakenSeats, Offers, Signed>>
<1>1. IInv /\ SInv /\ [Next]_vars /\ TypeOK /\ \A p \in Proc : ReadyMoves(p)
  BY SignupStep, Lasting DEF CInv, IInv
<1>2. ASSUME NEW o \in Proc, IsReady(o) \/ ~ IsReady(o)' PROVE SeatTaken(o)' = SeatTaken(o)
  BY <1>1, <1>2 DEF SeatTaken, ReadyMoves, IsReady, Number
<1>3. CASE UNCHANGED sessionVars
  <2>1. Signed' = Signed /\ \A o \in Proc : Offered(o)' = Offered(o)
    <3>1. entries' = entries /\ stage' = stage
      BY <1>3 DEF sessionVars
    <3>2. \A o \in Proc : Offered(o)' = Offered(o)
      BY <3>1, OfferStands
    <3> QED
      BY <3>1, <3>2 DEF Signed
  <2>2. CASE \A o \in Proc : ~ IsReady(o) => ~ IsReady(o)'
    BY <1>2, <2>1, <2>2, SeatingStays, OfferingStays
  <2>3. CASE \E p \in Proc : ~ IsReady(p) /\ IsReady(p)'
    <3>1. PICK p \in Proc : ~ IsReady(p) /\ IsReady(p)'
      BY <2>3
    <3>2. \A o \in Proc \ {p} : SeatTaken(o)' = SeatTaken(o)
      BY <1>1, <1>2, <3>1, OneLeaves
    <3> QED
      BY <2>1, <3>1, <3>2, SitStep DEF Promise!Next
  <2> QED
    BY <2>2, <2>3
<1>4. CASE SessionStep
  <2>1. PICK p \in Proc : RoundStep(p) \/ StopInRounds(p)
    BY <1>4 DEF SessionStep
  <2>2. UNCHANGED vars /\ UNCHANGED <<pc, signup>>
    BY <1>4 DEF SessionStep, vars, clientVars
  <2>3. /\ Hidden(p) \/ Offering(p) \/ Signing(p)
        /\ \A o \in Proc \ {p} : stage'[o] = stage[o]
    BY <1>1, <2>1, StepKind
  <2>4. CASE Hidden(p)
    <3>1. \A o \in Proc : SeatTaken(o)' = SeatTaken(o) /\ Offered(o)' = Offered(o)
      BY <1>2, <2>2, <2>4, OfferStands DEF Hidden, IsReady
    <3>2. Signed' = Signed
      BY <2>3, <2>4 DEF Signed, Hidden
    <3> QED
      BY <3>1, <3>2, SeatingStays, OfferingStays
  <2> QED
    BY <2>2, <2>3, <2>4, OfferingStep, SigningStep DEF Promise!Next
<1> QED
  BY <1>3, <1>4 DEF SessionNext, sessionVars, allVars

\* Signup, store and rounds do together what a signing promises: a seat of its own
\* for whoever leaves the signup, offers that name the processes of the session and
\* stand, and signatures only for those whose cosigners have all offered the same.
THEOREM CosigningImplemented == SessionSpec => ImplementsCosigning
<1>1. SessionInit => Promise!Init
  <2> SUFFICES ASSUME SessionInit PROVE Promise!Init
    OBVIOUS
  <2>1. \A p \in Proc : ~ IsReady(p) /\ stage[p] = "signup"
    BY DEF SessionInit, Init, IsReady
  <2> QED
    BY <2>1 DEF Promise!Init, Promise!NoSeat, SeatTaken, Offered
<1>2. CInv /\ [SessionNext]_allVars => [Promise!Next]_<<TakenSeats, Offers, Signed>>
  BY PromiseStep
<1> QED
  BY <1>1, <1>2, OfferInvariance, PTL
  DEF SessionSpec, ImplementsCosigning, Promise!Spec, TakenSeats, Offers, Signed

-----------------------------------------------------------------------------
(***************************************************************************)
(* When nothing fails, nobody stops.                                        *)
(***************************************************************************)

\* The prompt signing is a signing with prompt clients, so that what is proved of
\* those holds in it.
THEOREM PromptSessionSignup == PromptSessionSpec => PromptSpec
<1>1. SessionInit => Init
  BY DEF SessionInit
<1>2. [PromptSessionNext]_allVars => [PromptNext]_vars
  BY DEF PromptSessionNext, SessionStep, allVars
<1> QED
  BY <1>1, <1>2, PTL DEF PromptSessionSpec, SessionFairness, PromptSpec

\* Of the processes, none fails by itself, and all are given the key's t or more.
QuietRounds ==
    /\ RoundsMayFail = FALSE
    /\ \A p \in Proc : Threshold[p] >= KeyThreshold

\* p was told what the room is for.
Full(p) == signup[p].total = RoomSize(p) /\ Number(p) \in 1 .. RoomSize(p)

\* A sum that is not zero has not wrapped.
LEMMA WrapSum == ASSUME NEW x \in 0 .. U16 - 1 PROVE (x + 1) % U16 \in {0, x + 1}
<1>1. x \in Int /\ 0 <= x /\ x <= 65535
  BY SMT DEF U16
<1>2. (x + 1) % 65536 \in {0, x + 1}
  BY <1>1, SMT
<1> QED
  BY <1>2 DEF U16

\* All vectors of signers are then as long as the room is large, and that is
\* enough of them for the key.
LEMMA EqualWidths ==
    ASSUME PromptTiming, QuietRounds, NEW p \in Proc, NEW q \in Proc, NEW r, NEW w,
           Full(p), Full(q)
    PROVE  /\ Width(p, r) = RoomSize(p) /\ Width(q, w) = RoomSize(p)
           /\ RoomSize(p) \in Nat /\ RoomSize(p) > KeyThreshold
<1>1. RoomSize(q) = RoomSize(p)
  BY DEF PromptTiming, RoomSize
<1>2. Threshold[p] \in 0 .. U16 - 1 /\ Threshold[p] >= KeyThreshold /\ KeyThreshold \in Nat
  BY Constants, SignupSignAssumption DEF QuietRounds
<1>3. RoomSize(p) \in Nat /\ 1 <= RoomSize(p)
  BY Constants DEF Full
<1>4. RoomSize(p) = Threshold[p] + 1
  BY <1>2, <1>3, WrapSum DEF RoomSize
<1> QED
  BY <1>1, <1>2, <1>3, <1>4 DEF Full, Width

\* Vectors of one session and length are equal.
LEMMA SameVector ==
    ASSUME IInv, NEW p \in Proc, NEW q \in Proc, signup[p].uuid = signup[q].uuid,
           NEW s, NEW t, IsVector(p, s), IsVector(q, t), DOMAIN s = DOMAIN t
    PROVE  SetOf(s) = SetOf(t)
<1>1. ASSUME NEW j \in DOMAIN s PROVE s[j] = t[j]
  <2>1. PICK x \in Proc : /\ IsReady(x) /\ signup[x].uuid = signup[p].uuid
                          /\ Number(x) = j /\ PartyNumber[x] = s[j]
    BY <1>1 DEF IsVector, IsFragmentOf
  <2>2. PICK y \in Proc : /\ IsReady(y) /\ signup[y].uuid = signup[q].uuid
                          /\ Number(y) = j /\ PartyNumber[y] = t[j]
    BY <1>1 DEF IsVector, IsFragmentOf
  <2>3. x = y
    BY <2>1, <2>2, SeatsApart DEF Number
  <2> QED
    BY <2>1, <2>2, <2>3
<1> QED
  BY <1>1 DEF SetOf

\* A vector of signers repeats none.
LEMMA VectorCount ==
    ASSUME IInv, NEW p \in Proc, NEW s, IsVector(p, s), NEW n \in Nat, DOMAIN s = 1 .. n
    PROVE  Cardinality(SetOf(s)) = n
<1>1. ASSUME NEW i \in 1 .. n, NEW j \in 1 .. n, s[i] = s[j] PROVE i = j
  <2>1. PICK x \in Proc : /\ IsReady(x) /\ signup[x].uuid = signup[p].uuid
                          /\ Number(x) = i /\ PartyNumber[x] = s[i]
    BY <1>1 DEF IsVector, IsFragmentOf
  <2>2. PICK y \in Proc : /\ IsReady(y) /\ signup[y].uuid = signup[p].uuid
                          /\ Number(y) = j /\ PartyNumber[y] = s[j]
    BY <1>1 DEF IsVector, IsFragmentOf
  <2>3. x = y
    BY <1>1, <2>1, <2>2, SeatsApart
  <2> QED
    BY <2>1, <2>2, <2>3
<1> DEFINE f == [j \in 1 .. n |-> s[j]]
<1>2. f \in Bijection(1 .. n, SetOf(s))
  <2>1. f \in [1 .. n -> SetOf(s)] /\ \A v \in SetOf(s) : \E j \in 1 .. n : f[j] = v
    BY DEF SetOf
  <2>2. \A i, j \in 1 .. n : f[i] = f[j] => i = j
    BY <1>1
  <2> HIDE DEF f
  <2> QED
    BY <2>1, <2>2 DEF Bijection, Injection, Surjection, IsInjective
<1> HIDE DEF f
<1>3. IsFiniteSet(1 .. n) /\ Cardinality(1 .. n) = n
  BY FS_Interval
<1>4. ExistsBijection(1 .. n, SetOf(s))
  BY <1>2 DEF ExistsBijection
<1> QED
  BY <1>3, <1>4, FS_Bijection

\* What p reads of number j in one of the last two rounds was made for the signers
\* that p has.
LEMMA PeerAgrees ==
    ASSUME IInv, SInv, PromptTiming, QuietRounds, NobodyStops, crashes = 0, faults = 0,
           \A q \in Proc : IsReady(q) => Full(q),
           NEW p \in Proc, NEW r \in {Shares, Results}, stage[p] = r, HasAll(p, r),
           NEW j \in Peers(p, r)
    PROVE  SetOf(ValueAt(p, r, j)) = SetOf(signers[p])
<1>1. IsReady(p) /\ IsVector(p, signers[p])
  BY Distinct DEF SInv, ProcInv
<1>2. PICK e \in FoundAt(p, r, j) : ValueAt(p, r, j) = e.value
  BY DEF HasAll, ValueAt
<1>3. EntryInv(e) /\ e.author \in Proc
  BY <1>2 DEF SInv, StoreInv, FoundAt, EntryInv, Entry
<1> DEFINE q == e.author
<1>4. e.key[1] = signup[p].uuid /\ e.key[4] = r
  BY <1>2 DEF FoundAt, EntryKey
<1>5. IsReady(q) /\ signup[q].uuid = signup[p].uuid
  BY <1>3, <1>4 DEF EntryInv
<1>6. stage[q] \in {Shares, Results, "signed"}
  <2>1. stage[q] \in {"signup", "signed", "stopped"} \cup Polling /\ stage[q] # "stopped"
    BY <1>3 DEF SInv, SessionTypeOK, NobodyStops
  <2>2. stage[q] # "signup" /\ stage[q] # Indices
    BY <1>3, <1>4, Distinct DEF EntryInv, Unposted
  <2> QED
    BY <2>1, <2>2, Distinct
<1>7. e.value = signers[q] /\ IsVector(q, signers[q])
  BY <1>3, <1>4, <1>6, Distinct DEF EntryInv, SInv, ProcInv
<1>8. DOMAIN signers[q] = DOMAIN signers[p]
  <2>1. Full(p) /\ Full(q)
    BY <1>1, <1>3, <1>5
  <2>2. Width(q, Indices) = Width(p, Indices)
    BY <1>3, <2>1, EqualWidths
  <2> QED
    BY <1>1, <1>7, <2>2 DEF IsVector
<1> HIDE DEF q
<1> QED
  BY <1>1, <1>2, <1>3, <1>5, <1>7, <1>8, SameVector DEF q

\* None of the reasons for which a process stops is there.
LEMMA NoReason ==
    ASSUME IInv, SInv, PromptTiming, QuietRounds, NobodyStops, crashes = 0, faults = 0,
           \A q \in Proc : IsReady(q) => Full(q), NEW p \in Proc
    PROVE  /\ stage[p] = Indices => ~ CannotIndex(p)
           /\ stage[p] = Shares /\ HasAll(p, Shares) => ~ RejectsShares(p)
           /\ stage[p] = Results /\ HasAll(p, Results) => Verifies(p)
<1> SUFFICES ASSUME stage[p] \in Polling
             PROVE  /\ stage[p] = Indices => ~ CannotIndex(p)
                    /\ stage[p] = Shares /\ HasAll(p, Shares) => ~ RejectsShares(p)
                    /\ stage[p] = Results /\ HasAll(p, Results) => Verifies(p)
  BY DEF Polling
<1>1. IsReady(p) /\ Full(p)
  BY Distinct DEF SInv, ProcInv
<1>2. /\ \A r : Width(p, r) = RoomSize(p)
      /\ RoomSize(p) \in Nat /\ RoomSize(p) > KeyThreshold
  BY <1>1, EqualWidths
<1>3. stage[p] \in {Shares, Results} =>
        /\ IsVector(p, signers[p]) /\ DOMAIN signers[p] = 1 .. RoomSize(p)
        /\ signers[p] \in Seq(PartyNumbers)
  BY <1>2, Distinct DEF SInv, ProcInv, IsVector
<1>4. ~ CannotIndex(p)
  BY <1>1, <1>2 DEF CannotIndex, Full
<1>5. CASE stage[p] = Shares /\ HasAll(p, Shares)
  <2>1. Len(signers[p]) = RoomSize(p)
    BY <1>2, <1>3, <1>5
  <2>2. \A j \in Peers(p, Shares) : SetOf(ValueAt(p, Shares, j)) = SetOf(signers[p])
    BY <1>5, PeerAgrees
  <2>3. ~ RejectsShares(p)
    BY <1>1, <1>2, <2>1, <2>2 DEF RejectsShares, Full
  <2> QED
    BY <1>5, <2>3, Distinct
<1>6. CASE stage[p] = Results /\ HasAll(p, Results)
  <2>1. Cardinality(SetOf(signers[p])) = RoomSize(p)
    BY <1>2, <1>3, <1>6, VectorCount
  <2>2. \A j \in Peers(p, Results) : SetOf(ValueAt(p, Results, j)) = SetOf(signers[p])
    BY <1>6, PeerAgrees
  <2> QED
    BY <1>2, <1>6, <2>1, <2>2, Distinct DEF Verifies
<1> QED
  BY <1>4, <1>5, <1>6

LEMMA QuietStep ==
    ASSUME IInv, SInv, SlotsFillTotal, PromptTiming, QuietRounds, NobodyStops,
           [PromptSessionNext]_allVars
    PROVE  NobodyStops'
<1> SUFFICES ASSUME crashes' = 0, faults' = 0, NEW o \in Proc
             PROVE  stage'[o] # "stopped"
  BY DEF NobodyStops
<1>1. crashes = 0 /\ faults = 0
  <2>1. [PromptNext]_vars
    BY DEF PromptSessionNext, SessionStep, allVars
  <2>2. /\ crashes \in Nat /\ faults \in Nat
        /\ crashes' = crashes \/ crashes' = crashes + 1
        /\ faults' = faults \/ faults' = faults + 1
    BY <2>1 DEF IInv, TypeOK, PromptNext, PromptTick, Tick, Serve, Expire, Client, Start, Poll,
       ReceiveSignup, ReceivePoll, ReceiveError, SendFails, Crash, vars
  <2> QED
    BY <2>2
<1>2. \A q \in Proc : IsReady(q) => Full(q)
  BY <1>1 DEF SlotsFillTotal, Full, Number
<1>3. stage[o] # "stopped" /\ stage \in [Proc -> {"signup", "signed", "stopped"} \cup Polling]
  BY <1>1 DEF NobodyStops, SInv, SessionTypeOK
<1>4. ASSUME NEW p \in Proc, RoundStep(p) PROVE stage'[o] # "stopped"
  <2>1. ~ (stage'[p] = "stopped")
    <3>1. CASE EnterRounds(p)
      BY <1>3, <3>1, Distinct DEF EnterRounds, GoOn
    <3>2. CASE CompleteIndices(p)
      BY <1>1, <1>2, <1>3, <3>2, NoReason, Distinct DEF CompleteIndices, GoOn
    <3>3. CASE CompleteShares(p)
      BY <1>1, <1>2, <1>3, <3>3, NoReason, Distinct DEF CompleteShares, GoOn
    <3>4. CASE CompleteResults(p)
      BY <1>1, <1>2, <1>3, <3>4, NoReason DEF CompleteResults
    <3> QED
      BY <1>4, <3>1, <3>2, <3>3, <3>4 DEF RoundStep
  <2>2. o # p => stage'[o] = stage[o]
    BY <1>3, <1>4 DEF RoundStep, EnterRounds, CompleteIndices, CompleteShares, CompleteResults,
       GoOn, Stop
  <2> QED
    BY <1>3, <2>1, <2>2
<1>5. CASE SessionStep
  BY <1>4, <1>5 DEF SessionStep, StopInRounds, QuietRounds
<1>6. CASE stage' = stage
  BY <1>3, <1>6
<1> QED
  BY <1>5, <1>6 DEF PromptSessionNext, sessionVars, allVars

\* Where a signup fills every number, so does that of a whole signing.
THEOREM SessionSlotsFilled ==
    ASSUME PromptTiming
    PROVE  PromptSessionSpec => []SlotsFillTotal
  BY SlotsFilled, PromptSessionSignup, PTL

\* When nothing fails, the processes are started in time and with the same t, which
\* is that of the key or more, no process of any session gives up in its rounds.
THEOREM NobodyGivesUp ==
    ASSUME PromptTiming, QuietRounds
    PROVE  PromptSessionSpec => []NobodyStops
<1>1. SessionInit => NobodyStops
  BY Distinct DEF SessionInit, NobodyStops
<1>2. /\ IInv /\ SInv /\ SlotsFillTotal /\ NobodyStops /\ [PromptSessionNext]_allVars
      => NobodyStops'
  BY QuietStep
<1> QED
  BY <1>1, <1>2, SessionSlotsFilled, PromptSession, SessionInvariance, PTL DEF PromptSessionSpec

=============================================================================
