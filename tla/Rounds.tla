------------------------------- MODULE Rounds -------------------------------
(***************************************************************************)
(* The message rounds of key generation and signing: `broadcast`, `sendp2p`, *)
(* `poll_for_broadcasts` and `poll_for_p2p` of src/common/mod.rs, driven by  *)
(* the protocol drivers, over the manager's `set` and `get`.                *)
(*                                                                          *)
(* A session has N parties, numbered 1..N by the signup.  Each goes through *)
(* the rounds of a Schedule: it posts its message under a key made of its   *)
(* number, the round's name and the identity of the session (the identity   *)
(* is the same in every key of the session and is left out), polls the keys *)
(* of the others in the order of their numbers, and puts what it has read   *)
(* and its own message together in one vector, by position.                 *)
(*                                                                          *)
(* The store's entries may expire, a party may die at any time, and a poll  *)
(* gives up when its time is over.                                          *)
(***************************************************************************)
EXTENDS Integers, Sequences, FiniteSets

CONSTANTS
    N,              \* the number of parties
    Schedule,       \* the rounds: a sequence of [name, kind] records
    Reveals,        \* pairs of names of rounds: of commitments, and of what opens them
    EntriesExpire,  \* whether entries of the store may expire
    MaxDeaths       \* bound on the parties that die

Kind == {"broadcast", "p2p"}

ASSUME RoundsAssumption ==
    /\ N \in Nat /\ N >= 2
    /\ Schedule \in Seq([name : STRING, kind : Kind])
    /\ Len(Schedule) > 0
    /\ Reveals \subseteq STRING \X STRING
    /\ EntriesExpire \in BOOLEAN
    /\ MaxDeaths \in Nat

VARIABLES
    db,         \* the store: key and value of every entry
    alive,      \* whether the process of a party still runs
    pc,         \* "send", "poll", or "done" after the last round
    round,      \* the round a party is in
    i,          \* the loop index over the other parties
    answer,     \* what the manager answered to the `get` under way
    late,       \* whether the time for the polled party is over
    ans_vec,    \* what was read in this round
    vector,     \* the messages of the last completed round, by position
    deaths      \* parties that died so far

loopVars == <<pc, round, i, ans_vec, vector>>
vars == <<db, alive, loopVars, answer, late, deaths>>

Party == 1 .. N
Others(p) == Party \ {p}
RoundNo == 1 .. Len(Schedule)

IsP2P(r) == Schedule[r].kind = "p2p"

\* The message p makes in round r; in a point-to-point round one for each q.
Message(p, r, q) == [from |-> p, round |-> r, to |-> IF IsP2P(r) THEN q ELSE 0]

\* Faulty variant: a message for one party is posted as if it were for all.
PostedKeyToAll(p, q, r) == <<p, 0, Schedule[r].name>>

\* The key under which p posts its message of round r (to q, if the round is
\* point-to-point), and the key under which p polls for the message of q.
PostedKey(p, q, r) ==
    IF IsP2P(r) THEN <<p, q, Schedule[r].name>> ELSE <<p, 0, Schedule[r].name>>

\* Faulty variant: a party polls the keys it posts itself.
PolledKeyOwn(p, q, r) == PostedKey(p, q, r)

PolledKey(p, q, r) ==
    IF IsP2P(r) THEN <<q, p, Schedule[r].name>> ELSE <<q, 0, Schedule[r].name>>

\* The loops run over 1..=n and skip the party itself.
Skip(p, j) == IF j = p THEN j + 1 ELSE j

\* Faulty variant: the loop starts at 0.
FirstPeerFromZero(p) == 0

FirstPeer(p) == Skip(p, 1)

NextPeer(p, j) == Skip(p, j + 1)

\* Faulty variant: the party's own message is put behind those of the others.
AssembledOwnLast(p, own, ans) == [j \in Party |-> IF j = N THEN own ELSE ans[j]]

\* The vector of a round: at position j the message of party j.  The counter
\* into the answers stands still at the party's own position.
Assembled(p, own, ans) ==
    [j \in Party |-> IF j = p THEN own ELSE ans[IF j < p THEN j ELSE j - 1]]

NoAnswer == [tag |-> "none"]
Missing  == [tag |-> "missing"]
Found(v) == [tag |-> "found", value |-> v]

Init ==
    /\ db = {}
    /\ alive = [p \in Party |-> TRUE]
    /\ pc = [p \in Party |-> "send"]
    /\ round = [p \in Party |-> 1]
    /\ i = [p \in Party |-> FirstPeer(p)]
    /\ answer = [p \in Party |-> NoAnswer]
    /\ late = [p \in Party |-> FALSE]
    /\ ans_vec = [p \in Party |-> <<>>]
    /\ vector = [p \in Party |-> <<>>]
    /\ deaths = 0

-----------------------------------------------------------------------------
\* The manager's `set`: an entry under the same key is overwritten.
Set(key, value) ==
    db' = {e \in db : e.key # key} \cup {[key |-> key, value |-> value]}

Post(p, q) == Set(PostedKey(p, q, round[p]), Message(p, round[p], q))

StartPolling(p) ==
    /\ pc' = [pc EXCEPT ![p] = "poll"]
    /\ i' = [i EXCEPT ![p] = FirstPeer(p)]

Broadcast(p) ==
    /\ alive[p] /\ pc[p] = "send"
    /\ ~ IsP2P(round[p])
    /\ Post(p, p)
    /\ StartPolling(p)
    /\ UNCHANGED <<alive, round, answer, late, ans_vec, vector, deaths>>

SendP2P(p) ==
    /\ alive[p] /\ pc[p] = "send"
    /\ IsP2P(round[p])
    /\ Post(p, i[p])
    /\ IF NextPeer(p, i[p]) > N
       THEN StartPolling(p)
       ELSE i' = [i EXCEPT ![p] = NextPeer(p, i[p])] /\ UNCHANGED pc
    /\ UNCHANGED <<alive, round, answer, late, ans_vec, vector, deaths>>

\* The manager's `get`, for the party that is polled.
Get(p) ==
    /\ alive[p] /\ pc[p] = "poll"
    /\ answer[p] = NoAnswer
    /\ LET entries == {e \in db : e.key = PolledKey(p, i[p], round[p])}
       IN  \/ \E e \in entries : answer' = [answer EXCEPT ![p] = Found(e.value)]
           \/ entries = {} /\ answer' = [answer EXCEPT ![p] = Missing]
    /\ UNCHANGED <<db, alive, loopVars, late, deaths>>

\* The last answer of a round: the vector is put together and the next round
\* begins, or the key file is written or the signature printed.
EndRound(p, ans) ==
    /\ vector' = [vector EXCEPT ![p] = Assembled(p, Message(p, round[p], p), ans)]
    /\ ans_vec' = [ans_vec EXCEPT ![p] = <<>>]
    /\ i' = [i EXCEPT ![p] = FirstPeer(p)]
    /\ IF round[p] < Len(Schedule)
       THEN /\ round' = [round EXCEPT ![p] = @ + 1]
            /\ pc' = [pc EXCEPT ![p] = "send"]
       ELSE /\ pc' = [pc EXCEPT ![p] = "done"]
            /\ UNCHANGED round

Take(p) ==
    /\ alive[p] /\ pc[p] = "poll"
    /\ answer[p].tag = "found"
    /\ answer' = [answer EXCEPT ![p] = NoAnswer]
    /\ late' = [late EXCEPT ![p] = FALSE]
    /\ LET ans == Append(ans_vec[p], answer[p].value)
       IN  IF NextPeer(p, i[p]) > N
           THEN EndRound(p, ans)
           ELSE /\ i' = [i EXCEPT ![p] = NextPeer(p, i[p])]
                /\ ans_vec' = [ans_vec EXCEPT ![p] = ans]
                /\ UNCHANGED <<pc, round, vector>>
    /\ UNCHANGED <<db, alive, deaths>>

\* Faulty variant: the time limit is never tested.
MustGiveUpNever(p) == FALSE

MustGiveUp(p) == late[p]

\* An empty answer: poll again, or panic when the time is over.
Retry(p) ==
    /\ alive[p] /\ answer[p] = Missing
    /\ ~ MustGiveUp(p)
    /\ answer' = [answer EXCEPT ![p] = NoAnswer]
    /\ UNCHANGED <<db, alive, loopVars, late, deaths>>

GiveUp(p) ==
    /\ alive[p] /\ answer[p] = Missing
    /\ MustGiveUp(p)
    /\ alive' = [alive EXCEPT ![p] = FALSE]
    /\ UNCHANGED <<db, loopVars, answer, late, deaths>>

\* TSS_CLI_POLL_TIMEOUT has passed since p began to poll the party it polls.
TimeIsOver(p) ==
    /\ alive[p] /\ pc[p] = "poll"
    /\ ~ late[p]
    /\ late' = [late EXCEPT ![p] = TRUE]
    /\ UNCHANGED <<db, alive, loopVars, answer, deaths>>

\* The process is killed, its HTTP requests fail, or a check of what it has
\* read fails and the `expect` on it panics.
Die(p) ==
    /\ alive[p] /\ pc[p] # "done"
    /\ deaths < MaxDeaths
    /\ deaths' = deaths + 1
    /\ alive' = [alive EXCEPT ![p] = FALSE]
    /\ UNCHANGED <<db, loopVars, answer, late>>

\* The store drops an entry whose time to live has passed.
Expire ==
    /\ EntriesExpire
    /\ \E e \in db : db' = db \ {e}
    /\ UNCHANGED <<alive, loopVars, answer, late, deaths>>

PartyStep(p) ==
    \/ Broadcast(p)
    \/ SendP2P(p)
    \/ Get(p)
    \/ Take(p)
    \/ Retry(p)
    \/ GiveUp(p)

Next ==
    \/ \E p \in Party : PartyStep(p) \/ TimeIsOver(p) \/ Die(p)
    \/ Expire

\* A party that is alive goes on.  No party has to die, and no entry to expire.
GoesOn == \A p \in Party : WF_vars(PartyStep(p))

\* And time passes.
Fairness == GoesOn /\ \A p \in Party : WF_vars(TimeIsOver(p))

Spec == Init /\ [][Next]_vars /\ Fairness

\* The same with time limits that need not run out.
PatientSpec == Init /\ [][Next]_vars /\ GoesOn

-----------------------------------------------------------------------------
(***************************************************************************)
(* Properties.                                                              *)
(***************************************************************************)

Messages == [from : Party, round : RoundNo, to : 0 .. N]
Keys     == Party \X (0 .. N) \X {Schedule[r].name : r \in RoundNo}
Answers  == {NoAnswer, Missing} \cup [tag : {"found"}, value : Messages]

\* Every variable has its type.  A vector of answers is never longer than the
\* number of the other parties, and the loop index never leaves the loop.
TypeOK ==
    /\ db \subseteq [key : Keys, value : Messages]
    /\ alive \in [Party -> BOOLEAN]
    /\ pc \in [Party -> {"send", "poll", "done"}]
    /\ round \in [Party -> RoundNo]
    /\ i \in [Party -> Party]
    /\ answer \in [Party -> Answers]
    /\ late \in [Party -> BOOLEAN]
    /\ ans_vec \in [Party -> Seq(Messages)]
    /\ \A p \in Party : Len(ans_vec[p]) < N
    /\ vector \in [Party -> {<<>>} \cup [Party -> Messages]]
    /\ deaths \in Nat

\* How many rounds p has completed, and how many messages it has handed to q.
Completed(p) == IF pc[p] = "done" THEN Len(Schedule) ELSE round[p] - 1

HandedTo(p, q) ==
    IF \/ pc[p] \in {"poll", "done"}
       \/ pc[p] = "send" /\ IsP2P(round[p]) /\ q < i[p]
    THEN round[p]
    ELSE round[p] - 1

\* Position j of every vector a party puts together holds the message that
\* party j made for this party in this very round.  The drivers index these
\* vectors by party (bc1_vec, point_vec, m_a_vec, vss_scheme_vec, ...).
VectorInPlace ==
    \A p \in Party : Completed(p) > 0 =>
        vector[p] = [j \in Party |-> Message(j, Completed(p), p)]

\* A party that opens its commitment has the commitments of all the others: no
\* commitment is made, or replaced, by someone who could have seen an opening.
RevealsFollowCommitments ==
    \A c \in Reveals : \A r, s \in RoundNo :
        Schedule[r].name = c[1] /\ Schedule[s].name = c[2] =>
            \A p \in Party : (\E q \in Others(p) : HandedTo(p, q) >= s) =>
                /\ Completed(p) >= r
                /\ \A q \in Others(p) : HandedTo(q, p) >= r

\* The parties go through the rounds in lock step.
Lock == INSTANCE LockStep WITH
    Rounds <- Len(Schedule),
    stage  <- [p \in Party |-> Completed(p)],
    handed <- [p \in Party |-> [q \in Party |-> IF q = p THEN 0 ELSE HandedTo(p, q)]]

ImplementsLockStep == Lock!Spec

\* Nobody waits for ever: a party finishes or stops, even if others die or the
\* entries it waits for are gone.
EverybodyEnds == \A p \in Party : <>(pc[p] = "done" \/ ~ alive[p])

\* If no poll runs out of time, no party dies and no entry expires, all the
\* parties get through all the rounds.  (Stated for PatientSpec: where every time
\* limit must run out in the end, it would say nothing of a party that waits for
\* what never comes.)
AllFinish ==
    ([](\A p \in Party : alive[p] /\ ~ late[p])) => <>(\A p \in Party : pc[p] = "done")

=============================================================================
