--------------------------- MODULE SigningSession ---------------------------
(***************************************************************************)
(* A whole signing: the processes of SignupSign, and what each does with    *)
(* the number, the session and the count of parties that the signup gave    *)
(* it (src/protocols/{ecdsa,eddsa}/signer.rs).                              *)
(*                                                                          *)
(* Nothing makes the processes of a session agree: one may have been told a *)
(* smaller count than another or been given another t, the room may have    *)
(* taken a party too many, and it may be renewed while the processes it was *)
(* closed for still sign.  Module Rounds shows what a round does when       *)
(* everybody runs it with the same N; here every process runs it with what  *)
(* it was told.                                                             *)
(*                                                                          *)
(* Of the rounds, those are kept in which a process depends on whom the     *)
(* others take for the signers: the exchange of the fragment indices, the   *)
(* round whose messages are made with them (ECDSA) or that indexes by them  *)
(* (EdDSA), and the one that ends in a signature.  A round has the grain of *)
(* LockStep: all messages of a process are posted in one step, and it goes  *)
(* on when it has those of all the others.                                  *)
(***************************************************************************)
EXTENDS SignupSignPrompt, Sequences

CONSTANTS
    KeyThreshold,   \* the t that the key was made with
    Curves,         \* which of "ECDSA" and "EdDSA" the processes may sign with
    RoundsMayFail   \* whether a process may stop in its rounds

ASSUME SessionAssumption ==
    /\ KeyThreshold \in Nat
    /\ Curves \subseteq {"ECDSA", "EdDSA"}
    /\ RoundsMayFail \in BOOLEAN

VARIABLES
    curve,      \* the curve of this room and its processes
    entries,    \* the messages in the store, each with the process that posted it
    stage,      \* the round a process polls, or "signup", "signed" or "stopped"
    signers     \* the fragment indices a process signs with, by number

sessionVars == <<curve, entries, stage, signers>>
allVars == <<vars, sessionVars>>

\* The rounds, as they are called in the two drivers.
Indices == "indices"    \* round0; round0
Shares  == "shares"     \* round2; eph_keygen_round1
Results == "results"    \* round9; round1_local_sig
Polling == {Indices, Shares, Results}

SessionInit ==
    /\ Init
    /\ curve \in Curves
    /\ entries = {}
    /\ stage = [p \in Proc |-> "signup"]
    /\ signers = [p \in Proc |-> <<>>]

Number(p) == signup[p].number
SetOf(v) == {v[j] : j \in DOMAIN v}

\* How many parties p expects in a round: what the signup counted, but EdDSA
\* exchanges the indices among t+1.
Width(p, r) == IF curve = "EdDSA" /\ r = Indices THEN RoomSize(p) ELSE signup[p].total

Peers(p, r) == (1 .. Width(p, r)) \ {Number(p)}

IsPointToPoint(r) == curve = "ECDSA" /\ r = Shares

\* Faulty variant: the key leaves out the number of its sender.
EntryKeyWithoutNumber(uuid, from, to, r) == <<uuid, 0, to, r>>

\* "<from>-<round>-<session>" or "<from>-<to>-<round>-<session>"
EntryKey(uuid, from, to, r) == <<uuid, from, to, r>>

\* The entries p posts in round r: its fragment index, or something made with
\* the indices s it takes for the signers'.
Posts(p, r, s) ==
    {[key    |-> EntryKey(signup[p].uuid, Number(p), to, r),
      author |-> p,
      value  |-> IF r = Indices THEN <<PartyNumber[p]>> ELSE s] :
        to \in IF IsPointToPoint(r) THEN Peers(p, r) ELSE {0}}

\* `set`: entries under the same keys are overwritten.
Put(es) == entries' = {e \in entries : \A f \in es : f.key # e.key} \cup es

\* What `get` finds for p when it polls number j in round r.
FoundAt(p, r, j) ==
    {e \in entries :
        e.key = EntryKey(signup[p].uuid, j, IF IsPointToPoint(r) THEN Number(p) ELSE 0, r)}

HasAll(p, r) == \A j \in Peers(p, r) : FoundAt(p, r, j) # {}

ValueAt(p, r, j) == (CHOOSE e \in FoundAt(p, r, j) : TRUE).value

-----------------------------------------------------------------------------
Stop(p) ==
    /\ stage' = [stage EXCEPT ![p] = "stopped"]
    /\ signers' = [signers EXCEPT ![p] = <<>>]
    /\ UNCHANGED entries

\* p posts its message of round r and begins to poll for those of the others.
GoOn(p, r, s) ==
    /\ Put(Posts(p, r, s))
    /\ stage' = [stage EXCEPT ![p] = r]
    /\ signers' = [signers EXCEPT ![p] = s]

EnterRounds(p) ==
    /\ pc[p] = "ready" /\ stage[p] = "signup"
    /\ GoOn(p, Indices, <<>>)

\* Faulty variant: the own index is put behind those of the others.
SignersOwnLast(p) ==
    LET n == Width(p, Indices)
    IN  [j \in 1 .. n |->
            IF j = n THEN PartyNumber[p]
            ELSE ValueAt(p, Indices, IF j < Number(p) THEN j ELSE j + 1)[1]]

\* Faulty variant: only the own index is counted from zero.
SignersOwnFromZero(p) ==
    [j \in 1 .. Width(p, Indices) |->
        IF j = Number(p) THEN PartyNumber[p] - 1 ELSE ValueAt(p, Indices, j)[1]]

\* signers_vec, parties_index_vec: the fragment of every number.
SignersRead(p) ==
    [j \in 1 .. Width(p, Indices) |->
        IF j = Number(p) THEN PartyNumber[p] ELSE ValueAt(p, Indices, j)[1]]

\* Looking up the own index is out of bounds when the number is beyond the
\* vector, and EdDSA asserts that no fewer parties were counted than t+1.
CannotIndex(p) ==
    \/ Number(p) > Width(p, Indices)
    \/ curve = "EdDSA" /\ RoomSize(p) > signup[p].total

CompleteIndices(p) ==
    /\ stage[p] = Indices
    /\ HasAll(p, Indices)
    /\ \/ CannotIndex(p) /\ Stop(p)
       \/ ~ CannotIndex(p) /\ GoOn(p, Shares, SignersRead(p))

\* ECDSA compares what each other made of its share with the public share that
\* it computes for its own set of signers.  EdDSA looks up the index of every
\* party counted, which is out of bounds beyond its t+1.
RejectsShares(p) ==
    \/ /\ curve = "ECDSA"
       /\ \E j \in Peers(p, Shares) : SetOf(ValueAt(p, Shares, j)) # SetOf(signers[p])
    \/ /\ curve = "EdDSA"
       /\ signup[p].total > Len(signers[p])

CompleteShares(p) ==
    /\ stage[p] = Shares
    /\ HasAll(p, Shares)
    /\ \/ RejectsShares(p) /\ Stop(p)
       \/ ~ RejectsShares(p) /\ GoOn(p, Results, signers[p])

\* Faulty variant: the signature is printed unverified.
VerifiesAlways(p) == TRUE

\* The signature is that of the key if everybody contributed for the same
\* signers and these are enough to recover the key.
Verifies(p) ==
    /\ Cardinality(SetOf(signers[p])) > KeyThreshold
    /\ \A j \in Peers(p, Results) : SetOf(ValueAt(p, Results, j)) = SetOf(signers[p])

CompleteResults(p) ==
    /\ stage[p] = Results
    /\ HasAll(p, Results)
    /\ \/ ~ Verifies(p) /\ Stop(p)
       \/ /\ Verifies(p)
          /\ stage' = [stage EXCEPT ![p] = "signed"]
          /\ UNCHANGED <<entries, signers>>

\* A poll runs out of time, an HTTP request fails, or the process is killed.
StopInRounds(p) ==
    /\ RoundsMayFail
    /\ stage[p] \in Polling
    /\ Stop(p)

RoundStep(p) ==
    \/ EnterRounds(p)
    \/ CompleteIndices(p)
    \/ CompleteShares(p)
    \/ CompleteResults(p)

SessionStep ==
    /\ \E p \in Proc : RoundStep(p) \/ StopInRounds(p)
    /\ UNCHANGED <<vars, curve>>

SessionNext ==
    \/ Next /\ UNCHANGED sessionVars
    \/ SessionStep

SessionSpec == SessionInit /\ [][SessionNext]_allVars

\* The same with prompt clients, as in SignupSignPrompt.  A process goes on with
\* its rounds as soon as it can.
PromptSessionNext ==
    \/ PromptNext /\ UNCHANGED sessionVars
    \/ SessionStep

SessionFairness ==
    /\ Fairness
    /\ \A p \in Proc : WF_allVars(RoundStep(p) /\ UNCHANGED <<vars, curve>>)

PromptSessionSpec == SessionInit /\ [][PromptSessionNext]_allVars /\ SessionFairness

-----------------------------------------------------------------------------
(***************************************************************************)
(* Properties.                                                              *)
(***************************************************************************)

Entry ==
    [key    : Nat \X Nat \X Nat \X Polling,
     author : Proc,
     value  : Seq(PartyNumbers)]

\* Every variable has its type.
SessionTypeOK ==
    /\ curve \in {"ECDSA", "EdDSA"}
    /\ entries \subseteq Entry
    /\ stage \in [Proc -> {"signup", "signed", "stopped"} \cup Polling]
    /\ signers \in [Proc -> Seq(PartyNumbers)]

\* An entry of the store, once posted, is never replaced by what another process
\* posts, nor by anything else: whatever two processes read under a key is the
\* same message.  The keys hold no more than a number and a session, so this
\* rests on the signup giving no number of a session to two processes, however
\* rooms are renewed and parties replaced while a session is under way.
EntriesKeepAuthor ==
    [][\A e \in entries : \A f \in entries' : f.key = e.key => f = e]_allVars

\* The vector of signers is right: at position j is the fragment of the process
\* that signed up as number j of this very session.  The drivers use it as the
\* index into the public shares and the Paillier keys of what they read from
\* number j.
SignersAreTheNumbered ==
    \A p \in Proc : \A j \in DOMAIN signers[p] :
        \E q \in Proc :
            /\ IsReady(q)
            /\ signup[q].uuid = signup[p].uuid
            /\ Number(q) = j
            /\ PartyNumber[q] = signers[p][j]

\* No fragment takes part twice in a session, so that a replaced process does not
\* sign beside its replacement: the Lagrange coefficients of signers with a
\* repeated index do not exist.
NoFragmentTwice ==
    \A p, q \in Proc :
        /\ p # q
        /\ IsReady(p) /\ IsReady(q)
        /\ signup[p].uuid = signup[q].uuid
        => PartyNumber[p] # PartyNumber[q]

\* Processes of one session that end with a signature made it for the same
\* signers, enough of them for the key, although they may have been told different
\* counts of parties and given different t: those that disagree stop before they
\* print one.
CosignersAgree ==
    \A p, q \in Proc :
        /\ stage[p] = "signed" /\ stage[q] = "signed"
        /\ signup[p].uuid = signup[q].uuid
        => signers[p] = signers[q] /\ Len(signers[p]) > KeyThreshold

\* As long as no process is killed and no exchange fails, no process gives up: what
\* the others post is what it expects, its number has a place in every vector, and
\* the signature is the key's.  A process that stops leaves the others polling for
\* it until their polls run out of time, so stopping is for failures only.  (When
\* parties come late, or with another t, they do stop.)
NobodyStops ==
    crashes = 0 /\ faults = 0 => \A p \in Proc : stage[p] # "stopped"

\* What p posted in the last round, which ends with a signature if all others
\* posted the same.
Offered(p) ==
    IF IsReady(p) /\ FoundAt(p, Results, Number(p)) # {}
    THEN ValueAt(p, Results, Number(p)) ELSE <<>>

\* The seat of a process that has left the signup.
SeatTaken(p) ==
    IF IsReady(p) THEN [session |-> signup[p].uuid, number |-> Number(p)]
    ELSE [session |-> 0, number |-> 0]

Promise == INSTANCE Cosigning WITH
    Fragment <- PartyNumber,
    Enough   <- KeyThreshold,
    seat     <- [p \in Proc |-> SeatTaken(p)],
    offer    <- [p \in Proc |-> Offered(p)],
    signed   <- {p \in Proc : stage[p] = "signed"}

\* Signup, store and rounds together do what a signing promises: whoever leaves
\* the signup has a seat of its own, what a process says in the last round names the
\* processes seated in its session, is never taken back, and a signature is printed
\* only by one whose cosigners have all said the same.
ImplementsCosigning == Promise!Spec

\* When as many parties as the room takes are started in time, and nothing
\* fails, every one of them ends with a signature.
EveryoneSigns == \A p \in Proc : <>(stage[p] = "signed")

=============================================================================
