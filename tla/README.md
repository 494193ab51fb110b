# tss-ecdsa-cli: a verification project

`tss_cli` is a command-line tool for threshold ECDSA (GG18) and EdDSA. Parties
run `tss_cli keygen` or `tss_cli sign` as separate processes and talk only through
a *manager*, a small HTTP service with a key/value store. This directory models
the coordination of these processes: who gets into which session under which
number, how the message rounds of a session proceed when processes are slow,
are restarted, die, or lose requests, and when the store forgets, and what
happens when the processes of a session do not agree on who signs, with which
threshold, or for which child key. The arithmetic that the program does itself
(shares, their encryption keys, tweaks, Lagrange coefficients, the checks of
others' contributions) is modelled over a small field; the proofs and
commitments of the libraries are taken as correct.

All paths below are relative to the repository's root (`src/` is its Rust code).

## 1. Inventory

| component | code | state it keeps | operations |
|---|---|---|---|
| signing room | `src/common/signing_room.rs` | members (identity, order, last ping), stage, identity of the room | `new`, `add_party`, `replace_party`, `update_ping`, `close_signup_window`, queries |
| manager: signing signup | `src/common/manager.rs` `signup_sign` | one room per curve and message, in the store | join, re-join, ping, renewal of an abandoned room, refusals |
| manager: keygen signup | `signup_keygen` | one counter per curve, in the store | hand out the next slot |
| manager: messages | `get`, `set` | the store | read, overwrite |
| store | `TtlHashMap` (library) | entries with a time to live | external |
| client: signup | `src/common/mod.rs` `signup`, `keygen_signup`, `postb` | what the process has learnt, loop timer, attempt | first request, poll every 100 ms, retry, give up |
| client: rounds | `broadcast`, `sendp2p`, `poll_for_broadcasts`, `poll_for_p2p` | loop index, answers, time limit | post, poll, give up |
| protocol drivers | `src/protocols/{ecdsa,eddsa}/{keygen,signer}.rs`, `src/protocols/mod.rs` | vectors of messages by position, key material | the rounds in order; checks; key file |
| HD derivation | `src/common/hd_keys.rs` | none | `get_hd_key`, `hd_key`: a fold over the path |
| command line | `main.rs`, `ecdsa/mod.rs`, `eddsa/mod.rs` | the key file | which chain code, path and threshold reach a signer; `pubkey` |
| curv 0.7 conversion | `curv7_conversion.rs` | the key file | `convert_store_file` |
| AES helpers | `src/common/mod.rs` | none | `aes_encrypt`, `aes_decrypt` |

How they interact. A process signs up (keygen: one call; signing: a loop of calls
that also serves as its heartbeat) and gets a number and the identity of a
session. It then runs the rounds of its protocol. Each round posts a message
under the key `number-round-session` (or `from-to-round-session`) and polls the
keys of all other numbers, `1..=n` without its own. The manager's handlers run
under one write lock, so a handler is atomic; everything between two HTTP
exchanges is not.

What is hard: two processes of the same party at once (restart), requests
served after their sender gave up (`postb` posts twice), the wall clock that
decides who is active, rooms renewed under the same key, entries that expire,
parties that die between two messages of a round, counters recomputed at each
poll, and the bookkeeping that puts messages into vectors by position. Then
everything that the processes of a session are assumed to agree on and nobody
checks before they sign: the count of parties, t, the path and the chain code,
which come from the manager's last answer, the command line, the environment or
the key file. And widths: an AES key one byte short, a threshold that wraps. The
full list, each at its line, is under `hazards` in `PROJECT.json`.

What makes each part correct. *Signup*: a number of a session belongs to one
process, an active member keeps its seat, the numbers are 1, 2, ... and nobody
waits for ever. *Rounds*: the message at a position is the one of that party and
round, and nobody opens before all have committed. *Sessions*: no message is ever
overwritten, the vector of signers is right, and who gets a signature made it
with those who got it too. *Key generation*: nobody
writes a key file before all have accepted their shares, and any t+1 files
recover the one key. *Derivation and signing*: who agrees on the
child key signs under the key that `pubkey` prints; who does not agree, does not.

## 2. Modules

| module | models | used by |
|---|---|---|
| `SigningRoom` | the room, one operator per method; a mutating method is the operator that returns the mutated room | `SignupSign` |
| `SignupSign` | `signup_sign`, its store entry, the clients of `signup`/`postb`, crashes, lost and late requests | `SignupSignPrompt`, `SignupSignProofs` |
| `SignupSignPrompt` | the same under the timing the program is meant for: processes started in time, served once a second; liveness | `MCSignupSign`, `SigningSession`, `SignupPromptProofs` |
| `SigningSession` | `SignupSign` and, with what it gave each process, the rounds in which signers depend on each other's view of the session | `MCSigningSession`, `SigningSessionProofs` |
| `Cosigning` | what a whole signing promises; `SigningSession` refines it | `SigningSession` |
| `KeygenSignup`, `Slots` | `signup_keygen`, its clients; what it promises | `MCKeygenSignup`, `KeygenSignupProofs` |
| `Rounds` | the message rounds for any schedule, over `get`/`set`, with deaths, time limits and expiry | `MCRounds`, `RoundsProofs` |
| `LockStep` | what the rounds promise; `Rounds` refines it | `Rounds` |
| `Schedules` | the rounds of the four protocols, and the commitment/opening pairs | `MCRounds`, `RoundsProofs` |
| `Shamir` | polynomials, Lagrange coefficients and the derivation of child keys over a prime field | `SharedKey`, `ShamirProofs` |
| `SharedKey` | key generation from round 3 on, conversion of old files, `pubkey`, and what signers compute and check | `MCSharedKey`, `SharedKeyProofs` |
| `MC*` | the small instances | the runs |
| `*Proofs` | theorems about the module in their name, see section 6 | |
| `FoldProofs` | what a fold over a finite set computes, for any operator | `ShamirProofs` |

### How state and actions correspond to the code

*Signing signup.* A `Proc` is one execution of `tss_cli sign`; two may have the same
`PartyNumber` (fragment index). `Start`, `Poll` issue a request; `Serve` is the whole
of `signup_sign` for one request, one disjunct per way out of the handler (the
map gives the lines); `Receive*` is what the client does with the answer, up to
its next request; `SendFails` is a `send()` that returns an error, before or after
the manager served the request, with the retry or the panic that follows. An
abandoned request stays in `requests` and may be served any time later.
`room` is the store's entry, `NoRoom` if there is none. The clock `now` counts whole
seconds, as `last_ping` does.

*Keygen signup.* The same for `signup_keygen`, whose only state is `counter`.
`handed` is a history variable: the slots handed out so far.

*Rounds.* `Broadcast` and `SendP2P` are one post; `Get` is the manager's answer to one
poll; `Take`, `Retry`, `GiveUp` what the loop does with it. `Take` of the last answer
includes what the driver does then: the vector is put together (`EndRound`) and
the next round begins, or the process is done. `late` says that
`TSS_CLI_POLL_TIMEOUT` has passed for the party polled.

*Sessions.* `SigningSession` extends `SignupSign`: `stage` says which round a process
polls, `entries` is the store with the author of each entry, `signers` the vector
`signers_vec`/`parties_index_vec`. `EnterRounds` is `round0`; `CompleteIndices` what follows
when all its answers are in, `CompleteShares` the first round whose messages depend
on the signers, `CompleteResults` the local signatures, `StopInRounds` a time limit, a
failed exchange or a kill. `Width` is the `n` of a poll: the `total_joined` of the
process's last answer, but its own t+1 for EdDSA's `round0`. The rooms keep living
below: they can be renewed while an earlier session signs.

*What a signing promises.* `Cosigning` has no room, store or time: a process takes a
`seat`, makes one `offer` of a vector of seated fragments, and is `signed` when all it
names have made the same offer. In `SigningSession` the seat is the session and
number of a process that is ready, the offer its entry of the last round, and
signed is its `stage` (the mapping is at the end of the module). The abstract
step names the new value by its primed variable (`seat'[p] \in Seats`), so the
checker tests it and does not have to enumerate seats and vectors.

*Shared key.* A party goes through `DealShares` (round 3: encrypt and send, one after
the other, up to the first that panics), `OpenShares` (round 4), `CheckShares` (round 5),
`WriteFile`; or `Convert`. What it has sent is in `boxes` and `posted`, and the others wait
for that and not for the party itself (`AllPosted`). `Fail` ends a party at any point
before it has its file, also between two boxes of round 3 and after its last
message: a poll that runs out of time, an assert or expect, a kill. A check that the
model computes and that fails makes it "stopped". `StartSigning` picks the signers by
number among the parties with a file (`Holders`), how many the threshold on their
command lines asks for (it is compared with nothing, so it may be 0 or above the
key's), and for each the path, the chain code flag and the environment;
`CheckContributions` and `FinishSigning` are the checks that may stop it.

### Abstractions

- Identities (`Uuid::new_v4`) come from a counter: they are taken to be unique.
- One handler reads the clock several times; the model reads it once.
- All processes sign the same message on the same curve; other messages have
  other rooms. Each has a t of its own. `Rounds` leaves the identity of the session
  out of its keys: `SlotsExclusive`, `OpenRoomUuidUnheld` and `KeygenSlotsExclusive` are what
  makes that sound, since they say that a number of a session belongs to one
  process. `SigningSession` keeps it, and `EntriesKeepAuthor` says the same of the store.
- `postb`'s second attempt is not a step of its own in `Rounds`: `set` overwrites
  with the same value, `get` changes nothing. A failure of both is `Die`.
- Messages are records of who made them, for whom, in which round.
- An error answer carries which refusal it is, and no text.
- `Rounds` takes `N >= 2`; with one party there are no messages.
- In `Rounds` every party runs over the same `N`, with every message a step of its
  own. In `SigningSession` everybody runs over what it was told, and a round has the
  grain of `LockStep`: all messages of a process are posted in one step. It keeps
  three rounds; the others (nonces, proofs, commitments) have the same peers
  and add nothing to who reads what. A vector in the store is compared as the set of
  signers its author used, since a Lagrange coefficient depends on that set.
- A point is its discrete logarithm, and the field has 7 elements. Keys and
  shares that are zero, and sums of a smaller degree, are left out (`IsGeneric`):
  in a field of 2^256 elements they do not happen, in one of 7 they would. HMAC and
  SHA-512 are arbitrary functions; the instance takes a `Challenge` that tells
  public keys apart. `XCoord` maps a point and its negative to one value, as the
  curves do, and `ShortCoords` are those whose byte form is below 32 bytes.
- A key is generated with one t. Party p has number p in key generation;
  signers come in any order.
- The dealing of EdDSA's ephemeral key, the same code as key generation, is
  taken as done in `SharedKey`: `Ephemerals` are the sums of its polynomials. If its
  threshold is above that of the key, what the library's `verify_local_sigs` makes of
  the different lengths is open: the model takes both outcomes (`EphemeralOutgrowsKey`).
- A key file that `fs::write` leaves half written counts as none. The parties of a
  key generation are honest, so their proofs are good; a proof that is found bad
  all the same is a `Fail`.
- A derivation path is a sequence of indices, a key file a record.

## 3. Properties and runs

`signup_restart` (three processes, two of the same party, t = 1, signup and client
timeout 0 s, time to live 1 s, one failed exchange, clock up to 2): `SlotsExclusive` (processes with the same session
have different numbers), `OpenRoomUuidUnheld` (nobody holds the identity of a room
that still takes signups), `SeatKept` (an active member keeps seat, identity and
order through everything), `TypeOK`. With a timeout of 0 a member is timed out
one second after its ping, so two seconds hold: join, time out, replacement,
closing, abandonment, renewal and expiry. The two processes of one party are
symmetric, here and in `session_faults`.

`session_overfull` (three parties, a key with t = 1, two of them given t = 1 and one
t = 2, both curves, timeouts 1 s, clock up to 2): when a member of a full room times out, a third
party may join; when c opens the room it is for three. So there are sessions of
two and of three, processes told less than there are, and processes that expect
more. `OrdersArePositions` (the orders are 1, 2, ... without gap or repetition),
`ClosedRoomFrozen`, `SignersAreTheNumbered` (position j of a vector of signers is the fragment
of number j of the same session), `CosignersAgree` (who of a session signs, signs with
the same signers, more than t), `ImplementsCosigning` (it keeps to the abstract signing),
`SessionTypeOK`.

`session_faults` (the same processes, with ECDSA rounds that may stop at any time,
one failed exchange, one crash, time to live 0 s, client timeout 1 s, clock up to 1):
requests are served twice or late, processes are killed, and rooms expire and are
renewed, while earlier sessions sign.
`NoFragmentTwice`, `EntriesKeepAuthor` (nothing in the store is replaced),
`ImplementsCosigning`. One second is enough
for a member to time out, to be replaced, and for the room to be renewed.

`signup_count`: a violation, see section 5.

`session_complete` (`PromptSessionSpec`; three parties for a room of three, all started in
the first second, EdDSA, whose rounds assert most): `SlotsFillTotal` (as long as
nobody crashed and no exchange failed, whoever is ready has a number in 1..total
and total = t+1), `NobodyStops` (then no index, count or check makes a process give
up in its rounds), `EveryoneSigns`. `signup_surplus` (`PromptSpec`; three parties for a room of two, one crash):
`SlotsFillTotal`, `NobodyHangs`, `WaitBounded` (the time limit starts anew with every change of
the count, and holds from the last change on, with two seconds for the replies
and one for each exchange that failed; the run has none, the theorem any number). The clock bounds (4 and 10)
are beyond the last moment at which a client can still wait: the last start, plus
one client timeout for each change of the count, of which the bound leaves room
for all.

`rounds_ecdsa_sign` (three parties, the real schedule): `VectorInPlace` (position j of a
vector holds what party j made for this party in this round),
`RevealsFollowCommitments` (who opens a commitment has those of all others, so
no commitment can depend on an opening), `AllFinish`. Three parties make a party
with others on both sides of it, which is what the loops over the others distinguish.

`rounds_eddsa` (EdDSA key generation, chain code and signing, three parties, up to two
deaths): the same, `TypeOK` and `ImplementsLockStep`. `rounds_faults` (two parties, a short
schedule of two broadcast rounds and a point-to-point round, expiring entries and a
death): `VectorInPlace`, `EverybodyEnds`. The schedule of ECDSA key generation is covered by
the theorem `KeygenCorrect`.

`keygen_mixed` (three processes, two asking for 2 parties and one for 3, two failed
exchanges, one expiry): `KeygenSlotsExclusive`, `NumberWithinParties`, `ImplementsSlots`,
`TypeOK`. `keygen_fill` (four processes of two-party keygens, no faults): `SessionsFill`.

`shared_key` (three parties, t = 1 and 2, four polynomials to choose from, both
curves, old files, up to two failures in key generation; then signing by any one,
two or three holders of files in any order with any of six options: root, two
paths, chain code by file, flag, environment, and an empty flag): `QuorumRecovers`
(any t+1 files recover the key and t do not), `NoFileWithoutShares` (when the first file
is written, every party has accepted its shares and posted its proof: a party that
fails later lacks the file, but nothing that the key needs), `OnlyShortKeysStop` (no
computed check but a short AES key, and that only for ECDSA, stops a key
generation), `KeygenCompletes` (everybody gets its file unless it fails itself, or
somebody fails or stops before its last message), `AgreedSignersSign` (the checks raise
no false alarm: enough signers for the same child key sign; for EdDSA with a
threshold that is not above the key's), `OnlyAgreedSignersSign` (and no others),
`TypeOK`. Q = 7 leaves room for three parties and for sums of polynomials that vanish
at none of them. Two failures leave one party alone; a signing may begin while
others are still in key generation or have failed there. That all get a file or
none is not a property of the program: a party can fail after its last message, and
the run reaches states in which a quorum signs beside such a party.

Deadlock is not checked: processes end, and the clock, faults and crashes are
bounded.

Every property of a passing run has a mutant in `PROJECT.json`: a plausible slip in
the code, kept beside the definition it replaces as "Faulty variant", that makes
the run fail.

## 4. Fairness

`SignupSign` has none: its properties are safety. `PromptSpec` assumes weak fairness of
serving each process's requests (Rocket serves every connection, the lock is held
for one handler), of the clients' own steps and of the clock. A crash, a
failure or an expiry never has to happen. Its `PromptTick` lets a second pass only when
every process that waits has been heard in it; clients poll every 100 ms.
`Rounds` assumes weak fairness of every live party's next step and of its time limit
passing, `PatientSpec` only of the first, for `AllFinish`: what the parties do when no
time limit runs out; `KeygenSignup` of start, service and receipt. `PromptSessionSpec`
is `PromptSpec` with weak fairness of each process's next round (`RoundStep`): the
driver is a thread that nobody blocks. `SharedKey` assumes it of each party's
steps of the key generation, since `Rounds` shows that messages arrive, and not of
`Fail`.

## 5. Findings

`signup_count`: `src/protocols/eddsa/signer.rs:195` asserts that the t+1 parties of `round0` are no
more than the count returned by `signup`. The count is recomputed at every poll
(`signing_room.rs:137`) over the members active at that moment, while a closed
room records no pings (`manager.rs:151-153`). The run finds: b's ping closes the room,
b leaves the loop, and a, which polls when b's ping has aged beyond the signup
timeout, is told the room's identity and a count below t+1. With prompt clients
this does not happen (`SlotsFillTotal` in `session_complete`, `signup_surplus`). With others
it ends in a panic, and no signature comes of it (`CosignersAgree`).

## 6. Proofs

`RoundsProofs`, for every number of parties, every schedule, and any number of deaths
and expiries. The theorems assume `DistinctNames`: no two rounds of the schedule have the
same name.

- Inductive invariant `IInv`: `TypeOK`; `DbInv` (every entry of the store is the message
  of some party and round, under the key of that party and round, and has been
  handed out); and for each party `PartyInv`: what its loop index says about the
  answers read so far, which message an answer under way is, and that everybody
  has handed it the messages of the rounds it completed. `VectorInPlace` alone is not
  inductive: a vector is right because the answers are, and these because the store is.
- `Growth`: no step takes back what has been handed out, so facts about the store and
  about parties that do not move survive (`EntriesStay`, `PartyStays`). One lemma per action.
- `TypeCorrect`, `VectorsInPlace`, `CommitmentsBeforeReveals` (which also assumes that commitments
  come before openings in the schedule), `LockStepImplemented` (with `Stage` and `Handed` as
  the refinement mapping).

At the end of the module `KeygenCorrect`, `EcdsaSignCorrect` and `EddsaSignCorrect` discharge
these assumptions for the schedules of the program.

`KeygenSignupProofs`, for any processes, any numbers of parties asked for (also different
ones), and any number of failed exchanges and expiries. The inductive invariant
follows a slot from the counter to its holder: `CounterInv` (the counter is the
largest number handed out in its session), `HandedInv` (sessions known are older
than the next identity, and there are no gaps below a number handed out),
`HolderInv` (what a process holds, or what is on its way to it, was handed out, is
within its parties and is no other process's). `KeygenSlotsExclusive` alone is not
inductive: the answer on its way decides what the process will hold. From it
follow `KeygenTypeCorrect`, `KeygenExclusive`, `KeygenNumbers` and `SlotsImplemented`. The
assumption `KeygenSignupAssumption` types the constants.

`SignupSignProofs`, for any processes, party numbers, thresholds, timeouts, and any
number of ticks, crashes, failed exchanges and expiries. The inductive invariant
`IInv` follows an identity from the room to the process it was issued to: `RoomInv`
(the roster is in order, its identities were issued, no ping is later than the
insertion), `ClientInv` (a process waits for at most one request, and presents
the identity it was issued), `OwnerInv` (an identity belongs to one process, counting
the answers and requests still on their way), and `SeatsInv`: whoever was told, or is
about to be told, the identity of the stored room is in its roster under that
number and with its fragment, and the room is closed. `SlotsExclusive` alone is not inductive, since which
room a process is told depends on the roster at the time it is served, and a
room may since have been renewed; `SeatsInv` keeps the two apart. One lemma
per way out of the handler and per client step. From it: `SignupTypeCorrect`,
`OrdersCorrect`, `SignupExclusive`, `OpenRoomsUnknown`, `ClosedRoomsFrozen`, and `SeatsKept`, which
assumes `Ttl >= SignupTimeout`: with a shorter time to live the store may forget a room
whose members are active. `RoomForNobody` is about thresholds: if all are 65535, the
size of the room is 0 in 16 bits, and no room is ever stored.

`SigningSessionProofs`, for the same and both curves. `SessionSignup`: a whole signing
is a behaviour of the signup, which gives it `IInv` and every theorem above;
`PromptSession` relates the two specifications. Its own invariant `SInv` consists of
the types, `StoreInv` (an entry lies under the number and session of its author,
who has posted it and still stands by it, and no two entries share a key) and
`ProcInv` (the vector of signers names who signed up under each number; who signed
has found the results of all others, made for the same signers). `CosignersAgree` is
not inductive: two processes agree because each has read what the other posted,
or the one with the larger count has. From it: `SessionTypeCorrect`, `EntriesKept`,
`SignersCorrect`, `FragmentsOnce` and `CosignersCorrect`. The last needs no assumption about
counts or thresholds: those that were told different ones stop.

`CosigningImplemented`, in the same module: a whole signing refines `Cosigning`. With
`OfferInv` added to the invariant: an entry of the last round was made from a
vector of signers, also when its author has since stopped and `SInv` no longer says
what it stands by; and who polls in the last round has posted. The steps fall
into `Hidden`, `Offering` and `Signing` (`StepKind`), or a process leaves the signup (`SitStep`).
Offers stand (`OfferStands`) because a seat has one process, before and after the
step; a signature needs equal offers, and only sets of signers are compared, but
vectors of one session over the same signers are the same (`SameOffer`).

`SignupPromptProofs`, about `SignupSignPrompt`, where a second passes only when every
waiting process was heard in it. `WaitsBounded` has no assumption: `AskedInv` counts
the requests of a process that may still be served (every failed exchange
leaves at most one behind), and `WaitInv` adds them to the seconds since the last
change, because a second costs a ping and a ping a request. `SlotsFilled` assumes
`PromptTiming`: the processes are started no later than a client waits, all are given
the same t, a member times out after two seconds at the earliest, and an entry lives
for one at least. TLC finds `SlotsFillTotal` violated with a signup timeout of 1 s (an answer
may be a second old when its client asks again), with processes started later, with
different t, and when an exchange fails; for the time to live it finds nothing, so that
condition is what the proof uses and perhaps more than is needed. Why it holds, as
`QuietInv` says it: who waits keeps its seat and pinged in the last second (`SitInv`); until
everybody has been started every seat of an open room belongs to a process that
waits (`TakenInv`), so no seat is left over from a process that is gone; an open room has
no more members than it is for, and a full one is closed by the next ping (`OpenInv`);
one that was closed had t+1 active members, which stay active for the seconds in
which they fetch the answer (`ClosedInv`, `AnswerInv`).

The same theorem in a whole session is `SessionSlotsFilled`, and from it `NobodyGivesUp` in
`SigningSessionProofs`: with `PromptTiming` and `QuietRounds` (polls do not fail, everybody is
given the key's t or more) nobody stops. It is inductive together with `SlotsFillTotal` and
`SInv`: the counts are all t+1, so the vectors have the same length (`EqualWidths`), and
position j of each is the fragment of number j, so they are equal (`SameVector`) and
what the others posted is what a process expects.

`FoldProofs` is about the fold that defines the sums, products and polynomials of
the community modules: how it takes one more element (`FoldUnfolds`), on what it
depends (`FoldSame`), what set its values stay in (`FoldTyped`), and that for operators whose
steps commute the order does not matter (`FoldAny`). It takes the operator as a
constant and is instantiated once for each fold of `Shamir`. That is how facts about
recursive functions are proved without an induction theorem: the set of the
subsets for which the fact holds contains, with all the smaller subsets, each subset.

`ShamirProofs`, for every prime Q. `Cong` is equality modulo Q; `NoZeroDivisor` and
`ReciprocalWorks` follow from `FieldAssumption`. Then sums (`SumAny`, `SumLinear`, `SumImage`),
polynomials by Horner's rule (`EvalStep`, `EvalSum`, `EvalMove`), and the Lagrange coefficients
(`LagrangeStep` relates those of a set to those without one point). `Weighted` is a sum
with these weights. `Interpolation`: the weighted values of a polynomial at as many
points as it has coefficients, or more, add up to its value at 0; `TooFew`: at one point
fewer they do not, if the leading coefficient is not zero. Both go by induction on the
coefficients, each step taking one point away. `TweakMovesKey` is about `hd_key`.

`SharedKeyProofs`, for every prime field, number of parties, set of thresholds,
polynomials, short coordinates, chain codes and options, any number of failures, and
every Hmac and Challenge with values in the field (`HashAssumption`). Three invariants:

- `IInv`: a box is what its sender made for its receiver (`BoxInv`), opened shares
  are the values of the polynomials (`SharesInv`, for every party that has posted round 4,
  whether or not it has failed since), a stage comes with the posts that lead to it
  (`PostedInv`), and a file with the posts of all (`WrittenInv`). The lemmas `KeyAtCounter` and `SameKey` are the
  bookkeeping of the two counters: both ends of a share find the same key. From it:
  `ShortKeysOnly`, `FilesAccepted`. `NoFileWithoutShares` alone is not inductive: the writer
  reads posts, and that who posted round 5 has the right shares is `SharesInv`.
- `KeyInv`: the polynomials are of one degree and `IsGeneric`, and a file holds the
  value of the sum of the polynomials at its number (`SumPolyIs`: the sum of the
  values is the value of the sum). From it and `Interpolation`, `TooFew`: `FilesRecover`.
- `SessionInv`: the signers of a room, of any number, are different parties with files, the child
  key of each is the public key moved by its tweak (`ChildMoves`), and a result says
  what the checks of its number say (`Outcome`). From it: `SharedKeyTypes`, `AgreedSign`,
  `OnlyAgreedSign`.

`AgreedSign` and `OnlyAgreedSign` come from what the checks amount to. ECDSA
(`EcdsaAccepts`): the contribution of j passes the check of i if and only if their
child keys are the same, since i moves only the commitment of party 1 and j its
share, by their own tweaks, and no Lagrange coefficient is zero. `EcdsaVerifies`: the
result is the child key if and only if the shares recover the key. EdDSA (`EddsaRejects`,
`EddsaVerifies`): a contribution passes if and only if it was made for the challenge of
number 1, and the sum of accepted ones is a signature of the child key. So
`OnlyAgreedSign` assumes `ChallengeInjective`: two keys do not give the same challenge for
the same R, what SHA-512 is relied on for. `IsGeneric` excludes a key, a share or a leading
coefficient that is zero and a set of fewer than t shares that happens to recover the
key: each has a probability of 1/Q. They cannot be dropped: the owner of a share that is
zero contributes the same to every challenge, and a sum of a lower degree needs fewer
shares.

Only model-checked: liveness (`EveryoneSigns`, `NobodyHangs`, `AllFinish`, `EverybodyEnds`,
`SessionsFill`, `KeygenCompletes`), since fairness and ENABLED are out of reach of the prover.
Every invariant and action property that a passing run checks is also a
theorem.

## 7. Not modelled

- The proofs, commitments and encryption of the libraries (`curv`,
  `multi-party-ecdsa`, `multi-party-eddsa`, Paillier, AES-GCM): their source is not in
  the repository. With them rounds 1 and 3 to 8 of ECDSA signing (GG18), which the
  driver only passes on; `Rounds` has their messages. A check of theirs that fails is
  a process that stops.
- Whether the byte forms with missing leading zeros that `hd_keys.rs:52` and
  `curv7_conversion.rs:50` produce are accepted: `from_bytes` is `curv`'s.
- Key generation by parties that were given different t: what happens is decided
  by the libraries' checks of the commitments.
- Argument parsing, JSON, console output, the parsing of a path, the old
  hexadecimal format; HTTP beyond "a request is served or not, and its answer
  arrives or not"; more than one message or curve at a time.
- What `verify_local_sigs` does with an EdDSA threshold above the key's: both outcomes
  are in the model, and no property says which.
- Key generation after a process died behind its signup: its session stays one party
  short, and the others end at their time limits. Nothing recovers from it.
- The tests: `src/test.rs` compares `get_hd_key` for one path on Secp256k1 with a fixed
  vector; `eddsa/test.rs` is empty.

## 8. Plan

1. Done: signup, rounds, keygen signup, and their theorems.
2. Done: `SigningSession`, the signup and the rounds in one specification with what
   each process was told, and its theorems; thresholds that differ.
3. Done: `Shamir` and `SharedKey`, the arithmetic of key generation, derivation and
   signing, the short AES key, conversion; theorems about key generation.
4. Done: theorems about `SignupSignPrompt` (`SlotsFillTotal`, `WaitBounded`), `NobodyStops`, and about
   the arithmetic of `SharedKey`, over a theory of folds; `Cosigning`, which the whole
   signing refines.
5. Left: the dealing of EdDSA's ephemeral key inside `SharedKey`; that the rounds of
   `SigningSession` implement the grain of `LockStep`; the parsing of a path.
