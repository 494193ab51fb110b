----------------------------- MODULE SharedKey -----------------------------
(***************************************************************************)
(* A key generation and a signing with the key files it writes: what the    *)
(* parties compute and check, over a small field (src/protocols/ecdsa and   *)
(* eddsa, src/common/hd_keys.rs, and the options that src/main.rs passes).  *)
(*                                                                          *)
(* In key generation a party waits for the messages that the others have    *)
(* posted, which stay where they are if their senders fail.  A signing goes *)
(* through the rounds in lock step, which module Rounds implements; a round *)
(* is kept if a check in it may fail.  The numbers, the session and the     *)
(* count of parties are what module SigningSession shows of them.           *)
(***************************************************************************)
EXTENDS Shamir

CONSTANTS
    N,                  \* the number of parties of the key
    Degrees,            \* the thresholds t to make a key with
    Coefficients,       \* what the parties draw for their polynomials
    ChainCodes,         \* the part of the chain code that each party draws
    ShortCoords,        \* the x-coordinates whose byte form is below 32 bytes
    Options,            \* the path, chain code flag and environment of a signer
    Ephemerals,         \* the sums of the ephemeral polynomials of EdDSA
    MaxFailures,        \* a bound: so many parties fail in key generation
    Challenge(_, _)     \* SHA-512 of the point R, the public key and the message

Party == 1 .. N
Absent == -1        \* an option that is not given
Empty == -2         \* the empty string
MaybeCode == Field \cup {Absent, Empty}

ASSUME SharedKeyAssumption ==
    /\ N \in 2 .. Q - 1
    /\ Degrees \subseteq 1 .. N - 1
    /\ Coefficients \cup Ephemerals \subseteq Seq(Field)
    /\ \A t \in Degrees, c \in Coefficients : t < Len(c)
    /\ \A e \in Ephemerals : N <= Len(e)
    /\ MaxFailures \in Nat
    /\ ChainCodes \in [Party -> Field]
    /\ ShortCoords \subseteq Field
    /\ Options \subseteq [path : Seq(Nat), flag : MaybeCode, env : MaybeCode]

\* The hashes are taken as scalars.
ASSUME HashAssumption ==
    /\ \A R, key \in Field : Challenge(R, key) \in Field
    /\ \A code, key \in Field, o \in Options : \A l \in DOMAIN o.path :
           Hmac(code, key, o.path[l]) \in [left : Field, right : Field]

NoFile == [id |-> 0]
NoSession == [signers |-> <<>>]
KeyBytesLen == 32   \* AES_KEY_BYTES_LEN

VARIABLES
    curve,      \* "ECDSA" or "EdDSA"
    poly,       \* the polynomial of each party: its secret, then random coefficients
    stage,      \* how far a party is, or that a check "stopped" it or that it "failed"
    posted,     \* the rounds whose broadcast a party has posted, from the opened keys on
    boxes,      \* the encrypted shares posted: sender, receiver, key and plaintext
    shares,     \* the shares a party has decrypted or kept, by number
    file,       \* the key file of each party
    session,    \* the signing: by number, who signs and for which child key
    result      \* how far each number is with the signing

keygenVars == <<poly, stage, posted, boxes, shares, file>>
allVars == <<curve, keygenVars, session, result>>

Degree == Len(poly[1]) - 1

\* The sum of the polynomials, of which nobody knows more than a point.
SumPoly == [c \in DOMAIN poly[1] |-> SumMod([p \in Party |-> poly[p][c]])]

\* A key that is zero, a share that is zero, a sum of a lower degree and a point
\* that happens to lie on the line through fewer have a probability of 1/Q and are
\* left out.
IsGeneric ==
    /\ SumPoly[Degree + 1] # 0
    /\ \A i \in 0 .. N : Eval(SumPoly, i) # 0
    /\ \A S \in SUBSET Party : Cardinality(S) \in 1 .. Degree - 1 =>
           Recover([i \in S |-> Eval(SumPoly, i)]) # SumPoly[1]

Init ==
    /\ curve \in {"ECDSA", "EdDSA"}
    /\ \E t \in Degrees :
           poly \in [Party -> {SubSeq(c, 1, t + 1) : c \in Coefficients}]
    /\ IsGeneric
    /\ stage \in {[p \in Party |-> s] :
                     s \in IF curve = "ECDSA" THEN {"opened keys", "old file"} ELSE {"opened keys"}}
    /\ posted = [p \in Party |-> IF stage[p] = "opened keys" THEN {"round2"} ELSE {}]
    /\ boxes = {}
    /\ shares = [p \in Party |-> <<>>]
    /\ file = [p \in Party |-> NoFile]
    /\ session = NoSession
    /\ result = <<>>

-----------------------------------------------------------------------------
(***************************************************************************)
(* Key generation, after the public keys y_i have been opened.              *)
(***************************************************************************)

\* Faulty variant: EdDSA does not pad the bytes either.
KeyBytesUnpadded(x) ==
    [value |-> x, length |-> IF x \in ShortCoords THEN KeyBytesLen - 1 ELSE KeyBytesLen]

\* The bytes of a big integer, which EdDSA pads with leading zeros.
KeyBytes(x) ==
    [value  |-> x,
     length |-> IF curve = "ECDSA" /\ x \in ShortCoords THEN KeyBytesLen - 1 ELSE KeyBytesLen]

\* The x-coordinate of y_i * u_p, which i computes as y_p * u_i.
SharedCoord(p, i) == XCoord((poly[i][1] * poly[p][1]) % Q)

\* Faulty variant: the own position is not skipped.
EncKeysUnskipped(p) == [j \in 1 .. N - 1 |-> KeyBytes(SharedCoord(p, j))]

\* enc_keys: of the others in their order, the key shared with each.
EncKeys(p) ==
    [j \in 1 .. N - 1 |->
        LET other == IF j < p THEN j ELSE j + 1
        IN  KeyBytes(SharedCoord(p, other))]

\* The j that the loops over the parties have reached at party i.
Counter(p, i) == IF i < p THEN i ELSE i - 1

\* secret_shares[k]
SecretShare(p, i) == Eval(poly[p], i)

\* Key::from_slice panics on any other length.
FitsKey(key) == key.length = KeyBytesLen

Box(p, i) ==
    [from |-> p, to |-> i, key |-> EncKeys(p)[Counter(p, i)], plaintext |-> SecretShare(p, i)]

\* Whom p can encrypt no share for, and to whom it gets before the first of them.
Unreachable(p) == {i \in Party \ {p} : ~ FitsKey(Box(p, i).key)}
Reachable(p) == {i \in Party \ {p} : \A b \in Unreachable(p) : i < b}

\* p encrypts and posts the shares one after the other.
DealShares(p) ==
    /\ stage[p] = "opened keys"
    /\ boxes' = boxes \cup {Box(p, i) : i \in Reachable(p)}
    /\ stage' = [stage EXCEPT ![p] = IF Unreachable(p) = {} THEN "dealt" ELSE "stopped"]
    /\ UNCHANGED <<poly, posted, shares, file>>

BoxesFrom(p, i) == {b \in boxes : b.from = i /\ b.to = p}

\* aes_decrypt of the share of i, which panics if the key is another.
Decrypts(p, i) == \A b \in BoxesFrom(p, i) : b.key = EncKeys(p)[Counter(p, i)]
Decrypted(p, i) == (CHOOSE b \in BoxesFrom(p, i) : TRUE).plaintext

\* Faulty variant: the own share is not put among those of the others.
PartySharesOfOthers(p) == [i \in Party \ {p} |-> Decrypted(p, i)]

\* party_shares
PartyShares(p) == [i \in Party |-> IF i = p THEN SecretShare(p, p) ELSE Decrypted(p, i)]

\* p has all the shares, decrypts them and posts its VSS commitments.
OpenShares(p) ==
    LET others == Party \ {p}
        opened == \A i \in others : Decrypts(p, i)
    IN  /\ stage[p] = "dealt"
        /\ \A i \in others : BoxesFrom(p, i) # {}
        /\ shares' = [shares EXCEPT ![p] = IF opened THEN PartyShares(p) ELSE <<>>]
        /\ posted' = [posted EXCEPT ![p] = IF opened THEN @ \cup {"round4"} ELSE @]
        /\ stage' = [stage EXCEPT ![p] = IF opened THEN "opened shares" ELSE "stopped"]
        /\ UNCHANGED <<poly, boxes, file>>

\* Faulty variant: the loop runs over 1..n, which in Rust leaves out n.
AllPostedButLast(round) == \A i \in Party \ {N} : round \in posted[i]

\* The broadcasts of a round are there, whatever has become of their senders since.
AllPosted(round) == \A i \in Party : round \in posted[i]

\* p has all the VSS commitments, compares its shares with them and posts the
\* proof that it knows its share of the key.
CheckShares(p) ==
    LET valid == \A i \in Party : shares[p][i] = Eval(poly[i], p)
    IN  /\ stage[p] = "opened shares"
        /\ AllPosted("round4")
        /\ posted' = [posted EXCEPT ![p] = IF valid THEN @ \cup {"round5"} ELSE @]
        /\ stage' = [stage EXCEPT ![p] = IF valid THEN "proven" ELSE "stopped"]
        /\ UNCHANGED <<poly, boxes, shares, file>>

\* Faulty variant: the fold over the tail does not start from the head.
YSumOfTail == SumMod([i \in Party \ {1} |-> poly[i][1]])

\* y_sum
YSum == SumMod([i \in Party |-> poly[i][1]])

\* The chain code: exchanged by all and added up.
SharedChainCode == SumMod(ChainCodes)

\* The key file: chain code, share of the key, number, commitments, public key.
KeyFile(p, code, x) == [id |-> p, code |-> code, x |-> x, vss |-> poly, y |-> YSum]

\* x_i
ShareOfKey(p) == SumMod(shares[p])

\* p has all the proofs, which honest parties make right, and saves its key.
WriteFile(p) ==
    /\ stage[p] = "proven"
    /\ AllPosted("round5")
    /\ file' = [file EXCEPT ![p] = KeyFile(p, SharedChainCode, ShareOfKey(p))]
    /\ stage' = [stage EXCEPT ![p] = "key file"]
    /\ UNCHANGED <<poly, posted, boxes, shares>>

\* convert_store_file: the file of an earlier release has no chain code; it used
\* the generator, which is 1 times the generator.
Convert(p) ==
    /\ stage[p] = "old file"
    /\ file' = [file EXCEPT ![p] = KeyFile(p, 1, Eval(SumPoly, p))]
    /\ stage' = [stage EXCEPT ![p] = "key file"]
    /\ UNCHANGED <<poly, posted, boxes, shares>>

KeygenStep(p) ==
    /\ \/ DealShares(p)
       \/ OpenShares(p)
       \/ CheckShares(p)
       \/ WriteFile(p)
       \/ Convert(p)
    /\ UNCHANGED <<curve, session, result>>

\* p ends at any point before it has a key file: a poll runs out of time, a request
\* or the writing of the file fails, a proof is found to be bad, or the process is
\* killed.  What it has posted stays, and of its shares there may be only some.
Fail(p) ==
    /\ stage[p] \notin {"key file", "stopped", "failed"}
    /\ Cardinality({r \in Party : stage[r] = "failed"}) < MaxFailures
    /\ stage' = [stage EXCEPT ![p] = "failed"]
    /\ \/ UNCHANGED boxes
       \/ /\ stage[p] = "opened keys"
          /\ \E last \in Reachable(p) :
                 boxes' = boxes \cup {Box(p, i) : i \in {j \in Reachable(p) : j <= last}}
    /\ UNCHANGED <<curve, poly, posted, shares, file, session, result>>

-----------------------------------------------------------------------------
(***************************************************************************)
(* The public key at a path.                                                *)
(***************************************************************************)

\* What main passes on: the flag, or else the environment.
ChainCodeGiven(o) == IF o.flag # Absent THEN o.flag ELSE o.env

\* ECDSA prefers what is given, if anything, to the file; EdDSA does not look at it.
ChainCodeOf(p, o) ==
    IF curve = "ECDSA" /\ ChainCodeGiven(o) \notin {Absent, Empty}
    THEN ChainCodeGiven(o) ELSE file[p].code

\* update_hd_derived_public_key
ClearCofactor(key) == (((key * Reciprocal(8 % Q)) % Q) * 8) % Q

\* What `pubkey` prints for the options o, and the tweak to reach it from the root.
Child(p, o) ==
    LET hd == HdKey(file[p].y, o.path, ChainCodeOf(p, o))
    IN  [key   |-> IF curve = "EdDSA" /\ o.path # <<>> THEN ClearCofactor(hd.key) ELSE hd.key,
         tweak |-> hd.tweak]

-----------------------------------------------------------------------------
(***************************************************************************)
(* Signing.  Numbers 1, 2, ... are those of the signup; session.signers has *)
(* the fragment of each, as SigningSession!SignersAreTheNumbered says.      *)
(***************************************************************************)
Numbers == DOMAIN session.signers
Id(i) == session.signers[i]
Ids == {Id(i) : i \in Numbers}
ChildOf(i) == session.child[i]

\* The parties with a key file, which need not be all the parties of the key.
Holders == {p \in Party : file[p] # NoFile}

\* A room of t+1 signers or, for ECDSA, with some too many.  The threshold t is given
\* anew with every signing and compared with nothing: it may be 0, and below or above
\* that of the key.  EdDSA shares an ephemeral polynomial of degree t.
StartSigning ==
    /\ session = NoSession
    /\ \E n \in 1 .. N :
           \E signers \in [1 .. n -> Holders], eph \in {SubSeq(e, 1, n) : e \in Ephemerals} :
               /\ \A i, j \in 1 .. n : i # j => signers[i] # signers[j]
               /\ \E options \in [1 .. n -> Options] :
                      session' = [signers |-> signers,
                                  child   |-> [i \in 1 .. n |-> Child(signers[i], options[i])],
                                  eph     |-> eph]
               /\ result' = [i \in 1 .. n |-> "started"]
    /\ UNCHANGED <<curve, keygenVars>>

\* Faulty variant: only the leader, number 1, moves its share.
ShareAtPathOfLeader(i) ==
    (file[Id(i)].x + IF i = 1 THEN ChildOf(i).tweak ELSE 0) % Q

\* update_private_key: everybody moves its share by the tweak.
ShareAtPath(i) == (file[Id(i)].x + ChildOf(i).tweak) % Q

\* w_i
EcdsaShare(i) == (Lagrange(Id(i), Ids) * ShareAtPath(i)) % Q

\* The first commitment of the first party of the key is moved by the tweak,
\* whoever is the leader: only the sum over the parties matters.
VssAtPath(i) == [file[Id(i)].vss EXCEPT ![1][1] = (@ + ChildOf(i).tweak) % Q]

\* get_commitments_to_xi: the public share of party p of the key.
PublicShare(vss, p) == SumMod([k \in Party |-> Eval(vss[k], p)])

\* g_w_i, as number i computes it for number j.
ExpectedShare(i, j) == (Lagrange(Id(j), Ids) * PublicShare(VssAtPath(i), Id(j))) % Q

\* R, k, gamma_i
EphR == session.eph[1]
EddsaChallenge(i) == Challenge(EphR, ChildOf(i).key)
LocalSig(i) == (Eval(session.eph, Id(i)) + EddsaChallenge(i) * file[Id(i)].x) % Q

\* verify_local_sigs: against the commitments, with the challenge of the first.
ExpectedLocalSig(i, j) ==
    (Eval(session.eph, Id(j)) + EddsaChallenge(1) * PublicShare(file[Id(i)].vss, Id(j))) % Q

\* Faulty variant: the contributions of the others are not compared.
RejectsNever(i) == FALSE

\* The assertion on g_w_i, or verify_local_sigs, which takes no fewer than t+1.
Rejects(i) ==
    IF curve = "ECDSA"
    THEN \E j \in Numbers \ {i} : EcdsaShare(j) # ExpectedShare(i, j)
    ELSE \/ Cardinality(Ids) <= Degree
         \/ \E j \in Numbers : LocalSig(j) # ExpectedLocalSig(i, j)

\* The discrete logarithm of what the signature verifies under, for ECDSA, and s
\* with the tweak of update_signature, for EdDSA.
EcdsaSecret == SumMod([i \in Numbers |-> EcdsaShare(i)])

SigOf(i) == CHOOSE s \in Field :
    s = (SumMod([j \in Numbers |-> Lagrange(Id(j), Ids) * LocalSig(j)])
         + ChildOf(i).tweak * EddsaChallenge(i)) % Q

Verifies(i) ==
    IF curve = "ECDSA"
    THEN EcdsaSecret = ChildOf(i).key
    ELSE SigOf(i) = (EphR + EddsaChallenge(i) * ChildOf(i).key) % Q

\* The ephemeral polynomial is of a higher degree than those of the key.  How many of
\* its commitments verify_local_sigs then adds to those of the key is the library's.
EphemeralOutgrowsKey == curve = "EdDSA" /\ Len(session.eph) > Degree + 1

CheckContributions ==
    /\ session # NoSession
    /\ \A i \in Numbers : result[i] = "started"
    /\ \/ result' = [i \in Numbers |-> IF Rejects(i) THEN "stopped" ELSE "checked"]
       \/ /\ EphemeralOutgrowsKey
          /\ result' = [i \in Numbers |-> "stopped"]
    /\ UNCHANGED <<curve, keygenVars, session>>

\* ECDSA needs seven more rounds with everybody; EdDSA has all it needs.
FinishSigning ==
    /\ session # NoSession
    /\ \E i \in Numbers : result[i] = "checked"
    /\ curve = "ECDSA" => \A i \in Numbers : result[i] = "checked"
    /\ result' = [i \in Numbers |->
                     IF result[i] = "checked" /\ Verifies(i) THEN "signed" ELSE "stopped"]
    /\ UNCHANGED <<curve, keygenVars, session>>

Next ==
    \/ \E p \in Party : KeygenStep(p) \/ Fail(p)
    \/ StartSigning
    \/ CheckContributions
    \/ FinishSigning

Fairness == \A p \in Party : WF_allVars(KeygenStep(p))

Spec == Init /\ [][Next]_allVars /\ Fairness

-----------------------------------------------------------------------------
(***************************************************************************)
(* Properties.                                                              *)
(***************************************************************************)

\* Every variable has its type.
TypeOK ==
    /\ curve \in {"ECDSA", "EdDSA"}
    /\ \A p \in Party : Len(poly[p]) = Degree + 1 /\ poly[p] \in Seq(Field)
    /\ stage \in [Party -> {"opened keys", "dealt", "opened shares", "proven", "key file",
                            "old file", "stopped", "failed"}]
    /\ posted \in [Party -> SUBSET {"round2", "round4", "round5"}]
    /\ \A b \in boxes : b.from \in Party /\ b.to \in Party /\ b.plaintext \in Field
    /\ \A p \in Party : shares[p] \in {<<>>} \cup [Party -> Field]
    /\ \A p \in Party : file[p] # NoFile => file[p].x \in Field /\ file[p].y \in Field
    /\ Len(result) = Len(session.signers)

\* The key files fit together: the shares in those of any t+1 parties recover the
\* secret of the public key that every file holds, and t of them do not.
QuorumRecovers ==
    \A S \in SUBSET Holders \ {{}} :
        \A p \in S :
            /\ Cardinality(S) > Degree => file[p].y = Recover([i \in S |-> file[i].x])
            /\ Cardinality(S) = Degree => file[p].y # Recover([i \in S |-> file[i].x])

\* A party may fail after its last message and never get a key file that the others
\* go on to write.  But nobody writes one before every party has got to its share and
\* proved it: whoever has failed by then had checked what all the others dealt it.
NoFileWithoutShares ==
    \A p \in Party : file[p] # NoFile /\ posted[p] # {} =>
        \A r \in Party : /\ "round5" \in posted[r]
                         /\ shares[r] = [i \in Party |-> Eval(poly[i], r)]

\* Who stops in key generation shares a short key with another: sender and receiver
\* of a share find the same key, though each counts the others without itself, and
\* what is decrypted agrees with the commitments.  EdDSA never stops.
OnlyShortKeysStop ==
    \A p \in Party : stage[p] = "stopped" =>
        /\ curve = "ECDSA"
        /\ \E i \in Party \ {p} : SharedCoord(p, i) \in ShortCoords

\* Everybody gets a key file, unless it fails itself, or somebody else fails or, for
\* ECDSA, stops before its last message: to fail after it keeps nobody from the file.
KeygenCompletes ==
    \A p \in Party :
        <>(\/ stage[p] \in {"key file", "failed"}
           \/ \E r \in Party :
                  /\ "round5" \notin posted[r]
                  /\ stage[r] = "failed" \/ (curve = "ECDSA" /\ stage[r] = "stopped"))

SignersAgree == \A i, j \in Numbers : ChildOf(i).key = ChildOf(j).key

\* The checks of the protocol raise no false alarm: if more signers than the
\* threshold of the key, and for EdDSA just one more, came for the same child key,
\* whatever options led each to it, in whatever order they signed up and whichever
\* fragments they hold, then nobody stops, and the signature verifies under the key
\* that `pubkey` prints.
AgreedSignersSign ==
    Len(session.signers) > Degree /\ SignersAgree /\ ~ EphemeralOutgrowsKey
    => \A i \in Numbers : result[i] # "stopped"

\* A room takes signers for different child keys, since only the message names it,
\* and with too small a threshold: no signature ever comes of that, for nobody.
OnlyAgreedSignersSign ==
    (\E i \in Numbers : result[i] = "signed")
    => Len(session.signers) > Degree /\ SignersAgree

=============================================================================
