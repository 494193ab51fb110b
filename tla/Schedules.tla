----------------------------- MODULE Schedules -----------------------------
(***************************************************************************)
(* The rounds of the four protocols of the program, in the order in which   *)
(* their drivers run them, and the pairs of rounds in which a commitment    *)
(* is made and opened.  A round is named by the string the driver passes to *)
(* broadcast, sendp2p and the polls.                                        *)
(***************************************************************************)
EXTENDS Sequences

ToAll(name)  == [name |-> name, kind |-> "broadcast"]
ToEach(name) == [name |-> name, kind |-> "p2p"]

\* Faulty variant: the rounds of the chain code are named like the others.
ChainCodeClash == <<ToAll("round0"), ToAll("round1")>>

\* generate_shared_chain_code: a proof of knowledge, then the code itself.
ChainCode == <<ToAll("round0_chain_code"), ToAll("round1_chain_code")>>

\* Faulty variant: the keys are opened first.
KeygenTailOpensEarly ==
    <<ToAll("round2"), ToAll("round1"), ToEach("round3"), ToAll("round4"), ToAll("round5")>>

\* Commitments to the keys, their openings, the encrypted shares, the VSS
\* commitments and the proofs of knowledge of the shares.
KeygenTail == <<ToAll("round1"), ToAll("round2"), ToEach("round3"), ToAll("round4"), ToAll("round5")>>

EcdsaKeygen == ChainCode \o KeygenTail
EddsaKeygen == ChainCode \o KeygenTail

\* The commitments of round1 are opened in round2.
KeygenReveals == {<<"round1", "round2">>}

\* Faulty variant: phase 5D is opened before the commitments of 5C are in.
EcdsaSignOpensEarly ==
    <<ToAll("round0"), ToAll("round1"), ToEach("round2"), ToAll("round3"), ToAll("round4"),
      ToAll("round5"), ToAll("round6"), ToAll("round8"), ToAll("round7"), ToAll("round9")>>

EcdsaSign ==
    <<ToAll("round0"),      \* the indices of the key fragments
      ToAll("round1"),      \* commitment to gamma_i, and MessageA
      ToEach("round2"),     \* the two MessageB
      ToAll("round3"),      \* delta_i
      ToAll("round4"),      \* the opening of gamma_i
      ToAll("round5"),      \* phase 5A commitment
      ToAll("round6"),      \* its opening and proofs
      ToAll("round7"),      \* phase 5C commitment
      ToAll("round8"),      \* its opening
      ToAll("round9")>>     \* the share of the signature

EcdsaSignReveals == {<<"round1", "round4">>, <<"round5", "round6">>, <<"round7", "round8">>}

\* run_signer with eph_keygen_t_n_parties.  The commitment to R_i, its blinding
\* factor and R_i itself travel in one message, so there is no pair to order.
EddsaSign ==
    <<ToAll("round0"),
      ToAll("eph_keygen_round1"),
      ToAll("eph_keygen_round2"),
      ToEach("eph_keygen_round3"),
      ToAll("eph_keygen_round4"),
      ToAll("round1_local_sig")>>

EddsaSignReveals == {}
=============================================================================
