-------------------------- MODULE SignupSignPrompt --------------------------
(***************************************************************************)
(* SignupSign under the conditions the program is meant to run in: every    *)
(* process is started by a given time, and a process that is alive is       *)
(* served at least once per second of the clock.  The loop of `signup`      *)
(* polls every 100 ms and the manager answers at once, so a second is ten   *)
(* times what a client needs; SignupSign itself lets a client be arbitrarily *)
(* slow.  Crashes stay possible.                                            *)
(***************************************************************************)
EXTENDS SignupSign

CONSTANT StartBy    \* by when every process has been started

ASSUME PromptAssumption == StartBy \in Nat

\* The manager has seen p during the current second.
HasPinged(p) ==
    /\ HasMember(room, PartyNumber[p], signup[p].party_uuid)
    /\ room.member_info[PartyNumber[p]].last_ping = now

Prompt(p) ==
    /\ pc[p] = "idle" => now < StartBy
    /\ pc[p] # "signup"
    /\ pc[p] \in {"sleep", "poll"} => HasPinged(p)

PromptTick ==
    /\ \A p \in Proc : Prompt(p)
    /\ Tick

PromptNext ==
    \/ \E q \in requests : Serve(q)
    \/ Expire
    \/ \E p \in Proc : Client(p)
    \/ PromptTick

\* The manager serves every request, a client goes on as long as it is alive,
\* and time passes.  Nothing has to expire, fail or crash.
Fairness ==
    /\ WF_vars(PromptTick)
    /\ \A p \in Proc :
          /\ WF_vars(\E q \in requests : q.proc = p /\ Serve(q))
          /\ WF_vars(Start(p))
          /\ WF_vars(Poll(p))
          /\ WF_vars(ReceiveSignup(p))
          /\ WF_vars(ReceivePoll(p))
          /\ WF_vars(ReceiveError(p))

PromptSpec == Init /\ [][PromptNext]_vars /\ Fairness

-----------------------------------------------------------------------------
\* What the signing rounds need of the signup: whoever is ready has a number
\* among 1..total, and total is the t+1 parties the room is for.  The rounds
\* poll every number from 1 to total and the EdDSA ones expect t+1 parties; a
\* number beyond total is never polled, and one nobody holds is polled in vain.
\* (A killed process, or one whose exchange fails, is counted for a while and then
\* no more.)  It is the timing that makes it so, and that all were given the same t.
SlotsFillTotal ==
    \A p \in Proc : crashes = 0 /\ faults = 0 /\ IsReady(p) =>
        /\ signup[p].total = RoomSize(p)
        /\ signup[p].number \in 1 .. RoomSize(p)

\* A process that signs up stops waiting: it gets the room's identity, or it
\* fails.  A missing party cannot hang it (TSS_CLI_SIGNUP_TIMEOUT).
NobodyHangs ==
    \A p \in Proc : pc[p] = "signup" ~> pc[p] \in {"ready", "panicked", "crashed"}

\* A process that has signed up never waits much longer than the time limit for
\* the count of parties to change: however the parties come, are replaced and go,
\* one whose last change is that long ago has failed or got the room's identity.
\* (The limit is in whole seconds, and a reply takes up to one.  A request that was
\* given up may still ping for its sender, and the answer to the one that replaced
\* it come a second later, so each failed exchange can add one.  Each change starts
\* the limit anew, so the whole wait has no such bound.)
WaitBounded ==
    \A p \in Proc :
        pc[p] \in {"sleep", "poll"} => now - signup[p].since <= ClientTimeout + 2 + faults

=============================================================================
