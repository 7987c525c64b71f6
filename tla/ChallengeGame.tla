----------------------------- MODULE ChallengeGame -----------------------------
(***************************************************************************)
(* What a hub promises to the two sides of a challenge: its bond is taken  *)
(* once, when the challenge is opened, and leaves once.  It is forfeited   *)
(* if the actor answers within Duration; it goes back to the challenger if *)
(* the actor is slashed after Duration, in the same epoch; if the DAO      *)
(* slashes the actor first; or in a later epoch, when the challenge can no *)
(* longer have a consequence for the actor.  These are the stages          *)
(* "Forfeited", "Slashed", "Superseded" and "Reclaimed".                   *)
(***************************************************************************)
EXTENDS Integers

CONSTANTS Challenges, Duration, EpochLength

VARIABLES clock, stage, openedAt

vars == <<clock, stage, openedAt>>

Epoch(t) == t \div EpochLength

Init ==
    /\ clock = 0
    /\ stage = [c \in Challenges |-> "None"]
    /\ openedAt = [c \in Challenges |-> 0]

Open(c) ==
    /\ stage[c] = "None"
    /\ stage' = [stage EXCEPT ![c] = "Open"]
    /\ openedAt' = [openedAt EXCEPT ![c] = clock]
    /\ UNCHANGED clock

Close(c, outcome) ==
    /\ stage[c] = "Open"
    /\ stage' = [stage EXCEPT ![c] = outcome]
    /\ UNCHANGED <<clock, openedAt>>

SameEpoch(c) == Epoch(openedAt[c]) = Epoch(clock)

Answer(c) ==
    /\ SameEpoch(c) /\ clock <= openedAt[c] + Duration
    /\ Close(c, "Forfeited")

Slash(c) ==
    /\ SameEpoch(c) /\ clock > openedAt[c] + Duration
    /\ Close(c, "Slashed")

SlashedByDAO(c) == SameEpoch(c) /\ Close(c, "Superseded")

Reclaim(c) == ~SameEpoch(c) /\ Close(c, "Reclaimed")

Advance ==
    /\ clock' = clock + 1
    /\ UNCHANGED <<stage, openedAt>>

Next ==
    \/ Advance
    \/ \E c \in Challenges :
          Open(c) \/ Answer(c) \/ Slash(c) \/ SlashedByDAO(c) \/ Reclaim(c)

Spec == Init /\ [][Next]_vars

===============================================================================
