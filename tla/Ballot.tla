-------------------------------- MODULE Ballot --------------------------------
(***************************************************************************)
(* The abstract promise of a quorum decision: a numbered list of ballots.  *)
(* A ballot is approved as soon as a yes vote completes its quorum,        *)
(* rejected as soon as a no vote makes the quorum unreachable, and an      *)
(* approval is used at most once.                                          *)
(***************************************************************************)
EXTENDS Integers, FiniteSets

CONSTANT Voter

VARIABLE ballots

Ids == DOMAIN ballots

Init == ballots = [id \in {} |-> {}]

\* A ballot opens with its proposer's yes and nothing else, whatever its
\* quorum; the ballots before it are left alone.
Open ==
  /\ DOMAIN ballots' = Ids \union {Cardinality(Ids) + 1}
  /\ \A id \in Ids : ballots'[id] = ballots[id]
  /\ LET b == ballots'[Cardinality(Ids) + 1] IN
       /\ b.outcome = "Active" /\ b.no = {} /\ b.quorum \in Nat
       /\ b.voters \subseteq Voter
       /\ \E proposer \in b.voters : b.yes = {proposer}

CanVote(v, id) ==
  /\ ballots[id].outcome = "Active"
  /\ v \in ballots[id].voters \ (ballots[id].yes \union ballots[id].no)

VoteYes(v, id) ==
  LET b   == ballots[id]
      yes == b.yes \union {v}
  IN /\ CanVote(v, id)
     /\ ballots' = [ballots EXCEPT ![id] =
          [voters |-> b.voters, quorum |-> b.quorum, yes |-> yes, no |-> b.no,
           outcome |-> IF Cardinality(yes) >= b.quorum THEN "Approved" ELSE b.outcome]]

VoteNo(v, id) ==
  LET b  == ballots[id]
      no == b.no \union {v}
  IN /\ CanVote(v, id)
     /\ ballots' = [ballots EXCEPT ![id] =
          [voters |-> b.voters, quorum |-> b.quorum, yes |-> b.yes, no |-> no,
           outcome |-> IF Cardinality(b.voters \ no) < b.quorum
                       THEN "Rejected" ELSE b.outcome]]

Use(id) ==
  LET b == ballots[id]
  IN /\ b.outcome = "Approved"
     /\ ballots' = [ballots EXCEPT ![id] =
          [voters |-> b.voters, quorum |-> b.quorum, yes |-> b.yes, no |-> b.no,
           outcome |-> "Executed"]]

Next ==
  \/ Open
  \/ \E v \in Voter, id \in Ids : VoteYes(v, id) \/ VoteNo(v, id)
  \/ \E id \in Ids : Use(id)

Spec == Init /\ [][Next]_ballots

==============================================================================
