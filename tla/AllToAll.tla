------------------------------ MODULE AllToAll ------------------------------
(***************************************************************************)
(* What one family of tagged messages promises to the wf4 pipeline: a      *)
(* sequence of collective rounds.  In round r every host hands in one      *)
(* contribution for every other host, and comes out of the round holding   *)
(* exactly the contributions that the others made to round r.              *)
(*                                                                         *)
(* TaggedExchange implements this specification with point-to-point        *)
(* messages; RRRSets and Influence use it as their communication layer.    *)
(***************************************************************************)
EXTENDS Naturals

CONSTANTS Host,    \* the hosts (galois net.ID values)
          Rounds   \* how many collective calls the program makes

VARIABLES posted,  \* posted[h]: rounds to which h has contributed
          taken,   \* taken[h]: rounds whose contributions h has collected
          view     \* view[h][g]: round of the contribution of g that h holds

avars == <<posted, taken, view>>

\* A host that holds nothing.
Nothing == [g \in Host |-> 0]

\* What host h holds when it comes out of round r.
RoundOf(h, r) == [g \in Host |-> IF g = h THEN 0 ELSE r]

ATypeOK ==
  /\ posted \in [Host -> 0..Rounds]
  /\ taken \in [Host -> 0..Rounds]
  /\ view \in [Host -> [Host -> 0..Rounds]]

AInit ==
  /\ posted = [h \in Host |-> 0]
  /\ taken = [h \in Host |-> 0]
  /\ view = [h \in Host |-> Nothing]

\* A host enters its next round.
Post(h) ==
  /\ posted[h] = taken[h]
  /\ posted[h] < Rounds
  /\ posted' = [posted EXCEPT ![h] = @ + 1]
  /\ view' = [view EXCEPT ![h] = Nothing]
  /\ UNCHANGED taken

\* A host leaves its round: everybody has contributed to that round.
Take(h) ==
  /\ taken[h] < posted[h]
  /\ \A g \in Host : posted[g] >= posted[h]
  /\ taken' = [taken EXCEPT ![h] = posted[h]]
  /\ view' = [view EXCEPT ![h] = RoundOf(h, posted[h])]
  /\ UNCHANGED posted

ANext == \E h \in Host : Post(h) \/ Take(h)

AFairness == \A h \in Host : WF_avars(Post(h) \/ Take(h))

ASpec == AInit /\ [][ANext]_avars /\ AFairness
=============================================================================
