--------------------------- MODULE TaggedExchange ---------------------------
(***************************************************************************)
(* The all-to-all exchange that wf4 writes out four times over             *)
(* net.sendTagged / net.recieveTagged:                                     *)
(*                                                                         *)
(*   SendNewEdges                  tag++ after the receives, no barrier    *)
(*   ExchangePartialSets           tag++ after the receives, then barrier  *)
(*   RemoveNodesFromRemotes        tag++ after the receives, then barrier  *)
(*   ExchangeMostInfluentialNodes  barrier, then tag++                     *)
(*                                                                         *)
(* A call sends one message to every other host, then spins until it has   *)
(* received N-1 messages carrying the current tag.  It counts messages: it *)
(* never checks who sent them, and a message lands in the slot of its      *)
(* sender, whatever the slot held.  What keeps a message of the next call  *)
(* out of the count of this one is the tag (and, where there is one, the   *)
(* barrier).                                                               *)
(*                                                                         *)
(* The payload of a message is abstracted to the number of the call it was *)
(* sent in.  The network (galois::runtime::NetworkInterface) is external:  *)
(* reliable, no duplication, no order between messages.                    *)
(***************************************************************************)
EXTENDS Naturals, FiniteSets

CONSTANTS Host,      \* hosts of the run
          Rounds,    \* how many times the exchange is called (a bound)
          BaseTag    \* initial value of the static tag counter

\* How a call ends, see above.
Endings == {"tag", "tag_barrier", "barrier_tag"}

ASSUME HostAssumption == IsFiniteSet(Host)
ASSUME RoundsAssumption == Rounds \in Nat
ASSUME BaseTagAssumption == BaseTag \in Nat

VARIABLES
  pc,       \* "out" of the call, "in" it, or waiting at its "barrier"
  round,    \* number of the call the host is in, or was last in
  tag,      \* the static uint32_t counter of the host's process
  toSend,   \* hosts the send loop has not reached yet
  slot,     \* slot[h][g]: call whose message sits in the slot of sender g
            \* (incoming_edges[sending_host], ...), 0 while it is empty
  got,      \* how many messages the receive loop has counted
  net,      \* messages sent and not yet received
  arrived,  \* arrived[h]: how often h has reached the host barrier
  ending    \* which form of the exchange this is; never changes

vars == <<pc, round, tag, toSend, slot, got, net, arrived, ending>>

Others(h) == Host \ {h}

EmptySlots == [g \in Host |-> 0]

Message == [from : Host, to : Host, tag : Nat, round : 1..Rounds]

TypeOK ==
  /\ pc \in [Host -> {"out", "in", "barrier"}]
  /\ round \in [Host -> 0..Rounds]
  /\ tag \in [Host -> BaseTag .. BaseTag + Rounds]
  /\ toSend \in [Host -> SUBSET Host]
  /\ slot \in [Host -> [Host -> 0..Rounds]]
  /\ got \in [Host -> 0..Cardinality(Host)]
  /\ net \subseteq Message
  /\ arrived \in [Host -> 0..Rounds]
  /\ ending \in Endings

Init ==
  /\ pc = [h \in Host |-> "out"]
  /\ round = [h \in Host |-> 0]
  /\ tag = [h \in Host |-> BaseTag]
  /\ toSend = [h \in Host |-> {}]
  /\ slot = [h \in Host |-> EmptySlots]
  /\ got = [h \in Host |-> 0]
  /\ net = {}
  /\ arrived = [h \in Host |-> 0]
  /\ ending \in Endings
-----------------------------------------------------------------------------
\* Mutants: the tag stays, the tag moves twice.
NextTagSame(t) == t
NextTagTwice(t) == t + 2

\* The value of the tag counter after the call (SEND_NEW_EDGES++).
NextTag(t) == t + 1

\* Mutant: one message too few.
ExpectedLess == Cardinality(Host) - 2

\* How many messages the receive loop waits for: h < num_hosts - 1.
Expected == Cardinality(Host) - 1

\* recieveTagged hands out a message to this host that carries its tag.
Matches(h, m) == m.to = h /\ m.tag = tag[h]

\* getHostBarrier().wait() returns once every host has reached it as often.
BarrierOpen(h) == \A g \in Host : arrived[g] >= arrived[h]

\* The call starts with fresh slots, a vector local to the call.
Enter(h) ==
  /\ pc[h] = "out"
  /\ round[h] < Rounds
  /\ pc' = [pc EXCEPT ![h] = "in"]
  /\ round' = [round EXCEPT ![h] = @ + 1]
  /\ toSend' = [toSend EXCEPT ![h] = Others(h)]
  /\ slot' = [slot EXCEPT ![h] = EmptySlots]
  /\ got' = [got EXCEPT ![h] = 0]
  /\ UNCHANGED <<tag, net, arrived, ending>>

\* One iteration of the send loop.  The loop runs over h = 0..N-1; here in
\* any order, so that hosts stay interchangeable.
Send(h, g) ==
  /\ pc[h] = "in"
  /\ g \in toSend[h]
  /\ net' = net \cup
       {[from |-> h, to |-> g, tag |-> tag[h], round |-> round[h]]}
  /\ toSend' = [toSend EXCEPT ![h] = @ \ {g}]
  /\ UNCHANGED <<pc, round, tag, slot, got, arrived, ending>>

\* One iteration of the receive loop, the spinning of do ... while (!p)
\* included: a message is taken when there is one.
Receive(h, m) ==
  /\ pc[h] = "in"
  /\ toSend[h] = {}
  /\ got[h] # Expected
  /\ Matches(h, m)
  /\ net' = net \ {m}
  /\ slot' = [slot EXCEPT ![h][m.from] = m.round]
  /\ got' = [got EXCEPT ![h] = @ + 1]
  /\ UNCHANGED <<pc, round, tag, toSend, arrived, ending>>

\* The receive loop is over: the tag moves on, and the host leaves the call
\* or goes to the barrier, in the order of the variant.
EndReceive(h) ==
  /\ pc[h] = "in"
  /\ toSend[h] = {}
  /\ got[h] = Expected
  /\ tag' = [tag EXCEPT ![h] = IF ending = "barrier_tag" THEN @ ELSE NextTag(@)]
  /\ IF ending = "tag"
       THEN /\ pc' = [pc EXCEPT ![h] = "out"]
            /\ UNCHANGED arrived
       ELSE /\ pc' = [pc EXCEPT ![h] = "barrier"]
            /\ arrived' = [arrived EXCEPT ![h] = @ + 1]
  /\ UNCHANGED <<round, toSend, slot, got, net, ending>>

LeaveBarrier(h) ==
  /\ pc[h] = "barrier"
  /\ BarrierOpen(h)
  /\ pc' = [pc EXCEPT ![h] = "out"]
  /\ tag' = [tag EXCEPT ![h] = IF ending = "barrier_tag" THEN NextTag(@) ELSE @]
  /\ UNCHANGED <<round, toSend, slot, got, net, arrived, ending>>

\* The program has made its last call.
Finished == \A h \in Host : pc[h] = "out" /\ round[h] = Rounds

Terminated == Finished /\ UNCHANGED vars

HostStep(h) ==
  \/ Enter(h)
  \/ \E g \in Host : Send(h, g)
  \/ \E m \in net : Receive(h, m)
  \/ EndReceive(h)
  \/ LeaveBarrier(h)

Next == (\E h \in Host : HostStep(h)) \/ Terminated

\* Every host runs its own process and the network delivers: no step that
\* stays possible is put off for ever.
Fairness == \A h \in Host : WF_vars(HostStep(h))

Spec == Init /\ [][Next]_vars /\ Fairness
-----------------------------------------------------------------------------
\* Completed(h): the slots of h are those of a call whose receives are over.
Completed(h) == pc[h] # "in" /\ round[h] > 0

\* Every receive loop comes out with exactly one message of the call it
\* belongs to from every other host: no message of a later call was counted
\* in the place of a missing one (quiesce.cpp:349-358).
RoundPure ==
  \A h \in Host : Completed(h) =>
    \A g \in Others(h) : slot[h][g] = round[h]

\* Hosts are never more than one call apart, with or without the barrier:
\* two live values of the tag are all there can be.
OneRoundSkew ==
  \A g, h \in Host : round[g] <= round[h] + 1

\* No message is left behind when the last call returns: a later use of the
\* same tag numbers would count it.
NoOrphan == Finished => net = {}

\* Once a host is past the barrier of a call, nothing of that call or of an
\* earlier one is still in flight (influence_maximization.cpp:634).
BarrierSeparates ==
  ending # "tag" =>
    \A h \in Host : pc[h] = "out" => \A m \in net : m.round > round[h]

\* A receive never overwrites a filled slot: incoming_edges[sending_host] is
\* assigned at most once per call (quiesce.cpp:355-356).
SlotWrittenOnce ==
  [][\A h, g \in Host :
       slot[h][g] # 0 => slot'[h][g] \in {0, slot[h][g]}]_vars

\* Nobody waits for ever: all calls of all hosts return.
AllReturn == <>Finished

\* The exchange implements the abstract collective: a host has contributed
\* when it enters the call and has collected when its receive loop ends.
Collected == [h \in Host |-> IF pc[h] = "in" THEN round[h] - 1 ELSE round[h]]

Held == [h \in Host |-> IF pc[h] = "in" THEN EmptySlots ELSE slot[h]]

Abs == INSTANCE AllToAll WITH
  posted <- round, taken <- Collected, view <- Held

AbsSafety == Abs!AInit /\ [][Abs!ANext]_(Abs!avars)

AbsSpec == Abs!ASpec
=============================================================================
