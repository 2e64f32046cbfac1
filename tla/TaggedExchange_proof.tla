------------------------ MODULE TaggedExchange_proof ------------------------
(***************************************************************************)
(* Proofs about TaggedExchange for every finite set of hosts, every number *)
(* of calls, every base tag and each of the three endings.                 *)
(*                                                                         *)
(* The argument.  A message of call r carries the tag BaseTag + r - 1, and *)
(* a host receives with that tag exactly while it is in its call r.  So a  *)
(* received message belongs to the call of the receiver; because the slot  *)
(* of its sender was still empty, N-1 received messages fill N-1 different *)
(* slots, that is all of them.                                             *)
(***************************************************************************)
EXTENDS TaggedExchange, FiniteSetTheorems, TLAPS

\* Host f has handed its message of call r for host t to the network.
Sent(f, t, r) ==
  \/ r < round[f]
  \/ r = round[f] /\ ~(pc[f] = "in" /\ t \in toSend[f])

\* Host t has the message of call r of host f.
Got(t, f, r) ==
  \/ r < round[t]
  \/ r = round[t] /\ (pc[t] # "in" \/ slot[t][f] # 0)

\* Whether host h has not yet moved its tag past its current call.
TagPending(h) ==
  pc[h] = "in" \/ (pc[h] = "barrier" /\ ending = "barrier_tag")

Filled(h) == {g \in Host : slot[h][g] # 0}

InvPc == \A h \in Host :
  /\ pc[h] # "out" => round[h] > 0
  /\ toSend[h] \subseteq Others(h)
  /\ ending = "tag" => pc[h] # "barrier"

InvTag == \A h \in Host :
  tag[h] = IF TagPending(h) THEN BaseTag + round[h] - 1 ELSE BaseTag + round[h]

InvNet == \A m \in net :
  /\ m.from # m.to
  /\ m.tag = BaseTag + m.round - 1
  /\ Sent(m.from, m.to, m.round)
  /\ ~Got(m.to, m.from, m.round)

InvGot == \A f, t \in Host, r \in 1..Rounds :
  f # t /\ Got(t, f, r) => Sent(f, t, r)

InvSlot == \A h \in Host : pc[h] = "in" =>
  /\ \A g \in Host : slot[h][g] \in {0, round[h]}
  /\ slot[h][h] = 0
  /\ got[h] = Cardinality(Filled(h))

InvArrived == \A h \in Host :
  /\ ending # "tag" =>
       arrived[h] = IF pc[h] = "in" THEN round[h] - 1 ELSE round[h]
  /\ ending # "tag" /\ pc[h] = "out" => \A g \in Host : arrived[g] >= round[h]

IInv ==
  /\ TypeOK
  /\ InvPc
  /\ InvTag
  /\ InvNet
  /\ InvGot
  /\ InvSlot
  /\ InvArrived
  /\ RoundPure
-----------------------------------------------------------------------------
USE HostAssumption, RoundsAssumption, BaseTagAssumption DEF Endings

\* The number of hosts is a natural number, and N-1 is what is left when a
\* host is taken out.
LEMMA HostCount ==
  /\ Cardinality(Host) \in Nat
  /\ \A h \in Host : IsFiniteSet(Others(h))
                    /\ Cardinality(Others(h)) = Cardinality(Host) - 1
BY FS_CardinalityType, FS_RemoveElement DEF Others

\* When the receive loop has counted N-1 messages, every slot but the own
\* one is filled: the count is the number of filled slots.
LEMMA AllFilled ==
  ASSUME IInv, NEW h \in Host, pc[h] = "in", got[h] = Expected,
         NEW g \in Others(h)
  PROVE  slot[h][g] = round[h]
<1>1. /\ Filled(h) \subseteq Others(h)
      /\ Cardinality(Filled(h)) = Cardinality(Others(h))
  BY HostCount DEF IInv, InvSlot, Filled, Others, Expected
<1>2. Filled(h) = Others(h)
  BY <1>1, HostCount, FS_Subset
<1>3. QED
  BY <1>2 DEF IInv, InvSlot, Filled, Others

\* The message a host may receive was sent in the call the host is in.
LEMMA ReceivedRound ==
  ASSUME IInv, NEW h \in Host, NEW m \in net, pc[h] = "in", Matches(h, m)
  PROVE  /\ m \in Message
         /\ m.round = round[h]
         /\ m.from \in Others(h)
         /\ slot[h][m.from] = 0
         /\ Sent(m.from, h, round[h])
<1>1. /\ m \in Message
      /\ m.from # h
      /\ m.tag = BaseTag + m.round - 1
      /\ Sent(m.from, h, m.round)
      /\ ~Got(h, m.from, m.round)
  BY DEF IInv, InvNet, TypeOK, Matches
<1>2. m.tag = BaseTag + round[h] - 1
  BY DEF IInv, InvTag, TagPending, Matches
<1>3. m.round = round[h]
  BY <1>1, <1>2 DEF IInv, TypeOK, Message
<1>4. QED
  BY <1>1, <1>3 DEF Got, Message, Others

LEMMA InitIInv == Init => IInv
<1> SUFFICES ASSUME Init PROVE IInv
  OBVIOUS
<1>1. TypeOK
  BY HostCount DEF Init, TypeOK, EmptySlots
<1>2. InvPc /\ InvTag /\ InvNet /\ InvGot /\ InvSlot /\ InvArrived /\ RoundPure
  BY DEF Init, InvPc, InvTag, TagPending, InvNet, InvGot, Got, Sent, InvSlot,
         InvArrived, RoundPure, Completed
<1>3. QED
  BY <1>1, <1>2 DEF IInv

LEMMA EnterIInv ==
  ASSUME IInv, NEW h \in Host, Enter(h)
  PROVE  IInv'
<1> USE DEF Enter, IInv
<1>1. TypeOK'
  BY HostCount DEF TypeOK, Others, EmptySlots
<1>2. InvPc'
  BY DEF InvPc, TypeOK
<1>3. InvTag'
  BY DEF InvTag, TagPending, TypeOK
<1>4. \A f, t \in Host, r \in 1..Rounds :
        /\ Sent(f, t, r) => Sent(f, t, r)'
        /\ Got(t, f, r)' <=> Got(t, f, r)
  <2> TAKE f, t \in Host, r \in 1..Rounds
  <2>1. Sent(f, t, r) => Sent(f, t, r)'
    BY DEF Sent, TypeOK
  <2>2. CASE t = h
    <3>1. /\ round'[h] = round[h] + 1 /\ round[h] \in Int /\ r \in Int
          /\ pc[h] = "out" /\ pc'[h] = "in"
          /\ slot'[h][f] = 0
      BY DEF TypeOK, EmptySlots
    <3>2. Got(h, f, r) <=> r <= round[h]
      BY <3>1 DEF Got
    <3>3. Got(h, f, r)' <=> r <= round[h]
      BY <3>1 DEF Got
    <3>4. QED
      BY <2>1, <2>2, <3>2, <3>3
  <2>3. CASE t # h
    BY <2>1, <2>3 DEF Got, TypeOK
  <2>4. QED
    BY <2>2, <2>3
<1>5. InvNet'
  BY <1>4 DEF InvNet, TypeOK, Message
<1>6. InvGot'
  BY <1>4 DEF InvGot
<1>7. InvSlot'
  <2> SUFFICES ASSUME NEW k \in Host, pc'[k] = "in"
               PROVE  /\ \A g \in Host : slot'[k][g] \in {0, round'[k]}
                      /\ slot'[k][k] = 0
                      /\ got'[k] = Cardinality(Filled(k)')
    BY DEF InvSlot
  <2>1. CASE k = h
    <3>1. slot'[h] = EmptySlots /\ got'[h] = 0
      BY DEF TypeOK
    <3>2. Filled(h)' = {}
      BY <3>1 DEF Filled, EmptySlots
    <3>3. QED
      BY <2>1, <3>1, <3>2, FS_EmptySet DEF EmptySlots
  <2>2. CASE k # h
    <3>1. slot'[k] = slot[k] /\ got'[k] = got[k] /\ round'[k] = round[k]
      BY <2>2 DEF TypeOK
    <3>2. Filled(k)' = Filled(k)
      BY <3>1 DEF Filled
    <3>3. QED
      BY <2>2, <3>1, <3>2 DEF InvSlot, TypeOK
  <2>3. QED
    BY <2>1, <2>2
<1>8. InvArrived'
  BY DEF InvArrived, TypeOK
<1>9. RoundPure'
  BY DEF RoundPure, Completed, TypeOK, Others
<1>10. QED
  BY <1>1, <1>2, <1>3, <1>5, <1>6, <1>7, <1>8, <1>9

LEMMA SendIInv ==
  ASSUME IInv, NEW h \in Host, NEW g \in Host, Send(h, g)
  PROVE  IInv'
<1> USE DEF Send, IInv
<1> DEFINE new == [from |-> h, to |-> g, tag |-> tag[h], round |-> round[h]]
<1>1. /\ round[h] \in 1..Rounds
      /\ tag[h] = BaseTag + round[h] - 1
      /\ g # h
  BY DEF InvPc, InvTag, TagPending, TypeOK, Others
<1>2. TypeOK'
  BY <1>1 DEF TypeOK, Message
<1>3. InvPc'
  BY DEF InvPc, TypeOK
<1>4. InvTag'
  BY DEF InvTag, TagPending
<1>5. \A f, t \in Host, r \in 1..Rounds :
        /\ Sent(f, t, r) => Sent(f, t, r)'
        /\ Got(t, f, r)' <=> Got(t, f, r)
  BY DEF Sent, Got, TypeOK
<1>6. InvNet'
  <2>1. \A m \in net : /\ m.from # m.to
                       /\ m.tag = BaseTag + m.round - 1
                       /\ Sent(m.from, m.to, m.round)'
                       /\ ~Got(m.to, m.from, m.round)'
    BY <1>5 DEF InvNet, TypeOK, Message
  <2>2. Sent(h, g, round[h])'
    BY DEF Sent, TypeOK
  <2>3. ~Got(g, h, round[h])
    <3>1. ~Sent(h, g, round[h])
      BY DEF Sent, TypeOK
    <3>2. QED
      BY <1>1, <3>1 DEF InvGot
  <2>4. ~Got(g, h, round[h])'
    BY <1>1, <1>5, <2>3
  <2>5. net' = net \cup {new}
    OBVIOUS
  <2>6. QED
    BY <1>1, <2>1, <2>2, <2>4, <2>5 DEF InvNet
<1>7. InvGot'
  BY <1>5 DEF InvGot
<1>8. InvSlot'
  BY DEF InvSlot, Filled
<1>9. InvArrived' /\ RoundPure'
  BY DEF InvArrived, RoundPure, Completed
<1>10. QED
  BY <1>2, <1>3, <1>4, <1>6, <1>7, <1>8, <1>9

LEMMA ReceiveIInv ==
  ASSUME IInv, NEW h \in Host, NEW m \in net, Receive(h, m)
  PROVE  IInv'
<1> USE DEF Receive
<1>1. /\ m \in Message
      /\ m.round = round[h]
      /\ m.from \in Others(h)
      /\ slot[h][m.from] = 0
      /\ Sent(m.from, h, round[h])
  BY ReceivedRound
<1>2. round[h] \in 1..Rounds
  BY DEF IInv, InvPc, TypeOK
<1> USE DEF IInv
<1>3. slot' = [slot EXCEPT ![h][m.from] = round[h]] /\ m.from \in Host
  BY <1>1 DEF Others
<1>4. Filled(h)' = Filled(h) \cup {m.from} /\ m.from \notin Filled(h)
  BY <1>1, <1>2, <1>3 DEF Filled, TypeOK
<1>5. IsFiniteSet(Filled(h)) /\ Cardinality(Filled(h)') = Cardinality(Filled(h)) + 1
  BY <1>4, FS_AddElement, FS_Subset DEF Filled
<1>6. got[h] = Cardinality(Filled(h)) /\ got'[h] = Cardinality(Filled(h)')
  BY <1>5 DEF InvSlot, TypeOK
<1>7. got'[h] \in 0..Cardinality(Host)
  BY <1>5, <1>6, HostCount, FS_Subset DEF Filled, TypeOK
<1>8. TypeOK'
  BY <1>2, <1>3, <1>7 DEF TypeOK
<1>9. InvPc' /\ InvTag' /\ InvArrived'
  BY DEF InvPc, InvTag, TagPending, InvArrived
<1>10. \A f, t \in Host, r \in 1..Rounds :
         /\ Sent(f, t, r)' <=> Sent(f, t, r)
         /\ Got(t, f, r) => Got(t, f, r)'
         /\ Got(t, f, r)' => \/ Got(t, f, r)
                             \/ t = h /\ f = m.from /\ r = round[h]
  BY <1>2, <1>3 DEF Sent, Got, TypeOK
<1>11. InvNet'
  <2> SUFFICES ASSUME NEW n \in net'
               PROVE  /\ n.from # n.to
                      /\ n.tag = BaseTag + n.round - 1
                      /\ Sent(n.from, n.to, n.round)'
                      /\ ~Got(n.to, n.from, n.round)'
    BY DEF InvNet
  <2>1. n \in net /\ n # m /\ n \in Message
    BY DEF TypeOK
  <2>2. /\ n.from # n.to
        /\ n.tag = BaseTag + n.round - 1
        /\ Sent(n.from, n.to, n.round)
        /\ ~Got(n.to, n.from, n.round)
    BY <2>1 DEF InvNet
  <2>3. ~(n.to = h /\ n.from = m.from /\ n.round = round[h])
    BY <1>1, <2>1, <2>2 DEF Message, InvNet, Matches
  <2>4. QED
    BY <1>10, <2>1, <2>2, <2>3 DEF Message
<1>12. InvGot'
  BY <1>1, <1>10 DEF InvGot
<1>13. InvSlot'
  <2> SUFFICES ASSUME NEW k \in Host, pc'[k] = "in"
               PROVE  /\ \A g \in Host : slot'[k][g] \in {0, round'[k]}
                      /\ slot'[k][k] = 0
                      /\ got'[k] = Cardinality(Filled(k)')
    BY DEF InvSlot
  <2>1. CASE k = h
    BY <1>1, <1>3, <1>6, <2>1 DEF InvSlot, TypeOK, Others
  <2>2. CASE k # h
    <3>1. slot'[k] = slot[k] /\ got'[k] = got[k]
      BY <2>2 DEF TypeOK
    <3>2. Filled(k)' = Filled(k)
      BY <3>1 DEF Filled
    <3>3. QED
      BY <3>1, <3>2 DEF InvSlot
  <2>3. QED
    BY <2>1, <2>2
<1>14. RoundPure'
  BY DEF RoundPure, Completed, TypeOK
<1>15. QED
  BY <1>8, <1>9, <1>11, <1>12, <1>13, <1>14

LEMMA EndReceiveIInv ==
  ASSUME IInv, NEW h \in Host, EndReceive(h)
  PROVE  IInv'
<1> USE DEF EndReceive, IInv
<1>1. \A g \in Others(h) : slot[h][g] = round[h]
  BY AllFilled
<1>2. round[h] \in 1..Rounds
  BY DEF InvPc, TypeOK
<1>3. ending # "tag" => arrived'[h] = round[h]
  BY <1>2 DEF InvArrived, TypeOK
<1>4. TypeOK'
  <2>1. arrived' \in [Host -> 0..Rounds]
    BY <1>2, <1>3 DEF TypeOK
  <2>2. tag'[h] \in BaseTag .. BaseTag + Rounds
    BY <1>2 DEF InvTag, TagPending, NextTag, TypeOK
  <2>3. QED
    BY <2>1, <2>2 DEF TypeOK
<1>5. InvPc'
  BY <1>2 DEF InvPc, TypeOK
<1>6. InvTag'
  BY <1>2 DEF InvTag, TagPending, NextTag, TypeOK
<1>7. \A f, t \in Host, r \in 1..Rounds :
        f # t => /\ Sent(f, t, r)' <=> Sent(f, t, r)
                 /\ Got(t, f, r)' <=> Got(t, f, r)
  BY <1>1, <1>2 DEF Sent, Got, TypeOK, Others
<1>8. InvNet'
  BY <1>7 DEF InvNet, TypeOK, Message
<1>9. InvGot'
  BY <1>7 DEF InvGot
<1>10. InvSlot'
  BY DEF InvSlot, Filled, TypeOK
<1>11. InvArrived'
  <2>1. \A g \in Host : ending # "tag" =>
          arrived'[g] = IF pc'[g] = "in" THEN round'[g] - 1 ELSE round'[g]
    BY <1>3 DEF InvArrived, TypeOK
  <2>2. ending # "tag" => pc'[h] = "barrier"
    BY DEF TypeOK
  <2>3. ASSUME ending # "tag", NEW k \in Host, pc'[k] = "out", NEW g \in Host
        PROVE  arrived'[g] >= round'[k]
    <3>1. k # h /\ pc[k] = "out" /\ arrived[g] >= round[k] /\ round'[k] = round[k]
      BY <2>2, <2>3 DEF InvArrived, TypeOK
    <3>2. arrived'[g] >= arrived[g]
      BY <2>3 DEF TypeOK
    <3>3. QED
      BY <2>3, <3>1, <3>2 DEF TypeOK
  <2>4. QED
    BY <2>1, <2>3 DEF InvArrived
<1>12. RoundPure'
  BY <1>1 DEF RoundPure, Completed, TypeOK
<1>13. QED
  BY <1>4, <1>5, <1>6, <1>8, <1>9, <1>10, <1>11, <1>12

LEMMA LeaveBarrierIInv ==
  ASSUME IInv, NEW h \in Host, LeaveBarrier(h)
  PROVE  IInv'
<1> USE DEF LeaveBarrier, IInv
<1>1. round[h] \in 1..Rounds /\ ending # "tag"
  BY DEF InvPc, TypeOK
<1>2. TypeOK'
  <2>1. tag'[h] \in BaseTag .. BaseTag + Rounds
    BY <1>1 DEF InvTag, TagPending, NextTag, TypeOK
  <2>2. QED
    BY <2>1 DEF TypeOK
<1>3. InvPc' /\ InvTag'
  BY <1>1 DEF InvPc, InvTag, TagPending, NextTag, TypeOK
<1>4. \A f, t \in Host, r \in 1..Rounds :
        /\ Sent(f, t, r)' <=> Sent(f, t, r)
        /\ Got(t, f, r)' <=> Got(t, f, r)
  BY DEF Sent, Got, TypeOK
<1>5. InvNet' /\ InvGot'
  BY <1>4 DEF InvNet, InvGot, TypeOK, Message
<1>6. InvSlot'
  BY DEF InvSlot, Filled, TypeOK
<1>7. InvArrived'
  BY <1>1 DEF InvArrived, BarrierOpen, TypeOK
<1>8. RoundPure'
  BY DEF RoundPure, Completed, TypeOK
<1>9. QED
  BY <1>2, <1>3, <1>5, <1>6, <1>7, <1>8
-----------------------------------------------------------------------------
LEMMA NextIInv == IInv /\ [Next]_vars => IInv'
<1> SUFFICES ASSUME IInv, [Next]_vars PROVE IInv'
  OBVIOUS
<1>1. CASE UNCHANGED vars
  <2> USE <1>1 DEF vars, IInv
  <2>1. TypeOK' /\ InvPc' /\ InvArrived' /\ RoundPure'
    BY DEF TypeOK, InvPc, InvArrived, RoundPure, Completed
  <2>2. InvTag' /\ InvSlot'
    BY DEF InvTag, TagPending, InvSlot, Filled
  <2>3. InvNet' /\ InvGot'
    BY DEF InvNet, InvGot, Sent, Got
  <2>4. QED
    BY <2>1, <2>2, <2>3
<1>2. ASSUME NEW h \in Host, HostStep(h) PROVE IInv'
  BY <1>2, EnterIInv, SendIInv, ReceiveIInv, EndReceiveIInv, LeaveBarrierIInv
     DEF HostStep
<1>3. QED
  BY <1>1, <1>2 DEF Next, Terminated

LEMMA InductiveInvariant == Spec => []IInv
BY InitIInv, NextIInv, PTL DEF Spec

\* Types, and with them the bounds of the tag counter: it moves by one per
\* call, never more (quiesce.cpp:358).
THEOREM TypeCorrect == Spec => []TypeOK
<1>1. IInv => TypeOK
  BY DEF IInv
<1>2. QED
  BY <1>1, InductiveInvariant, PTL

\* Every receive loop of every host ends with exactly one message of its own
\* call from every other host (quiesce.cpp:349-358 and the three copies).
THEOREM ExchangeIsPure == Spec => []RoundPure
<1>1. IInv => RoundPure
  BY DEF IInv
<1>2. QED
  BY <1>1, InductiveInvariant, PTL

\* Hosts are never more than one call apart, although SendNewEdges has no
\* barrier (quiesce.cpp:324-361).
THEOREM SkewIsBounded == Spec => []OneRoundSkew
<1>1. ASSUME IInv PROVE OneRoundSkew
  <2> SUFFICES ASSUME NEW g \in Host, NEW h \in Host, round[g] > round[h] + 1
               PROVE  FALSE
    BY <1>1 DEF OneRoundSkew, IInv, TypeOK
  <2> DEFINE r == round[g] - 1
  <2>1. r \in 1..Rounds /\ h # g /\ r > round[h] /\ r < round[g]
    BY <1>1 DEF IInv, TypeOK
  <2>2. Got(g, h, r)
    BY <2>1 DEF Got
  <2>3. Sent(h, g, r)
    BY <1>1, <2>1, <2>2 DEF IInv, InvGot
  <2>4. QED
    BY <1>1, <2>1, <2>3 DEF Sent, IInv, TypeOK
<1>2. QED
  BY <1>1, InductiveInvariant, PTL

\* Nothing is in flight when the last call has returned.
THEOREM NothingLeftBehind == Spec => []NoOrphan
<1>1. ASSUME IInv PROVE NoOrphan
  <2> SUFFICES ASSUME Finished, NEW m \in net PROVE FALSE
    BY DEF NoOrphan
  <2>1. m \in Message /\ ~Got(m.to, m.from, m.round)
    BY <1>1 DEF IInv, TypeOK, InvNet
  <2>2. /\ m.to \in Host /\ m.round \in 1..Rounds
        /\ pc[m.to] = "out" /\ round[m.to] = Rounds
    BY <2>1 DEF Message, Finished
  <2>3. QED
    BY <2>1, <2>2 DEF Got
<1>2. QED
  BY <1>1, InductiveInvariant, PTL

\* In the two variants with a barrier, a host past the barrier finds no
\* message of the finished call in flight (influence_maximization.cpp:634).
THEOREM BarrierIsClean == Spec => []BarrierSeparates
<1>1. ASSUME IInv PROVE BarrierSeparates
  <2> SUFFICES ASSUME ending # "tag", NEW h \in Host, pc[h] = "out",
                      NEW m \in net, m.round <= round[h]
               PROVE  FALSE
    BY <1>1 DEF BarrierSeparates, IInv, TypeOK, Message
  <2>1. m \in Message /\ ~Got(m.to, m.from, m.round)
    BY <1>1 DEF IInv, TypeOK, InvNet
  <2>2. arrived[m.to] >= round[h]
    BY <1>1, <2>1 DEF IInv, InvArrived, Message
  <2>3. arrived[m.to] = IF pc[m.to] = "in" THEN round[m.to] - 1 ELSE round[m.to]
    BY <1>1, <2>1 DEF IInv, InvArrived, Message
  <2>4. Got(m.to, m.from, m.round)
    BY <1>1, <2>1, <2>2, <2>3 DEF Got, Message, IInv, TypeOK
  <2>5. QED
    BY <2>1, <2>4
<1>2. QED
  BY <1>1, InductiveInvariant, PTL
-----------------------------------------------------------------------------
\* No receive overwrites a slot that is already filled (quiesce.cpp:355-356).
THEOREM SlotsWrittenOnce == Spec => SlotWrittenOnce
<1>1. ASSUME IInv, [Next]_vars
      PROVE  \A h, g \in Host : slot[h][g] # 0 => slot'[h][g] \in {0, slot[h][g]}
  <2> SUFFICES ASSUME NEW h \in Host, NEW g \in Host, slot[h][g] # 0
               PROVE  slot'[h][g] \in {0, slot[h][g]}
    OBVIOUS
  <2>1. TypeOK
    BY <1>1 DEF IInv
  <2>2. CASE UNCHANGED vars
    BY <2>2 DEF vars
  <2>3. ASSUME NEW k \in Host, Enter(k) PROVE slot'[h][g] \in {0, slot[h][g]}
    BY <2>1, <2>3 DEF Enter, EmptySlots, TypeOK
  <2>4. ASSUME NEW k \in Host, NEW m \in net, Receive(k, m)
        PROVE  slot'[h][g] = slot[h][g]
    <3>1. slot[k][m.from] = 0 /\ m.from \in Host
      BY <1>1, <2>4, ReceivedRound DEF Receive, Others
    <3>2. h # k \/ g # m.from
      BY <3>1
    <3>3. slot' = [slot EXCEPT ![k][m.from] = m.round]
      BY <2>4 DEF Receive
    <3>4. QED
      BY <2>1, <3>2, <3>3 DEF TypeOK
  <2>5. ASSUME NEW k \in Host,
               (\E t \in Host : Send(k, t)) \/ EndReceive(k) \/ LeaveBarrier(k)
        PROVE  slot'[h][g] = slot[h][g]
    BY <2>5 DEF Send, EndReceive, LeaveBarrier
  <2>6. QED
    BY <1>1, <2>2, <2>3, <2>4, <2>5 DEF Next, HostStep, Terminated
<1>2. QED
  BY <1>1, InductiveInvariant, PTL DEF Spec, SlotWrittenOnce, vars

\* Entering the call contributes.
LEMMA EnterIsPost ==
  ASSUME IInv, NEW h \in Host, Enter(h)
  PROVE  Abs!Post(h)
<1> USE DEF Enter
<1>1. TypeOK
  BY DEF IInv
<1>2. \A k \in Host :
        IF k = h THEN /\ pc[k] = "out" /\ pc'[k] = "in"
                      /\ round'[k] = round[k] + 1 /\ slot'[k] = EmptySlots
                 ELSE pc'[k] = pc[k] /\ round'[k] = round[k] /\ slot'[k] = slot[k]
  BY <1>1 DEF TypeOK
<1>3. Held' = [Held EXCEPT ![h] = EmptySlots]
  BY <1>1, <1>2 DEF Held
<1>4. Collected' = Collected
  BY <1>1, <1>2 DEF Collected, TypeOK
<1>5. round[h] = Collected[h]
  BY <1>2 DEF Collected
<1>6. QED
  BY <1>3, <1>4, <1>5 DEF Abs!Post, Abs!Nothing, EmptySlots

\* The end of the receive loop collects: the slots are those of a full round,
\* and everybody whose message is here has entered the call.
LEMMA EndReceiveIsTake ==
  ASSUME IInv, NEW h \in Host, EndReceive(h)
  PROVE  Abs!Take(h)
<1> USE DEF EndReceive
<1>1. TypeOK /\ IInv'
  BY EndReceiveIInv DEF IInv
<1>2. round[h] \in 1..Rounds /\ slot[h][h] = 0
  BY DEF IInv, InvPc, InvSlot, TypeOK
<1>3. \A g \in Others(h) : slot[h][g] = round[h]
  BY AllFilled
<1>4. \A g \in Host : round[g] >= round[h]
  <2> SUFFICES ASSUME NEW g \in Others(h) PROVE round[g] >= round[h]
    BY <1>1 DEF Others, TypeOK
  <2>1. Got(h, g, round[h])
    BY <1>2, <1>3 DEF Got
  <2>2. Sent(g, h, round[h])
    BY <1>2, <2>1 DEF IInv, InvGot, Others
  <2>3. QED
    BY <1>1, <1>2, <2>2 DEF Sent, Others, TypeOK
<1>5. pc' = [pc EXCEPT ![h] = pc'[h]] /\ pc'[h] # "in"
  BY <1>1 DEF TypeOK
<1>6. slot[h] = Abs!RoundOf(h, round[h])
  BY <1>1, <1>2, <1>3 DEF Abs!RoundOf, Others, TypeOK
<1>7. \A k \in Host :
        k # h => pc'[k] = pc[k] /\ slot'[k] = slot[k] /\ round'[k] = round[k]
  BY <1>1 DEF TypeOK
<1>8. Held' = [Held EXCEPT ![h] = Abs!RoundOf(h, round[h])]
  BY <1>5, <1>6, <1>7 DEF Held
<1>9. Collected' = [Collected EXCEPT ![h] = round[h]]
  BY <1>5, <1>7 DEF Collected
<1>10. Collected[h] < round[h]
  BY <1>2 DEF Collected
<1>11. QED
  BY <1>4, <1>8, <1>9, <1>10 DEF Abs!Take

\* The tagged exchange implements the abstract collective (its safety part;
\* the fairness part is model-checked).
THEOREM ImplementsAllToAll == Spec => AbsSafety
<1>1. Init => Abs!AInit
  BY DEF Init, Abs!AInit, Abs!Nothing, EmptySlots, Collected, Held
<1>2. ASSUME IInv, [Next]_vars
      PROVE  Abs!ANext \/ UNCHANGED Abs!avars
  <2>1. CASE UNCHANGED vars
    BY <2>1 DEF vars, Abs!avars, Collected, Held
  <2>2. ASSUME NEW h \in Host, NEW g \in Host, Send(h, g)
        PROVE  UNCHANGED Abs!avars
    BY <2>2 DEF Send, Abs!avars, Collected, Held
  <2>3. ASSUME NEW h \in Host, NEW m \in net, Receive(h, m)
        PROVE  UNCHANGED Abs!avars
    <3>1. \A k \in Host : pc[k] # "in" => slot'[k] = slot[k]
      BY <1>2, <2>3 DEF Receive, IInv, TypeOK
    <3>2. QED
      BY <2>3, <3>1 DEF Receive, Abs!avars, Collected, Held
  <2>4. ASSUME NEW h \in Host, LeaveBarrier(h)
        PROVE  UNCHANGED Abs!avars
    <3>1. \A k \in Host : (pc'[k] = "in") <=> (pc[k] = "in")
      BY <1>2, <2>4 DEF LeaveBarrier, IInv, TypeOK
    <3>2. QED
      BY <2>4, <3>1 DEF LeaveBarrier, Abs!avars, Collected, Held
  <2>5. QED
    BY <1>2, <2>1, <2>2, <2>3, <2>4, EnterIsPost, EndReceiveIsTake
       DEF Next, HostStep, Terminated, Abs!ANext, vars
<1>3. QED
  BY <1>1, <1>2, InductiveInvariant, PTL DEF Spec, AbsSafety
=============================================================================
