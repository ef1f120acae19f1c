--------------------------- MODULE ListenerProofs ---------------------------
(***************************************************************************)
(* Proofs about Listener, for any number of processes and any BACKLOG.     *)
(***************************************************************************)
EXTENDS Listener, TLAPS

\* Who has not accepted a connection serves nobody; who has serves somebody.
Fresh ==
  \A s \in Senders :
    /\ sender[s] \in {"preparing", "listening"} => served[s] = Nobody
    /\ sender[s] = "connected" => served[s] # Nobody

LInv == TypeOK /\ Fresh

\* At first nobody listens.
LEMMA ListenerInit == Init => LInv
BY ListenerAssumption DEF Init, LInv, TypeOK, Fresh

-----------------------------------------------------------------------------
(* The steps.                                                              *)

\* The head of a line moves from the line to served, and the rest moves up.
LEMMA AcceptKeeps ==
  ASSUME LInv, NEW s \in Senders, Accept(s)
  PROVE  LInv'
<1>1. line[s] \in Seq(Receivers) /\ line[s] # <<>>
  BY DEF LInv, TypeOK, Accept
<1>2. /\ Head(line[s]) \in Receivers
      /\ Tail(line[s]) \in Seq(Receivers) /\ Len(Tail(line[s])) = Len(line[s]) - 1
      /\ Len(line[s]) \in Nat
  BY <1>1
<1>3. /\ line' = [line EXCEPT ![s] = Tail(line[s])]
      /\ served' = [served EXCEPT ![s] = Head(line[s])]
      /\ sender' = [sender EXCEPT ![s] = "connected"]
      /\ receiver' = receiver /\ peer' = peer /\ torn' = torn
  BY DEF Accept
<1>4. TypeOK'
  BY <1>2, <1>3, ListenerAssumption DEF LInv, TypeOK
<1>5. Fresh'
  BY <1>2, <1>3, ListenerAssumption DEF LInv, TypeOK, Fresh
<1> QED
  BY <1>4, <1>5 DEF LInv

\* Who connects is the last of the line, which had room.
LEMMA ConnectKeeps ==
  ASSUME LInv, NEW r \in Receivers, Connect(r)
  PROVE  LInv'
<1>1. CASE receiver' = [receiver EXCEPT ![r] = "exit"]
           /\ UNCHANGED <<sender, line, served, peer, torn>>
  BY <1>1 DEF LInv, TypeOK, Fresh
<1>2. ASSUME NEW s \in Senders,
             Len(line[s]) < BACKLOG,
             line' = [line EXCEPT ![s] = Append(@, r)],
             peer' = [peer EXCEPT ![r] = s],
             receiver' = [receiver EXCEPT ![r] = "connected"],
             UNCHANGED <<sender, served, torn>>
      PROVE  LInv'
  <2>1. /\ Len(line[s]) \in Nat
        /\ Append(line[s], r) \in Seq(Receivers)
        /\ Len(Append(line[s], r)) = Len(line[s]) + 1
    BY DEF LInv, TypeOK
  <2>2. TypeOK'
    BY <1>2, <2>1, ListenerAssumption DEF LInv, TypeOK
  <2>3. Fresh'
    BY <1>2 DEF LInv, Fresh
  <2> QED
    BY <2>2, <2>3 DEF LInv
<1> QED
  BY <1>1, <1>2 DEF Connect

\* Whoever comes or goes leaves the lines, and who is served, alone.
LEMMA ComingAndGoingKeeps ==
  ASSUME LInv, UNCHANGED <<line, served, peer>>,
         \/ UNCHANGED sender
         \/ \E s \in Senders, to \in {"listening", "ended", "killed", "panic"} :
              /\ to = "listening" => sender[s] = "preparing"
              /\ sender' = [sender EXCEPT ![s] = to],
         \/ UNCHANGED receiver
         \/ \E r \in Receivers, to \in {"ended", "killed", "exit"} :
              receiver' = [receiver EXCEPT ![r] = to],
         torn' \subseteq Senders \cup Receivers
  PROVE  LInv'
<1>1. TypeOK'
  BY DEF LInv, TypeOK
<1>2. Fresh'
  BY DEF LInv, TypeOK, Fresh
<1> QED
  BY <1>1, <1>2 DEF LInv

\* Every step keeps the invariant.
LEMMA ListenerStep ==
  ASSUME LInv, [Next]_vars
  PROVE  LInv'
<1>1. torn \subseteq Senders \cup Receivers
  BY DEF LInv, TypeOK
<1>2. ASSUME NEW s \in Senders, Listen(s) PROVE LInv'
  BY <1>1, <1>2, ComingAndGoingKeeps DEF Listen
<1>3. ASSUME NEW s \in Senders, SenderEnds(s) \/ SenderNotices(s) PROVE LInv'
  BY <1>1, <1>3, ComingAndGoingKeeps DEF SenderEnds, SenderNotices
<1>4. ASSUME NEW s \in Senders, SenderDies(s) PROVE LInv'
  <2>1. sender[s] = "connected" => served[s] \in Receivers
    BY DEF LInv, TypeOK, Fresh
  <2> QED
    BY <1>1, <1>4, <2>1, ComingAndGoingKeeps DEF SenderDies
<1>5. ASSUME NEW r \in Receivers, ReceiverEnds(r) \/ ReceiverNotices(r) PROVE LInv'
  BY <1>1, <1>5, ComingAndGoingKeeps DEF ReceiverEnds, ReceiverNotices
<1>6. ASSUME NEW r \in Receivers, ReceiverDies(r) PROVE LInv'
  <2>1. IsServed(r) => peer[r] \in Senders
    BY DEF LInv, TypeOK, IsServed
  <2> QED
    BY <1>1, <1>6, <2>1, ComingAndGoingKeeps DEF ReceiverDies
<1>7. CASE UNCHANGED vars
  BY <1>7 DEF vars, LInv, TypeOK, Fresh
<1> QED
  BY <1>2, <1>3, <1>4, <1>5, <1>6, <1>7, AcceptKeeps, ConnectKeeps DEF Next

-----------------------------------------------------------------------------

\* The invariant holds always: in particular a sender that still listens serves
\* nobody.
THEOREM ListenerInvariant == Spec => []LInv
BY ListenerInit, ListenerStep, PTL DEF Spec

\* Whom a sender serves does not change: accept is called once.
THEOREM ServesOneAlways == Spec => ServesOne
<1>1. ASSUME LInv, [Next]_vars
      PROVE  [\A s \in Senders : served[s] # Nobody => served'[s] = served[s]]_vars
  <2>1. SUFFICES ASSUME Next, NEW s \in Senders, served[s] # Nobody
                 PROVE  served'[s] = served[s]
    BY <1>1
  <2>2. ASSUME NEW t \in Senders, Accept(t) PROVE served'[s] = served[s]
    <3>1. t # s
      BY <1>1, <2>1, <2>2 DEF LInv, Fresh, Accept
    <3> QED
      BY <1>1, <2>2, <3>1 DEF LInv, TypeOK, Accept
  <2> QED
    BY <2>1, <2>2 DEF Next, Listen, SenderEnds, SenderDies, SenderNotices, Connect,
                      ReceiverEnds, ReceiverDies, ReceiverNotices
<1> QED
  BY <1>1, ListenerInvariant, PTL DEF Spec, ServesOne

=============================================================================
