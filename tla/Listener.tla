------------------------------ MODULE Listener ------------------------------
(***************************************************************************)
(* Who talks to whom on a port (node/node.go: waitForConnection, connect,  *)
(* and how send and receive leave their loops).                            *)
(*                                                                         *)
(* A sending process listens and accepts one connection.  It never closes  *)
(* the listener, so that the kernel goes on completing connections, as     *)
(* many as the line holds; they are answered by nobody, and end with the   *)
(* process.  The transfer itself (Transfer) is one step here: one side of  *)
(* it ends first.  A death may strike inside SendPacket: then the other    *)
(* side loops in ReadFromConn and never learns of it (the run torn).       *)
(***************************************************************************)
EXTENDS Integers, Sequences

CONSTANTS
  Senders, Receivers,  \* the processes that are started, each once
  Nobody,
  BACKLOG              \* how many connections the kernel completes in advance

ASSUME ListenerAssumption ==
  /\ Nobody \notin Senders \cup Receivers
  /\ BACKLOG \in Nat \ {0}

VARIABLES
  sender,    \* "preparing", "listening", "connected", "ended", "killed" or "panic"
  line,      \* of each sender: the connections that wait to be accepted
  served,    \* of each sender: the receiver whose connection it has accepted
  receiver,  \* "started", "connected", "ended", "killed" or "exit"
  peer,      \* of each receiver: the sender it is connected to
  torn       \* the processes whose connection ended inside a packet

vars == <<sender, line, served, receiver, peer, torn>>

Init ==
  /\ sender = [s \in Senders |-> "preparing"]
  /\ line = [s \in Senders |-> <<>>]
  /\ served = [s \in Senders |-> Nobody]
  /\ receiver = [r \in Receivers |-> "started"]
  /\ peer = [r \in Receivers |-> Nobody]
  /\ torn = {}

\* The listener is open until the process ends.
HasPort(s) == sender[s] \in {"listening", "connected"}

IsServed(r) == peer[r] # Nobody /\ served[peer[r]] = r

-----------------------------------------------------------------------------
(* The sending process.                                                    *)

\* net.Listen fails on a port that somebody has; what is to be sent, and the
\* local address, are looked at before.
Listen(s) ==
  /\ sender[s] = "preparing"
  /\ \/ sender' = [sender EXCEPT ![s] = "panic"]
     \/ /\ \A t \in Senders : ~HasPort(t)
        /\ sender' = [sender EXCEPT ![s] = "listening"]
  /\ UNCHANGED <<line, served, receiver, peer, torn>>

\* Mutant of Accept: it is called in a loop.
AcceptAgain(s) ==
  /\ HasPort(s) /\ line[s] # <<>>
  /\ served' = [served EXCEPT ![s] = Head(line[s])]
  /\ line' = [line EXCEPT ![s] = Tail(@)]
  /\ sender' = [sender EXCEPT ![s] = "connected"]
  /\ UNCHANGED <<receiver, peer, torn>>

\* The first in the line, even if that process has ended meanwhile.
Accept(s) ==
  /\ sender[s] = "listening" /\ line[s] # <<>>
  /\ served' = [served EXCEPT ![s] = Head(line[s])]
  /\ line' = [line EXCEPT ![s] = Tail(@)]
  /\ sender' = [sender EXCEPT ![s] = "connected"]
  /\ UNCHANGED <<receiver, peer, torn>>

\* A transfer that is over: BYE!, and the connection is closed.
SenderEnds(s) ==
  /\ sender[s] = "connected" /\ s \notin torn
  /\ sender' = [sender EXCEPT ![s] = "ended"]
  /\ UNCHANGED <<line, served, receiver, peer, torn>>

\* Nothing is written but to the connection that has been accepted.
SenderDies(s) ==
  /\ HasPort(s)
  /\ sender' = [sender EXCEPT ![s] = "killed"]
  /\ \/ UNCHANGED torn
     \/ /\ sender[s] = "connected" /\ receiver[served[s]] = "connected"
        /\ torn' = torn \cup {served[s]}
  /\ UNCHANGED <<line, served, receiver, peer>>

\* Mutant of SenderNotices: that the pipe is closed goes unseen.
SenderNoticesBye(s) ==
  /\ sender[s] = "connected" /\ receiver[served[s]] = "ended"
  /\ sender' = [sender EXCEPT ![s] = "ended"]
  /\ UNCHANGED <<line, served, receiver, peer, torn>>

\* The pipe is closed, or BYE! has come; neither when the end is inside a packet.
SenderNotices(s) ==
  /\ sender[s] = "connected" /\ receiver[served[s]] # "connected" /\ s \notin torn
  /\ sender' = [sender EXCEPT ![s] = "ended"]
  /\ UNCHANGED <<line, served, receiver, peer, torn>>

-----------------------------------------------------------------------------
(* The receiving process.                                                  *)

\* Refused by a port that nobody has; a dial into a full line times out.
Connect(r) ==
  /\ receiver[r] = "started"
  /\ \/ \E s \in Senders :
          /\ HasPort(s) /\ Len(line[s]) < BACKLOG
          /\ line' = [line EXCEPT ![s] = Append(@, r)]
          /\ peer' = [peer EXCEPT ![r] = s]
          /\ receiver' = [receiver EXCEPT ![r] = "connected"]
     \/ /\ \A s \in Senders : HasPort(s) => Len(line[s]) >= BACKLOG
        /\ receiver' = [receiver EXCEPT ![r] = "exit"]
        /\ UNCHANGED <<line, peer>>
  /\ UNCHANGED <<sender, served, torn>>

\* A transfer that is over: only for who is served.
ReceiverEnds(r) ==
  /\ receiver[r] = "connected" /\ IsServed(r) /\ r \notin torn
  /\ receiver' = [receiver EXCEPT ![r] = "ended"]
  /\ UNCHANGED <<sender, line, served, peer, torn>>

\* The kernel keeps what is in the line.  Who waits there has written nothing.
ReceiverDies(r) ==
  /\ receiver[r] = "connected"
  /\ receiver' = [receiver EXCEPT ![r] = "killed"]
  /\ \/ UNCHANGED torn
     \/ /\ IsServed(r) /\ sender[peer[r]] = "connected"
        /\ torn' = torn \cup {peer[r]}
  /\ UNCHANGED <<sender, line, served, peer>>

\* Mutant of ReceiverNotices: packets are read only once the sender has accepted.
ReceiverNoticesServed(r) ==
  /\ receiver[r] = "connected" /\ ~HasPort(peer[r]) /\ IsServed(r) /\ r \notin torn
  /\ receiver' = [receiver EXCEPT ![r] = "exit"]
  /\ UNCHANGED <<sender, line, served, peer, torn>>

\* The kernel ends every connection of a process that is gone, accepted or not:
\* the pipe is closed, unless the end is inside a packet.
ReceiverNotices(r) ==
  /\ receiver[r] = "connected" /\ ~HasPort(peer[r]) /\ r \notin torn
  /\ receiver' = [receiver EXCEPT ![r] = "exit"]
  /\ UNCHANGED <<sender, line, served, peer, torn>>

-----------------------------------------------------------------------------

Next ==
  \/ \E s \in Senders :
       Listen(s) \/ Accept(s) \/ SenderEnds(s) \/ SenderDies(s) \/ SenderNotices(s)
  \/ \E r \in Receivers : Connect(r) \/ ReceiverEnds(r) \/ ReceiverDies(r) \/ ReceiverNotices(r)

Spec == Init /\ [][Next]_vars

\* Accept, and a read from a connection that has ended between packets, return
\* at last; how long a transfer takes, and when a process is started, is up to
\* the users.
FairSpec ==
  /\ Spec
  /\ \A s \in Senders : WF_vars(Accept(s)) /\ WF_vars(SenderNotices(s))
  /\ \A r \in Receivers : WF_vars(ReceiverNotices(r))

-----------------------------------------------------------------------------
(* Properties.                                                             *)

TypeOK ==
  /\ sender \in [Senders -> {"preparing", "listening", "connected", "ended", "killed", "panic"}]
  /\ line \in [Senders -> Seq(Receivers)]
  /\ \A s \in Senders : Len(line[s]) <= BACKLOG
  /\ served \in [Senders -> Receivers \cup {Nobody}]
  /\ receiver \in [Receivers -> {"started", "connected", "ended", "killed", "exit"}]
  /\ peer \in [Receivers -> Senders \cup {Nobody}]
  /\ torn \subseteq Senders \cup Receivers

\* "accept only one conneciton" (node.go): whom a sender serves does not change,
\* however many wait in its line and whether or not it is still there.
ServesOne == [][\A s \in Senders : served[s] # Nobody => served'[s] = served[s]]_vars

Gone(s) == sender[s] \in {"ended", "killed"}
FirstInLine(s, r) == sender[s] = "listening" /\ line[s] # <<>> /\ Head(line[s]) = r

\* Who dials a sender that serves another is never answered, and has no timeout:
\* it is let go when that sender's process ends, however it ends.
LineEndsWithSender ==
  \A s \in Senders, r \in Receivers :
    (peer[r] = s /\ ~IsServed(r) /\ Gone(s)) ~> receiver[r] # "connected"

\* Of the two that are connected neither waits for one that is gone, unless it
\* went inside a packet; and a sender that accepts the connection of a receiver
\* that has died in the line ends, whoever else waits there.
GoneIsNoticed ==
  \A s \in Senders, r \in Receivers :
    /\ (served[s] = r /\ Gone(s)) ~> (receiver[r] # "connected" \/ r \in torn)
    /\ (served[s] = r /\ receiver[r] # "connected" /\ s \notin torn) ~> Gone(s)
    /\ (FirstInLine(s, r) /\ receiver[r] = "killed") ~> Gone(s)

=============================================================================
