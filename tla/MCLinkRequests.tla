---------------------------- MODULE MCLinkRequests ----------------------------
(***************************************************************************)
(* Who asks and waits: the download queue at its request line              *)
(* (LinkRequests), the clients at the daemon (Daemon).  As modelled the    *)
(* two share no state, so that their interleavings show nothing: `part`    *)
(* says whose steps a behaviour takes.                                     *)
(***************************************************************************)
EXTENDS LinkRequests, Daemon, TLC

CONSTANTS chunk, seek, c1, c2, j, u, v

VARIABLE part

----------------------------------------------------------------------------
Says(type, what, id, names, user) ==
  [type |-> type, says |-> what, id |-> id, names |-> names, user |-> user]
Tell(what) == Says("cipher", what, NoId, {}, AnyUser)
Ask(what) == Says("cipher", what, j, {}, AnyUser)
InClear(what) == Says("plain", what, NoId, {}, AnyUser)
Sub(names, user) == Says("cipher", "subscribe", NoId, names, user)
Unsub(names) == Says("cipher", "unsubscribe", NoId, names, AnyUser)
Case(one, other, most, count, leaves) ==
  [says |-> [c \in Conns |-> IF c = c1 THEN one ELSE other], frames |-> most,
   events |-> count, leaves |-> leaves]

\* One scenario per row: subscriptions against events of two accounts; jobs with one id on two
\* connections; encryption switched while requests run; a shutdown asked for beside other
\* requests; what a connection is closed for.
Scenarios ==
  {Case({Tell("hello"), Sub({"room.message"}, u), Unsub({"room.message"}),
         Sub({"*"}, AnyUser)}, {}, 4, 2, {}),
   Case({Tell("hello"), Ask("work"), Sub({"progress"}, AnyUser)},
        {Tell("hello"), Ask("work")}, 2, 1, {}),
   Case({Tell("hello"), Ask("work"), Sub({"progress"}, AnyUser)}, {}, 3, 2, {c1}),
   Case({Tell("hello"), Tell("decrypt"), InClear("work"), Tell("encrypt")}, {}, 4, 0, {c1}),
   Case({Tell("hello"), Tell("daemon.shutdown"), Tell("work")},
        {Tell("hello"), Tell("daemon.shutdown")}, 2, 0, {c2}),
   Case({Tell(what) : what \in {"noise", "text", "not JSON", "hello", "stranger", "malformed",
                                "work"}} \cup {InClear("hello")}, {}, 3, 0, {c1})}

Silent == [says |-> [c \in Conns |-> {}], frames |-> 0, events |-> 0, leaves |-> {}]

ClientCases == Scenarios \cup {Silent}

\* The chunk is sent again once.
Pushes == [a \in Asks |-> IF a = chunk THEN 2 ELSE 1]

----------------------------------------------------------------------------
ASSUME Limits /\ Scenario

AskInit ==
  /\ part \in {"line", "clients"}
  /\ Init /\ DaemonInit
  /\ (case = Silent) = (part # "clients")

OfLine == part = "line" /\ UNCHANGED <<part, daemonVars>>
OfClients == part = "clients" /\ UNCHANGED <<part, vars>>

LineStep ==
  \/ OfLine /\ \E a \in Asks : PushBack(a)
  \/ OfLine /\ \E a \in Asks : PushFront(a)
  \/ OfLine /\ \E a \in Asks : Withdraw(a)
  \/ OfLine /\ TimeOutIfSilent
  \/ OfLine /\ Pop
  \/ OfLine /\ TakeLink
  \/ OfLine /\ NoLink
  \/ OfLine /\ Send
  \/ OfLine /\ SendFails
  \/ OfLine /\ Record
  \/ OfLine /\ OpenLine
  \/ OfLine /\ LockSlot
  \/ OfLine /\ CloseLine
  \/ OfLine /\ TimePasses
  \/ OfLine /\ \E w \in waiters : WaiterEnds(w)
  \/ OfLine /\ \E w \in waiters : Reply(w)

ClientStep ==
  \/ OfClients /\ \E c \in Conns : Accept(c)
  \/ OfClients /\ \E c \in Conns : Connect(c)
  \/ OfClients /\ \E c \in Conns : ClientLeaves(c)
  \/ OfClients /\ \E c \in Conns : Receive(c)
  \/ OfClients /\ \E c \in Conns : ReaderSeals(c)
  \/ OfClients /\ \E c \in Conns : ReaderSends(c)
  \/ OfClients /\ \E c \in Conns : SeeShutdown(c)
  \/ OfClients /\ \E c \in Conns : SeeClientGone(c)
  \/ OfClients /\ \E c \in Conns : Listen(c)
  \/ OfClients /\ \E c \in Conns : TakeEvent(c)
  \/ OfClients /\ \E c \in Conns : PushSeals(c)
  \/ OfClients /\ \E c \in Conns : PushSends(c)
  \/ OfClients /\ \E c \in Conns : Write(c)
  \/ OfClients /\ \E c \in Conns : WriterEnds(c)
  \/ OfClients /\ \E c \in Conns : \E n \in DOMAIN tasks[c] : Call(c, n)
  \/ OfClients /\ \E c \in Conns : \E n \in DOMAIN tasks[c] : Progress(c, n)
  \/ OfClients /\ \E c \in Conns : \E n \in DOMAIN tasks[c] : Finish(c, n)
  \/ OfClients /\ \E c \in Conns : \E n \in DOMAIN tasks[c] : TaskSeals(c, n)
  \/ OfClients /\ \E c \in Conns : \E n \in DOMAIN tasks[c] : TaskSends(c, n)
  \/ OfClients /\ \E user \in Users : Happen(user)
  \/ OfClients /\ Exit

AskNext == LineStep \/ ClientStep

all == <<part, vars, daemonVars>>

\* The fairness of each, as its module states it.
AskSpec ==
  /\ AskInit /\ [][AskNext]_all
  /\ WF_all(OfLine /\ Sender) /\ WF_all(OfLine /\ Waiter) /\ WF_all(OfLine /\ TimePasses)
  /\ \A c \in Conns : WF_all(OfClients /\ Serve(c))

=============================================================================
