-------------------------- MODULE MCQuicTransport --------------------------
(***************************************************************************)
(* Instances of QuicTransport: two nodes and the calls of each situation.  *)
(***************************************************************************)
EXTENDS TLC, QuicTransport

CONSTANTS n1, n2,         \* nodes
          c1, c2, c3, c4  \* calls

MCNode == {n1, n2}
MCCall == {c1, c2, c3}
MCFourCalls == MCCall \cup {c4}

Do(kind, n, m, after) ==
  [kind |-> kind, node |-> n, peer |-> m, after |-> after, addresses |-> 1]
Nothing == Do("none", n1, n2, None)
Connect == Do("connect", n1, n2, None)
ConnectBack == Do("connect", n2, n1, None)
TwoAddresses == [Connect EXCEPT !.addresses = 2]

\* The calls in order, nothing for the other ones; no fault of the network.
Calls(seq) ==
  [script |-> [c \in Call |->
     CASE c = c1 -> seq[1]
       [] c = c2 -> seq[2]
       [] c = c3 /\ Len(seq) > 2 -> seq[3]
       [] c = c4 /\ Len(seq) > 3 -> seq[4]
       [] OTHER -> Nothing],
   fails |-> FALSE, breaks |-> {}]

OneWay == Calls(<<Connect, Do("send", n1, n2, c1), Do("update", n2, n1, None)>>)
Busy == Calls(<<Connect, Do("send", n1, n2, c1), Do("send", n1, n2, c1)>>)
Mutual == Calls(<<Connect, ConnectBack>>)
StopAfter == Calls(<<Connect, Do("stop", n1, n2, c1), Do("send", n1, n2, c1)>>)
StopAtOnce == Calls(<<Connect, Do("stop", n2, n1, None)>>)
StopTwice ==
  Calls(<<Do("start", n2, n1, None), Do("stop", n2, n1, c1), Do("stop", n2, n1, c1)>>)
Again == Calls(<<Connect, Do("disconnect", n1, n2, c1), Do("connect", n1, n2, c2)>>)
Starts ==
  Calls(<<Do("start", n1, n2, None), Do("stop", n1, n2, c1), Do("start", n1, n2, None)>>)
Faulty ==
  [Calls(<<TwoAddresses, Do("connect", n1, n2, c1)>>) EXCEPT !.fails = TRUE, !.breaks = {c1, c2}]

MCSituations == {OneWay, Busy, Mutual, StopAfter, StopAtOnce, StopTwice, Again, Starts, Faulty}

\* Situations of the other cfgs.
MCOneWay == {OneWay}
MCStopAtOnce == {StopAtOnce}
MCMutual == {Mutual}
MCMutualBusy ==
  {Calls(<<Connect, ConnectBack, Do("send", n1, n2, c1), Do("send", n2, n1, c2)>>)}
MCTwice == {Calls(<<Connect, Connect>>)}
MCTwiceAndSend == {Calls(<<Connect, Connect, Do("send", n1, n2, c1)>>)}
MCStarting == {Calls(<<Connect, Do("start", n2, n1, None)>>)}
MCLeaving ==
  {Calls(<<Connect, ConnectBack, Do("disconnect", n1, n2, c1), Do("send", n2, n1, c3)>>)}

=============================================================================
