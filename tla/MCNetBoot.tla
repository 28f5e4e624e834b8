----------------------------- MODULE MCNetBoot -----------------------------
EXTENDS NetBoot

connect == [op |-> "connect"]
disconnect == [op |-> "disconnect"]
lookup(name) == [op |-> "lookup", name |-> name]

MCLan == {"router", "a1", "a2", "b1", "b2", "c1"}
MCRemote == {"d0", "d1", "d2", "x1", "x2", "x4"}
MCPool == <<"a1", "a2">>
MCPool2 == <<"b1", "b2">>
MCAddrOf == [n1 |-> "x1", n2 |-> "x2", n3 |-> IpAny, n4 |-> "x4"]

\* n2 is n1 with another label behind it.
MCSameStart == {<<"n1", "n2">>, <<"n2", "n1">>}

\* Renew after one minute and rebind after two of a lease of three.
Given == [t0 |-> 6, t1 |-> 2, t2 |-> 4, gw |-> "router", dns |-> <<"d1", "d2">>]
Default == [t0 |-> 6, t1 |-> NotGiven, t2 |-> NotGiven, gw |-> IpAny, dns |-> <<>>]

\* Of a lease of four minutes; the ones after it are of three.
Longer == [Given EXCEPT !.t0 = 8]

ForEver == [t0 |-> Infinite, t1 |-> Infinite, t2 |-> Infinite, gw |-> "router", dns |-> <<"d1", "d2">>]

Run(calls, terms, rvl, dead, lnk, n) ==
    [calls |-> calls, terms |-> terms, again |-> terms, rival |-> rvl, dead |-> dead,
     link |-> lnk, faults |-> n]

MCScenarios ==
    { Run(<<connect>>, Given, "a1", IpAny, "stays", 1),
      Run(<<connect>>, Given, "takes", IpAny, "moves", 1),
      [Run(<<connect>>, Longer, IpAny, IpAny, "breaks", 2) EXCEPT !.again = Given],
      Run(<<connect, disconnect, connect>>, Default, IpAny, IpAny, "breaks", 1),
      Run(<<connect, connect, disconnect>>, Given, IpAny, IpAny, "breaks", 1),
      Run(<<connect, lookup("n1"), lookup("n2"), lookup("n1")>>, ForEver, IpAny, IpAny, "breaks", 2),
      Run(<<connect, lookup("n1"), lookup("n4")>>, ForEver, IpAny, IpAny, "breaks", 2),
      Run(<<connect, lookup("n1"), lookup("n3")>>, ForEver, IpAny, "d1", "breaks", 1),
      Run(<<connect, lookup("n1")>>, ForEver, "c1", "d1", "stays", 3) }
=============================================================================
