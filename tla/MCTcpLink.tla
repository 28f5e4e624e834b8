----------------------------- MODULE MCTcpLink -----------------------------
EXTENDS TcpLink

connect == [op |-> "connect"]
accept == [op |-> "accept"]
write(n) == [op |-> "write", n |-> n]
read == [op |-> "read"]
readall == [op |-> "readall"]
close == [op |-> "close"]

Run(station, server, n) ==
    [station |-> station, server |-> server, faults |-> n, restarts |-> {}]

\* An idle connection; a request and its reply; a write that fills buffer,
\* window and mailbox; the station closes what the server still writes to;
\* both sides send; a write larger than the buffer, and nobody closes; the
\* server stops reading; the server restarts.
MCScenarios ==
    { Run(<<connect, close>>, <<accept, readall, close>>, 2),
      Run(<<connect, write(1), readall, close>>, <<accept, read, write(2), close>>, 1),
      Run(<<connect, write(4), close>>, <<accept, readall, close>>, 1),
      Run(<<connect, close>>, <<accept, write(3), close>>, 1),
      Run(<<connect, write(3), read, close>>, <<accept, write(3), readall, close>>, 0),
      Run(<<connect, write(5), readall, close>>, <<accept, readall, close>>, 1),
      Run(<<connect, write(6), close>>, <<accept, read, close>>, 1),
      [Run(<<connect, write(3), readall, close>>, <<accept, read, write(2), close>>, 1)
          EXCEPT !.restarts = {"server"}] }
=============================================================================
