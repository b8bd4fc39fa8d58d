-------------------------- MODULE MCNonstopServer --------------------------
EXTENDS NonstopServer, TLC

CONSTANTS c1, c2, c3, f

Get == [verb |-> "GET", file |-> f, head |-> 1, size |-> 0, sends |-> 0,
        leaves |-> FALSE]
Delete == [Get EXCEPT !.verb = "DELETE"]
List == [Get EXCEPT !.verb = "LIST"]
Put(size, sends) == [Get EXCEPT !.verb = "PUT", !.size = size, !.sends = sends]
Leaving(r) == [r EXCEPT !.leaves = TRUE]

\* Two uploads of one file, one of which sends more than it announces, and
\* somebody reading it; a file read in two calls and deleted; a listing whose
\* client may leave, with a header that comes in two pieces; and an upload of
\* too little.
Mix == {c1 :> Put(1, 1) @@ c2 :> Put(1, 2) @@ c3 :> Get,
        c1 :> Put(2, 2) @@ c2 :> Get @@ c3 :> Delete,
        c1 :> Put(1, 1) @@ c2 :> Leaving(List) @@ c3 :> [Get EXCEPT !.head = 2],
        c1 :> Put(2, 1) @@ c2 :> Get @@ c3 :> List}
=============================================================================
