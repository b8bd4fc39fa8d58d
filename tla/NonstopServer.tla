--------------------------- MODULE NonstopServer ---------------------------
(***************************************************************************)
(* The file server of nonstop_networking/server.c and common.c: one thread *)
(* that waits for epoll events and then serves every slot, whichever event *)
(* it was, each call going as far with a slot's request as its connection  *)
(* lets it.                                                                *)
(*                                                                         *)
(* What a client sends is a sequence of pieces: its header, for PUT the    *)
(* size and the data, then the end of the stream.  "OK", the size and a    *)
(* piece of data or a name are the pieces of a reply.  A connection stands *)
(* for its descriptor: no slot ever holds a closed one (SlotsServed).      *)
(***************************************************************************)
EXTENDS Integers, Sequences, FiniteSets, SequencesExt

CONSTANTS Conns,        \* connections, one request each
          Workloads,    \* what they may ask: verb, file, pieces of the header,
                        \* size and data sent, and whether the client may leave
          Files,
          MAX_CLIENTS,
          Capacity,     \* pieces a connection holds until its client reads
          Listener,     \* serverSocket
          None

ASSUME NonstopAssumption ==
    /\ None \notin Conns /\ Listener \notin Conns /\ None # Listener
    /\ "ERROR" \notin Conns
    /\ IsFiniteSet(Conns) /\ IsFiniteSet(Files)
    /\ MAX_CLIENTS \in Nat \ {0} /\ Capacity \in Nat \ {0}
    /\ \A w \in Workloads, c \in Conns :
          /\ w[c].verb \in {"GET", "PUT", "DELETE", "LIST"} /\ w[c].file \in Files
          /\ w[c].head \in Nat \ {0} /\ w[c].size \in Nat /\ w[c].sends \in Nat
          /\ w[c].leaves \in BOOLEAN

Slots == 1..MAX_CLIENTS
Huge == -2           \* a header read as a size: calloc fails
Garbage == Listener  \* a header that two connections have sent

VARIABLES
    request,             \* what each connection's client asks, fixed from the start
    alive, directory,    \* the process, and the directory it made
    at, events,          \* the slot of the loop, 0 in epoll_wait; its events
    clients, slot,       \* a slot's connection; how far its request has got
    errno, files,        \* something has failed since the start; <<>> is no file
    place, edge,         \* of a connection; those with an event to report
    sent, taken, gone,   \* pieces sent and read, clients gone
    out, unread,         \* pieces written to each, and how many it has not read
    disturbed            \* history: whose slot was taken over, or had somebody
                         \* else's request in it

loopVars == <<at, events>>
clientVars == <<request, sent, gone>>
vars == <<alive, directory, loopVars, clients, slot, errno, files, place, edge,
          clientVars, taken, out, unread, disturbed>>

Stream(c) ==
    LET r == request[c]
    IN  [k \in 1..r.head |-> <<"head", k>>]
        \o (IF r.verb = "PUT" THEN <<<<"size", r.size>>>> ELSE <<>>)
        \o [k \in 1..r.sends |-> <<c, k>>]
        \o <<<<"end", 0>>>>

\* What c's PUT is to store.
Upload(c) == [k \in 1..request[c].size |-> <<c, k>>]

\* A slot's buffers and indices; data is {} while clientsData is NULL.
Fresh == [head |-> 0, args |-> None, replied |-> FALSE, sizeDone |-> FALSE,
          size |-> 0, data |-> {}, index |-> 0]

Init ==
    /\ request \in Workloads
    /\ alive = TRUE /\ directory = TRUE
    /\ at = 0 /\ events = [i \in Slots |-> None]
    /\ clients = [i \in Slots |-> None] /\ slot = [i \in Slots |-> Fresh]
    /\ errno = FALSE /\ files = [f \in Files |-> <<>>]
    /\ place = [c \in Conns |-> "away"] /\ edge = {}
    /\ sent = [c \in Conns |-> 0] /\ taken = [c \in Conns |-> 0] /\ gone = {}
    /\ out = [c \in Conns |-> <<>>] /\ unread = [c \in Conns |-> 0]
    /\ disturbed = {}

Waiting == {c \in Conns : place[c] = "waiting"}
Accepted == {c \in Conns : place[c] = "accepted"}

-----------------------------------------------------------------------------
\* The clients: connect, send, read, and some may vanish.

Connect(c) ==
    /\ alive /\ place[c] = "away"
    /\ place' = [place EXCEPT ![c] = "waiting"]
    /\ UNCHANGED <<alive, directory, loopVars, clients, slot, errno, files, edge,
                   clientVars, taken, out, unread, disturbed>>

\* News for epoll, if the connection is registered with it.
Event(c) == edge' = edge \cup ({c} \cap Accepted)

Send(c) ==
    /\ alive /\ place[c] # "away" /\ c \notin gone /\ sent[c] < Len(Stream(c))
    /\ sent' = [sent EXCEPT ![c] = @ + 1]
    /\ Event(c)
    /\ UNCHANGED <<alive, directory, loopVars, clients, slot, errno, files, place,
                   request, taken, gone, out, unread, disturbed>>

Receive(c) ==
    /\ alive /\ c \notin gone /\ unread[c] > 0
    /\ unread' = [unread EXCEPT ![c] = 0]
    /\ UNCHANGED <<alive, directory, loopVars, clients, slot, errno, files, place,
                   edge, clientVars, taken, out, disturbed>>

Vanish(c) ==
    /\ alive /\ request[c].leaves /\ c \notin gone /\ place[c] \in {"waiting", "accepted"}
    /\ gone' = gone \cup {c}
    /\ Event(c)
    /\ UNCHANGED <<alive, directory, loopVars, clients, slot, errno, files, place,
                   request, sent, taken, out, unread, disturbed>>

-----------------------------------------------------------------------------
\* run_server: the loop.

\* epoll_wait overwrites the first entries of events with what is ready, in
\* some order, and leaves the others as they were.
Wait ==
    /\ alive /\ at = 0
    /\ LET ready == edge \cup (IF Waiting = {} THEN {} ELSE {Listener})
           n == Min({Cardinality(ready), MAX_CLIENTS})
       IN  /\ n > 0
           /\ \E s \in {q \in [1..n -> ready] : Cardinality(Range(q)) = n} :
                 /\ events' = [i \in Slots |-> IF i <= n THEN s[i] ELSE events[i]]
                 /\ edge' = edge \ Range(s)
    /\ at' = 1
    /\ UNCHANGED <<alive, directory, clients, slot, errno, files, place, clientVars,
                   taken, out, unread, disturbed>>

Advance == at' = IF at = MAX_CLIENTS THEN 0 ELSE at + 1

\* Wherever the listening socket is in events, from this wait or an earlier
\* one, the next connection gets the slot of that number.
Accept ==
    /\ alive /\ at # 0 /\ events[at] = Listener
    /\ \E c \in Waiting :
          /\ place' = [place EXCEPT ![c] = "accepted"]
          /\ clients' = [clients EXCEPT ![at] = c]
          /\ edge' = IF sent[c] > 0 \/ c \in gone THEN edge \cup {c} ELSE edge
          /\ disturbed' = disturbed \cup ({clients[at]} \ {None})
                                    \cup (IF slot[at] = Fresh THEN {} ELSE {c})
    /\ Advance
    /\ UNCHANGED <<alive, directory, events, slot, errno, files, clientVars, taken,
                   out, unread>>

Skip ==
    /\ alive /\ at # 0 /\ events[at] # Listener /\ clients[at] = None
    /\ Advance
    /\ UNCHANGED <<alive, directory, events, clients, slot, errno, files, place, edge,
                   clientVars, taken, out, unread, disturbed>>

-----------------------------------------------------------------------------
\* process_client and the functions it calls take what is known of the request
\* and return it with what they did: s is the slot, in the pieces read so far,
\* out those to be written, to the file system's and errno's new values and
\* ret what process_client returns.

Arrived(c) == Min({sent[c], Len(Stream(c)) - 1})
AtEnd(c) == c \in gone \/ sent[c] = Len(Stream(c))
Room(c) == IF c \in gone THEN Capacity ELSE Capacity - unread[c]

\* Mutant: what has come so far is stored at once.
FaultAndStore(r, c) ==
    [r EXCEPT !.errno = @ \/ ~AtEnd(c),
              !.files[request[c].file] = IF r.s.data = {} THEN @
                                         ELSE CHOOSE d \in r.s.data : TRUE]

\* Nothing there to read: EAGAIN unless the stream has ended.
Fault(r, c) == [r EXCEPT !.errno = @ \/ ~AtEnd(c)]

Ret(r, v) == [r EXCEPT !.ret = v]
Failed(r) == [r EXCEPT !.ret = "error"]

\* "OK", the size and the body, as far as they fit and from where the last
\* call stopped.
Reply(r, c, body) ==
    LET s == r.s
        all == <<<<"OK", 0>>, <<"size", Len(body)>>>> \o body
        done == (IF s.replied THEN 1 ELSE 0) + (IF s.sizeDone THEN 1 ELSE 0) + s.index
        upto == Max({done, Min({Len(all), done + Room(c)})})
    IN  [r EXCEPT !.out = SubSeq(all, done + 1, upto),
                  !.s = [s EXCEPT !.replied = upto >= 1, !.sizeDone = upto >= 2,
                                  !.index = Max({0, upto - 2})],
                  !.errno = @ \/ upto < Len(all),
                  !.ret = IF upto = Len(all) THEN "done" ELSE "more"]

\* The file is looked up and read again at each call, from its start, to where
\* the last call stopped in the buffer.
server_get(r, c, f) ==
    LET k == r.s.index
        buffer == [j \in 1..Len(r.files[f]) |-> r.files[f][IF j > k THEN j - k ELSE j]]
    IN  IF r.files[f] = <<>> THEN Failed([r EXCEPT !.errno = TRUE])
        ELSE Reply(r, c, buffer)

\* The names are listed once, and errno is looked at whoever set it.
server_list(r, c) ==
    LET stored == SetToSeq({f \in Files : r.files[f] # <<>>})
        names == [k \in 1..Len(stored) |-> <<"name", stored[k]>>]
    IN  IF r.s.data # {} THEN Reply(r, c, CHOOSE d \in r.s.data : TRUE)
        ELSE IF r.errno THEN Failed(r)
        ELSE Reply([r EXCEPT !.s.data = {names}], c, names)

\* Mutant: the reply before the file is looked for.
server_deleteReplyFirst(r, c, f) ==
    LET removed == [r EXCEPT !.files[f] = <<>>, !.out = <<<<"OK", 0>>>>, !.ret = "done"]
    IN  CASE Room(c) = 0 -> [r EXCEPT !.errno = TRUE]
          [] Room(c) > 0 /\ r.files[f] = <<>> -> Failed(removed)
          [] OTHER -> removed

\* The file is removed once; then "OK" is written, now or later.
server_delete(r, c, f) ==
    CASE r.s.index = 0 /\ r.files[f] = <<>> -> Failed([r EXCEPT !.errno = TRUE])
      [] (r.s.index = -1 \/ r.files[f] # <<>>) /\ Room(c) > 0 ->
            [r EXCEPT !.files[f] = IF r.s.index = 0 THEN <<>> ELSE @,
                      !.out = <<<<"OK", 0>>>>, !.ret = "done"]
      [] OTHER -> [r EXCEPT !.files[f] = IF r.s.index = 0 THEN <<>> ELSE @,
                            !.s.index = -1, !.errno = TRUE]

\* "OK", and only then the file, when the data is complete (index -1).
PutReply(r, c, f) ==
    IF Room(c) = 0 THEN [r EXCEPT !.errno = TRUE]
    ELSE [r EXCEPT !.out = <<<<"OK", 0>>>>, !.ret = "done",
                   !.files[f] = CHOOSE d \in r.s.data : TRUE]

\* The data, as much as has come; none at all is too little, one piece more
\* than announced too much.
PutData(r, c, f) ==
    LET s == r.s
        here == Arrived(c) - r.read
        n == Min({here, s.size - s.index})
        got == (CHOOSE d \in s.data : TRUE) \o SubSeq(Stream(c), r.read + 1, r.read + n)
        more == Fault([r EXCEPT !.s.data = {got}, !.s.index = @ + n, !.read = @ + n], c)
    IN  CASE s.index + n = 0 /\ s.size > 0 -> Failed(Fault(r, c))
          [] s.index + n = 0 /\ s.size = 0 -> r
          [] s.index + n \in 1..(s.size - 1) -> more
          [] OTHER -> IF here > n THEN Failed(r)
                      ELSE PutReply([more EXCEPT !.s.index = -1], c, f)

server_put(r, c, f) ==
    LET piece == Stream(c)[r.read + 1]
        size == IF piece[1] = "size" THEN piece[2] ELSE Huge
        sized == [r EXCEPT !.s.sizeDone = TRUE, !.s.size = size, !.read = @ + 1,
                           !.s.data = IF size = Huge THEN {} ELSE {<<>>}]
    IN  CASE r.s.sizeDone /\ r.s.index = -1 -> PutReply(r, c, f)
          [] r.s.sizeDone /\ r.s.size = Huge -> r
          [] r.s.sizeDone /\ r.s.size # Huge /\ r.s.index # -1 -> PutData(r, c, f)
          [] ~r.s.sizeDone /\ Arrived(c) = r.read -> Fault(r, c)
          [] OTHER -> IF size = Huge THEN sized ELSE PutData(sized, c, f)

\* The header is read byte by byte until its end; if it is not all there and
\* the stream has not ended, the server exits (:485-498).
read_header_from_client(r, c) ==
    LET ours == {k \in r.read + 1 .. Arrived(c) : Stream(c)[k][1] = "head"}
        whole == r.read + Cardinality(ours) >= request[c].head
    IN  CASE whole -> [r EXCEPT !.read = request[c].head,
                                !.s.args = IF r.s.head > 0 THEN Garbage ELSE c]
          [] ~whole /\ AtEnd(c) -> [r EXCEPT !.read = @ + Cardinality(ours),
                                             !.s.head = @ + Cardinality(ours)]
          [] OTHER -> Ret(r, "exit")

server_command(r, c) ==
    LET q == request[r.s.args]
    IN  IF r.s.args = None THEN r
        ELSE IF r.s.args = Garbage THEN Failed(r)
        ELSE CASE q.verb = "GET" -> server_get(r, c, q.file)
               [] q.verb = "PUT" -> server_put(r, c, q.file)
               [] q.verb = "DELETE" -> server_delete(r, c, q.file)
               [] OTHER -> server_list(r, c)

\* Mutant: the command waits for another event once the header is there.
process_clientInSteps(i) ==
    LET c == clients[i]
        r == [s |-> slot[i], read |-> taken[c], out |-> <<>>, files |-> files,
              errno |-> errno, ret |-> "more"]
    IN  IF slot[i].args = None THEN read_header_from_client(r, c) ELSE server_command(r, c)

process_client(i) ==
    LET c == clients[i]
        r == [s |-> slot[i], read |-> taken[c], out |-> <<>>, files |-> files,
              errno |-> errno, ret |-> "more"]
        parsed == IF slot[i].args = None THEN read_header_from_client(r, c) ELSE r
    IN  IF parsed.ret = "exit" THEN parsed ELSE server_command(parsed, c)

\* Mutant: the data buffer is not freed with the rest.
LeftKeepingData(r) == IF r.ret = "more" THEN r.s ELSE [Fresh EXCEPT !.data = r.s.data]

\* What a slot is left with.
Left(r) == IF r.ret = "more" THEN r.s ELSE Fresh

\* The call's effects, and the slot emptied and its connection closed unless
\* the request goes on.
Serve(i, r) ==
    LET c == clients[i]
        over == r.ret # "more"
        written == r.out \o (IF r.ret = "error" /\ Room(c) > 0 THEN <<<<"ERROR", 0>>>> ELSE <<>>)
    IN  /\ alive' = TRUE
        /\ files' = r.files /\ errno' = r.errno
        /\ taken' = [taken EXCEPT ![c] = r.read]
        /\ out' = [out EXCEPT ![c] = @ \o written]
        /\ unread' = [unread EXCEPT ![c] = IF c \in gone THEN @ ELSE @ + Len(written)]
        /\ slot' = [slot EXCEPT ![i] = Left(r)]
        /\ clients' = [clients EXCEPT ![i] = IF over THEN None ELSE @]
        /\ events' = [events EXCEPT ![i] = IF over THEN None ELSE @]
        /\ place' = [place EXCEPT ![c] = IF over THEN "closed" ELSE @]
        /\ edge' = IF over THEN edge \ {c} ELSE edge
        /\ Advance
        /\ UNCHANGED <<directory, clientVars, disturbed>>

Die == /\ alive' = FALSE
       /\ UNCHANGED <<directory, loopVars, clients, slot, errno, place, edge, clientVars,
                      taken, out, unread, disturbed>>

\* Any slot with a connection is served, whatever events says of it.  Writing
\* to a client that is gone, or shutting it down, may end the process, before
\* the file is written or after it is removed.
Process ==
    /\ alive /\ at # 0 /\ events[at] # Listener /\ clients[at] # None
    /\ LET r == process_client(at)
       IN  \/ r.ret # "exit" /\ Serve(at, r)
           \/ r.ret = "exit" /\ Die /\ UNCHANGED files
           \/ /\ clients[at] \in gone /\ (r.out # <<>> \/ r.ret = "error")
              /\ Die /\ files' \in {files, r.files}

\* SIGINT: the files are removed, and then the directory unless errno has been
\* left from any failed call (:1104), shutting down a client gone included.
Interrupt ==
    /\ alive
    /\ alive' = FALSE
    /\ files' = [f \in Files |-> <<>>]
    /\ directory' \in {errno, errno \/ gone \cap Range(clients) # {}}
    /\ UNCHANGED <<loopVars, clients, slot, errno, place, edge, clientVars, taken, out,
                   unread, disturbed>>

Next == \/ \E c \in Conns : Connect(c) \/ Send(c) \/ Receive(c) \/ Vanish(c)
        \/ Wait \/ Accept \/ Skip \/ Process
        \/ Interrupt

Spec == Init /\ [][Next]_vars
-----------------------------------------------------------------------------
Verb(c) == request[c].verb
Wrote(c, what) == \E k \in 1..Len(out[c]) : out[c][k][1] = what

\* Types, and what the slots are: each connection in at most one, open and not
\* yet answered, with an emptied slot for the next one; a connection the server
\* has accepted is in no slot only when somebody has taken its place (:313).
SlotsServed ==
    /\ alive \in BOOLEAN /\ directory \in BOOLEAN /\ errno \in BOOLEAN
    /\ at \in 0..MAX_CLIENTS /\ events \in [Slots -> Conns \cup {Listener, None}]
    /\ clients \in [Slots -> Conns \cup {None}]
    /\ \A c \in Conns : taken[c] <= sent[c] /\ unread[c] <= Capacity
    /\ \A i \in Slots : IF clients[i] = None THEN slot[i] = Fresh
                        ELSE place[clients[i]] = "accepted"
    /\ \A i, j \in Slots : clients[i] = clients[j] /\ clients[i] # None => i = j
    /\ edge \subseteq Accepted
    /\ \A c \in Accepted : c \notin Range(clients) => c \in disturbed

\* A GET answers with just what one PUT of that file has sent, as far as it
\* goes in its first call, whoever else puts, lists and deletes meanwhile; a
\* file mixed from two connections takes a slot that was taken over.
GetReturnsAPut ==
    \A c \in Conns \ disturbed :
       Verb(c) = "GET" /\ Wrote(c, "OK")
       => \E d \in Conns :
             /\ Verb(d) = "PUT" /\ request[d].file = request[c].file
             /\ LET reply == <<<<"OK", 0>>, <<"size", Len(Upload(d))>>>> \o Upload(d)
                    n == Min({Capacity, Len(reply)})
                IN  \/ d \in disturbed
                    \/ Len(out[c]) >= n /\ SubSeq(out[c], 1, n) = SubSeq(reply, 1, n)

\* Nobody is told OK and then an error, except by a GET whose file is deleted
\* before all of it has been sent.
OneVerdict ==
    \A c \in Conns \ disturbed :
       Wrote(c, "OK") /\ Wrote(c, "ERROR")
       => /\ Verb(c) = "GET" /\ Len(out[c]) > Capacity
          /\ \E d \in Conns : /\ Verb(d) = "DELETE" /\ taken[d] > 0
                              /\ request[d].file = request[c].file

\* What nothing in the code moves on: a reply is too long for one call, or a PUT
\* sends less than it has announced, or announces nothing.
Stuck(c) ==
    \/ Len(out[c]) >= Capacity
    \/ Verb(c) = "PUT" /\ request[c].sends < request[c].size
    \/ Verb(c) = "PUT" /\ request[c].size = 0

\* This round of the loop has still to come to c's slot.
StillToCome(c) == at # 0 /\ \E i \in at..MAX_CLIENTS : clients[i] = c

\* An edge-triggered event comes once, at any place of events, perhaps before
\* the connection has a slot, and a call may leave things unread.  Still, at any
\* time, a client the server has accepted that has sent all there is has an
\* event to be reported, or its slot is still to come, or it is stuck, displaced
\* or gone.  So nobody else is left unanswered by a server that sleeps in
\* epoll_wait with nothing to report.  It may also sleep in accept(), at a stale
\* entry of events when nobody is waiting (server.c:297): then those with an
\* event or with a slot after that entry stay unanswered until somebody connects,
\* who displaces the one whose slot is at it; this does not say otherwise.
NobodyForgotten ==
    \A c \in Accepted \ (disturbed \cup gone) :
       sent[c] = Len(Stream(c)) => c \in edge \/ StillToCome(c) \/ Stuck(c)
=============================================================================
