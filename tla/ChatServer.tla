----------------------------- MODULE ChatServer -----------------------------
(***************************************************************************)
(* The chatroom server of charming_chatroom/server.c: main accepts people  *)
(* into slots, one thread per slot reads a person's messages and writes    *)
(* them to every slot under the mutex.  A thread closes its descriptor     *)
(* before it takes the mutex to clear its slot, and the kernel gives a new *)
(* connection the lowest free descriptor.                                  *)
(*                                                                         *)
(* A message is its size and its body, each written with one call: pieces  *)
(* 2n - 1 and 2n belong to the n-th broadcast.  What it says is left out,  *)
(* and a message cut short by its sender's leaving is one like any other.  *)
(***************************************************************************)
EXTENDS Integers, Sequences, FiniteSets

CONSTANTS People,
          Arrivals,     \* the order in which they connect, each once
          Leavers,      \* those of them who may leave
          Departures,   \* how many of those do at most
          MAX_CLIENTS,
          Messages,     \* how many messages each person may send
          Capacity,     \* pieces a connection holds until the person reads
          Nobody        \* the connection behind a closed descriptor

Slots == 1..MAX_CLIENTS
Descriptors == 1..(MAX_CLIENTS + 1)  \* the slots' and client_fd

ASSUME ChatAssumption ==
    /\ Nobody \notin People /\ Arrivals \in Seq(People)
    /\ \A m, n \in 1..Len(Arrivals) : Arrivals[m] = Arrivals[n] => m = n
    /\ MAX_CLIENTS \in Nat \ {0} /\ Capacity \in Nat \ {0}
    /\ Leavers \subseteq People /\ Departures \in Nat
    /\ Messages \in [People -> Nat]

VARIABLES
    alive, endSession,
    mainAt, client_fd, swept,    \* main; the next slot for cleanup
    clients, clientsCount, fds,  \* a slot's descriptor or -1; its connection
    at, mutex, cursor, body,     \* the threads; the slot and part written now
    broadcasts,
    backlog, place, hungup,      \* those not accepted yet; how far each person
                                 \* got; who has left
    unsent, unread,              \* messages to send, and sent but not read
    stream, pending,             \* the pieces written to each; those not read
    joinedAt, inherited          \* history: broadcasts before joining; who was
                                 \* given a descriptor that a slot still held

mainVars == <<mainAt, client_fd, swept>>
tableVars == <<clients, clientsCount, fds>>
writeVars == <<mutex, cursor, body, broadcasts>>
peopleVars == <<backlog, place, hungup>>
talkVars == <<unsent, unread, pending>>
historyVars == <<joinedAt, inherited>>
vars == <<alive, endSession, mainVars, tableVars, at, writeVars, peopleVars,
          talkVars, stream, historyVars>>

Filled == {i \in Slots : clients[i] # -1}

TablesOK ==
    /\ alive \in BOOLEAN /\ endSession \in BOOLEAN
    /\ mainAt \in {"test", "accept", "admit", "cleanup", "done"}
    /\ client_fd \in Descriptors \cup {-1} /\ swept \in 1..(MAX_CLIENTS + 1)
    /\ clients \in [Slots -> Descriptors \cup {-1}]
    /\ clientsCount = Cardinality(Filled)
    /\ fds \in [Descriptors -> People \cup {Nobody}]
    /\ at \in [Slots -> {"none", "loop", "read", "lock", "write", "close", "clear"}]
    /\ mutex \in Slots \cup {0} /\ cursor \in Slots /\ body \in BOOLEAN
    /\ broadcasts \in Nat

PeopleOK ==
    /\ backlog \in Seq(People) /\ hungup \subseteq People
    /\ place \in [People -> {"waiting", "accepted", "admitted", "turned away"}]
    /\ unsent \in [People -> Nat] /\ unread \in [People -> Nat]
    /\ stream \in [People -> Seq(Int)] /\ pending \in [People -> Nat]
    /\ joinedAt \in [People -> Nat] /\ inherited \subseteq People

\* The slots and their threads, the descriptors and the people (server.c:23-29);
\* clientsCount is the number of filled slots, also after a failed
\* pthread_create (:160-163).
TypeOK == TablesOK /\ PeopleOK

Init ==
    /\ alive = TRUE /\ endSession = FALSE
    /\ mainAt = "test" /\ client_fd = -1 /\ swept = 1
    /\ clients = [i \in Slots |-> -1] /\ clientsCount = 0
    /\ fds = [f \in Descriptors |-> Nobody]
    /\ at = [i \in Slots |-> "none"]
    /\ mutex = 0 /\ cursor = 1 /\ body = FALSE /\ broadcasts = 0
    /\ backlog = Arrivals /\ place = [p \in People |-> "waiting"] /\ hungup = {}
    /\ unsent = Messages /\ unread = [p \in People |-> 0]
    /\ stream = [p \in People |-> <<>>] /\ pending = [p \in People |-> 0]
    /\ joinedAt = [p \in People |-> 0] /\ inherited = {}

-----------------------------------------------------------------------------
\* The people, whose connections wait in listen's backlog from the start.

Say(p) ==
    /\ alive /\ place[p] # "turned away" /\ p \notin hungup
    /\ unsent[p] > 0
    /\ unsent' = [unsent EXCEPT ![p] = @ - 1]
    /\ unread' = [unread EXCEPT ![p] = @ + 1]
    /\ UNCHANGED <<alive, endSession, mainVars, tableVars, at, writeVars,
                   peopleVars, pending, stream, historyVars>>

Receive(p) ==
    /\ alive /\ p \notin hungup /\ pending[p] > 0
    /\ pending' = [pending EXCEPT ![p] = @ - 1]
    /\ UNCHANGED <<alive, endSession, mainVars, tableVars, at, writeVars,
                   peopleVars, unsent, unread, stream, historyVars>>

HangUp(p) ==
    /\ alive /\ p \in Leavers /\ place[p] # "turned away" /\ p \notin hungup
    /\ Cardinality(hungup) < Departures
    /\ hungup' = hungup \cup {p}
    /\ UNCHANGED <<alive, endSession, mainVars, tableVars, at, writeVars, backlog,
                   place, talkVars, stream, historyVars>>

-----------------------------------------------------------------------------
\* main: run_server's loop and cleanup.

\* SIGINT sets the flag and interrupts accept, if main has got that far.
Interrupt ==
    /\ alive /\ ~endSession
    /\ endSession' = TRUE
    /\ mainAt' = IF mainAt = "accept" THEN "cleanup" ELSE mainAt
    /\ UNCHANGED <<alive, client_fd, swept, tableVars, at, writeVars, peopleVars,
                   talkVars, stream, historyVars>>

Test ==
    /\ alive /\ mainAt = "test"
    /\ mainAt' = IF endSession THEN "cleanup" ELSE "accept"
    /\ UNCHANGED <<alive, endSession, client_fd, swept, tableVars, at, writeVars,
                   peopleVars, talkVars, stream, historyVars>>

\* accept returns the lowest descriptor that is not open.
LowestFree == CHOOSE f \in Descriptors :
                /\ fds[f] = Nobody
                /\ \A g \in 1..(f - 1) : fds[g] # Nobody

Accept ==
    /\ alive /\ mainAt = "accept" /\ backlog # <<>>
    /\ client_fd' = LowestFree
    /\ fds' = [fds EXCEPT ![client_fd'] = Head(backlog)]
    /\ backlog' = Tail(backlog)
    /\ place' = [place EXCEPT ![Head(backlog)] = "accepted"]
    /\ inherited' = IF \E i \in Slots : clients[i] = client_fd'
                    THEN inherited \cup {Head(backlog)} ELSE inherited
    /\ mainAt' = "admit"
    /\ UNCHANGED <<alive, endSession, swept, clients, clientsCount, at, writeVars,
                   hungup, talkVars, stream, joinedAt>>

FreeSlot == CHOOSE i \in Slots :
              /\ clients[i] = -1
              /\ \A j \in 1..(i - 1) : clients[j] # -1

NewPerson == fds[client_fd]

Fill == /\ clients' = [clients EXCEPT ![FreeSlot] = client_fd]
        /\ clientsCount' = clientsCount + 1

\* Mutant: main does not take the mutex.
AdmitUnlocked ==
    /\ alive /\ mainAt = "admit" /\ clientsCount < MAX_CLIENTS
    /\ Fill
    /\ at' = [at EXCEPT ![FreeSlot] = "loop"]
    /\ place' = [place EXCEPT ![NewPerson] = "admitted"]
    /\ joinedAt' = [joinedAt EXCEPT ![NewPerson] = broadcasts]
    /\ mainAt' = "test" /\ client_fd' = -1
    /\ UNCHANGED <<alive, endSession, swept, fds, writeVars, backlog, hungup, talkVars,
                   stream, inherited>>

\* The mutex is taken and released again; client_fd goes to a slot and a
\* thread is created for it.
Admit ==
    /\ alive /\ mainAt = "admit" /\ mutex = 0 /\ clientsCount < MAX_CLIENTS
    /\ Fill
    /\ at' = [at EXCEPT ![FreeSlot] = "loop"]
    /\ place' = [place EXCEPT ![NewPerson] = "admitted"]
    /\ joinedAt' = [joinedAt EXCEPT ![NewPerson] = broadcasts]
    /\ mainAt' = "test" /\ client_fd' = -1
    /\ UNCHANGED <<alive, endSession, swept, fds, writeVars, backlog, hungup, talkVars,
                   stream, inherited>>

\* Mutant: the person who got no thread is not counted.
CreateFailsUncounted ==
    /\ alive /\ mainAt = "admit" /\ mutex = 0 /\ clientsCount < MAX_CLIENTS
    /\ clients' = [clients EXCEPT ![FreeSlot] = client_fd]
    /\ fds' = [fds EXCEPT ![client_fd] = Nobody]
    /\ place' = [place EXCEPT ![NewPerson] = "turned away"]
    /\ mainAt' = "test" /\ client_fd' = -1
    /\ UNCHANGED <<alive, endSession, swept, clientsCount, at, writeVars, backlog,
                   hungup, talkVars, stream, historyVars>>

\* pthread_create fails: the descriptor is closed, the slot stays filled.
CreateFails ==
    /\ alive /\ mainAt = "admit" /\ mutex = 0 /\ clientsCount < MAX_CLIENTS
    /\ Fill
    /\ fds' = [fds EXCEPT ![client_fd] = Nobody]
    /\ place' = [place EXCEPT ![NewPerson] = "turned away"]
    /\ mainAt' = "test" /\ client_fd' = -1
    /\ UNCHANGED <<alive, endSession, swept, at, writeVars, backlog, hungup, talkVars,
                   stream, historyVars>>

\* The process ends: its memory is gone and all its descriptors are closed.
Exit ==
    /\ alive' = FALSE
    /\ mainAt' = "done" /\ client_fd' = -1 /\ swept' = 1
    /\ clients' = [i \in Slots |-> -1] /\ clientsCount' = 0
    /\ fds' = [f \in Descriptors |-> Nobody]
    /\ at' = [i \in Slots |-> "none"]
    /\ mutex' = 0 /\ cursor' = 1 /\ body' = FALSE
    /\ UNCHANGED <<endSession, broadcasts, peopleVars, talkVars, stream, historyVars>>

\* The room is full.
Refuse ==
    /\ alive /\ mainAt = "admit" /\ mutex = 0 /\ clientsCount >= MAX_CLIENTS
    /\ fds' = [fds EXCEPT ![client_fd] = Nobody]
    /\ place' = [place EXCEPT ![NewPerson] = "turned away"]
    /\ mainAt' = "test" /\ client_fd' = -1
    /\ UNCHANGED <<alive, endSession, swept, clients, clientsCount, at, writeVars,
                   backlog, hungup, talkVars, stream, historyVars>>

\* shutdown fails for somebody who has left already: exit(1).
RefuseFails ==
    /\ alive /\ mainAt = "admit" /\ mutex = 0 /\ clientsCount >= MAX_CLIENTS
    /\ NewPerson \in hungup
    /\ Exit

\* Mutant: nobody's connection is shut down.
SweepNothing ==
    /\ alive /\ mainAt = "cleanup"
    /\ swept' = swept + 1
    /\ mainAt' = IF swept = MAX_CLIENTS THEN "done" ELSE "cleanup"
    /\ UNCHANGED <<alive, endSession, client_fd, tableVars, at, writeVars,
                   peopleVars, talkVars, stream, historyVars>>

\* cleanup shuts down and closes the connection of one slot after the other,
\* without the mutex; then main ends, but not the process.
Sweep ==
    /\ alive /\ mainAt = "cleanup"
    /\ swept' = swept + 1
    /\ fds' = IF clients[swept] = -1 THEN fds
                                     ELSE [fds EXCEPT ![clients[swept]] = Nobody]
    /\ mainAt' = IF swept = MAX_CLIENTS THEN "done" ELSE "cleanup"
    /\ UNCHANGED <<alive, endSession, client_fd, clients, clientsCount, at, writeVars,
                   peopleVars, talkVars, stream, historyVars>>

-----------------------------------------------------------------------------
\* process_client and write_to_clients, in the thread of slot i.

Goto(i, step) == at' = [at EXCEPT ![i] = step]

Speaker(i) == fds[clients[i]]

Loop(i) ==
    /\ alive /\ at[i] = "loop"
    /\ Goto(i, IF endSession THEN "close" ELSE "read")
    /\ UNCHANGED <<alive, endSession, mainVars, tableVars, writeVars, peopleVars,
                   talkVars, stream, historyVars>>

Read(i) ==
    /\ alive /\ at[i] = "read" /\ Speaker(i) # Nobody /\ unread[Speaker(i)] > 0
    /\ unread' = [unread EXCEPT ![Speaker(i)] = @ - 1]
    /\ Goto(i, "lock")
    /\ UNCHANGED <<alive, endSession, mainVars, tableVars, writeVars, peopleVars,
                   unsent, pending, stream, historyVars>>

\* Mutant: the thread tries to read again.
ReadAgain(i) ==
    /\ alive /\ at[i] = "read" /\ Speaker(i) \in hungup \cup {Nobody}
    /\ Goto(i, "loop")
    /\ UNCHANGED <<alive, endSession, mainVars, tableVars, writeVars, peopleVars,
                   talkVars, stream, historyVars>>

\* The person has left, messages still unread or not, or cleanup was here.
ReadFails(i) ==
    /\ alive /\ at[i] = "read" /\ Speaker(i) \in hungup \cup {Nobody}
    /\ Goto(i, "close")
    /\ UNCHANGED <<alive, endSession, mainVars, tableVars, writeVars, peopleVars,
                   talkVars, stream, historyVars>>

Lock(i) ==
    /\ alive /\ at[i] = "lock" /\ mutex = 0
    /\ mutex' = i
    /\ broadcasts' = broadcasts + 1
    /\ cursor' = 1 /\ body' = FALSE
    /\ Goto(i, "write")
    /\ UNCHANGED <<alive, endSession, mainVars, tableVars, peopleVars, talkVars,
                   stream, historyVars>>

\* On to the next slot; after the last one, unlock and back to reading.
NextSlot(i) ==
    /\ body' = FALSE
    /\ IF cursor < MAX_CLIENTS
       THEN cursor' = cursor + 1 /\ UNCHANGED <<mutex, at>>
       ELSE cursor' = 1 /\ mutex' = 0 /\ Goto(i, "loop")

\* After the size comes the body, after the body the next slot.
NextPiece(i) == IF body THEN NextSlot(i)
                        ELSE body' = TRUE /\ UNCHANGED <<cursor, mutex, at>>

Writing(i) == alive /\ at[i] = "write" /\ mutex = i

Listener == IF clients[cursor] = -1 THEN Nobody ELSE fds[clients[cursor]]

\* The slot is empty, or its descriptor has been closed.
Skip(i) ==
    /\ Writing(i) /\ Listener = Nobody
    /\ NextSlot(i)
    /\ UNCHANGED <<alive, endSession, mainVars, tableVars, broadcasts, peopleVars,
                   talkVars, stream, historyVars>>

\* One write, which waits until the connection has room.
Write(i) ==
    /\ Writing(i) /\ Listener \notin hungup \cup {Nobody}
    /\ pending[Listener] < Capacity
    /\ pending' = [pending EXCEPT ![Listener] = @ + 1]
    /\ stream' = [stream EXCEPT ![Listener] =
                    Append(@, IF body THEN 2 * broadcasts ELSE 2 * broadcasts - 1)]
    /\ NextPiece(i)
    /\ UNCHANGED <<alive, endSession, mainVars, tableVars, broadcasts, peopleVars,
                   unsent, unread, historyVars>>

\* A write to somebody who has left: nobody reads what it wrote, or it fails.
WriteInVain(i) ==
    /\ Writing(i) /\ Listener \in hungup
    /\ NextPiece(i) \/ NextSlot(i)
    /\ UNCHANGED <<alive, endSession, mainVars, tableVars, broadcasts, peopleVars,
                   talkVars, stream, historyVars>>

\* Or SIGPIPE, which nobody catches, ends the server; so it does when cleanup
\* shuts down a connection that is being written to.
BrokenPipe(i) ==
    /\ Writing(i)
    /\ Listener \in hungup \/ mainAt \in {"cleanup", "done"}
    /\ Exit

Close(i) ==
    /\ alive /\ at[i] = "close"
    /\ fds' = [fds EXCEPT ![clients[i]] = Nobody]
    /\ Goto(i, "clear")
    /\ UNCHANGED <<alive, endSession, mainVars, clients, clientsCount, writeVars,
                   peopleVars, talkVars, stream, historyVars>>

\* Mutant: the slot's descriptor is closed again.
ClearAndClose(i) ==
    /\ alive /\ at[i] = "clear" /\ mutex = 0
    /\ fds' = [fds EXCEPT ![clients[i]] = Nobody]
    /\ clients' = [clients EXCEPT ![i] = -1] /\ clientsCount' = clientsCount - 1
    /\ Goto(i, "none")
    /\ UNCHANGED <<alive, endSession, mainVars, writeVars, peopleVars,
                   talkVars, stream, historyVars>>

\* Under the mutex, taken and released again.
Clear(i) ==
    /\ alive /\ at[i] = "clear" /\ mutex = 0
    /\ clients' = [clients EXCEPT ![i] = -1] /\ clientsCount' = clientsCount - 1
    /\ Goto(i, "none")
    /\ UNCHANGED <<alive, endSession, mainVars, fds, writeVars, peopleVars,
                   talkVars, stream, historyVars>>

-----------------------------------------------------------------------------
MainStep == \/ Test \/ Accept
            \/ Admit \/ CreateFails \/ Refuse \/ RefuseFails \/ Sweep

ThreadStep(i) == \/ Loop(i) \/ Read(i) \/ ReadFails(i)
                 \/ Lock(i) \/ Skip(i) \/ Write(i) \/ WriteInVain(i) \/ BrokenPipe(i)
                 \/ Close(i) \/ Clear(i)

Next == \/ \E p \in People : Say(p) \/ Receive(p) \/ HangUp(p)
        \/ Interrupt \/ MainStep
        \/ \E i \in Slots : ThreadStep(i)

Spec == Init /\ [][Next]_vars

\* The threads are scheduled, each gets the mutex when it is free again and
\* again, and the people who stay go on reading.
Fairness == /\ WF_vars(MainStep) /\ \A i \in Slots : WF_vars(ThreadStep(i))
            /\ WF_vars(\E p \in People : Receive(p))

FairSpec == Spec /\ Fairness

-----------------------------------------------------------------------------
\* clientsCount and the slots agree where main counts on it: below the limit
\* its search for a slot (server.c:151-159) finds one, and no slot with a
\* thread is filled again.
RoomIsRoom ==
    /\ clientsCount < MAX_CLIENTS => \E i \in Slots : clients[i] = -1
    /\ \A i \in Slots : clients[i] = -1 => at[i] = "none"

\* In the room, under a descriptor that no other slot held any more.
Attending(p) == place[p] = "admitted" /\ p \notin inherited

\* Who joined under a descriptor that no slot held any more gets every
\* message broadcast since, size and body, once and in the one order of the
\* broadcasts (write_to_clients, server.c:182-196).
EveryMessageOnce ==
    \A p \in People : Attending(p) =>
       /\ \A n \in 1..Len(stream[p]) : stream[p][n] = 2 * joinedAt[p] + n
       /\ mutex = 0 /\ p \notin hungup /\ (\E f \in Descriptors : fds[f] = p)
          => Len(stream[p]) = 2 * (broadcasts - joinedAt[p])

\* Until the session ends no thread closes the connection of somebody in the
\* room who has not left (server.c:227-232): a descriptor that is closed
\* belongs to the one who closes it, whoever was given its number meanwhile.
NobodyCutOff ==
    [][\A f \in Descriptors, p \in People :
         fds[f] = p /\ fds'[f] # p /\ place[p] = "admitted"
         => p \in hungup \/ endSession \/ ~alive']_vars

\* Who leaves is noticed and the connection closed, as long as the server
\* lives and those who stay go on reading (server.c:212-227).
LeavingIsNoticed ==
    \A p \in Leavers :
       p \in hungup /\ place[p] = "admitted"
       ~> ~alive \/ \A f \in Descriptors : fds[f] # p

\* After cleanup the threads end, and with them the process (server.c:45-59,
\* main's pthread_exit).
ServerEnds == mainAt = "done" ~> ~alive \/ \A i \in Slots : at[i] = "none"

\* "Broadcasts the message to all connected clients" (server.c:177): what any
\* of them receives is whole messages, a size and then its body.
WholeMessages ==
    \A p \in People : \A n \in 1..Len(stream[p]) :
       stream[p][n] % 2 = 0 => n > 1 /\ stream[p][n - 1] = stream[p][n] - 1
=============================================================================
