----------------------------- MODULE ChatProofs -----------------------------
(***************************************************************************)
(* Proofs about ChatServer, for any number of people, slots and messages:  *)
(* its types, that the search for a slot finds one that has no thread,     *)
(* that no thread closes a connection that belongs to somebody else, and   *)
(* that who joins under a descriptor of their own hears every message      *)
(* since, once and in order.                                               *)
(***************************************************************************)
EXTENDS ChatServer, FiniteSetTheorems, WellFoundedInduction, TLAPS

\* Every nonempty set of naturals has a least element.
LEMMA LeastNumber ==
  ASSUME NEW T \in SUBSET Nat, T # {}
  PROVE  \E x \in T : \A y \in T : x <= y
<1>1. PICK x \in T : \A y \in T : ~ (<<y, x>> \in OpToRel(<, Nat))
  BY NatLessThanWellFounded, WFMin
<1>2. \A y \in T : x \in Nat /\ y \in Nat
  OBVIOUS
<1>3. \A y \in T : ~ (y < x)
  BY <1>1, <1>2, Zenon DEF OpToRel
<1> QED BY <1>2, <1>3

\* A thread that may still use its descriptor.
Live(i) == at[i] \notin {"none", "clear"}

\* A descriptor that is open belongs to one thread, or to main while it lets
\* somebody in; only cleanup takes it away from a thread.  Two slots can name
\* the same descriptor when all but one have closed it.
Owned ==
    /\ \A i \in Slots : clients[i] = -1 => at[i] = "none"
    /\ \A f \in Descriptors : fds[f] # Nobody =>
          \/ mainAt = "admit" /\ client_fd = f
          \/ \E i \in Slots : clients[i] = f /\ Live(i)
    /\ \A i, j \in Slots : Live(i) /\ Live(j) /\ clients[i] = clients[j] => i = j
    /\ mainAt \notin {"cleanup", "done"} =>
          \A i \in Slots : Live(i) => fds[clients[i]] # Nobody
    /\ mainAt = "admit" =>
          /\ client_fd \in Descriptors /\ fds[client_fd] # Nobody
          /\ \A i \in Slots : Live(i) => clients[i] # client_fd
          /\ place[fds[client_fd]] = "accepted"

\* Why a thread closes: the session ends, or its person has left; and how far
\* cleanup has got.
Closing ==
    /\ alive /\ mainAt \in {"cleanup", "done"} => endSession
    /\ mainAt # "done" => swept \in Slots
    /\ \A i \in Slots : at[i] = "close" => endSession \/ fds[clients[i]] \in hungup

ChatInv == TypeOK /\ Owned /\ Closing

USE ChatAssumption

\* The filled slots are finitely many, and all of them when MAX_CLIENTS are.
LEMMA FilledFinite ==
  /\ IsFiniteSet(Filled) /\ Cardinality(Filled) \in Nat
  /\ Cardinality(Filled) < MAX_CLIENTS => \E i \in Slots : clients[i] = -1
<1>1. IsFiniteSet(Slots) /\ Cardinality(Slots) = MAX_CLIENTS
  BY FS_Interval DEF Slots
<1>2. Filled \subseteq Slots
  BY DEF Filled
<1>3. IsFiniteSet(Filled) /\ Cardinality(Filled) \in Nat
  BY <1>1, <1>2, FS_Subset, FS_CardinalityType
<1>4. Cardinality(Filled) < MAX_CLIENTS => Filled # Slots
  BY <1>1, <1>3
<1> QED BY <1>2, <1>3, <1>4 DEF Filled

\* Below the limit main's search for a slot ends at an empty one
\* (server.c:151-159).
LEMMA SlotFound ==
  ASSUME TablesOK, clientsCount < MAX_CLIENTS
  PROVE  FreeSlot \in Slots /\ clients[FreeSlot] = -1
<1> DEFINE T == {i \in Slots : clients[i] = -1}
<1>1. T # {}
  BY FilledFinite DEF TablesOK, Filled
<1>2. PICK i \in T : \A j \in T : i <= j
  <2>1. T \in SUBSET Nat
    BY DEF Slots
  <2> HIDE DEF T
  <2> QED BY <1>1, <2>1, LeastNumber
<1>3. /\ i \in Slots /\ clients[i] = -1
      /\ \A j \in 1..(i - 1) : clients[j] # -1
  BY <1>2 DEF Slots
<1> QED BY <1>3 DEF FreeSlot

\* The kernel finds a descriptor for accept: there is one more than slots, and
\* every open one belongs to a slot (server.c:141).
LEMMA DescriptorFound ==
  ASSUME ChatInv, mainAt = "accept"
  PROVE  LowestFree \in Descriptors /\ fds[LowestFree] = Nobody
<1> DEFINE T == {f \in Descriptors : fds[f] = Nobody}
<1>1. T # {}
  <2> SUFFICES ASSUME \A f \in Descriptors : fds[f] # Nobody PROVE FALSE
    OBVIOUS
  <2> DEFINE h == [f \in Descriptors |-> CHOOSE i \in Slots : clients[i] = f /\ Live(i)]
  <2>1. \A f \in Descriptors : h[f] \in Slots /\ clients[h[f]] = f
    BY DEF ChatInv, Owned
  <2>2. /\ IsFiniteSet(Slots) /\ Cardinality(Slots) = MAX_CLIENTS
        /\ IsFiniteSet(Descriptors) /\ Cardinality(Descriptors) = MAX_CLIENTS + 1
    BY FS_Interval DEF Slots, Descriptors
  <2>3. h \in [Descriptors -> Slots]
    BY <2>1
  <2> HIDE DEF h
  <2>4. \E f, g \in Descriptors : f # g /\ h[f] = h[g]
    BY <2>2, <2>3, FS_PigeonHole
  <2> QED BY <2>1, <2>4
<1>2. PICK f \in T : \A g \in T : f <= g
  <2>1. T \in SUBSET Nat
    BY DEF Descriptors
  <2> HIDE DEF T
  <2> QED BY <1>1, <2>1, LeastNumber
<1>3. /\ f \in Descriptors /\ fds[f] = Nobody
      /\ \A g \in 1..(f - 1) : fds[g] # Nobody
  BY <1>2 DEF Descriptors
<1> QED BY <1>3 DEF LowestFree

-----------------------------------------------------------------------------
\* How often a slot is filled or emptied, clientsCount follows.
LEMMA CountFollows ==
  ASSUME TablesOK, NEW i \in Slots, NEW f \in Descriptors
  PROVE  /\ clients[i] = -1 /\ clients' = [clients EXCEPT ![i] = f]
            => Cardinality(Filled') = clientsCount + 1
         /\ clients[i] # -1 /\ clients' = [clients EXCEPT ![i] = -1]
            => Cardinality(Filled') = clientsCount - 1
<1>1. f # -1
  BY DEF Descriptors
<1>2. clientsCount = Cardinality(Filled) /\ clientsCount \in Nat
  BY FilledFinite DEF TablesOK
<1>3. ASSUME clients[i] = -1, clients' = [clients EXCEPT ![i] = f]
      PROVE  Cardinality(Filled') = clientsCount + 1
  <2>1. \A j \in Slots : clients'[j] = IF j = i THEN f ELSE clients[j]
    BY <1>3 DEF TablesOK
  <2>2. Filled' = Filled \cup {i} /\ i \notin Filled
    BY <1>1, <1>3, <2>1 DEF Filled
  <2>3. Cardinality(Filled \cup {i}) = Cardinality(Filled) + 1
    BY <2>2, FilledFinite, FS_AddElement
  <2> QED BY <1>2, <2>2, <2>3
<1>4. ASSUME clients[i] # -1, clients' = [clients EXCEPT ![i] = -1]
      PROVE  Cardinality(Filled') = clientsCount - 1
  <2>1. \A j \in Slots : clients'[j] = IF j = i THEN -1 ELSE clients[j]
    BY <1>4 DEF TablesOK
  <2>2. Filled' = Filled \ {i} /\ i \in Filled
    BY <1>4, <2>1 DEF Filled
  <2>3. Cardinality(Filled \ {i}) = Cardinality(Filled) - 1
    BY <2>2, FilledFinite, FS_RemoveElement
  <2> QED BY <1>2, <2>2, <2>3
<1> QED BY <1>3, <1>4

\* There is a slot to begin a broadcast and a sweep with.
LEMMA FirstSlot == 1 \in Slots /\ 1 \in 1..(MAX_CLIENTS + 1)
BY DEF Slots

\* run_server starts with an empty room.
LEMMA ChatInit == Init => ChatInv
<1> SUFFICES ASSUME Init PROVE ChatInv
  OBVIOUS
<1>1. Filled = {}
  BY DEF Init, Filled
<1>2. Cardinality(Filled) = 0
  BY <1>1, FS_EmptySet
<1>3. TablesOK
  BY <1>2, FirstSlot DEF Init, TablesOK
<1>4. PeopleOK
  <2>1. <<>> \in Seq(Int)
    OBVIOUS
  <2> QED BY <2>1 DEF Init, PeopleOK
<1>5. Owned /\ Closing
  BY FirstSlot DEF Init, Owned, Closing, Live
<1> QED BY <1>3, <1>4, <1>5 DEF ChatInv, TypeOK

\* The end of the process leaves nobody with anything.
LEMMA ExitStep == ASSUME ChatInv, Exit PROVE ChatInv'
<1>1. Filled' = {}
  BY DEF Exit, Filled
<1>2. Cardinality(Filled') = 0
  BY <1>1, FS_EmptySet
<1>3. TablesOK'
  BY <1>2, FirstSlot DEF ChatInv, TypeOK, TablesOK, Exit
<1>4. PeopleOK'
  BY DEF ChatInv, TypeOK, PeopleOK, Exit, peopleVars, talkVars, historyVars
<1>5. Owned' /\ Closing'
  BY DEF Exit, Owned, Closing, Live
<1> QED BY <1>3, <1>4, <1>5 DEF ChatInv, TypeOK

\* The descriptors of threads that may still use theirs.
LEMMA LiveDescriptor ==
  ASSUME TablesOK, Owned, NEW i \in Slots, Live(i)
  PROVE  clients[i] \in Descriptors /\ clients[i] # -1
BY DEF TablesOK, Owned, Live

\* accept gives a descriptor that no thread may use any more.
LEMMA AcceptStep == ASSUME ChatInv, Accept PROVE ChatInv'
<1> DEFINE f == LowestFree
<1>1. mainAt = "accept" /\ f \in Descriptors /\ fds[f] = Nobody
  BY DescriptorFound DEF Accept
<1>2. Head(backlog) \in People /\ Tail(backlog) \in Seq(People)
  <2>1. backlog \in Seq(People) /\ backlog # <<>>
    BY DEF ChatInv, TypeOK, PeopleOK, Accept
  <2> QED BY <2>1
<1>3. /\ client_fd' = f /\ fds' = [fds EXCEPT ![f] = Head(backlog)]
      /\ place' = [place EXCEPT ![Head(backlog)] = "accepted"] /\ mainAt' = "admit"
      /\ UNCHANGED <<clients, clientsCount, at, endSession, hungup>>
  BY DEF Accept
<1>4. TypeOK'
  <2>1. Filled' = Filled
    BY <1>3 DEF Filled
  <2>2. TablesOK'
    BY <1>1, <1>2, <1>3, <2>1 DEF ChatInv, TypeOK, TablesOK, Accept, writeVars
  <2>3. backlog' \in Seq(People) /\ inherited' \subseteq People
    BY <1>2 DEF ChatInv, TypeOK, PeopleOK, Accept
  <2>4. place' \in [People -> {"waiting", "accepted", "admitted", "turned away"}]
    BY <1>2, <1>3 DEF ChatInv, TypeOK, PeopleOK
  <2>5. UNCHANGED <<hungup, talkVars, stream, joinedAt>>
    BY DEF Accept
  <2>6. PeopleOK'
    BY <2>3, <2>4, <2>5 DEF ChatInv, TypeOK, PeopleOK, talkVars
  <2> QED BY <2>2, <2>6 DEF TypeOK
<1>5. Owned'
  <2> HIDE DEF f
  <2>1. \A i \in Slots : Live(i) => clients[i] # f /\ clients[i] \in Descriptors
    BY <1>1, LiveDescriptor DEF ChatInv, TypeOK, Owned
  <2>2. \A i \in Slots : Live(i)' = Live(i)
    BY <1>3 DEF Live
  <2>3. \A g \in Descriptors : fds'[g] = IF g = f THEN Head(backlog) ELSE fds[g]
    BY <1>3 DEF ChatInv, TypeOK, TablesOK
  <2>4. place'[Head(backlog)] = "accepted"
    BY <1>2, <1>3 DEF ChatInv, TypeOK, PeopleOK
  <2> QED BY <1>1, <1>2, <1>3, <2>1, <2>2, <2>3, <2>4 DEF ChatInv, Owned
<1>6. Closing'
  <2>1. \A i \in Slots : at[i] = "close" => clients[i] # f /\ clients[i] \in Descriptors
    BY <1>1, LiveDescriptor DEF ChatInv, TypeOK, Owned, Live
  <2>2. UNCHANGED <<alive, swept>>
    BY DEF Accept
  <2> QED BY <1>1, <1>3, <2>1, <2>2 DEF ChatInv, Closing, TypeOK, TablesOK
<1> QED BY <1>4, <1>5, <1>6 DEF ChatInv

\* Main lets somebody in: the descriptor goes to an empty slot and its thread.
LEMMA AdmitStep == ASSUME ChatInv, Admit PROVE ChatInv'
<1> DEFINE k == FreeSlot
           f == client_fd
<1>1. k \in Slots /\ clients[k] = -1 /\ at[k] = "none"
  BY SlotFound DEF Admit, ChatInv, TypeOK, Owned
<1>2. /\ f \in Descriptors /\ f # -1 /\ fds[f] \in People
      /\ \A i \in Slots : Live(i) => clients[i] # f
  BY DEF Admit, ChatInv, TypeOK, TablesOK, Owned, Descriptors
<1>3. /\ mainAt' = "test" /\ client_fd' = -1
      /\ UNCHANGED <<fds, alive, endSession, swept, hungup, writeVars>>
  BY DEF Admit
<1>4. \A i \in Slots : /\ clients'[i] = IF i = k THEN f ELSE clients[i]
                       /\ at'[i] = IF i = k THEN "loop" ELSE at[i]
  BY <1>1 DEF Admit, Fill, ChatInv, TypeOK, TablesOK
<1>5. TablesOK'
  <2>1. clientsCount' = Cardinality(Filled')
    BY <1>1, <1>2, CountFollows DEF Admit, Fill, ChatInv, TypeOK
  <2>2. clients' \in [Slots -> Descriptors \cup {-1}]
    BY <1>1, <1>2 DEF Admit, Fill, ChatInv, TypeOK, TablesOK
  <2>3. at' \in [Slots -> {"none", "loop", "read", "lock", "write", "close", "clear"}]
    BY <1>1 DEF Admit, ChatInv, TypeOK, TablesOK
  <2> QED BY <1>3, <2>1, <2>2, <2>3 DEF ChatInv, TypeOK, TablesOK, writeVars
<1>6. PeopleOK'
  BY <1>2 DEF Admit, NewPerson, ChatInv, TypeOK, TablesOK, PeopleOK, talkVars
<1>7. Owned'
  <2> HIDE DEF k, f
  <2>1. \A i \in Slots : Live(i)' <=> (i = k \/ Live(i))
    BY <1>4 DEF Live
  <2>2. ~Live(k)
    BY <1>1 DEF Live
  <2>3. mainAt = "admit" /\ f = client_fd /\ fds[f] # Nobody
    BY <1>2 DEF Admit, f
  <2>4. \A i \in Slots : clients'[i] = -1 => at'[i] = "none"
    BY <1>2, <1>4 DEF ChatInv, Owned
  <2>5. ASSUME NEW g \in Descriptors, fds'[g] # Nobody
        PROVE  \E i \in Slots : clients'[i] = g /\ Live(i)'
    <3>1. CASE g = f
      BY <1>1, <1>4, <2>1, <3>1
    <3>2. CASE g # f
      <4>1. PICK i \in Slots : clients[i] = g /\ Live(i)
        BY <1>3, <2>3, <2>5, <3>2 DEF ChatInv, Owned
      <4> QED BY <1>4, <2>1, <2>2, <4>1
    <3> QED BY <3>1, <3>2
  <2>6. \A i, j \in Slots : Live(i)' /\ Live(j)' /\ clients'[i] = clients'[j] => i = j
    BY <1>2, <1>4, <2>1 DEF ChatInv, Owned
  <2>7. \A i \in Slots : Live(i)' => fds'[clients'[i]] # Nobody
    BY <1>3, <1>4, <2>1, <2>3 DEF ChatInv, Owned
  <2> QED BY <1>3, <2>4, <2>5, <2>6, <2>7 DEF Owned
<1>8. Closing'
  <2>1. mainAt = "admit" /\ alive
    BY DEF Admit
  <2> QED BY <1>1, <1>3, <1>4, <2>1 DEF ChatInv, Closing
<1> QED BY <1>5, <1>6, <1>7, <1>8 DEF ChatInv, TypeOK

\* Main turns somebody away: the descriptor is closed; after a failed
\* pthread_create a slot keeps its number, without a thread.
LEMMA TurnAwayStep == ASSUME ChatInv, CreateFails \/ Refuse PROVE ChatInv'
<1> DEFINE k == FreeSlot
           f == client_fd
<1>1. CreateFails => k \in Slots /\ clients[k] = -1 /\ at[k] = "none"
  BY SlotFound DEF CreateFails, ChatInv, TypeOK, Owned
<1>2. /\ mainAt = "admit" /\ f \in Descriptors /\ f # -1 /\ fds[f] \in People
      /\ \A i \in Slots : Live(i) => clients[i] # f
  <2>1. mainAt = "admit"
    BY DEF CreateFails, Refuse
  <2>2. /\ client_fd \in Descriptors /\ fds[client_fd] # Nobody
        /\ \A i \in Slots : Live(i) => clients[i] # client_fd
    BY <2>1 DEF ChatInv, Owned
  <2> QED BY <2>1, <2>2 DEF ChatInv, TypeOK, TablesOK, Descriptors
<1>3. /\ mainAt' = "test" /\ client_fd' = -1
      /\ UNCHANGED <<alive, endSession, swept, at, hungup, writeVars>>
  BY DEF CreateFails, Refuse
<1>4. /\ \A g \in Descriptors : fds'[g] = IF g = f THEN Nobody ELSE fds[g]
      /\ fds' \in [Descriptors -> People \cup {Nobody}]
  BY <1>2 DEF CreateFails, Refuse, ChatInv, TypeOK, TablesOK
<1>5. \A i \in Slots : clients'[i] = clients[i] \/ (at[i] = "none" /\ clients'[i] = f)
  BY <1>1, <1>2 DEF CreateFails, Refuse, Fill, ChatInv, TypeOK, TablesOK
<1>6. TablesOK'
  <2>1. clientsCount' = Cardinality(Filled')
    <3>1. CASE CreateFails
      BY <1>1, <1>2, <3>1, CountFollows DEF CreateFails, Fill, ChatInv, TypeOK
    <3>2. CASE Refuse
      <4>1. Filled' = Filled
        BY <3>2 DEF Refuse, Filled
      <4> QED BY <3>2, <4>1 DEF Refuse, ChatInv, TypeOK, TablesOK
    <3> QED BY <3>1, <3>2
  <2>2. clients' \in [Slots -> Descriptors \cup {-1}]
    BY <1>1, <1>2 DEF CreateFails, Refuse, Fill, ChatInv, TypeOK, TablesOK
  <2> QED BY <1>3, <1>4, <2>1, <2>2 DEF ChatInv, TypeOK, TablesOK, writeVars
<1>7. PeopleOK'
  BY <1>2 DEF CreateFails, Refuse, NewPerson, ChatInv, TypeOK, TablesOK, PeopleOK,
              talkVars, historyVars
<1>8. Owned'
  <2> HIDE DEF k, f
  <2>1. \A i \in Slots : /\ Live(i)' <=> Live(i)
                         /\ Live(i) => clients'[i] = clients[i] /\ clients[i] # f
                                       /\ clients[i] \in Descriptors
    BY <1>2, <1>3, <1>5, LiveDescriptor DEF Live, ChatInv, TypeOK
  <2>2. f = client_fd
    BY DEF f
  <2> QED BY <1>2, <1>3, <1>4, <1>5, <2>1, <2>2 DEF ChatInv, Owned
<1>9. Closing'
  <2>1. \A i \in Slots : at[i] = "close" =>
            clients'[i] = clients[i] /\ clients[i] # f /\ clients[i] \in Descriptors
    BY <1>2, <1>5, LiveDescriptor DEF Live, ChatInv, TypeOK
  <2> QED BY <1>2, <1>3, <1>4, <2>1 DEF ChatInv, Closing
<1> QED BY <1>6, <1>7, <1>8, <1>9 DEF ChatInv, TypeOK

\* cleanup closes the descriptor of one slot.
LEMMA SweepStep == ASSUME ChatInv, Sweep PROVE ChatInv'
<1>1. /\ alive /\ mainAt = "cleanup" /\ swept \in Slots /\ swept' = swept + 1
      /\ UNCHANGED <<alive, endSession, client_fd, clients, clientsCount, at, writeVars,
                     peopleVars, talkVars, stream, historyVars>>
  BY DEF Sweep, ChatInv, Closing
<1>2. /\ fds' \in [Descriptors -> People \cup {Nobody}]
      /\ \A f \in Descriptors : fds'[f] \in {fds[f], Nobody}
  BY <1>1 DEF Sweep, ChatInv, TypeOK, TablesOK
<1>3. /\ mainAt' \in {"cleanup", "done"}
      /\ swept' \in 1..(MAX_CLIENTS + 1) /\ (mainAt' = "cleanup" => swept' \in Slots)
  BY <1>1 DEF Sweep, Slots
<1>4. TypeOK'
  <2>1. Filled' = Filled
    BY <1>1 DEF Filled
  <2>2. TablesOK'
    BY <1>1, <1>2, <1>3, <2>1 DEF ChatInv, TypeOK, TablesOK, writeVars
  <2>3. PeopleOK'
    BY <1>1 DEF ChatInv, TypeOK, PeopleOK, peopleVars, talkVars, historyVars
  <2> QED BY <2>2, <2>3 DEF TypeOK
<1>5. Owned'
  BY <1>1, <1>2, <1>3 DEF ChatInv, Owned, Live
<1>6. Closing'
  BY <1>1, <1>3 DEF ChatInv, Closing
<1> QED BY <1>4, <1>5, <1>6 DEF ChatInv

\* A thread closes its own descriptor, which no other thread may use.
LEMMA CloseStep == ASSUME ChatInv, NEW k \in Slots, Close(k) PROVE ChatInv'
<1> DEFINE f == clients[k]
<1>1. /\ at[k] = "close" /\ Live(k) /\ f \in Descriptors
      /\ UNCHANGED <<alive, endSession, mainVars, clients, clientsCount, writeVars,
                     peopleVars, talkVars, stream, historyVars>>
  BY LiveDescriptor DEF Close, Live, ChatInv, TypeOK
<1>2. /\ fds' \in [Descriptors -> People \cup {Nobody}]
      /\ \A g \in Descriptors : fds'[g] = IF g = f THEN Nobody ELSE fds[g]
  BY <1>1 DEF Close, ChatInv, TypeOK, TablesOK
<1>3. /\ at' \in [Slots -> {"none", "loop", "read", "lock", "write", "close", "clear"}]
      /\ \A i \in Slots : at'[i] = IF i = k THEN "clear" ELSE at[i]
  BY DEF Close, Goto, ChatInv, TypeOK, TablesOK
<1>4. \A i \in Slots : Live(i)' => /\ Live(i) /\ clients[i] # f
                                   /\ clients[i] \in Descriptors
  BY <1>1, <1>3, LiveDescriptor DEF Live, ChatInv, TypeOK, Owned
<1>5. TypeOK'
  <2>1. Filled' = Filled
    BY <1>1 DEF Filled
  <2>2. TablesOK'
    BY <1>1, <1>2, <1>3, <2>1 DEF ChatInv, TypeOK, TablesOK, writeVars, mainVars
  <2>3. PeopleOK'
    BY <1>1 DEF ChatInv, TypeOK, PeopleOK, peopleVars, talkVars, historyVars
  <2> QED BY <2>2, <2>3 DEF TypeOK
<1>6. Owned'
  <2> HIDE DEF f
  <2>1. \A i \in Slots : Live(i) /\ i # k => Live(i)'
    BY <1>3 DEF Live
  <2>2. f = clients[k]
    BY DEF f
  <2>3. \A i \in Slots : clients'[i] = -1 => at'[i] = "none"
    BY <1>1, <1>3, LiveDescriptor DEF ChatInv, TypeOK, Owned
  <2> QED BY <1>1, <1>2, <1>4, <2>1, <2>2, <2>3
          DEF ChatInv, Owned, mainVars, peopleVars
<1>7. Closing'
  <2>1. \A i \in Slots : at'[i] = "close" => fds'[clients'[i]] = fds[clients[i]]
                                             /\ at[i] = "close"
    BY <1>1, <1>2, <1>3, <1>4 DEF Live
  <2> QED BY <1>1, <2>1 DEF ChatInv, Closing, mainVars, peopleVars
<1> QED BY <1>5, <1>6, <1>7 DEF ChatInv

\* A thread that has closed its descriptor clears its slot and ends.
LEMMA ClearStep == ASSUME ChatInv, NEW k \in Slots, Clear(k) PROVE ChatInv'
<1>1. /\ at[k] = "clear" /\ ~Live(k) /\ clients[k] # -1
      /\ UNCHANGED <<alive, endSession, mainVars, fds, writeVars, peopleVars, talkVars,
                     stream, historyVars>>
  BY DEF Clear, Live, ChatInv, Owned
<1>2. /\ clients' \in [Slots -> Descriptors \cup {-1}]
      /\ \A i \in Slots : clients'[i] = IF i = k THEN -1 ELSE clients[i]
  BY DEF Clear, ChatInv, TypeOK, TablesOK
<1>3. /\ at' \in [Slots -> {"none", "loop", "read", "lock", "write", "close", "clear"}]
      /\ \A i \in Slots : at'[i] = IF i = k THEN "none" ELSE at[i]
  BY DEF Clear, Goto, ChatInv, TypeOK, TablesOK
<1>4. \A i \in Slots : Live(i)' <=> Live(i)
  BY <1>1, <1>3 DEF Live
<1>5. TypeOK'
  <2>1. 1 \in Descriptors
    BY DEF Descriptors
  <2>2. clientsCount' = Cardinality(Filled')
    BY <1>1, <2>1, CountFollows DEF Clear, ChatInv, TypeOK
  <2>3. TablesOK'
    BY <1>1, <1>2, <1>3, <2>2 DEF ChatInv, TypeOK, TablesOK, writeVars, mainVars
  <2>4. PeopleOK'
    BY <1>1 DEF ChatInv, TypeOK, PeopleOK, peopleVars, talkVars, historyVars
  <2> QED BY <2>3, <2>4 DEF TypeOK
<1>6. Owned'
  <2>1. \A i \in Slots : Live(i) => clients'[i] = clients[i]
    BY <1>1, <1>2
  <2>2. \A i \in Slots : clients'[i] = -1 => at'[i] = "none"
    BY <1>2, <1>3 DEF ChatInv, Owned
  <2> QED BY <1>1, <1>4, <2>1, <2>2 DEF ChatInv, Owned, mainVars, peopleVars
<1>7. Closing'
  BY <1>1, <1>2, <1>3 DEF ChatInv, Closing, mainVars, peopleVars
<1> QED BY <1>5, <1>6, <1>7 DEF ChatInv

-----------------------------------------------------------------------------
\* Steps that open and close nothing keep the ownership; a thread may go on.
LEMMA TablesKept ==
  ASSUME ChatInv, UNCHANGED <<client_fd, tableVars, place>>,
         \A i \in Slots : (Live(i)' <=> Live(i)) /\ (at[i] = "none" => at'[i] = "none"),
         mainAt' = "admit" <=> mainAt = "admit",
         mainAt \in {"cleanup", "done"} => mainAt' \in {"cleanup", "done"}
  PROVE  Owned' /\ Filled' = Filled
<1>1. Filled' = Filled
  BY DEF Filled, tableVars
<1>2. Owned'
  BY DEF ChatInv, Owned, tableVars
<1> QED BY <1>1, <1>2

\* What has been said, written and read is counted.
LEMMA PeopleTypes ==
  ASSUME ChatInv, NEW p \in People
  PROVE  /\ unsent[p] \in Nat /\ unread[p] \in Nat /\ pending[p] \in Nat
         /\ unsent \in [People -> Nat] /\ unread \in [People -> Nat]
         /\ pending \in [People -> Nat] /\ stream \in [People -> Seq(Int)]
         /\ stream[p] \in Seq(Int) /\ broadcasts \in Nat
BY DEF ChatInv, TypeOK, TablesOK, PeopleOK

\* What people do, and SIGINT and main's test of it.
LEMMA PeopleStep ==
  ASSUME ChatInv,
         Interrupt \/ Test \/ \E p \in People : Say(p) \/ Receive(p) \/ HangUp(p)
  PROVE  ChatInv'
<1>1. /\ UNCHANGED <<alive, client_fd, swept, tableVars, at, writeVars, backlog, place,
                     stream, historyVars>>
      /\ alive
  BY DEF Interrupt, Test, Say, Receive, HangUp, mainVars, peopleVars
<1>2. \/ mainAt' = mainAt /\ endSession' = endSession
      \/ mainAt' = mainAt /\ endSession'
      \/ mainAt \in {"test", "accept"} /\ mainAt' = "accept" /\ endSession' = endSession
      \/ mainAt \in {"test", "accept"} /\ mainAt' = "cleanup" /\ endSession'
  <2>1. CASE Interrupt
    BY <2>1, <1>1 DEF Interrupt, ChatInv, TypeOK, TablesOK
  <2>2. CASE Test
    BY <2>2 DEF Test
  <2>3. ASSUME NEW p \in People, Say(p) \/ Receive(p) \/ HangUp(p)
        PROVE  mainAt' = mainAt /\ endSession' = endSession
    BY <2>3 DEF Say, Receive, HangUp, mainVars
  <2> QED BY <2>1, <2>2, <2>3
<1>3. hungup \subseteq hungup' /\ PeopleOK'
  <2>1. CASE Interrupt \/ Test
    BY <1>1, <2>1 DEF Interrupt, Test, ChatInv, TypeOK, PeopleOK, peopleVars, talkVars,
                      historyVars
  <2>2. ASSUME NEW p \in People, Say(p) PROVE hungup \subseteq hungup' /\ PeopleOK'
    <3>1. unsent[p] - 1 \in Nat /\ unread[p] + 1 \in Nat
      <4>1. unsent[p] > 0
        BY <2>2 DEF Say
      <4>2. unsent[p] \in Nat /\ unread[p] \in Nat
        BY PeopleTypes
      <4> QED BY <4>1, <4>2
    <3>2. unsent' \in [People -> Nat] /\ unread' \in [People -> Nat]
      BY <2>2, <3>1, PeopleTypes DEF Say
    <3> QED BY <1>1, <2>2, <3>2 DEF Say, ChatInv, TypeOK, PeopleOK, peopleVars,
                                    historyVars
  <2>3. ASSUME NEW p \in People, Receive(p) PROVE hungup \subseteq hungup' /\ PeopleOK'
    <3>1. pending[p] - 1 \in Nat
      BY <2>3, PeopleTypes DEF Receive
    <3>2. pending' \in [People -> Nat]
      BY <2>3, <3>1, PeopleTypes DEF Receive
    <3> QED BY <1>1, <2>3, <3>2 DEF Receive, ChatInv, TypeOK, PeopleOK, peopleVars,
                                    historyVars
  <2>4. ASSUME NEW p \in People, HangUp(p) PROVE hungup \subseteq hungup' /\ PeopleOK'
    BY <1>1, <2>4 DEF HangUp, ChatInv, TypeOK, PeopleOK, talkVars, historyVars
  <2> QED BY <2>1, <2>2, <2>3, <2>4
<1>4. Owned' /\ Filled' = Filled
  BY <1>1, <1>2, TablesKept DEF Live
<1>5. TablesOK'
  BY <1>1, <1>2, <1>4 DEF ChatInv, TypeOK, TablesOK, tableVars, writeVars
<1>6. Closing'
  BY <1>1, <1>2, <1>3 DEF ChatInv, Closing, tableVars
<1> QED BY <1>3, <1>4, <1>5, <1>6 DEF ChatInv, TypeOK

\* A thread's steps up to its end.
LEMMA ThreadKept ==
  ASSUME ChatInv, NEW k \in Slots,
         Loop(k) \/ Read(k) \/ ReadFails(k) \/ Lock(k) \/ Skip(k) \/ Write(k) \/ WriteInVain(k)
  PROVE  ChatInv'
<1>1. /\ at[k] \in {"loop", "read", "lock", "write"} /\ alive
      /\ UNCHANGED <<alive, endSession, mainVars, tableVars, backlog, place, hungup,
                     historyVars>>
  BY DEF Loop, Read, ReadFails, Lock, Skip, Write, WriteInVain, Writing, peopleVars
<1>2. PICK s \in {"loop", "read", "lock", "write", "close"} :
        /\ at' = [at EXCEPT ![k] = s]
        /\ s = "close" => endSession \/ fds[clients[k]] \in hungup \cup {Nobody}
  <2>1. CASE Loop(k) \/ Read(k) \/ ReadFails(k) \/ Lock(k)
    BY <2>1 DEF Loop, Read, ReadFails, Lock, Goto, Speaker
  <2>2. CASE Skip(k) \/ Write(k) \/ WriteInVain(k)
    <3>1. at[k] = "write"
      BY <2>2 DEF Skip, Write, WriteInVain, Writing
    <3>2. at' = [at EXCEPT ![k] = "loop"] \/ at' = at
      BY <2>2 DEF Skip, Write, WriteInVain, NextPiece, NextSlot, Goto
    <3>3. at = [at EXCEPT ![k] = "write"]
      BY <3>1 DEF ChatInv, TypeOK, TablesOK
    <3> QED BY <3>2, <3>3
  <2> QED BY <2>1, <2>2
<1>3. /\ at' \in [Slots -> {"none", "loop", "read", "lock", "write", "close", "clear"}]
      /\ \A i \in Slots : at'[i] = IF i = k THEN s ELSE at[i]
  BY <1>2 DEF ChatInv, TypeOK, TablesOK
<1>4. Owned' /\ Filled' = Filled
  BY <1>1, <1>2, <1>3, TablesKept DEF Live, mainVars
<1>5. TablesOK'
  <2>1. /\ mutex' \in Slots \cup {0} /\ cursor' \in Slots /\ body' \in BOOLEAN
        /\ broadcasts' \in Nat
    <3>1. CASE Loop(k) \/ Read(k) \/ ReadFails(k)
      BY <3>1 DEF Loop, Read, ReadFails, writeVars, ChatInv, TypeOK, TablesOK
    <3>2. CASE Lock(k)
      <4>1. broadcasts \in Nat
        BY DEF ChatInv, TypeOK, TablesOK
      <4>2. mutex' = k /\ broadcasts' = broadcasts + 1 /\ cursor' = 1 /\ body' = FALSE
        BY <3>2 DEF Lock
      <4>3. broadcasts' \in Nat
        BY <4>1, <4>2
      <4>4. body' \in BOOLEAN
        BY <4>2
      <4> QED BY <4>2, <4>3, <4>4, FirstSlot
    <3>3. CASE Skip(k) \/ Write(k) \/ WriteInVain(k)
      <4>1. NextPiece(k) \/ NextSlot(k)
        BY <3>3 DEF Skip, Write, WriteInVain
      <4>2. broadcasts' = broadcasts
        BY <3>3 DEF Skip, Write, WriteInVain
      <4>3. cursor < MAX_CLIENTS => cursor + 1 \in Slots
        BY DEF ChatInv, TypeOK, TablesOK, Slots
      <4>4. /\ mutex \in Slots \cup {0} /\ cursor \in Slots /\ body \in BOOLEAN
            /\ broadcasts \in Nat
        BY DEF ChatInv, TypeOK, TablesOK
      <4>5. CASE NextSlot(k)
        BY <4>2, <4>3, <4>4, <4>5, FirstSlot DEF NextSlot
      <4>6. CASE body' = TRUE /\ UNCHANGED <<cursor, mutex, at>>
        BY <4>2, <4>4, <4>6
      <4> QED BY <4>1, <4>5, <4>6 DEF NextPiece
    <3> QED BY <3>1, <3>2, <3>3
  <2> QED BY <1>1, <1>3, <1>4, <2>1 DEF ChatInv, TypeOK, TablesOK, tableVars, mainVars
<1>6. PeopleOK'
  <2>1. CASE Loop(k) \/ ReadFails(k) \/ Lock(k) \/ Skip(k) \/ WriteInVain(k)
    BY <1>1, <2>1 DEF Loop, ReadFails, Lock, Skip, WriteInVain, talkVars, historyVars,
                      ChatInv, TypeOK, PeopleOK
  <2>2. CASE Read(k)
    <3>1. Speaker(k) \in People
      <4>1. Live(k)
        BY <1>1 DEF Live
      <4> QED BY <2>2, <4>1, LiveDescriptor DEF Read, Speaker, ChatInv, TypeOK, TablesOK
    <3>2. unread[Speaker(k)] - 1 \in Nat
      BY <2>2, <3>1, PeopleTypes DEF Read
    <3>3. unread' \in [People -> Nat]
      BY <2>2, <3>1, <3>2, PeopleTypes DEF Read
    <3> QED BY <1>1, <2>2, <3>3 DEF Read, historyVars, ChatInv, TypeOK, PeopleOK
  <2>3. CASE Write(k)
    <3>1. Listener \in People
      BY <2>3 DEF Write, Listener, ChatInv, TypeOK, TablesOK
    <3>2. pending[Listener] + 1 \in Nat
      BY <3>1, PeopleTypes
    <3>3. pending' \in [People -> Nat]
      BY <2>3, <3>1, <3>2, PeopleTypes DEF Write
    <3>4. stream' \in [People -> Seq(Int)]
      <4> DEFINE piece == IF body THEN 2 * broadcasts ELSE 2 * broadcasts - 1
      <4>1. piece \in Int
        BY <3>1, PeopleTypes
      <4>2. Append(stream[Listener], piece) \in Seq(Int)
        <5>1. stream[Listener] \in Seq(Int)
          BY <3>1, PeopleTypes
        <5> HIDE DEF piece
        <5> QED BY <4>1, <5>1
      <4>3. stream' = [stream EXCEPT ![Listener] = Append(@, piece)]
        BY <2>3 DEF Write
      <4> HIDE DEF piece
      <4> QED BY <3>1, <4>2, <4>3, PeopleTypes
    <3> QED BY <1>1, <2>3, <3>3, <3>4 DEF Write, historyVars, ChatInv, TypeOK, PeopleOK
  <2> QED BY <2>1, <2>2, <2>3
<1>7. Closing'
  <2>1. s = "close" => endSession \/ fds[clients[k]] \in hungup
    <3>1. Live(k)
      BY <1>1 DEF Live
    <3>2. mainAt \in {"cleanup", "done"} => endSession
      BY <1>1 DEF ChatInv, Closing
    <3>3. mainAt \notin {"cleanup", "done"} => fds[clients[k]] # Nobody
      BY <3>1 DEF ChatInv, Owned
    <3> QED BY <1>2, <3>2, <3>3
  <2> QED BY <1>1, <1>3, <2>1 DEF ChatInv, Closing, tableVars, mainVars
<1> QED BY <1>4, <1>5, <1>6, <1>7 DEF ChatInv, TypeOK

-----------------------------------------------------------------------------
\* Every step of main, of a thread or of a person keeps the invariant.
LEMMA ChatStep == ChatInv /\ [Next]_vars => ChatInv'
<1> SUFFICES ASSUME ChatInv, [Next]_vars PROVE ChatInv'
  OBVIOUS
<1>1. CASE Interrupt \/ Test \/ \E p \in People : Say(p) \/ Receive(p) \/ HangUp(p)
  BY <1>1, PeopleStep
<1>2. CASE Accept
  BY <1>2, AcceptStep
<1>3. CASE Admit
  BY <1>3, AdmitStep
<1>4. CASE CreateFails \/ Refuse
  BY <1>4, TurnAwayStep
<1>5. CASE RefuseFails
  <2>1. Exit
    BY <1>5 DEF RefuseFails
  <2> QED BY <2>1, ExitStep
<1>6. CASE Sweep
  BY <1>6, SweepStep
<1>7. ASSUME NEW k \in Slots, ThreadStep(k) PROVE ChatInv'
  <2>1. CASE BrokenPipe(k)
    <3>1. Exit
      BY <2>1 DEF BrokenPipe
    <3> QED BY <3>1, ExitStep
  <2>2. CASE Close(k)
    BY <2>2, CloseStep
  <2>3. CASE Clear(k)
    BY <2>3, ClearStep
  <2>4. CASE Loop(k) \/ Read(k) \/ ReadFails(k) \/ Lock(k) \/ Skip(k) \/ Write(k) \/ WriteInVain(k)
    BY <2>4, ThreadKept
  <2> QED BY <1>7, <2>1, <2>2, <2>3, <2>4 DEF ThreadStep
<1>8. CASE UNCHANGED vars
  <2>1. UNCHANGED <<alive, endSession, mainVars, tableVars, at, writeVars, peopleVars,
                    talkVars, stream, historyVars>>
    BY <1>8 DEF vars
  <2>2. Filled' = Filled /\ TablesOK'
    BY <2>1 DEF ChatInv, TypeOK, TablesOK, Filled, mainVars, tableVars, writeVars
  <2>3. PeopleOK'
    BY <2>1 DEF ChatInv, TypeOK, PeopleOK, peopleVars, talkVars, historyVars
  <2>4. Owned' /\ Closing'
    BY <2>1 DEF ChatInv, Owned, Closing, Live, mainVars, tableVars, peopleVars
  <2> QED BY <2>2, <2>3, <2>4 DEF ChatInv, TypeOK
<1> QED BY <1>1, <1>2, <1>3, <1>4, <1>5, <1>6, <1>7, <1>8 DEF Next, MainStep

\* The invariant holds in every state the server reaches.
LEMMA ChatAlways == Spec => []ChatInv
BY ChatInit, ChatStep, PTL DEF Spec

\* The types of the server's state, and that clientsCount is the number of
\* filled slots (server.c:23-29, :160-163).
THEOREM TypeCorrect == Spec => []TypeOK
<1>1. ChatInv => TypeOK
  BY DEF ChatInv
<1> QED BY ChatAlways, <1>1, PTL

\* Below the limit there is an empty slot, and an empty slot has no thread
\* (server.c:147-165).
THEOREM RoomForWhoIsAdmitted == Spec => []RoomIsRoom
<1>1. ChatInv => RoomIsRoom
  BY FilledFinite DEF ChatInv, TypeOK, TablesOK, Owned, RoomIsRoom
<1> QED BY ChatAlways, <1>1, PTL

\* Until the session ends, the connection of somebody in the room who has not
\* left stays open: a thread closes only its own descriptor (server.c:227-232).
THEOREM NobodyIsCutOff == Spec => NobodyCutOff
<1>1. ASSUME ChatInv, [Next]_vars, NEW f \in Descriptors, NEW p \in People,
             fds[f] = p, fds'[f] # p, place[p] = "admitted"
      PROVE  p \in hungup \/ endSession \/ ~alive'
  <2>1. CASE fds' = fds
    BY <1>1, <2>1
  <2>2. CASE Accept
    <3>1. LowestFree \in Descriptors /\ fds[LowestFree] = Nobody
      BY <1>1, <2>2, DescriptorFound DEF Accept
    <3>2. fds' = [fds EXCEPT ![LowestFree] = Head(backlog)]
      BY <2>2 DEF Accept
    <3> QED BY <1>1, <3>1, <3>2 DEF ChatInv, TypeOK, TablesOK
  <2>3. CASE CreateFails \/ Refuse
    <3>1. place[fds[client_fd]] = "accepted" /\ client_fd \in Descriptors
      BY <1>1, <2>3 DEF CreateFails, Refuse, ChatInv, Owned
    <3>2. fds' = [fds EXCEPT ![client_fd] = Nobody]
      BY <2>3 DEF CreateFails, Refuse
    <3> QED BY <1>1, <3>1, <3>2 DEF ChatInv, TypeOK, TablesOK
  <2>4. CASE Sweep
    BY <1>1, <2>4 DEF Sweep, ChatInv, Closing
  <2>5. CASE Exit
    BY <2>5 DEF Exit
  <2>6. ASSUME NEW k \in Slots, Close(k) PROVE p \in hungup \/ endSession
    <3>1. at[k] = "close" /\ fds' = [fds EXCEPT ![clients[k]] = Nobody]
      BY <2>6 DEF Close
    <3>2. endSession \/ fds[clients[k]] \in hungup
      BY <1>1, <3>1 DEF ChatInv, Closing
    <3>3. f = clients[k]
      BY <1>1, <3>1 DEF ChatInv, TypeOK, TablesOK
    <3> QED BY <1>1, <3>2, <3>3
  <2>7. fds' = fds \/ Accept \/ CreateFails \/ Refuse \/ Sweep \/ Exit
        \/ \E k \in Slots : Close(k)
    <3>1. CASE UNCHANGED vars
      BY <3>1 DEF vars, tableVars
    <3>2. CASE \E q \in People : Say(q) \/ Receive(q) \/ HangUp(q)
      BY <3>2 DEF Say, Receive, HangUp, tableVars
    <3>3. CASE Interrupt \/ Test \/ Admit
      BY <3>3 DEF Interrupt, Test, Admit, tableVars
    <3>4. CASE RefuseFails
      BY <3>4 DEF RefuseFails
    <3>5. ASSUME NEW k \in Slots, ThreadStep(k)
          PROVE  fds' = fds \/ Exit \/ Close(k)
      BY <3>5 DEF ThreadStep, Loop, Read, ReadFails, Lock, Skip, Write, WriteInVain,
                  BrokenPipe, Clear, tableVars
    <3> QED BY <1>1, <3>1, <3>2, <3>3, <3>4, <3>5 DEF Next, MainStep
  <2> QED BY <2>1, <2>2, <2>3, <2>4, <2>5, <2>6, <2>7
<1>2. ChatInv /\ [Next]_vars =>
        [\A f \in Descriptors, p \in People :
           fds[f] = p /\ fds'[f] # p /\ place[p] = "admitted"
           => p \in hungup \/ endSession \/ ~alive']_vars
  BY <1>1
<1> QED BY ChatAlways, <1>2, PTL DEF Spec, NobodyCutOff

-----------------------------------------------------------------------------
\* A person has one connection at most, from accept to the descriptor's close;
\* who was given a descriptor no slot held is named by one slot only.
Seated ==
    /\ \A f, g \in Descriptors : fds[f] # Nobody /\ fds[f] = fds[g] => f = g
    /\ \A f \in Descriptors : fds[f] # Nobody =>
          /\ place[fds[f]] \in {"accepted", "admitted"}
          /\ place[fds[f]] = "accepted" => mainAt = "admit" /\ client_fd = f
    /\ \A i, j \in Slots :
          clients[i] # -1 /\ fds[clients[i]] \in People \ inherited =>
            /\ place[fds[clients[i]]] = "admitted"
            /\ clients[j] = clients[i] => i = j

\* Those in the backlog wait, each once.
Queueing ==
    /\ \A m \in 1..Len(backlog) : place[backlog[m]] = "waiting"
    /\ \A m, n \in 1..Len(backlog) : backlog[m] = backlog[n] => m = n

\* One thread broadcasts: the one that has the mutex.
Sender == \A i \in Slots : at[i] = "write" <=> mutex = i

\* How many pieces have been written to slot i since the server started.
Due(i) == IF mutex = 0 \/ cursor > i THEN 2 * broadcasts
          ELSE IF cursor = i /\ body THEN 2 * broadcasts - 1
          ELSE 2 * broadcasts - 2

\* Who is in the room has heard the pieces since joining, in their order, and
\* all that are due at their slot.
Heard ==
    \A p \in People :
       /\ place[p] = "waiting" => stream[p] = <<>>
       /\ place[p] = "accepted" /\ p \notin inherited => stream[p] = <<>>
       /\ Attending(p) =>
             \A n \in 1..Len(stream[p]) : stream[p][n] = 2 * joinedAt[p] + n
       /\ Attending(p) /\ p \notin hungup =>
             \A i \in Slots : clients[i] # -1 /\ fds[clients[i]] = p
                              => Len(stream[p]) = Due(i) - 2 * joinedAt[p]

BroadcastInv == ChatInv /\ Seated /\ Queueing /\ Sender /\ Heard

\* Before anybody is accepted nothing has been written.
LEMMA BroadcastInit == Init => BroadcastInv
<1> SUFFICES ASSUME Init PROVE BroadcastInv
  OBVIOUS
<1>1. /\ \A f \in Descriptors : fds[f] = Nobody
      /\ \A i \in Slots : clients[i] = -1 /\ at[i] = "none"
      /\ mutex = 0 /\ backlog = Arrivals
      /\ \A p \in People : place[p] = "waiting" /\ stream[p] = <<>>
  BY DEF Init
<1>2. \A m \in 1..Len(backlog) : backlog[m] \in People
  BY <1>1
<1>3. Seated /\ Sender
  BY <1>1 DEF Seated, Sender, Slots
<1>4. Queueing
  BY <1>1, <1>2 DEF Queueing
<1>5. Heard
  BY <1>1 DEF Heard, Attending
<1> QED BY ChatInit, <1>3, <1>4, <1>5 DEF BroadcastInv

\* The parts of the types the broadcasts need.
LEMMA BroadcastTypes ==
  ASSUME ChatInv
  PROVE  /\ fds \in [Descriptors -> People \cup {Nobody}]
         /\ clients \in [Slots -> Descriptors \cup {-1}]
         /\ mutex \in Slots \cup {0} /\ cursor \in Slots /\ body \in BOOLEAN
         /\ broadcasts \in Nat /\ joinedAt \in [People -> Nat]
         /\ backlog \in Seq(People)
         /\ place \in [People -> {"waiting", "accepted", "admitted", "turned away"}]
         /\ stream \in [People -> Seq(Int)]
BY DEF ChatInv, TypeOK, TablesOK, PeopleOK

\* A step that writes to nobody, lets nobody in and only takes connections
\* away.
Quiet ==
    /\ UNCHANGED <<joinedAt, inherited, stream, writeVars, backlog>>
    /\ hungup \subseteq hungup'
    /\ \A f \in Descriptors : fds'[f] \in {fds[f], Nobody}
    /\ \A i \in Slots : clients'[i] # -1 /\ fds'[clients'[i]] # Nobody
                        => clients'[i] = clients[i]
    /\ \A i \in Slots : at'[i] = "write" <=> at[i] = "write"
    /\ \A p \in People : \/ place'[p] = place[p]
                         \/ /\ place[p] = "accepted" /\ place'[p] = "turned away"
                            /\ \A f \in Descriptors : fds'[f] # p
    /\ mainAt = "admit" => \/ mainAt' = "admit" /\ client_fd' = client_fd
                           \/ fds'[client_fd] = Nobody

\* Such a step keeps what is known of the broadcasts.
LEMMA QuietStep == ASSUME BroadcastInv, ChatInv', Quiet PROVE BroadcastInv'
<1>1. \A f \in Descriptors : fds'[f] # Nobody =>
          /\ fds'[f] = fds[f] /\ fds[f] \in People
          /\ place'[fds[f]] = place[fds[f]]
  <2>1. fds \in [Descriptors -> People \cup {Nobody}]
    BY BroadcastTypes DEF BroadcastInv
  <2>2. \A f \in Descriptors : fds'[f] \in {fds[f], Nobody}
    BY DEF Quiet
  <2>3. \A p \in People : place'[p] = place[p] \/ \A f \in Descriptors : fds'[f] # p
    BY DEF Quiet
  <2> QED BY <2>1, <2>2, <2>3
<1>2. \A i \in Slots : clients'[i] # -1 /\ fds'[clients'[i]] # Nobody =>
          /\ clients'[i] = clients[i] /\ clients[i] \in Descriptors
          /\ fds'[clients[i]] = fds[clients[i]]
          /\ place'[fds[clients[i]]] = place[fds[clients[i]]]
  <2>1. clients \in [Slots -> Descriptors \cup {-1}]
    BY BroadcastTypes DEF BroadcastInv
  <2>2. \A i \in Slots : clients'[i] # -1 /\ fds'[clients'[i]] # Nobody
                         => clients'[i] = clients[i]
    BY DEF Quiet
  <2> QED BY <1>1, <2>1, <2>2
<1>3. \A p \in People : p # Nobody
  OBVIOUS
<1>4. inherited' = inherited
  BY DEF Quiet
<1>5. Seated'
  <2>1. \A f, g \in Descriptors : fds'[f] # Nobody /\ fds'[f] = fds'[g] => f = g
    BY <1>1 DEF BroadcastInv, Seated
  <2>2. ASSUME NEW f \in Descriptors, fds'[f] # Nobody
        PROVE  /\ place'[fds'[f]] \in {"accepted", "admitted"}
               /\ place'[fds'[f]] = "accepted" => mainAt' = "admit" /\ client_fd' = f
    <3>1. fds'[f] = fds[f] /\ place'[fds'[f]] = place[fds[f]] /\ fds[f] # Nobody
      BY <1>1, <2>2
    <3>2. /\ place[fds[f]] \in {"accepted", "admitted"}
          /\ place[fds[f]] = "accepted" => mainAt = "admit" /\ client_fd = f
      BY <3>1 DEF BroadcastInv, Seated
    <3>3. mainAt = "admit" => \/ mainAt' = "admit" /\ client_fd' = client_fd
                              \/ fds'[client_fd] = Nobody
      BY DEF Quiet
    <3> QED BY <2>2, <3>1, <3>2, <3>3
  <2>3. ASSUME NEW i \in Slots, NEW j \in Slots,
               clients'[i] # -1, fds'[clients'[i]] \in People \ inherited'
        PROVE  /\ place'[fds'[clients'[i]]] = "admitted"
               /\ clients'[j] = clients'[i] => i = j
    <3>1. /\ clients'[i] = clients[i] /\ fds'[clients[i]] = fds[clients[i]]
          /\ place'[fds[clients[i]]] = place[fds[clients[i]]]
          /\ clients'[j] = clients'[i] => clients[j] = clients'[j]
      BY <1>2, <1>3, <2>3
    <3>2. /\ place[fds[clients[i]]] = "admitted"
          /\ clients[j] = clients[i] => i = j
      BY <1>4, <2>3, <3>1 DEF BroadcastInv, Seated
    <3> QED BY <3>1, <3>2
  <2> QED BY <2>1, <2>2, <2>3 DEF Seated
<1>6. Queueing'
  <2>1. \A m \in 1..Len(backlog) : backlog[m] \in People
    <3>1. backlog \in Seq(People)
      BY BroadcastTypes DEF BroadcastInv
    <3> QED BY <3>1
  <2>2. backlog' = backlog
    BY DEF Quiet
  <2>3. \A p \in People : place[p] = "waiting" => place'[p] = "waiting"
    BY DEF Quiet
  <2> QED BY <2>1, <2>2, <2>3 DEF BroadcastInv, Queueing
<1>7. Sender'
  BY DEF BroadcastInv, Sender, Quiet, writeVars
<1>8. Heard'
  <2>1. \A i \in Slots : Due(i)' = Due(i)
    BY DEF Due, writeVars, Quiet
  <2>2. stream' = stream /\ joinedAt' = joinedAt
    BY DEF Quiet
  <2>3. \A p \in People : /\ Attending(p)' => Attending(p)
                          /\ p \notin hungup' => p \notin hungup
                          /\ place'[p] \in {"waiting", "accepted"} => place[p] = place'[p]
    BY DEF Attending, Quiet
  <2>4. \A p \in People, i \in Slots : clients'[i] # -1 /\ fds'[clients'[i]] = p
                         => clients[i] # -1 /\ fds[clients[i]] = p
    BY <1>2, <1>3
  <2>5. Heard
    BY DEF BroadcastInv
  <2> QED BY <1>4, <2>1, <2>2, <2>3, <2>4, <2>5 DEF Heard
<1> QED BY <1>5, <1>6, <1>7, <1>8 DEF BroadcastInv

\* So does the end of the process.
LEMMA ExitQuiet == ASSUME BroadcastInv, Exit PROVE BroadcastInv'
<1>1. ChatInv'
  BY ExitStep DEF BroadcastInv
<1>2. /\ \A f \in Descriptors : fds'[f] = Nobody
      /\ \A i \in Slots : clients'[i] = -1 /\ at'[i] = "none"
      /\ mutex' = 0
      /\ UNCHANGED <<backlog, place, hungup, stream, joinedAt, inherited>>
  BY DEF Exit, peopleVars, historyVars
<1>3. Seated' /\ Sender' /\ Queueing'
  BY <1>2 DEF BroadcastInv, Seated, Sender, Queueing, Slots
<1>4. Heard'
  BY <1>2 DEF BroadcastInv, Heard, Attending
<1> QED BY <1>1, <1>3, <1>4 DEF BroadcastInv

\* Whoever is accepted was waiting, and has no other connection.
LEMMA AcceptKeeps == ASSUME BroadcastInv, ChatInv', Accept PROVE BroadcastInv'
<1> DEFINE f == LowestFree
           h == Head(backlog)
<1>1. mainAt = "accept" /\ f \in Descriptors /\ fds[f] = Nobody
  BY DescriptorFound DEF Accept, BroadcastInv
<1>2. /\ backlog \in Seq(People) /\ backlog # <<>> /\ h = backlog[1]
      /\ 1 \in 1..Len(backlog) /\ h \in People
      /\ Len(Tail(backlog)) = Len(backlog) - 1
      /\ \A m \in 1..Len(Tail(backlog)) :
            m + 1 \in 1..Len(backlog) /\ Tail(backlog)[m] = backlog[m + 1]
  <2>1. backlog \in Seq(People) /\ backlog # <<>>
    BY BroadcastTypes DEF BroadcastInv, Accept
  <2> QED BY <2>1
<1>3. /\ mainAt' = "admit" /\ client_fd' = f /\ backlog' = Tail(backlog)
      /\ UNCHANGED <<clients, at, writeVars, hungup, stream, joinedAt>>
  BY DEF Accept
<1>4. \A g \in Descriptors : fds'[g] = IF g = f THEN h ELSE fds[g]
  <2>1. fds \in [Descriptors -> People \cup {Nobody}]
    BY BroadcastTypes DEF BroadcastInv
  <2>2. fds' = [fds EXCEPT ![f] = h]
    BY DEF Accept
  <2> HIDE DEF f, h
  <2> QED BY <2>1, <2>2
<1>5. \A p \in People : place'[p] = IF p = h THEN "accepted" ELSE place[p]
  <2>1. place \in [People -> {"waiting", "accepted", "admitted", "turned away"}]
    BY BroadcastTypes DEF BroadcastInv
  <2>2. place' = [place EXCEPT ![h] = "accepted"]
    BY DEF Accept
  <2> HIDE DEF f, h
  <2> QED BY <1>2, <2>1, <2>2
<1>6. /\ inherited \subseteq inherited' /\ inherited' \subseteq inherited \cup {h}
      /\ (\E i \in Slots : clients[i] = f) => h \in inherited'
  BY <1>3 DEF Accept
<1>7. place[h] = "waiting"
  BY <1>2 DEF BroadcastInv, Queueing
<1>8. \A g \in Descriptors : fds[g] # Nobody =>
          fds[g] \in People /\ fds[g] # h /\ place[fds[g]] = "admitted"
  <2>1. fds \in [Descriptors -> People \cup {Nobody}]
    BY BroadcastTypes DEF BroadcastInv
  <2> QED BY <1>1, <1>7, <2>1 DEF BroadcastInv, Seated
<1>9. \A i \in Slots : clients[i] # -1 => clients[i] \in Descriptors
  BY BroadcastTypes DEF BroadcastInv
<1> HIDE DEF f, h
<1>10. h # Nobody
  BY <1>2
<1>11. Seated'
  <2>1. \A g, e \in Descriptors : fds'[g] # Nobody /\ fds'[g] = fds'[e] => g = e
    BY <1>4, <1>8 DEF BroadcastInv, Seated
  <2>2. \A g \in Descriptors : fds'[g] # Nobody =>
          /\ place'[fds'[g]] \in {"accepted", "admitted"}
          /\ place'[fds'[g]] = "accepted" => mainAt' = "admit" /\ client_fd' = g
    <3> SUFFICES ASSUME NEW g \in Descriptors, fds'[g] # Nobody
                 PROVE  /\ place'[fds'[g]] \in {"accepted", "admitted"}
                        /\ place'[fds'[g]] = "accepted" => mainAt' = "admit" /\ client_fd' = g
      OBVIOUS
    <3>1. CASE g = f
      <4>1. fds'[g] = h
        BY <1>4, <3>1
      <4>2. place'[h] = "accepted"
        BY <1>2, <1>5
      <4> QED BY <1>3, <3>1, <4>1, <4>2
    <3>2. CASE g # f
      <4>1. fds'[g] = fds[g] /\ fds[g] # Nobody
        BY <1>4, <3>2
      <4>2. fds[g] \in People /\ fds[g] # h /\ place[fds[g]] = "admitted"
        BY <1>8, <4>1
      <4>3. place'[fds[g]] = "admitted"
        BY <1>5, <4>2
      <4> QED BY <4>1, <4>3
    <3> QED BY <3>1, <3>2
  <2>3. \A i, j \in Slots : clients'[i] # -1 /\ fds'[clients'[i]] \in People \ inherited'
          => /\ place'[fds'[clients'[i]]] = "admitted"
             /\ clients'[j] = clients'[i] => i = j
    <3> SUFFICES ASSUME NEW i \in Slots, NEW j \in Slots, clients[i] # -1,
                        fds'[clients[i]] \in People \ inherited'
                 PROVE  /\ place'[fds'[clients[i]]] = "admitted"
                        /\ clients[j] = clients[i] => i = j
      BY <1>3
    <3>1. clients[i] \in Descriptors /\ clients[i] # f
      BY <1>4, <1>6, <1>9
    <3>2. fds'[clients[i]] = fds[clients[i]] /\ fds[clients[i]] \in People \ inherited
      BY <1>4, <1>6, <3>1
    <3>3. place'[fds[clients[i]]] = place[fds[clients[i]]]
      BY <1>5, <1>8, <3>1, <3>2
    <3> QED BY <3>2, <3>3 DEF BroadcastInv, Seated
  <2> QED BY <2>1, <2>2, <2>3 DEF Seated
<1>12. Queueing'
  <2>1. \A m \in 1..Len(backlog') : /\ m + 1 \in 1..Len(backlog) /\ m + 1 # 1
                                    /\ backlog'[m] = backlog[m + 1]
    BY <1>2, <1>3
  <2>2. \A m \in 1..Len(backlog') : backlog'[m] # h /\ backlog'[m] \in People
    <3>1. \A m \in 1..Len(backlog) : backlog[m] \in People
      BY <1>2
    <3> QED BY <1>2, <2>1, <3>1 DEF BroadcastInv, Queueing
  <2>3. \A m \in 1..Len(backlog') : place'[backlog'[m]] = "waiting"
    BY <1>5, <2>1, <2>2 DEF BroadcastInv, Queueing
  <2>4. ASSUME NEW m \in 1..Len(backlog'), NEW n \in 1..Len(backlog'), backlog'[m] = backlog'[n]
        PROVE  m = n
    <3>1. m + 1 = n + 1
      BY <2>1, <2>4 DEF BroadcastInv, Queueing
    <3> QED BY <3>1
  <2> QED BY <2>3, <2>4 DEF Queueing
<1>13. Sender'
  BY <1>3 DEF BroadcastInv, Sender, writeVars
<1>14. Heard'
  <2>1. \A i \in Slots : Due(i)' = Due(i)
    BY <1>3 DEF Due, writeVars
  <2>2. stream[h] = <<>>
    BY <1>2, <1>7 DEF BroadcastInv, Heard
  <2>3. \A p \in People : /\ Attending(p)' => Attending(p) /\ p # h
                          /\ place'[p] = "waiting" => place[p] = "waiting"
                          /\ place'[p] = "accepted" /\ p \notin inherited'
                             => p = h \/ (place[p] = "accepted" /\ p \notin inherited)
    BY <1>5, <1>6 DEF Attending
  <2>4. \A p \in People, i \in Slots :
           p # h /\ clients'[i] # -1 /\ fds'[clients'[i]] = p
           => clients[i] # -1 /\ fds[clients[i]] = p
    BY <1>3, <1>4, <1>9
  <2>5. stream' = stream /\ joinedAt' = joinedAt /\ hungup' = hungup
    BY <1>3
  <2>6. Heard
    BY DEF BroadcastInv
  <2> QED BY <2>1, <2>2, <2>3, <2>4, <2>5, <2>6 DEF Heard
<1> QED BY <1>11, <1>12, <1>13, <1>14 DEF BroadcastInv

\* Whoever gets a slot has heard nothing so far, and nobody is broadcasting.
LEMMA AdmitKeeps == ASSUME BroadcastInv, ChatInv', Admit PROVE BroadcastInv'
<1> DEFINE k == FreeSlot
           f == client_fd
           h == NewPerson
<1>1. mutex = 0 /\ mainAt = "admit"
  BY DEF Admit
<1>2. k \in Slots /\ clients[k] = -1
  BY SlotFound DEF Admit, BroadcastInv, ChatInv, TypeOK
<1>3. f \in Descriptors /\ f # -1 /\ h = fds[f] /\ h \in People /\ place[h] = "accepted"
  <2>1. f \in Descriptors /\ fds[f] # Nobody /\ place[fds[f]] = "accepted"
    BY <1>1 DEF BroadcastInv, ChatInv, Owned
  <2>2. fds \in [Descriptors -> People \cup {Nobody}]
    BY BroadcastTypes DEF BroadcastInv
  <2>3. f # -1
    BY <2>1 DEF Descriptors
  <2> QED BY <2>1, <2>2, <2>3 DEF NewPerson
<1>4. /\ mainAt' = "test"
      /\ UNCHANGED <<fds, mutex, cursor, body, broadcasts, backlog, hungup, stream, inherited>>
  BY DEF Admit, writeVars
<1>5. \A i \in Slots : /\ clients'[i] = IF i = k THEN f ELSE clients[i]
                       /\ at'[i] = IF i = k THEN "loop" ELSE at[i]
  BY <1>2 DEF Admit, Fill, BroadcastInv, ChatInv, TypeOK, TablesOK
<1>6. \A p \in People : /\ place'[p] = IF p = h THEN "admitted" ELSE place[p]
                        /\ joinedAt'[p] = IF p = h THEN broadcasts ELSE joinedAt[p]
  <2>1. /\ place \in [People -> {"waiting", "accepted", "admitted", "turned away"}]
        /\ joinedAt \in [People -> Nat]
    BY BroadcastTypes DEF BroadcastInv
  <2>2. /\ place' = [place EXCEPT ![h] = "admitted"]
        /\ joinedAt' = [joinedAt EXCEPT ![h] = broadcasts]
    BY DEF Admit
  <2> HIDE DEF k, f, h
  <2> QED BY <1>3, <2>1, <2>2
<1>7. \A i \in Slots : clients[i] # -1 => clients[i] \in Descriptors
  BY BroadcastTypes DEF BroadcastInv
<1>8. \A g \in Descriptors : fds[g] # Nobody => fds[g] \in People /\ (fds[g] = h => g = f)
  <2>1. fds \in [Descriptors -> People \cup {Nobody}]
    BY BroadcastTypes DEF BroadcastInv
  <2> QED BY <1>3, <2>1 DEF BroadcastInv, Seated
<1>9. h \notin inherited => \A i \in Slots : clients[i] # f
  BY <1>3 DEF BroadcastInv, Seated
<1>10. mutex' = 0 /\ at[k] = "none"
  BY <1>1, <1>2, <1>4 DEF BroadcastInv, ChatInv, Owned
<1> HIDE DEF k, f, h
<1>11. Seated'
  <2>1. \A g, e \in Descriptors : fds'[g] # Nobody /\ fds'[g] = fds'[e] => g = e
    BY <1>4 DEF BroadcastInv, Seated
  <2>2. \A g \in Descriptors : fds'[g] # Nobody => place'[fds'[g]] = "admitted"
    <3> SUFFICES ASSUME NEW g \in Descriptors, fds[g] # Nobody
                 PROVE  place'[fds[g]] = "admitted"
      BY <1>4
    <3>1. CASE fds[g] = h
      BY <1>3, <1>6, <3>1
    <3>2. CASE fds[g] # h
      <4>1. place[fds[g]] \in {"accepted", "admitted"}
            /\ (place[fds[g]] = "accepted" => f = g)
        BY DEF BroadcastInv, Seated, f
      <4> QED BY <1>3, <1>6, <1>8, <3>2, <4>1
    <3> QED BY <3>1, <3>2
  <2>3. ASSUME NEW i \in Slots, NEW j \in Slots, clients'[i] # -1,
               fds'[clients'[i]] \in People \ inherited', clients'[j] = clients'[i]
        PROVE  i = j
    <3>1. CASE i # k /\ j # k
      BY <1>4, <1>5, <2>3, <3>1 DEF BroadcastInv, Seated
    <3>2. CASE i = k \/ j = k
      BY <1>3, <1>4, <1>5, <1>9, <2>3, <3>2
    <3> QED BY <3>1, <3>2
  <2>4. \A i \in Slots : clients'[i] # -1 /\ fds'[clients'[i]] \in People \ inherited'
                         => clients'[i] \in Descriptors /\ fds'[clients'[i]] # Nobody
    BY <1>3, <1>5, <1>7
  <2> QED BY <2>1, <2>2, <2>3, <2>4 DEF Seated
<1>12. Queueing'
  <2>1. \A m \in 1..Len(backlog) : backlog[m] \in People /\ backlog[m] # h
    <3>1. backlog \in Seq(People)
      BY BroadcastTypes DEF BroadcastInv
    <3>2. \A m \in 1..Len(backlog) : backlog[m] \in People
      BY <3>1
    <3> QED BY <1>3, <3>2 DEF BroadcastInv, Queueing
  <2> QED BY <1>4, <1>6, <2>1 DEF BroadcastInv, Queueing
<1>13. Sender'
  BY <1>1, <1>4, <1>5 DEF BroadcastInv, Sender, Slots
<1>14. Heard'
  <2>1. \A i \in Slots : Due(i)' = 2 * broadcasts /\ Due(i) = 2 * broadcasts
    BY <1>1, <1>4 DEF Due
  <2>2. h \notin inherited => stream[h] = <<>>
    BY <1>3 DEF BroadcastInv, Heard
  <2>3. broadcasts \in Nat
    BY BroadcastTypes DEF BroadcastInv
  <2>4. Heard
    BY DEF BroadcastInv
  <2> SUFFICES ASSUME NEW p \in People
               PROVE  /\ place'[p] = "waiting" => stream'[p] = <<>>
                      /\ place'[p] = "accepted" /\ p \notin inherited' => stream'[p] = <<>>
                      /\ Attending(p)' =>
                           \A n \in 1..Len(stream'[p]) :
                                 stream'[p][n] = 2 * joinedAt'[p] + n
                      /\ Attending(p)' /\ p \notin hungup' => \A i \in Slots :
                                clients'[i] # -1 /\ fds'[clients'[i]] = p
                                => Len(stream'[p]) = Due(i)' - 2 * joinedAt'[p]
    BY DEF Heard
  <2>5. CASE p = h
    <3>1. /\ place'[p] = "admitted" /\ joinedAt'[p] = broadcasts
          /\ stream'[p] = stream[p] /\ (Attending(p)' => stream[p] = <<>>)
      BY <1>4, <1>6, <2>2, <2>5 DEF Attending
    <3>2. Len(<<>>) = 0
      OBVIOUS
    <3> QED BY <2>1, <2>3, <3>1, <3>2
  <2>6. CASE p # h
    <3>1. /\ place'[p] = place[p] /\ joinedAt'[p] = joinedAt[p] /\ stream'[p] = stream[p]
          /\ hungup' = hungup /\ inherited' = inherited /\ (Attending(p)' => Attending(p))
      BY <1>4, <1>6, <2>6 DEF Attending
    <3>2. \A i \in Slots : clients'[i] # -1 /\ fds'[clients'[i]] = p
                           => clients[i] # -1 /\ fds[clients[i]] = p
      BY <1>3, <1>4, <1>5, <2>6
    <3> QED BY <2>1, <2>4, <3>1, <3>2 DEF Heard
  <2> QED BY <2>5, <2>6
<1> QED BY <1>11, <1>12, <1>13, <1>14 DEF BroadcastInv

\* A thread that gets the mutex starts the next broadcast at the first slot.
LEMMA LockKeeps == ASSUME BroadcastInv, ChatInv', NEW k \in Slots, Lock(k) PROVE BroadcastInv'
<1>1. /\ mutex = 0 /\ mutex' = k /\ broadcasts' = broadcasts + 1
      /\ cursor' = 1 /\ body' = FALSE
      /\ UNCHANGED <<mainVars, tableVars, peopleVars, stream, historyVars>>
  BY DEF Lock
<1>2. \A i \in Slots : at'[i] = IF i = k THEN "write" ELSE at[i]
  BY DEF Lock, Goto, BroadcastInv, ChatInv, TypeOK, TablesOK
<1>3. Seated' /\ Queueing'
  BY <1>1 DEF BroadcastInv, Seated, Queueing, mainVars, tableVars, peopleVars, historyVars
<1>4. Sender'
  BY <1>1, <1>2 DEF BroadcastInv, Sender, Slots
<1>5. Heard'
  <2>1. \A i \in Slots : Due(i)' = Due(i)
    <3>1. broadcasts \in Nat
      BY BroadcastTypes DEF BroadcastInv
    <3>2. \A i \in Slots : ~(1 > i)
      BY DEF Slots
    <3>3. \A i \in Slots : Due(i) = 2 * broadcasts
      BY <1>1 DEF Due
    <3>4. \A i \in Slots : Due(i)' = 2 * broadcasts' - 2
      BY <1>1, <3>2 DEF Due, Slots
    <3>5. 2 * broadcasts' - 2 = 2 * broadcasts
      BY <1>1, <3>1
    <3> QED BY <3>3, <3>4, <3>5
  <2> QED BY <1>1, <2>1 DEF BroadcastInv, Heard, Attending, tableVars, peopleVars, historyVars
<1> QED BY <1>3, <1>4, <1>5 DEF BroadcastInv

\* What a broadcast changes: the slot the broadcaster is at gets on by a piece,
\* or is done with; the others' pieces stay as they are.
LEMMA DueSteps ==
  ASSUME BroadcastInv, NEW k \in Slots, mutex = k, broadcasts' = broadcasts,
         NextPiece(k) \/ NextSlot(k)
  PROVE  /\ \A i \in Slots \ {cursor} : Due(i)' = Due(i)
         /\ NextPiece(k) => \A i \in Slots : i = cursor => Due(i)' = Due(i) + 1
<1>1. /\ cursor \in Nat /\ cursor <= MAX_CLIENTS /\ body \in BOOLEAN
      /\ broadcasts \in Nat /\ mutex # 0
  <2>1. cursor \in Slots /\ body \in BOOLEAN /\ broadcasts \in Nat
    BY BroadcastTypes DEF BroadcastInv
  <2>2. \A i \in Slots : i \in Nat /\ i <= MAX_CLIENTS /\ i # 0
    BY DEF Slots
  <2> QED BY <2>1, <2>2
<1>2. \A i \in Slots : i \in Nat /\ i <= MAX_CLIENTS
  BY DEF Slots
<1>3. CASE NextSlot(k) /\ cursor < MAX_CLIENTS
  <2>1. mutex' = mutex /\ cursor' = cursor + 1 /\ body' = FALSE
    BY <1>3 DEF NextSlot
  <2>2. \A i \in Slots \ {cursor} : cursor' > i <=> cursor > i
    BY <1>1, <1>2, <2>1
  <2>3. \A i \in Slots : i = cursor => cursor' > i
    BY <1>1, <2>1
  <2>4. \A i \in Slots : Due(i)' = IF cursor' > i THEN 2 * broadcasts ELSE 2 * broadcasts - 2
    BY <1>1, <2>1 DEF Due
  <2>5. \A i \in Slots \ {cursor} : Due(i) = IF cursor > i THEN 2 * broadcasts
                                                         ELSE 2 * broadcasts - 2
    BY <1>1 DEF Due
  <2>6. NextPiece(k) => body
    BY <2>1, <1>1 DEF NextPiece
  <2>7. NextPiece(k) => \A i \in Slots : i = cursor => Due(i) = 2 * broadcasts - 1
    BY <1>1, <2>6 DEF Due
  <2> QED BY <1>1, <2>2, <2>3, <2>4, <2>5, <2>7
<1>4. CASE NextSlot(k) /\ ~(cursor < MAX_CLIENTS)
  <2>1. mutex' = 0 /\ body' = FALSE
    BY <1>4 DEF NextSlot
  <2>2. \A i \in Slots \ {cursor} : cursor > i
    BY <1>1, <1>2, <1>4
  <2>3. \A i \in Slots : Due(i)' = 2 * broadcasts
    BY <2>1 DEF Due
  <2>4. \A i \in Slots \ {cursor} : Due(i) = 2 * broadcasts
    BY <2>2 DEF Due
  <2>5. NextPiece(k) => body
    BY <2>1, <1>1 DEF NextPiece
  <2>6. NextPiece(k) => \A i \in Slots : i = cursor => Due(i) = 2 * broadcasts - 1
    BY <1>1, <2>5 DEF Due
  <2> QED BY <1>1, <2>3, <2>4, <2>6
<1>5. CASE ~body /\ body' = TRUE /\ UNCHANGED <<cursor, mutex>>
  <2>1. \A i \in Slots \ {cursor} : Due(i)' = Due(i)
    BY <1>5 DEF Due
  <2>2. \A i \in Slots : i = cursor => Due(i)' = 2 * broadcasts - 1 /\ Due(i) = 2 * broadcasts - 2
    BY <1>1, <1>5 DEF Due
  <2> QED BY <1>1, <2>1, <2>2
<1> QED BY <1>1, <1>3, <1>4, <1>5 DEF NextPiece

\* The mutex stays with its thread until that leaves the broadcast.
LEMMA SenderSteps ==
  ASSUME BroadcastInv, NEW k \in Slots, Writing(k), NextPiece(k) \/ NextSlot(k)
  PROVE  Sender'
<1>1. mutex = k /\ k # 0
  BY DEF Writing, Slots
<1>2. at \in [Slots -> {"none", "loop", "read", "lock", "write", "close", "clear"}]
  BY DEF BroadcastInv, ChatInv, TypeOK, TablesOK
<1>3. CASE UNCHANGED <<mutex, at>>
  BY <1>3 DEF BroadcastInv, Sender
<1>4. CASE mutex' = 0 /\ Goto(k, "loop")
  <2>1. \A i \in Slots : at'[i] = IF i = k THEN "loop" ELSE at[i]
    BY <1>2, <1>4 DEF Goto
  <2> QED BY <1>1, <1>4, <2>1 DEF BroadcastInv, Sender, Slots
<1> QED BY <1>3, <1>4 DEF NextPiece, NextSlot

\* A broadcast that has nobody to write to at its slot.
LEMMA VainKeeps ==
  ASSUME BroadcastInv, ChatInv', NEW k \in Slots, Skip(k) \/ WriteInVain(k)
  PROVE  BroadcastInv'
<1>1. /\ Writing(k) /\ mutex = k /\ (NextPiece(k) \/ NextSlot(k)) /\ broadcasts' = broadcasts
      /\ UNCHANGED <<mainVars, tableVars, peopleVars, stream, historyVars>>
      /\ Listener \in hungup \cup {Nobody}
  BY DEF Skip, WriteInVain, Writing
<1>2. Seated' /\ Queueing'
  BY <1>1 DEF BroadcastInv, Seated, Queueing, mainVars, tableVars, peopleVars, historyVars
<1>3. Sender'
  BY <1>1, SenderSteps
<1>4. \A i \in Slots \ {cursor} : Due(i)' = Due(i)
  BY <1>1, DueSteps
<1>5. \A p \in People \ hungup, i \in Slots : clients[i] # -1 /\ fds[clients[i]] = p => i # cursor
  BY <1>1 DEF Listener
<1>6. /\ clients' = clients /\ fds' = fds /\ stream' = stream /\ joinedAt' = joinedAt
      /\ hungup' = hungup /\ place' = place /\ inherited' = inherited
  BY <1>1 DEF tableVars, peopleVars, historyVars
<1>7. Heard
  BY DEF BroadcastInv
<1>8. \A i \in Slots, p \in People \ hungup :
         clients[i] # -1 /\ fds[clients[i]] = p => Due(i)' = Due(i)
  BY <1>4, <1>5
<1>9. Heard'
  <2>1. \A p \in People : Attending(p)' <=> Attending(p)
    BY <1>6 DEF Attending
  <2> QED BY <1>6, <1>7, <1>8, <2>1 DEF Heard
<1> QED BY <1>2, <1>3, <1>9 DEF BroadcastInv

\* A piece written is the next one its receiver is due.
LEMMA WriteKeeps ==
  ASSUME BroadcastInv, ChatInv', NEW k \in Slots, Write(k)
  PROVE  BroadcastInv'
<1> DEFINE q == Listener
           piece == IF body THEN 2 * broadcasts ELSE 2 * broadcasts - 1
<1>1. /\ Writing(k) /\ mutex = k /\ NextPiece(k) /\ broadcasts' = broadcasts
      /\ UNCHANGED <<mainVars, tableVars, peopleVars, historyVars>>
      /\ q \notin hungup /\ q # Nobody
      /\ stream' = [stream EXCEPT ![q] = Append(@, piece)]
  BY DEF Write, Writing
<1>2. cursor \in Slots /\ clients[cursor] # -1 /\ fds[clients[cursor]] = q /\ q \in People
      /\ clients[cursor] \in Descriptors
  BY <1>1, BroadcastTypes DEF BroadcastInv, Listener
<1>3. Seated' /\ Queueing'
  BY <1>1 DEF BroadcastInv, Seated, Queueing, mainVars, tableVars, peopleVars, historyVars
<1>4. Sender'
  BY <1>1, SenderSteps
<1>5. (\A i \in Slots \ {cursor} : Due(i)' = Due(i)) /\ Due(cursor) = piece - 1
  <2>1. cursor \in Nat /\ broadcasts \in Nat /\ k # 0
    <3>1. broadcasts \in Nat
      BY BroadcastTypes DEF BroadcastInv
    <3> QED BY <1>2, <3>1 DEF Slots
  <2>2. ~(cursor > cursor)
    BY <2>1
  <2> QED BY <1>1, <2>1, <2>2, DueSteps DEF Due
<1>6. \A i \in Slots : i = cursor => Due(i)' = Due(i) + 1
  BY <1>1, DueSteps
<1>7. /\ clients' = clients /\ fds' = fds /\ joinedAt' = joinedAt
      /\ hungup' = hungup /\ place' = place /\ inherited' = inherited
  BY <1>1 DEF tableVars, peopleVars, historyVars
<1>8. /\ \A p \in People : p # q => stream'[p] = stream[p]
      /\ stream'[q] = Append(stream[q], piece) /\ stream[q] \in Seq(Int)
  <2>1. stream \in [People -> Seq(Int)]
    BY BroadcastTypes DEF BroadcastInv
  <2> HIDE DEF q, piece
  <2> QED BY <1>1, <1>2, <2>1
<1>9. piece \in Int /\ joinedAt[q] \in Nat
  <2>1. broadcasts \in Nat /\ joinedAt \in [People -> Nat]
    BY BroadcastTypes DEF BroadcastInv
  <2>2. piece \in Int
    BY <2>1
  <2> HIDE DEF q, piece
  <2> QED BY <1>2, <2>1, <2>2
<1>10. place[q] = "admitted" \/ q \in inherited
  BY <1>2 DEF BroadcastInv, Seated
<1>11. place[q] \in {"accepted", "admitted"}
  BY <1>1, <1>2 DEF BroadcastInv, Seated
<1> HIDE DEF q, piece
<1>12. \A p \in People, i \in Slots :
          clients[i] # -1 /\ fds[clients[i]] = p /\ Attending(p) => (p = q <=> i = cursor)
  <2> SUFFICES ASSUME NEW i \in Slots, clients[i] # -1, fds[clients[i]] = q, Attending(q)
               PROVE  i = cursor
    BY <1>2
  <2>1. clients[i] \in Descriptors
    BY BroadcastTypes DEF BroadcastInv
  <2>2. clients[i] = clients[cursor]
    BY <1>1, <1>2, <2>1 DEF BroadcastInv, Seated
  <2> QED BY <1>2, <2>2 DEF BroadcastInv, Seated, Attending
<1>13. ASSUME Attending(q)
       PROVE  /\ Len(stream'[q]) = Len(stream[q]) + 1
              /\ \A n \in 1..Len(stream'[q]) : stream'[q][n] = 2 * joinedAt[q] + n
  <2>1. \A n \in 1..Len(stream[q]) : stream[q][n] = 2 * joinedAt[q] + n
    BY <1>2, <1>13 DEF BroadcastInv, Heard
  <2>2. Len(stream[q]) = piece - 1 - 2 * joinedAt[q]
    BY <1>1, <1>2, <1>5, <1>13 DEF BroadcastInv, Heard
  <2>3. /\ Len(stream'[q]) = Len(stream[q]) + 1 /\ Len(stream[q]) \in Nat
        /\ \A n \in 1..Len(stream'[q]) :
              stream'[q][n] = IF n <= Len(stream[q]) THEN stream[q][n] ELSE piece
    BY <1>8, <1>9
  <2>4. ASSUME NEW n \in 1..Len(stream'[q]) PROVE stream'[q][n] = 2 * joinedAt[q] + n
    <3>1. CASE n <= Len(stream[q])
      BY <2>1, <2>3, <3>1
    <3>2. CASE ~(n <= Len(stream[q]))
      <4>1. n = Len(stream[q]) + 1
        BY <2>3, <3>2
      <4>2. piece = 2 * joinedAt[q] + n
        BY <1>9, <2>2, <4>1
      <4> QED BY <2>3, <3>2, <4>2
    <3> QED BY <3>1, <3>2
  <2> QED BY <2>3, <2>4
<1>14. Heard'
  <2> SUFFICES ASSUME NEW p \in People
               PROVE  /\ place[p] = "waiting" => stream'[p] = <<>>
                      /\ place[p] = "accepted" /\ p \notin inherited => stream'[p] = <<>>
                      /\ Attending(p) =>
                           \A n \in 1..Len(stream'[p]) :
                                 stream'[p][n] = 2 * joinedAt[p] + n
                      /\ Attending(p) /\ p \notin hungup => \A i \in Slots :
                                clients[i] # -1 /\ fds[clients[i]] = p
                                => Len(stream'[p]) = Due(i)' - 2 * joinedAt[p]
    BY <1>7 DEF Heard, Attending
  <2>1. CASE p # q
    <3>1. stream'[p] = stream[p]
      BY <1>8, <2>1
    <3>2. Attending(p) => \A i \in Slots : clients[i] # -1 /\ fds[clients[i]] = p
                                           => Due(i)' = Due(i)
      BY <1>5, <1>12, <2>1
    <3> QED BY <3>1, <3>2 DEF BroadcastInv, Heard
  <2>2. CASE p = q
    <3>1. ASSUME Attending(q), NEW i \in Slots, clients[i] # -1, fds[clients[i]] = q
          PROVE  Len(stream'[q]) = Due(i)' - 2 * joinedAt[q]
      <4>1. i = cursor
        BY <1>12, <3>1, <1>2
      <4>2. Len(stream[q]) = Due(i) - 2 * joinedAt[q]
        BY <1>1, <1>2, <3>1 DEF BroadcastInv, Heard
      <4>3. Due(i)' = Due(i) + 1 /\ Due(i) = piece - 1
        BY <1>5, <1>6, <4>1
      <4>4. Len(stream'[q]) = Len(stream[q]) + 1
        BY <1>13, <3>1
      <4> QED BY <1>9, <4>2, <4>3, <4>4
    <3> QED BY <1>10, <1>11, <1>13, <2>2, <3>1 DEF Attending
  <2> QED BY <2>1, <2>2
<1> QED BY <1>3, <1>4, <1>14 DEF BroadcastInv

\* Every step of main, of a thread or of a person keeps the invariant.
LEMMA BroadcastStep == BroadcastInv /\ [Next]_vars => BroadcastInv'
<1> SUFFICES ASSUME BroadcastInv, [Next]_vars PROVE BroadcastInv'
  OBVIOUS
<1>1. ChatInv'
  BY ChatStep DEF BroadcastInv
<1>2. CASE Quiet
  BY <1>1, <1>2, QuietStep
<1>3. CASE Exit
  BY <1>3, ExitQuiet
<1>4. CASE Accept
  BY <1>1, <1>4, AcceptKeeps
<1>5. CASE Admit
  BY <1>1, <1>5, AdmitKeeps
<1>6. ASSUME NEW k \in Slots, Lock(k) PROVE BroadcastInv'
  BY <1>1, <1>6, LockKeeps
<1>7. ASSUME NEW k \in Slots, Skip(k) \/ WriteInVain(k) PROVE BroadcastInv'
  BY <1>1, <1>7, VainKeeps
<1>8. ASSUME NEW k \in Slots, Write(k) PROVE BroadcastInv'
  BY <1>1, <1>8, WriteKeeps
<1>9. CASE UNCHANGED vars
  <2>1. Quiet
    BY <1>9 DEF vars, Quiet, mainVars, tableVars, peopleVars, historyVars
  <2> QED BY <2>1, <1>2
<1>10. ASSUME NEW p \in People, Say(p) \/ Receive(p) \/ HangUp(p) PROVE Quiet
  BY <1>10 DEF Say, Receive, HangUp, Quiet, mainVars, tableVars, peopleVars, historyVars
<1>11. CASE Interrupt \/ Test
  <2>1. /\ UNCHANGED <<client_fd, swept, tableVars, at, writeVars, peopleVars, stream, historyVars>>
        /\ mainAt = "admit" => mainAt' = "admit"
    BY <1>11 DEF Interrupt, Test
  <2>2. Quiet
    BY <2>1 DEF Quiet, tableVars, peopleVars, historyVars
  <2> QED BY <2>2, <1>2
<1>12. CASE CreateFails \/ Refuse
  <2>1. /\ client_fd \in Descriptors /\ fds[client_fd] # Nobody /\ place[NewPerson] = "accepted"
        /\ fds' = [fds EXCEPT ![client_fd] = Nobody]
        /\ place' = [place EXCEPT ![NewPerson] = "turned away"]
    BY <1>12 DEF CreateFails, Refuse, BroadcastInv, ChatInv, Owned, NewPerson
  <2>2. /\ fds \in [Descriptors -> People \cup {Nobody}]
        /\ place \in [People -> {"waiting", "accepted", "admitted", "turned away"}]
    BY BroadcastTypes DEF BroadcastInv
  <2>3. \A g \in Descriptors : fds'[g] = IF g = client_fd THEN Nobody ELSE fds[g]
    BY <2>1, <2>2
  <2>4. NewPerson \in People /\ \A g \in Descriptors : fds'[g] # NewPerson
    <3>1. NewPerson = fds[client_fd] /\ NewPerson \in People
      BY <2>1, <2>2 DEF NewPerson
    <3>2. \A g \in Descriptors : fds[g] # Nobody /\ fds[g] = fds[client_fd] => g = client_fd
      BY <2>1 DEF BroadcastInv, Seated
    <3> QED BY <2>3, <3>1, <3>2
  <2>5. \A p \in People : \/ place'[p] = place[p]
                          \/ /\ place[p] = "accepted" /\ place'[p] = "turned away"
                             /\ \A f \in Descriptors : fds'[f] # p
    BY <2>1, <2>2, <2>4
  <2>6. \A i \in Slots : clients'[i] \in {clients[i], client_fd}
    BY <1>12 DEF CreateFails, Refuse, Fill, BroadcastInv, ChatInv, TypeOK, TablesOK
  <2>7. UNCHANGED <<at, joinedAt, inherited, stream, writeVars, backlog, hungup>>
    BY <1>12 DEF CreateFails, Refuse, historyVars
  <2>8. Quiet
    <3>1. \A f \in Descriptors : fds'[f] \in {fds[f], Nobody}
      BY <2>3
    <3>2. fds'[client_fd] = Nobody
      BY <2>1, <2>3
    <3>3. \A i \in Slots : clients'[i] # -1 /\ fds'[clients'[i]] # Nobody
                           => clients'[i] = clients[i]
      BY <2>6, <3>2
    <3> QED BY <2>5, <2>7, <3>1, <3>2, <3>3 DEF Quiet
  <2> QED BY <2>8, <1>2
<1>13. CASE Sweep
  <2>1. UNCHANGED <<clients, at, writeVars, peopleVars, stream, historyVars>> /\ mainAt = "cleanup"
    BY <1>13 DEF Sweep
  <2>2. \A f \in Descriptors : fds'[f] \in {fds[f], Nobody}
    BY <1>13, BroadcastTypes DEF Sweep, BroadcastInv
  <2>3. Quiet
    BY <2>1, <2>2 DEF Quiet, peopleVars, historyVars
  <2> QED BY <2>3, <1>2
<1>14. ASSUME NEW k \in Slots,
              Loop(k) \/ Read(k) \/ ReadFails(k) \/ Close(k) \/ Clear(k)
       PROVE  Quiet
  <2>1. UNCHANGED <<mainVars, joinedAt, inherited, stream, writeVars, backlog, hungup, place>>
    BY <1>14 DEF Loop, Read, ReadFails, Close, Clear, peopleVars, historyVars
  <2>2. at[k] # "write" /\ \E s \in {"loop", "read", "lock", "close", "clear", "none"} : Goto(k, s)
    BY <1>14 DEF Loop, Read, ReadFails, Close, Clear
  <2>3. \A i \in Slots : at'[i] = "write" <=> at[i] = "write"
    BY <2>2 DEF Goto, BroadcastInv, ChatInv, TypeOK, TablesOK
  <2>4. \A f \in Descriptors : fds'[f] \in {fds[f], Nobody}
    BY <1>14, BroadcastTypes
       DEF Loop, Read, ReadFails, Close, Clear, tableVars, BroadcastInv
  <2>5. \A i \in Slots : clients'[i] \in {clients[i], -1}
    BY <1>14, BroadcastTypes
       DEF Loop, Read, ReadFails, Close, Clear, tableVars, BroadcastInv
  <2> QED BY <2>1, <2>3, <2>4, <2>5 DEF Quiet, mainVars
<1>15. ASSUME NEW k \in Slots, ThreadStep(k) PROVE BroadcastInv'
  <2>1. CASE BrokenPipe(k)
    BY <2>1, <1>3 DEF BrokenPipe
  <2> QED BY <1>2, <1>6, <1>7, <1>8, <1>14, <1>15, <2>1 DEF ThreadStep
<1>16. CASE MainStep
  <2>1. CASE RefuseFails
    BY <2>1, <1>3 DEF RefuseFails
  <2> QED BY <1>2, <1>4, <1>5, <1>11, <1>12, <1>13, <1>16, <2>1 DEF MainStep
<1> QED BY <1>2, <1>9, <1>10, <1>11, <1>15, <1>16 DEF Next

\* Who joined under a descriptor that no slot held any more gets every message
\* broadcast since, size and body, once and in order (server.c:182-196).
THEOREM EveryMessageArrives == Spec => []EveryMessageOnce
<1>1. BroadcastInv => EveryMessageOnce
  <2> SUFFICES ASSUME BroadcastInv, NEW p \in People, Attending(p)
               PROVE  /\ \A n \in 1..Len(stream[p]) : stream[p][n] = 2 * joinedAt[p] + n
                      /\ mutex = 0 /\ p \notin hungup /\ (\E f \in Descriptors : fds[f] = p)
                         => Len(stream[p]) = 2 * (broadcasts - joinedAt[p])
    BY DEF EveryMessageOnce
  <2>1. \A n \in 1..Len(stream[p]) : stream[p][n] = 2 * joinedAt[p] + n
    BY DEF BroadcastInv, Heard
  <2>2. ASSUME mutex = 0, p \notin hungup, NEW f \in Descriptors, fds[f] = p
        PROVE  Len(stream[p]) = 2 * (broadcasts - joinedAt[p])
    <3>1. PICK i \in Slots : clients[i] = f
      BY <2>2 DEF BroadcastInv, ChatInv, Owned, Attending
    <3>2. clients[i] # -1
      BY <3>1 DEF Descriptors
    <3>3. Len(stream[p]) = Due(i) - 2 * joinedAt[p]
      BY <2>2, <3>1, <3>2 DEF BroadcastInv, Heard
    <3>4. Due(i) = 2 * broadcasts
      BY <2>2 DEF Due
    <3>5. broadcasts \in Nat /\ joinedAt[p] \in Nat
      BY BroadcastTypes DEF BroadcastInv
    <3> QED BY <3>3, <3>4, <3>5
  <2> QED BY <2>1, <2>2
<1> QED BY BroadcastInit, BroadcastStep, <1>1, PTL DEF Spec
=============================================================================
