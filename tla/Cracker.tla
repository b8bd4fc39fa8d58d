------------------------------ MODULE Cracker ------------------------------
(***************************************************************************)
(* The password cracker of password_cracker/cracker1.c (and cracker2.c,    *)
(* the same program): main reads the lines into a queue and "NULL" behind  *)
(* them, the workers pull a line each, split it with strtok and guess its  *)
(* password.  The queue is that of BoundedQueue through its promise (Fifo, *)
(* no limit), and nobody pulls while the other side pushes.                *)
(*                                                                         *)
(* The lines of stdin are taken to be well formed and to have a solution.   *)
(* A line is its number, and so is its buffer.  A token is the line it is  *)
(* in and which one it is there: user, hash, password, and then what       *)
(* strtok leaves of a password behind its known characters.                *)
(***************************************************************************)
EXTENDS Integers, Sequences

CONSTANTS thread_count,
          MaxPasswords,  \* lines that start reads at most, 10000
          MaxLines       \* lines that stdin has at most

ASSUME CrackerAssumption ==
    thread_count \in Nat \ {0} /\ MaxPasswords \in Nat \ {0} /\ MaxLines \in Nat

Workers == 1..thread_count
NULL == 0                  \* the "NULL" of the queue, and no line
NoWorker == 0
Tokens == {"user", "hash", "password"}
NoToken == <<NULL, "end">>   \* strtok's NULL

\* The place behind a token.
Behind == [user |-> "hash", hash |-> "password", password |-> "end", rest |-> "end"]

VARIABLES
    stdin, input,          \* lines left to read; the last buffer allocated
    main, created,         \* where main is, and how many threads it has created
    password_queue,
    qai, assigning,        \* qai->thread_id; thread_assignment_mtx is held
    mtx,                   \* the worker that holds mtx
    at, thread_id, line,   \* where a worker is; its number; its line
    saved, loaded,         \* strtok's static place, and what a call has read of it
    data,                  \* a worker's tokens
    freed,                 \* how often each buffer has been freed
    alive,                 \* the process
    pulled, overlapped     \* history: the lines pulled, in order; the workers
                           \* whose splitting another one has come between

mainVars == <<stdin, input, main, created>>
queueVars == <<password_queue, mtx, pulled>>
splitVars == <<saved, loaded, data, overlapped>>
threadVars == <<qai, assigning, thread_id>>
vars == <<mainVars, queueVars, splitVars, threadVars, at, line, freed, alive>>

Init ==
    /\ stdin \in 0..MaxLines /\ input = NULL
    /\ main = "reading" /\ created = 0
    /\ password_queue = <<>> /\ mtx = NoWorker /\ pulled = <<>>
    /\ qai = 0 /\ assigning = FALSE
    /\ at = [w \in Workers |-> "none"] /\ thread_id = [w \in Workers |-> 0]
    /\ line = [w \in Workers |-> NULL]
    /\ saved = NoToken /\ loaded = [w \in Workers |-> NoToken]
    /\ data = [w \in Workers |-> [k \in Tokens |-> NoToken]] /\ overlapped = {}
    /\ freed = [l \in 1 .. MaxPasswords + 1 |-> 0]
    /\ alive = TRUE

Goto(w, where) == at' = [at EXCEPT ![w] = where]

-----------------------------------------------------------------------------
\* start: the lines, the threads, and the end.

total == Len(password_queue) + Len(pulled)  \* while it reads: nothing is pulled yet

ReadLine ==
    /\ alive /\ main = "reading" /\ stdin > 0 /\ total < MaxPasswords
    /\ stdin' = stdin - 1 /\ input' = total + 1
    /\ password_queue' = Append(password_queue, total + 1)
    /\ UNCHANGED <<main, created, mtx, pulled, splitVars, threadVars, at, line, freed, alive>>

\* Mutant: the buffer of the read that fails is queued as well.
ReadEndQueued ==
    /\ alive /\ main = "reading" /\ (stdin = 0 \/ total = MaxPasswords)
    /\ input' = IF total < MaxPasswords THEN total + 1 ELSE total
    /\ password_queue' = password_queue \o <<input', NULL>>
    /\ main' = "creating"
    /\ UNCHANGED <<stdin, created, mtx, pulled, splitVars, threadVars, at, line, freed, alive>>

\* The buffer of the read that fails is nobody's line; there is none when the
\* loop ends by its limit.
ReadEnd ==
    /\ alive /\ main = "reading" /\ (stdin = 0 \/ total = MaxPasswords)
    /\ input' = IF total < MaxPasswords THEN total + 1 ELSE total
    /\ password_queue' = Append(password_queue, NULL)
    /\ main' = "creating"
    /\ UNCHANGED <<stdin, created, mtx, pulled, splitVars, threadVars, at, line, freed, alive>>

\* Mutant: thread_assignment_mtx is not waited for.
CreateAtOnce ==
    /\ alive /\ main = "creating" /\ created < thread_count
    /\ created' = created + 1
    /\ qai' = created + 1 /\ assigning' = TRUE
    /\ Goto(created + 1, "unpack")
    /\ UNCHANGED <<stdin, input, main, queueVars, splitVars, thread_id, line, freed, alive>>

\* thread_assignment_mtx, which the last thread created unlocks, is waited for
\* before its argument is written again.
Create ==
    /\ alive /\ main = "creating" /\ created < thread_count /\ ~assigning
    /\ created' = created + 1
    /\ qai' = created + 1 /\ assigning' = TRUE
    /\ Goto(created + 1, "unpack")
    /\ UNCHANGED <<stdin, input, main, queueVars, splitVars, thread_id, line, freed, alive>>

Die ==
    /\ alive' = FALSE
    /\ UNCHANGED <<mainVars, queueVars, splitVars, threadVars, at, line, freed>>

CreateFails ==
    alive /\ main = "creating" /\ created < thread_count /\ ~assigning /\ Die

\* All threads rejoined, main frees the buffer it read into last, which may be
\* a line that its worker has freed.
Finish ==
    /\ alive /\ main = "creating" /\ created = thread_count
    /\ \A w \in Workers : at[w] = "gone"
    /\ freed' = [freed EXCEPT ![input] = @ + 1]
    /\ main' = "done"
    /\ UNCHANGED <<stdin, input, created, queueVars, splitVars, threadVars, at, line, alive>>

-----------------------------------------------------------------------------
\* run_thread.

Unpack(w) ==
    /\ alive /\ at[w] = "unpack"
    /\ thread_id' = [thread_id EXCEPT ![w] = qai]
    /\ assigning' = FALSE
    /\ Goto(w, "loop")
    /\ UNCHANGED <<mainVars, queueVars, splitVars, qai, line, freed, alive>>

Lock(w) ==
    /\ alive /\ at[w] = "loop" /\ mtx = NoWorker
    /\ mtx' = w
    /\ Goto(w, "pull")
    /\ UNCHANGED <<mainVars, password_queue, pulled, splitVars, threadVars, line, freed, alive>>

\* queue_pull waits, with mtx held, while the queue is empty.
Pull(w) ==
    /\ alive /\ at[w] = "pull" /\ password_queue # <<>> /\ Head(password_queue) # NULL
    /\ line' = [line EXCEPT ![w] = Head(password_queue)]
    /\ password_queue' = Tail(password_queue)
    /\ pulled' = Append(pulled, Head(password_queue))
    /\ mtx' = NoWorker
    /\ Goto(w, "user")
    /\ UNCHANGED <<mainVars, splitVars, threadVars, freed, alive>>

\* Mutant: "NULL" is not put back.
LeaveWithoutPush(w) ==
    /\ alive /\ at[w] = "pull" /\ password_queue # <<>> /\ Head(password_queue) = NULL
    /\ password_queue' = Tail(password_queue)
    /\ mtx' = NoWorker
    /\ Goto(w, "gone")
    /\ UNCHANGED <<mainVars, pulled, splitVars, threadVars, line, freed, alive>>

\* "NULL" is put back for the next worker.
Leave(w) ==
    /\ alive /\ at[w] = "pull" /\ password_queue # <<>> /\ Head(password_queue) = NULL
    /\ password_queue' = Append(Tail(password_queue), NULL)
    /\ mtx' = NoWorker
    /\ Goto(w, "gone")
    /\ UNCHANGED <<mainVars, pulled, splitVars, threadVars, line, freed, alive>>

-----------------------------------------------------------------------------
\* The four calls of strtok, outside the mutex.

Stale(t) == t[1] # NULL /\ freed[t[1]] > 0

\* Mutant: a token is skipped with the delimiter.
ScanFurther(place) ==
    {<<IF place[2] = "end" THEN NoToken ELSE place, <<place[1], "end">>>>}

\* What strtok may return from a place, with the place behind it: the rest of a
\* password is no token if it was a single dot; freed memory may hold nothing.
Scan(place) ==
    IF place[2] = "end" THEN {<<NoToken, place>>}
    ELSE {<<place, <<place[1], Behind[place[2]]>>>>}
         \cup (IF place[2] = "rest" \/ Stale(place) THEN {<<NoToken, <<place[1], "end">>>>}
               ELSE {})

\* Whose splitting w comes between when it moves the place: who has begun and is
\* to go on from it.
Between(w) == {v \in Workers \ {w} : at[v] \in {"hash", "password"}}

Move(w, place) ==
    /\ saved' = place
    /\ overlapped' = (IF at[w] = "user" THEN overlapped \ {w} ELSE overlapped) \cup Between(w)

Token(w, k, t) == data' = [data EXCEPT ![w][k] = t]

\* strtok(line, " ")
SplitUser(w) ==
    /\ alive /\ at[w] = "user"
    /\ Token(w, "user", <<line[w], "user">>)
    /\ Move(w, <<line[w], "hash">>)
    /\ Goto(w, "hash")
    /\ UNCHANGED <<mainVars, queueVars, loaded, threadVars, line, freed, alive>>

\* strtok(NULL, " ") reads the place, and moves it with what it returns.
Load(w) ==
    /\ alive /\ at[w] \in {"hash", "password"}
    /\ loaded' = [loaded EXCEPT ![w] = saved]
    /\ Goto(w, IF at[w] = "hash" THEN "at hash" ELSE "at password")
    /\ UNCHANGED <<mainVars, queueVars, saved, data, overlapped, threadVars, line, freed, alive>>

SplitHash(w) ==
    /\ alive /\ at[w] = "at hash"
    /\ \E r \in Scan(loaded[w]) : Token(w, "hash", r[1]) /\ Move(w, r[2])
    /\ Goto(w, "password")
    /\ UNCHANGED <<mainVars, queueVars, loaded, threadVars, line, freed, alive>>

\* strlen(NULL) ends the process.
SplitPassword(w) ==
    /\ alive /\ at[w] = "at password"
    /\ \E r \in Scan(loaded[w]) :
          \/ /\ r[1] # NoToken
             /\ Token(w, "password", r[1]) /\ Move(w, r[2])
             /\ Goto(w, "known")
             /\ UNCHANGED <<mainVars, queueVars, loaded, threadVars, line, freed, alive>>
          \/ r[1] = NoToken /\ Die

\* strtok(password, "."): there is no token in dots alone.
SplitKnown(w) ==
    LET password == data[w]["password"]
    IN  /\ alive /\ at[w] = "known"
        /\ \/ /\ password[2] # "rest"
              /\ Move(w, <<password[1], "rest">>)
              /\ Goto(w, "guess")
              /\ UNCHANGED <<mainVars, queueVars, loaded, data, threadVars, line, freed, alive>>
           \/ (password[2] = "rest" \/ Stale(password)) /\ Die

-----------------------------------------------------------------------------
\* password_guesser, and the end of an iteration.

Own(w) == \A k \in Tokens : data[w][k] = <<line[w], k>>

\* Without a hash the process exits; and so it may when no guess has that hash,
\* with incrementString at the end of its range, or the token's line is freed.
Guess(w) ==
    /\ alive /\ at[w] = "guess"
    /\ \/ /\ data[w]["hash"] # NoToken
          /\ Goto(w, "free")
          /\ UNCHANGED <<mainVars, queueVars, splitVars, threadVars, line, freed, alive>>
       \/ ~Own(w) /\ Die

Free(w) ==
    /\ alive /\ at[w] = "free"
    /\ freed' = [freed EXCEPT ![line[w]] = @ + 1]
    /\ Goto(w, "loop")
    /\ UNCHANGED <<mainVars, queueVars, splitVars, threadVars, line, alive>>

Main == ReadLine \/ ReadEnd \/ Create \/ Finish

Work(w) == \/ Unpack(w) \/ Lock(w) \/ Pull(w) \/ Leave(w)
           \/ SplitUser(w) \/ Load(w) \/ SplitHash(w) \/ SplitPassword(w) \/ SplitKnown(w)
           \/ Guess(w) \/ Free(w)

Next == Main \/ CreateFails \/ \E w \in Workers : Work(w)

Spec == Init /\ [][Next]_vars

\* Nothing more than that a thread which can go on does so in the end.
FairSpec == Spec /\ WF_vars(Main) /\ \A w \in Workers : WF_vars(Work(w))
-----------------------------------------------------------------------------
\* The lines are handed out once each and in order, with one "NULL" behind them
\* for all workers; a buffer is freed by the worker that had its line, or by main,
\* and all are in the end; only the last of MaxPasswords lines is freed twice,
\* since main takes it for the buffer of a failed read (cracker1.c:202-212, :248).
EachLineOnce ==
    /\ LET rest == IF main = "reading" THEN <<>> ELSE <<NULL>>
           lines == IF main = "reading" THEN total ELSE total - 1
       IN  pulled \o password_queue = [l \in 1..lines |-> l] \o rest
    /\ \A l \in DOMAIN freed :
          freed[l] > 1 => l = MaxPasswords /\ main = "done" /\ Len(pulled) = MaxPasswords
    /\ main = "done" => \A l \in 1..input : freed[l] > 0

\* Every thread has its own number, although all are given the address of one
\* structure that main goes on writing to (cracker1.c:158-161, :225-233).
OwnIds == \A w \in Workers : at[w] \notin {"none", "unpack"} => thread_id[w] = w

\* A worker guesses its own user's password by its own hash unless another one
\* has come between its calls of strtok, and only what comes of that, or a thread
\* that cannot be created, ends the process before its time (cracker1.c:176-183).
SplitAlone ==
    /\ \A w \in Workers \ overlapped : at[w] \in {"guess", "free"} => Own(w)
    /\ ~alive => overlapped # {} \/ created < thread_count

\* The workers wait with mtx held for what the last of them has put back, and all
\* are rejoined, however many lines and workers there are (cracker1.c:164-171).
AllJoined == <>(main = "done" \/ ~alive)
=============================================================================
