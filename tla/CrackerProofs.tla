--------------------------- MODULE CrackerProofs ---------------------------
(***************************************************************************)
(* The proofs of Cracker's safety for any number of threads, lines and     *)
(* places: every line goes to one worker and is freed by it, the threads'  *)
(* numbers are their own, and only workers that come between each other's  *)
(* calls of strtok take pieces of each other's lines.                      *)
(***************************************************************************)
EXTENDS Cracker, SequenceTheorems, TLAPS

\* The places where a worker has a line.
Holding == {"user", "hash", "at hash", "password", "at password", "known", "guess", "free"}
Places == Holding \cup {"none", "unpack", "loop", "pull", "gone"}
Parts == {"user", "hash", "password", "rest", "end"}
Spots == Nat \X Parts

Types ==
    /\ main \in {"reading", "creating", "done"}
    /\ password_queue \in Seq(Nat) /\ pulled \in Seq(Nat)
    /\ stdin \in Nat /\ input \in Nat /\ created \in 0..thread_count
    /\ at \in [Workers -> Places]
    /\ thread_id \in [Workers -> Nat] /\ qai \in Nat
    /\ line \in [Workers -> Nat]
    /\ saved \in Spots /\ loaded \in [Workers -> Spots]
    /\ data \in [Workers -> [Tokens -> Spots]]
    /\ overlapped \in SUBSET Workers
    /\ assigning \in BOOLEAN /\ alive \in BOOLEAN
    /\ freed \in [1 .. MaxPasswords + 1 -> Nat]

\* qai has the number of the thread created last, and of all the threads only
\* that one may still have to read it.
Numbers ==
    /\ main = "reading" => created = 0
    /\ \A w \in Workers : at[w] = "none" <=> w > created
    /\ qai = created
    /\ \A w \in Workers : at[w] = "unpack" => assigning /\ w = created
    /\ OwnIds

\* The lines pulled and those in the queue count up from 1, and the "NULL" is
\* the last of the queue: who has seen it has seen all lines pulled.
Lines ==
    /\ \A i \in 1..Len(pulled) : pulled[i] = i
    /\ \A i \in 1..Len(password_queue) :
          password_queue[i] = IF main # "reading" /\ i = Len(password_queue) THEN NULL
                              ELSE Len(pulled) + i
    /\ main = "reading" => pulled = <<>> /\ total <= MaxPasswords
    /\ main # "reading" =>
          /\ Len(password_queue) >= 1 /\ total <= MaxPasswords + 1
          /\ input = IF total <= MaxPasswords THEN total ELSE MaxPasswords
    /\ \A w \in Workers : at[w] = "gone" => main # "reading" /\ Len(password_queue) = 1
    /\ main = "done" => \A w \in Workers : at[w] = "gone"

\* A line that has been pulled has one worker, who has not freed it, or has been
\* freed, and until main frees its buffer no line has been freed twice.
Buffers ==
    /\ \A w \in Workers : at[w] \in Holding =>
          line[w] \in 1..Len(pulled) /\ line[w] <= MaxPasswords /\ freed[line[w]] = 0
    /\ \A v, w \in Workers :
          at[v] \in Holding /\ at[w] \in Holding /\ line[v] = line[w] => v = w
    /\ \A l \in 1 .. MaxPasswords + 1 : l <= Len(pulled) =>
          freed[l] > 0 \/ \E w \in Workers : at[w] \in Holding /\ line[w] = l
    /\ \A l \in 1 .. MaxPasswords + 1 :
          freed[l] > 0 /\ main # "done" => l <= Len(pulled) /\ freed[l] = 1
    /\ \A l \in 1 .. MaxPasswords + 1 :
          freed[l] > 1 => l = MaxPasswords /\ main = "done" /\ Len(pulled) = MaxPasswords
    /\ main = "done" => \A l \in 1..input : freed[l] > 0

\* Between two of its calls strtok's place is still where a worker has left it
\* if nobody has come between them, and what it has read is its own.
Split(w) ==
    /\ at[w] \in Holding \ {"user"} => data[w]["user"] = <<line[w], "user">>
    /\ at[w] = "hash" => saved = <<line[w], "hash">>
    /\ at[w] = "at hash" => loaded[w] = <<line[w], "hash">>
    /\ at[w] \in {"password", "at password"} => data[w]["hash"] = <<line[w], "hash">>
    /\ at[w] = "password" => saved = <<line[w], "password">>
    /\ at[w] = "at password" => loaded[w] = <<line[w], "password">>
    /\ at[w] \in {"known", "guess", "free"} => Own(w)

Splits ==
    /\ \A w \in Workers \ overlapped : Split(w)
    /\ ~alive => overlapped # {} \/ created < thread_count

-----------------------------------------------------------------------------
\* What strtok returns is a spot, and so is the place it leaves.
LEMMA ScanType == ASSUME NEW p \in Spots, NEW r \in Scan(p)
                  PROVE  r[1] \in Spots /\ r[2] \in Spots
  BY DEF Scan, Spots, Parts, Behind, NoToken, NULL

\* The places of the code are Places.
LEMMA PlaceTypes ==
  /\ {"none", "unpack", "loop", "pull", "gone"} \subseteq Places
  /\ {"user", "hash", "at hash", "password", "at password", "known", "guess", "free"}
        \subseteq Places
  BY DEF Places, Holding

\* What a worker notes of a token is a spot.
LEMMA TokenType ==
  ASSUME Types, NEW w \in Workers, NEW k \in Tokens, NEW t \in Spots, Token(w, k, t)
  PROVE  data' \in [Workers -> [Tokens -> Spots]]
<1>1. [data[w] EXCEPT ![k] = t] \in [Tokens -> Spots]
  BY DEF Types
<1> QED BY <1>1 DEF Types, Token

\* A free is counted at its buffer.
LEMMA FreedType ==
  ASSUME Types, NEW l \in Nat, freed' = [freed EXCEPT ![l] = @ + 1]
  PROVE  freed' \in [1 .. MaxPasswords + 1 -> Nat]
<1> USE CrackerAssumption
<1>1. freed' = [x \in 1 .. MaxPasswords + 1 |-> IF x = l THEN freed[x] + 1 ELSE freed[x]]
  BY DEF Types
<1>2. \A x \in 1 .. MaxPasswords + 1 : freed[x] \in Nat /\ freed[x] + 1 \in Nat
  BY DEF Types
<1>3. \A x \in 1 .. MaxPasswords + 1 : (IF x = l THEN freed[x] + 1 ELSE freed[x]) \in Nat
  BY <1>2
<1> QED BY <1>1, <1>3

\* Moving the place concerns workers.
LEMMA MoveType ==
  ASSUME Types, NEW w \in Workers, NEW p \in Spots, Move(w, p)
  PROVE  saved' \in Spots /\ overlapped' \in SUBSET Workers
  BY DEF Types, Move, Between

\* A step keeps the types.
LEMMA TypesStep == ASSUME Types, [Next]_vars PROVE Types'
<1> USE CrackerAssumption
<1>1. CASE UNCHANGED vars
  BY <1>1 DEF vars, mainVars, queueVars, splitVars, threadVars, Types
<1>2. CASE ReadLine
  <2>1. total + 1 \in Nat
    BY DEF Types, total
  <2>2. password_queue' \in Seq(Nat) /\ input' \in Nat /\ stdin' \in Nat
    BY <1>2, <2>1 DEF Types, ReadLine
  <2> QED BY <1>2, <2>1, <2>2 DEF Types, ReadLine, splitVars, threadVars
<1>3. CASE ReadEnd
  <2>1. input' \in Nat
    BY <1>3 DEF Types, ReadEnd, total
  <2>2. password_queue' \in Seq(Nat)
    BY <1>3 DEF Types, ReadEnd, NULL
  <2> QED BY <1>3, <2>1, <2>2 DEF Types, ReadEnd, splitVars, threadVars
<1>4. CASE Create
  <2>1. created' \in 0..thread_count /\ qai' \in Nat
    BY <1>4 DEF Types, Create
  <2>2. at' \in [Workers -> Places]
    BY <1>4, PlaceTypes DEF Types, Create, Goto
  <2> QED BY <1>4, <2>1, <2>2 DEF Types, Create, queueVars, splitVars
<1>5. CASE CreateFails
  BY <1>5 DEF Types, CreateFails, Die, mainVars, queueVars, splitVars, threadVars
<1>6. CASE Finish
  <2>1. freed' \in [1 .. MaxPasswords + 1 -> Nat]
    BY <1>6, FreedType DEF Types, Finish
  <2> QED BY <1>6, <2>1 DEF Types, Finish, queueVars, splitVars, threadVars
<1>7. ASSUME NEW w \in Workers, Work(w) PROVE Types'
  <2>1. CASE Unpack(w)
    <3>1. thread_id' \in [Workers -> Nat]
      BY <2>1 DEF Types, Unpack
    <3>2. at' \in [Workers -> Places]
      BY <2>1, PlaceTypes DEF Types, Unpack, Goto
    <3> QED BY <2>1, <3>1, <3>2 DEF Types, Unpack, mainVars, queueVars, splitVars, threadVars
  <2>2. CASE Lock(w)
    <3>1. at' \in [Workers -> Places]
      BY <2>2, PlaceTypes DEF Types, Lock, Goto
    <3> QED BY <2>2, <3>1 DEF Types, Lock, mainVars, queueVars, splitVars, threadVars
  <2>3. CASE Pull(w)
    <3>1. /\ Head(password_queue) \in Nat
          /\ Tail(password_queue) \in Seq(Nat)
      BY <2>3 DEF Types, Pull
    <3>2. password_queue' \in Seq(Nat) /\ pulled' \in Seq(Nat)
      BY <2>3, <3>1 DEF Types, Pull
    <3>3. line' \in [Workers -> Nat]
      BY <2>3, <3>1 DEF Types, Pull
    <3>4. at' \in [Workers -> Places]
      BY <2>3, PlaceTypes DEF Types, Pull, Goto
    <3> QED BY <2>3, <3>1, <3>2, <3>3, <3>4 DEF Types, Pull, mainVars, splitVars, threadVars
  <2>4. CASE Leave(w)
    <3>1. Tail(password_queue) \in Seq(Nat)
      BY <2>4 DEF Types, Leave
    <3>2. password_queue' \in Seq(Nat)
      BY <2>4, <3>1 DEF Leave, NULL
    <3>3. at' \in [Workers -> Places]
      BY <2>4, PlaceTypes DEF Types, Leave, Goto
    <3> QED BY <2>4, <3>1, <3>2, <3>3 DEF Types, Leave, mainVars, splitVars, threadVars
  <2>5. CASE SplitUser(w)
    <3>1. <<line[w], "user">> \in Spots /\ <<line[w], "hash">> \in Spots
      BY DEF Types, Spots, Parts
    <3>2. data' \in [Workers -> [Tokens -> Spots]]
      BY <2>5, <3>1, TokenType DEF SplitUser, Tokens
    <3>3. saved' \in Spots /\ overlapped' \in SUBSET Workers
      BY <2>5, <3>1, MoveType DEF SplitUser
    <3>4. at' \in [Workers -> Places]
      BY <2>5, PlaceTypes DEF Types, SplitUser, Goto
    <3> QED BY <2>5, <3>1, <3>2, <3>3, <3>4
               DEF Types, SplitUser, mainVars, queueVars, threadVars
  <2>6. CASE Load(w)
    <3>1. loaded' \in [Workers -> Spots]
      BY <2>6 DEF Types, Load
    <3>2. at' \in [Workers -> Places]
      BY <2>6, PlaceTypes DEF Types, Load, Goto
    <3> QED BY <2>6, <3>1, <3>2 DEF Types, Load, mainVars, queueVars, threadVars
  <2>7. CASE SplitHash(w)
    <3>1. PICK r \in Scan(loaded[w]) : Token(w, "hash", r[1]) /\ Move(w, r[2])
      BY <2>7 DEF SplitHash
    <3>2. r[1] \in Spots /\ r[2] \in Spots
      BY ScanType DEF Types
    <3>3. data' \in [Workers -> [Tokens -> Spots]]
      BY <3>1, <3>2, TokenType DEF Tokens
    <3>4. saved' \in Spots /\ overlapped' \in SUBSET Workers
      BY <3>1, <3>2, MoveType
    <3>5. at' \in [Workers -> Places]
      BY <2>7, PlaceTypes DEF Types, SplitHash, Goto
    <3> QED BY <2>7, <3>1, <3>2, <3>3, <3>4, <3>5
               DEF Types, SplitHash, mainVars, queueVars, threadVars
  <2>8. CASE SplitPassword(w)
    <3>1. ASSUME Die PROVE Types'
      BY <3>1 DEF Types, Die, mainVars, queueVars, splitVars, threadVars
    <3>2. ASSUME ~Die PROVE Types'
      <4>1. PICK r \in Scan(loaded[w]) : Token(w, "password", r[1]) /\ Move(w, r[2])
        BY <3>2, <2>8 DEF SplitPassword
      <4>2. r[1] \in Spots /\ r[2] \in Spots
        BY ScanType DEF Types
      <4>3. data' \in [Workers -> [Tokens -> Spots]]
        BY <4>1, <4>2, TokenType DEF Tokens
      <4>4. saved' \in Spots /\ overlapped' \in SUBSET Workers
        BY <4>1, <4>2, MoveType
      <4>5. at' \in [Workers -> Places]
        BY <3>2, <2>8, PlaceTypes DEF Types, SplitPassword, Goto
      <4> QED BY <3>2, <2>8, <4>3, <4>4, <4>5
                 DEF Types, SplitPassword, mainVars, queueVars, threadVars
    <3> QED BY <3>1, <3>2
  <2>9. CASE SplitKnown(w)
    <3>1. ASSUME Die PROVE Types'
      BY <3>1 DEF Types, Die, mainVars, queueVars, splitVars, threadVars
    <3>2. ASSUME ~Die PROVE Types'
      <4>1. Move(w, <<data[w]["password"][1], "rest">>)
        BY <3>2, <2>9 DEF SplitKnown
      <4>2. <<data[w]["password"][1], "rest">> \in Spots
        BY DEF Types, Spots, Parts, Tokens
      <4>3. saved' \in Spots /\ overlapped' \in SUBSET Workers
        BY <4>1, <4>2, MoveType
      <4>4. at' \in [Workers -> Places]
        BY <3>2, <2>9, PlaceTypes DEF Types, SplitKnown, Goto
      <4> QED BY <3>2, <2>9, <4>3, <4>4 DEF Types, SplitKnown, mainVars, queueVars, threadVars
    <3> QED BY <3>1, <3>2
  <2>10. CASE Guess(w)
    <3>1. at' \in [Workers -> Places]
      BY <2>10, PlaceTypes DEF Types, Guess, Die, Goto
    <3> QED BY <2>10, <3>1 DEF Types, Guess, Die, mainVars, queueVars, splitVars, threadVars
  <2>11. CASE Free(w)
    <3>1. freed' \in [1 .. MaxPasswords + 1 -> Nat]
      BY <2>11, FreedType DEF Types, Free
    <3>2. at' \in [Workers -> Places]
      BY <2>11, PlaceTypes DEF Types, Free, Goto
    <3> QED BY <2>11, <3>1, <3>2 DEF Types, Free, mainVars, queueVars, splitVars, threadVars
  <2> QED BY <1>7, <2>1, <2>2, <2>3, <2>4, <2>5, <2>6, <2>7, <2>8, <2>9, <2>10, <2>11 DEF Work
<1> QED BY <1>1, <1>2, <1>3, <1>4, <1>5, <1>6, <1>7 DEF Next, Main

\* A step that numbers nobody keeps the numbers.
LEMMA NumbersKept ==
  ASSUME Types, Numbers, UNCHANGED <<created, qai, assigning, thread_id>>,
         main' = "reading" => main = "reading",
         \A v \in Workers : at'[v] # at[v] => {at[v], at'[v]} \cap {"none", "unpack"} = {}
  PROVE  Numbers'
<1>1. /\ main' = "reading" => created' = 0
      /\ qai' = created'
  BY DEF Numbers
<1>2. \A v \in Workers : at'[v] = "none" <=> v > created'
  BY DEF Numbers
<1>3. \A v \in Workers : at'[v] = "unpack" => assigning' /\ v = created'
  BY DEF Numbers
<1>4. OwnIds'
  BY DEF Numbers, OwnIds
<1> QED BY <1>1, <1>2, <1>3, <1>4 DEF Numbers

\* A thread reads its number before main writes the next one.
LEMMA NumbersStep == ASSUME Types, Numbers, [Next]_vars PROVE Numbers'
<1> USE CrackerAssumption
<1>1. CASE UNCHANGED vars
  BY <1>1, NumbersKept DEF vars, mainVars, queueVars, splitVars, threadVars
<1>2. CASE ReadLine
  BY <1>2, NumbersKept DEF ReadLine, Types, mainVars, queueVars, splitVars, threadVars
<1>3. CASE ReadEnd
  BY <1>3, NumbersKept DEF ReadEnd, Types, mainVars, queueVars, splitVars, threadVars
<1>4. CASE Create
  <2>1. /\ created' = created + 1 /\ qai' = created + 1 /\ assigning' = TRUE
        /\ at' = [at EXCEPT ![created + 1] = "unpack"] /\ main = "creating"
        /\ UNCHANGED <<main, thread_id>> /\ ~assigning
    BY <1>4 DEF Create, Goto
  <2>2. created + 1 \in Workers /\ at[created + 1] = "none"
    BY <1>4 DEF Create, Types, Numbers, Workers
  <2>3. \A v \in Workers : at'[v] = IF v = created + 1 THEN "unpack" ELSE at[v]
    BY <2>1 DEF Types
  <2>4. \A v \in Workers : at'[v] = "none" <=> v > created'
    BY <2>1, <2>3 DEF Types, Numbers, Workers
  <2>5. \A v \in Workers : at'[v] = "unpack" => assigning' /\ v = created'
    BY <2>1, <2>3 DEF Numbers
  <2>6. OwnIds'
    BY <2>1, <2>3 DEF Numbers, OwnIds
  <2> QED BY <2>1, <2>4, <2>5, <2>6 DEF Numbers
<1>5. CASE CreateFails
  BY <1>5, NumbersKept DEF CreateFails, Die, Types, mainVars, queueVars, splitVars, threadVars
<1>6. CASE Finish
  BY <1>6, NumbersKept DEF Finish, Types, mainVars, queueVars, splitVars, threadVars
<1>7. ASSUME NEW w \in Workers, Work(w) PROVE Numbers'
  <2>1. CASE Unpack(w)
    <3>1. /\ at[w] = "unpack" /\ at' = [at EXCEPT ![w] = "loop"]
          /\ thread_id' = [thread_id EXCEPT ![w] = qai] /\ assigning' = FALSE
          /\ UNCHANGED <<main, created, qai>>
      BY <2>1 DEF Unpack, Goto, mainVars
    <3>2. qai = w /\ \A v \in Workers : at[v] = "unpack" => v = w
      BY <3>1 DEF Numbers
    <3>3. \A v \in Workers : at'[v] = IF v = w THEN "loop" ELSE at[v]
      BY <3>1 DEF Types
    <3>4. \A v \in Workers : at'[v] = "none" <=> v > created'
      BY <3>1, <3>3 DEF Numbers
    <3>5. \A v \in Workers : at'[v] # "unpack"
      BY <3>2, <3>3
    <3>6. OwnIds'
      BY <3>1, <3>2, <3>3 DEF Types, Numbers, OwnIds
    <3> QED BY <3>1, <3>4, <3>5, <3>6 DEF Numbers
  <2>2. CASE Lock(w)
    BY <2>2, NumbersKept DEF Lock, Goto, Types, mainVars, queueVars, splitVars, threadVars
  <2>3. CASE Pull(w)
    BY <2>3, NumbersKept DEF Pull, Goto, Types, mainVars, queueVars, splitVars, threadVars
  <2>4. CASE Leave(w)
    BY <2>4, NumbersKept DEF Leave, Goto, Types, mainVars, queueVars, splitVars, threadVars
  <2>5. CASE SplitUser(w)
    BY <2>5, NumbersKept
       DEF SplitUser, Token, Move, Goto, Types, mainVars, queueVars, splitVars, threadVars
  <2>6. CASE Load(w)
    BY <2>6, NumbersKept DEF Load, Goto, Types, mainVars, queueVars, splitVars, threadVars
  <2>7. CASE SplitHash(w)
    BY <2>7, NumbersKept
       DEF SplitHash, Token, Move, Goto, Types, mainVars, queueVars, splitVars, threadVars
  <2>8. CASE SplitPassword(w)
    BY <2>8, NumbersKept
       DEF SplitPassword, Token, Move, Die, Goto, Types, mainVars, queueVars, splitVars, threadVars
  <2>9. CASE SplitKnown(w)
    BY <2>9, NumbersKept
       DEF SplitKnown, Die, Move, Goto, Types, mainVars, queueVars, splitVars, threadVars
  <2>10. CASE Guess(w)
    BY <2>10, NumbersKept
       DEF Guess, Die, Goto, Types, mainVars, queueVars, splitVars, threadVars
  <2>11. CASE Free(w)
    BY <2>11, NumbersKept DEF Free, Goto, Types, mainVars, queueVars, splitVars, threadVars
  <2> QED BY <1>7, <2>1, <2>2, <2>3, <2>4, <2>5, <2>6, <2>7, <2>8, <2>9, <2>10, <2>11 DEF Work
<1> QED BY <1>1, <1>2, <1>3, <1>4, <1>5, <1>6, <1>7 DEF Next, Main

\* A step that leaves the queue and the departures alone keeps the lines.
LEMMA LinesKept ==
  ASSUME Lines, UNCHANGED <<main, input, password_queue, pulled>>,
         \A v \in Workers : at'[v] = "gone" <=> at[v] = "gone"
  PROVE  Lines'
  BY DEF Lines, total

\* While main reads nobody works, and a worker that works has been created.
LEMMA NobodyWorks ==
  ASSUME Types, Numbers, NEW w \in Workers, at[w] # "none"
  PROVE  main # "reading"
  BY DEF Types, Numbers, Workers

\* The head of the queue that is not the "NULL" is the line behind those pulled.
LEMMA HeadIsNext ==
  ASSUME Types, Numbers, Lines, NEW w \in Workers, at[w] = "pull",
         password_queue # <<>>, Head(password_queue) # NULL
  PROVE  Len(password_queue) >= 2 /\ Head(password_queue) = Len(pulled) + 1
<1>1. main # "reading"
  BY NobodyWorks
<1>2. password_queue \in Seq(Nat) /\ pulled \in Seq(Nat)
  BY DEF Types
<1>3. Len(password_queue) \in Nat /\ Len(pulled) \in Nat
  BY <1>2
<1>4. \A i \in 1..Len(password_queue) :
         password_queue[i] = IF i = Len(password_queue) THEN NULL ELSE Len(pulled) + i
  BY <1>1 DEF Lines
<1>5. Head(password_queue) = password_queue[1] /\ Len(password_queue) >= 1
  BY <1>2
<1>6. Len(password_queue) >= 2
  <2> DEFINE n == Len(password_queue)
  <2>1. n \in Nat /\ n >= 1
    BY <1>3, <1>5
  <2> HIDE DEF n
  <2>2. n = 1 \/ n >= 2
    BY <2>1
  <2>3. ASSUME n = 1 PROVE FALSE
    <3>1. password_queue[1] = NULL
      BY <1>4, <2>3 DEF n
    <3> QED BY <1>5, <3>1
  <2> QED BY <2>2, <2>3 DEF n
<1>7. password_queue[1] = Len(pulled) + 1
  BY <1>3, <1>4, <1>6
<1> QED BY <1>5, <1>6, <1>7

\* The queue hands out what was read, in order, and keeps the "NULL" at its end.
LEMMA LinesStep == ASSUME Types, Numbers, Lines, [Next]_vars PROVE Lines'
<1> USE CrackerAssumption
<1>1. CASE UNCHANGED vars
  BY <1>1, LinesKept DEF vars, mainVars, queueVars, splitVars, threadVars
<1>2. CASE ReadLine
  <2>1. /\ main = "reading" /\ main' = main /\ pulled = <<>> /\ pulled' = <<>>
        /\ password_queue' = Append(password_queue, total + 1) /\ at' = at
        /\ total = Len(password_queue) /\ total < MaxPasswords /\ total \in Nat
    BY <1>2 DEF ReadLine, Types, Lines, total
  <2>2. /\ Len(password_queue') = total + 1
        /\ \A i \in 1..total : password_queue'[i] = password_queue[i]
        /\ password_queue'[total + 1] = total + 1
    BY <2>1 DEF Types
  <2>3. \A i \in 1..Len(password_queue') : password_queue'[i] = Len(pulled') + i
    BY <2>1, <2>2 DEF Lines
  <2>4. total' <= MaxPasswords
    BY <2>1, <2>2 DEF total
  <2> QED BY <2>1, <2>3, <2>4 DEF Lines
<1>3. CASE ReadEnd
  <2>1. /\ main = "reading" /\ main' = "creating" /\ pulled = <<>> /\ pulled' = <<>>
        /\ password_queue' = Append(password_queue, NULL) /\ at' = at
        /\ total = Len(password_queue) /\ total <= MaxPasswords /\ total \in Nat
    BY <1>3 DEF ReadEnd, Types, Lines, total
  <2>2. /\ Len(password_queue') = total + 1
        /\ \A i \in 1..total : password_queue'[i] = password_queue[i]
        /\ password_queue'[total + 1] = NULL
    BY <2>1 DEF Types, NULL
  <2>3. \A i \in 1..Len(password_queue') :
           password_queue'[i] = IF i = Len(password_queue') THEN NULL ELSE Len(pulled') + i
    BY <2>1, <2>2 DEF Lines
  <2>4. total' = total + 1 /\ input' = IF total' <= MaxPasswords THEN total' ELSE MaxPasswords
    <3>1. total' = total + 1
      BY <2>1, <2>2 DEF total
    <3>2. input' = IF total < MaxPasswords THEN total + 1 ELSE total
      BY <1>3 DEF ReadEnd
    <3> QED BY <2>1, <3>1, <3>2
  <2>5. \A v \in Workers : at'[v] # "gone"
    BY <2>1 DEF Lines
  <2> QED BY <2>1, <2>2, <2>3, <2>4, <2>5 DEF Lines
<1>4. CASE Create
  <2>1. created + 1 \in Workers /\ at[created + 1] = "none"
    BY <1>4 DEF Create, Types, Numbers, Workers
  <2> QED BY <1>4, <2>1, LinesKept DEF Create, Goto, Types, queueVars
<1>5. CASE CreateFails
  BY <1>5, LinesKept DEF CreateFails, Die, Types, mainVars, queueVars, splitVars, threadVars
<1>6. CASE Finish
  <2>1. /\ main = "creating" /\ main' = "done" /\ UNCHANGED <<input, password_queue, pulled, at>>
        /\ \A w \in Workers : at[w] = "gone"
    BY <1>6 DEF Finish, queueVars
  <2>2. total' = total
    BY <2>1 DEF total
  <2> QED BY <2>1, <2>2 DEF Lines
<1>7. ASSUME NEW w \in Workers, Work(w) PROVE Lines'
  <2>1. CASE Unpack(w)
    BY <2>1, LinesKept DEF Unpack, Goto, Types, mainVars, queueVars, splitVars, threadVars
  <2>2. CASE Lock(w)
    BY <2>2, LinesKept DEF Lock, Goto, Types, mainVars, queueVars, splitVars, threadVars
  <2>3. CASE Pull(w)
    <3>1. /\ at[w] = "pull" /\ password_queue # <<>> /\ Head(password_queue) # NULL
          /\ password_queue' = Tail(password_queue)
          /\ pulled' = Append(pulled, Head(password_queue))
          /\ UNCHANGED <<main, input>> /\ at' = [at EXCEPT ![w] = "user"]
      BY <2>3 DEF Pull, Goto, mainVars
    <3>2. main # "reading"
      BY <3>1, NobodyWorks
    <3>3. /\ password_queue \in Seq(Nat) /\ pulled \in Seq(Nat)
          /\ Len(password_queue) \in Nat /\ Len(pulled) \in Nat
      BY DEF Types
    <3>4. \A i \in 1..Len(password_queue) :
             password_queue[i] = IF i = Len(password_queue) THEN NULL ELSE Len(pulled) + i
      BY <3>2 DEF Lines
    <3>5. Len(password_queue) >= 2 /\ Head(password_queue) = Len(pulled) + 1
      BY <3>1, HeadIsNext
    <3>6. /\ Len(password_queue') = Len(password_queue) - 1
          /\ \A i \in 1..Len(password_queue') : password_queue'[i] = password_queue[i + 1]
          /\ Len(pulled') = Len(pulled) + 1 /\ pulled'[Len(pulled) + 1] = Len(pulled) + 1
          /\ \A i \in 1..Len(pulled) : pulled'[i] = pulled[i]
      BY <3>1, <3>3, <3>5
    <3>7. \A i \in 1..Len(pulled') : pulled'[i] = i
      <4>1. \A i \in 1..Len(pulled) : pulled[i] = i
        BY DEF Lines
      <4>2. Len(pulled) \in Nat
        BY <3>3
      <4> QED BY <3>6, <4>1, <4>2
    <3>8. \A i \in 1..Len(password_queue') :
             password_queue'[i] = IF i = Len(password_queue') THEN NULL ELSE Len(pulled') + i
      BY <3>3, <3>4, <3>5, <3>6
    <3>9. total' = total
      BY <3>3, <3>6 DEF total
    <3>10. \A v \in Workers : at'[v] # "gone"
      <4>1. \A v \in Workers : at[v] # "gone"
        <5>1. \A v \in Workers : at[v] = "gone" => Len(password_queue) = 1
          BY DEF Lines
        <5>2. SUFFICES ASSUME NEW v \in Workers, at[v] = "gone" PROVE FALSE
          OBVIOUS
        <5>3. Len(password_queue) = 1
          BY <5>1, <5>2, Zenon
        <5> QED BY <3>3, <3>5, <5>3
      <4>2. \A v \in Workers : at'[v] = IF v = w THEN "user" ELSE at[v]
        BY <3>1 DEF Types
      <4> QED BY <4>1, <4>2
    <3>11. main # "done"
      BY <3>1 DEF Lines
    <3>12. Len(password_queue') >= 1
      BY <3>3, <3>5, <3>6
    <3> QED BY <3>1, <3>2, <3>7, <3>8, <3>9, <3>10, <3>11, <3>12 DEF Lines
  <2>4. CASE Leave(w)
    <3>1. /\ at[w] = "pull" /\ password_queue # <<>> /\ Head(password_queue) = NULL
          /\ password_queue' = Append(Tail(password_queue), NULL)
          /\ UNCHANGED <<main, input, pulled>> /\ at' = [at EXCEPT ![w] = "gone"]
      BY <2>4 DEF Leave, Goto, mainVars
    <3>2. main # "reading"
      BY <3>1, NobodyWorks
    <3>0. password_queue \in Seq(Nat)
      BY DEF Types
    <3>3. /\ Len(password_queue) \in Nat /\ Len(password_queue) >= 1 /\ password_queue[1] = NULL
          /\ Len(pulled) \in Nat
      BY <3>0, <3>1 DEF Types
    <3>4. Len(password_queue) = 1
      <4>1. password_queue[1] = IF 1 = Len(password_queue) THEN NULL ELSE Len(pulled) + 1
        <5>1. \A i \in 1..Len(password_queue) :
                 password_queue[i] = IF i = Len(password_queue) THEN NULL ELSE Len(pulled) + i
          BY <3>2 DEF Lines
        <5> QED BY <3>3, <5>1
      <4> QED BY <3>3, <4>1 DEF NULL
    <3>5. password_queue' = password_queue
      <4>1. Tail(password_queue) \in Seq(Nat) /\ Len(Tail(password_queue)) = 0
        BY <3>0, <3>1, <3>3, <3>4, HeadTailProperties
      <4>2. /\ password_queue' \in Seq(Nat) /\ Len(password_queue') = 1
            /\ password_queue'[1] = NULL
        <5>1. NULL \in Nat
          BY DEF NULL
        <5> DEFINE t == Tail(password_queue)
        <5>2. t \in Seq(Nat) /\ Len(t) = 0
          BY <4>1
        <5> HIDE DEF t
        <5>3. /\ Append(t, NULL) \in Seq(Nat) /\ Len(Append(t, NULL)) = Len(t) + 1
              /\ Append(t, NULL)[Len(t) + 1] = NULL
          BY <5>1, <5>2, AppendProperties
        <5>4. Len(t) + 1 = 1
          BY <5>2
        <5> QED BY <3>1, <5>3, <5>4 DEF t
      <4>3. \A i \in 1..Len(password_queue') : password_queue'[i] = password_queue[i]
        BY <3>3, <4>2
      <4> QED BY <3>0, <3>3, <3>4, <4>2, <4>3, SeqEqual
    <3>6. main # "done"
      BY <3>1 DEF Lines
    <3>7. \A v \in Workers : at'[v] = "gone" => main' # "reading" /\ Len(password_queue') = 1
      BY <3>1, <3>2, <3>4, <3>5
    <3>8. total' = total
      BY <3>1, <3>5 DEF total
    <3> QED BY <3>1, <3>2, <3>5, <3>6, <3>7, <3>8 DEF Lines
  <2>5. CASE SplitUser(w)
    BY <2>5, LinesKept
       DEF SplitUser, Token, Move, Goto, Types, mainVars, queueVars, splitVars, threadVars
  <2>6. CASE Load(w)
    BY <2>6, LinesKept DEF Load, Goto, Types, mainVars, queueVars, splitVars, threadVars
  <2>7. CASE SplitHash(w)
    BY <2>7, LinesKept
       DEF SplitHash, Token, Move, Goto, Types, mainVars, queueVars, splitVars, threadVars
  <2>8. CASE SplitPassword(w)
    BY <2>8, LinesKept
       DEF SplitPassword, Token, Move, Die, Goto, Types, mainVars, queueVars, splitVars, threadVars
  <2>9. CASE SplitKnown(w)
    BY <2>9, LinesKept
       DEF SplitKnown, Die, Move, Goto, Types, mainVars, queueVars, splitVars, threadVars
  <2>10. CASE Guess(w)
    BY <2>10, LinesKept DEF Guess, Die, Goto, Types, mainVars, queueVars, splitVars, threadVars
  <2>11. CASE Free(w)
    BY <2>11, LinesKept DEF Free, Goto, Types, mainVars, queueVars, splitVars, threadVars
  <2> QED BY <1>7, <2>1, <2>2, <2>3, <2>4, <2>5, <2>6, <2>7, <2>8, <2>9, <2>10, <2>11 DEF Work
<1> QED BY <1>1, <1>2, <1>3, <1>4, <1>5, <1>6, <1>7 DEF Next, Main

\* A step by which nobody gets or loses a line keeps the buffers.
LEMMA BuffersKept ==
  ASSUME Buffers, UNCHANGED <<line, pulled, freed>>,
         main' = "done" <=> main = "done", main = "done" => input' = input,
         \A v \in Workers : at'[v] \in Holding <=> at[v] \in Holding
  PROVE  Buffers'
  BY DEF Buffers

\* Who has a line is at work, and nobody is in the end.
LEMMA NotDone ==
  ASSUME Lines, NEW w \in Workers, at[w] # "gone"
  PROVE  main # "done"
  BY DEF Lines

\* Every line that has been pulled has one worker until it is freed, once.
LEMMA BuffersStep == ASSUME Types, Numbers, Lines, Buffers, [Next]_vars PROVE Buffers'
<1> USE CrackerAssumption
<1>1. CASE UNCHANGED vars
  BY <1>1, BuffersKept DEF vars, mainVars, queueVars, splitVars, threadVars
<1>2. CASE ReadLine
  BY <1>2, BuffersKept DEF ReadLine, Die, Types, mainVars, queueVars, splitVars, threadVars
<1>3. CASE ReadEnd
  BY <1>3, BuffersKept DEF ReadEnd, Die, Types, mainVars, queueVars, splitVars, threadVars
<1>4. CASE Create
  <2>1. created + 1 \in Workers /\ at[created + 1] = "none"
    BY <1>4 DEF Create, Types, Numbers, Workers
  <2> QED BY <1>4, <2>1, BuffersKept DEF Create, Goto, Types, Holding, queueVars
<1>5. CASE CreateFails
  BY <1>5, BuffersKept DEF CreateFails, Die, Types, mainVars, queueVars, splitVars, threadVars
<1>6. CASE Finish
  <2> DEFINE n == Len(pulled)
  <2>1. /\ main = "creating" /\ main' = "done" /\ UNCHANGED <<input, line, pulled, at>>
        /\ freed' = [freed EXCEPT ![input] = @ + 1]
        /\ \A v \in Workers : at[v] = "gone"
    BY <1>6 DEF Finish, queueVars
  <2>2. n \in Nat /\ freed \in [1 .. MaxPasswords + 1 -> Nat]
    BY DEF Types
  <2>3. total = n + 1
    <3>1. 1 \in Workers
      BY DEF Workers
    <3>2. Len(password_queue) = 1
      BY <2>1, <3>1 DEF Lines
    <3> QED BY <2>2, <3>2 DEF total
  <2>4. n <= MaxPasswords /\ input = IF n + 1 <= MaxPasswords THEN n + 1 ELSE MaxPasswords
    BY <2>1, <2>2, <2>3 DEF Lines
  <2>5. \A v \in Workers : at[v] \notin Holding /\ at'[v] \notin Holding
    BY <2>1 DEF Holding
  <2>6. \A l \in 1 .. MaxPasswords + 1 : freed[l] = IF l <= n THEN 1 ELSE 0
    <3>1. \A l \in 1 .. MaxPasswords + 1 : l <= n => freed[l] > 0
      BY <2>5 DEF Buffers
    <3>2. \A l \in 1 .. MaxPasswords + 1 : freed[l] > 0 => l <= n /\ freed[l] = 1
      BY <2>1 DEF Buffers
    <3> QED BY <2>2, <3>1, <3>2
  <2>7. \A l \in 1 .. MaxPasswords + 1 :
           freed'[l] = (IF l <= n THEN 1 ELSE 0) + (IF l = input THEN 1 ELSE 0)
    BY <2>1, <2>2, <2>6
  <2>8. input \in 1 .. MaxPasswords + 1 /\ input <= n + 1
    BY <2>2, <2>4
  <2>9. ASSUME NEW l \in 1 .. MaxPasswords + 1 PROVE freed'[l] > 1 => l = MaxPasswords /\ n = MaxPasswords
    <3>1. CASE l <= n /\ l = input
      BY <2>2, <2>4, <3>1
    <3>2. CASE ~ (l <= n /\ l = input)
      <4>1. freed'[l] = 0 \/ freed'[l] = 1
        BY <2>7, <3>2
      <4> QED BY <4>1
    <3> QED BY <3>1, <3>2
  <2>10. ASSUME NEW l \in 1 .. MaxPasswords + 1, l <= n \/ l = input PROVE freed'[l] > 0
    <3>1. freed'[l] = 1 \/ freed'[l] = 2
      BY <2>7, <2>10
    <3> QED BY <3>1
  <2>11. \A l \in 1..input : freed'[l] > 0
    <3>1. \A l \in 1..input : l \in 1 .. MaxPasswords + 1 /\ (l <= n \/ l = input)
      BY <2>2, <2>8
    <3> QED BY <2>10, <3>1
  <2> QED BY <2>1, <2>5, <2>9, <2>10, <2>11 DEF Buffers
<1>7. ASSUME NEW w \in Workers, Work(w) PROVE Buffers'
  <2>1. CASE Unpack(w)
    BY <2>1, BuffersKept
       DEF Unpack, Goto, Types, Holding, mainVars, queueVars, splitVars, threadVars
  <2>2. CASE Lock(w)
    BY <2>2, BuffersKept
       DEF Lock, Goto, Types, Holding, mainVars, queueVars, splitVars, threadVars
  <2>3. CASE Pull(w)
    <3> DEFINE n == Len(pulled)
    <3>1. /\ at[w] = "pull" /\ password_queue # <<>> /\ Head(password_queue) # NULL
          /\ line' = [line EXCEPT ![w] = Head(password_queue)]
          /\ pulled' = Append(pulled, Head(password_queue))
          /\ UNCHANGED <<main, input, freed>> /\ at' = [at EXCEPT ![w] = "user"]
      BY <2>3 DEF Pull, Goto, mainVars
    <3>2. Len(password_queue) >= 2 /\ Head(password_queue) = n + 1
      BY <3>1, HeadIsNext
    <3>3. main # "reading" /\ main # "done"
      BY <3>1, NobodyWorks, NotDone
    <3>4. n \in Nat /\ Len(password_queue) \in Nat /\ Len(pulled') = n + 1
      BY <3>1, <3>2 DEF Types
    <3>5. n + 1 <= MaxPasswords
      <4>1. total <= MaxPasswords + 1
        BY <3>3 DEF Lines
      <4> QED BY <3>2, <3>4, <4>1 DEF total
    <3> HIDE DEF n
    <3>6. \A v \in Workers : at'[v] \in Holding <=> v = w \/ at[v] \in Holding
      BY <3>1 DEF Types, Holding
    <3>7. at[w] \notin Holding
      BY <3>1 DEF Holding
    <3>8. \A v \in Workers : line'[v] = IF v = w THEN n + 1 ELSE line[v]
      BY <3>1, <3>2 DEF Types
    <3>9. \A v \in Workers : at[v] \in Holding =>
             line[v] \in 1..n /\ line[v] <= MaxPasswords /\ freed[line[v]] = 0
      BY DEF Buffers, n
    <3>10. freed[n + 1] = 0
      <4>1. n + 1 \in 1 .. MaxPasswords + 1 /\ ~ (n + 1 <= n)
        BY <3>4, <3>5
      <4>2. freed[n + 1] \in Nat /\ ~ (freed[n + 1] > 0)
        BY <3>3, <4>1 DEF Buffers, Types, n
      <4> QED BY <4>2
    <3>11. \A v \in Workers : at'[v] \in Holding =>
              line'[v] \in 1 .. (n + 1) /\ line'[v] <= MaxPasswords /\ freed[line'[v]] = 0
      <4>1. SUFFICES ASSUME NEW v \in Workers, at'[v] \in Holding
                     PROVE  line'[v] \in 1 .. (n + 1) /\ line'[v] <= MaxPasswords
                                                      /\ freed[line'[v]] = 0
        OBVIOUS
      <4>2. CASE v = w
        BY <3>4, <3>5, <3>8, <3>10, <4>2
      <4>3. CASE v # w
        BY <3>4, <3>6, <3>8, <3>9, <4>1, <4>3
      <4> QED BY <4>2, <4>3
    <3>12. \A u, v \in Workers :
              at'[u] \in Holding /\ at'[v] \in Holding /\ line'[u] = line'[v] => u = v
      <4>1. \A v \in Workers : at[v] \in Holding => line[v] # n + 1
        BY <3>4, <3>9
      <4>2. \A u, v \in Workers :
               at[u] \in Holding /\ at[v] \in Holding /\ line[u] = line[v] => u = v
        BY DEF Buffers
      <4> QED BY <3>6, <3>8, <4>1, <4>2
    <3>13. \A l \in 1 .. MaxPasswords + 1 : l <= n + 1 =>
              freed[l] > 0 \/ \E v \in Workers : at'[v] \in Holding /\ line'[v] = l
      <4>1. SUFFICES ASSUME NEW l \in 1 .. MaxPasswords + 1, l <= n + 1, ~ (freed[l] > 0)
                     PROVE  \E v \in Workers : at'[v] \in Holding /\ line'[v] = l
        OBVIOUS
      <4>2. CASE l = n + 1
        BY <3>6, <3>8, <4>2
      <4>3. CASE l # n + 1
        <5>1. l <= n
          BY <3>4, <4>1, <4>3
        <5>2. PICK v \in Workers : at[v] \in Holding /\ line[v] = l
          BY <4>1, <5>1 DEF Buffers, n
        <5> QED BY <3>6, <3>7, <3>8, <5>2
      <4> QED BY <4>2, <4>3
    <3>14. \A l \in 1 .. MaxPasswords + 1 : freed[l] > 0 => l <= n + 1 /\ freed[l] = 1
      <4>1. \A l \in 1 .. MaxPasswords + 1 : freed[l] > 0 => l <= n /\ freed[l] = 1
        BY <3>3 DEF Buffers, n
      <4> QED BY <3>4, <4>1
    <3>15. \A l \in 1 .. MaxPasswords + 1 : ~ (freed[l] > 1)
      BY <3>3 DEF Buffers
    <3> QED BY <3>1, <3>3, <3>4, <3>11, <3>12, <3>13, <3>14, <3>15 DEF Buffers
  <2>4. CASE Leave(w)
    BY <2>4, BuffersKept
       DEF Leave, Goto, Types, Holding, mainVars, queueVars, splitVars, threadVars
  <2>5. CASE SplitUser(w)
    BY <2>5, BuffersKept
       DEF SplitUser, Token, Move, Goto, Types, Holding, mainVars, queueVars, splitVars, threadVars
  <2>6. CASE Load(w)
    BY <2>6, BuffersKept
       DEF Load, Goto, Types, Holding, mainVars, queueVars, splitVars, threadVars
  <2>7. CASE SplitHash(w)
    BY <2>7, BuffersKept
       DEF SplitHash, Token, Move, Goto, Types, Holding, mainVars, queueVars, splitVars, threadVars
  <2>8. CASE SplitPassword(w)
    BY <2>8, BuffersKept
       DEF SplitPassword, Token, Move, Die, Goto, Types, Holding, mainVars, queueVars, splitVars, threadVars
  <2>9. CASE SplitKnown(w)
    BY <2>9, BuffersKept
       DEF SplitKnown, Die, Move, Goto, Types, Holding, mainVars, queueVars, splitVars, threadVars
  <2>10. CASE Guess(w)
    BY <2>10, BuffersKept
       DEF Guess, Die, Goto, Types, Holding, mainVars, queueVars, splitVars, threadVars
  <2>11. CASE Free(w)
    <3> DEFINE m == line[w]
    <3>1. /\ at[w] = "free" /\ at[w] \in Holding
          /\ freed' = [freed EXCEPT ![m] = @ + 1] /\ at' = [at EXCEPT ![w] = "loop"]
          /\ UNCHANGED <<main, input, pulled, line>>
      BY <2>11 DEF Free, Goto, mainVars, queueVars, Holding
    <3>2. main # "done"
      BY <3>1, NotDone
    <3>3. m \in 1..Len(pulled) /\ m <= MaxPasswords /\ freed[m] = 0 /\ Len(pulled) \in Nat
      BY <3>1 DEF Buffers, Types
    <3>4. m \in 1 .. MaxPasswords + 1 /\ m <= Len(pulled)
      BY <3>3
    <3>5. \A v \in Workers : at'[v] \in Holding <=> v # w /\ at[v] \in Holding
      BY <3>1 DEF Types, Holding
    <3>6. \A l \in 1 .. MaxPasswords + 1 : freed'[l] = IF l = m THEN 1 ELSE freed[l]
      BY <3>1, <3>3, <3>4 DEF Types
    <3>7. \A v \in Workers : at[v] \in Holding =>
             line[v] \in 1..Len(pulled) /\ line[v] <= MaxPasswords /\ freed[line[v]] = 0
      BY DEF Buffers
    <3>8. \A v \in Workers : at'[v] \in Holding => line[v] # m
      BY <3>1, <3>5 DEF Buffers
    <3>9. \A v \in Workers : at'[v] \in Holding =>
             line[v] \in 1..Len(pulled) /\ line[v] <= MaxPasswords /\ freed'[line[v]] = 0
      <4>1. \A v \in Workers : at[v] \in Holding => line[v] \in 1 .. MaxPasswords + 1
        BY <3>3, <3>7
      <4> QED BY <3>5, <3>6, <3>7, <3>8, <4>1
    <3>10. \A u, v \in Workers :
              at'[u] \in Holding /\ at'[v] \in Holding /\ line[u] = line[v] => u = v
      BY <3>5 DEF Buffers
    <3>11. \A l \in 1 .. MaxPasswords + 1 : l <= Len(pulled) =>
              freed'[l] > 0 \/ \E v \in Workers : at'[v] \in Holding /\ line[v] = l
      <4>1. SUFFICES ASSUME NEW l \in 1 .. MaxPasswords + 1, l <= Len(pulled), ~ (freed'[l] > 0)
                     PROVE  \E v \in Workers : at'[v] \in Holding /\ line[v] = l
        OBVIOUS
      <4>2. l # m /\ ~ (freed[l] > 0)
        BY <3>6, <4>1
      <4>3. PICK v \in Workers : at[v] \in Holding /\ line[v] = l
        BY <4>1, <4>2 DEF Buffers
      <4>4. v # w
        BY <4>2, <4>3
      <4> QED BY <3>5, <4>3, <4>4
    <3>12. \A l \in 1 .. MaxPasswords + 1 : freed'[l] > 0 => l <= Len(pulled) /\ freed'[l] = 1
      <4>1. \A l \in 1 .. MaxPasswords + 1 : freed[l] > 0 => l <= Len(pulled) /\ freed[l] = 1
        BY <3>2 DEF Buffers
      <4> QED BY <3>4, <3>6, <4>1
    <3>13. \A l \in 1 .. MaxPasswords + 1 : ~ (freed'[l] > 1)
      <4>1. \A l \in 1 .. MaxPasswords + 1 : freed'[l] = 0 \/ freed'[l] = 1
        <5>1. \A l \in 1 .. MaxPasswords + 1 : freed[l] \in Nat
          BY DEF Types
        <5>2. \A l \in 1 .. MaxPasswords + 1 : freed[l] > 0 => freed[l] = 1
          BY <3>2 DEF Buffers
        <5>3. \A l \in 1 .. MaxPasswords + 1 : freed[l] = 0 \/ freed[l] = 1
          BY <5>1, <5>2
        <5> QED BY <3>6, <5>3
      <4> QED BY <4>1
    <3> HIDE DEF m
    <3> QED BY <3>1, <3>2, <3>9, <3>10, <3>11, <3>12, <3>13 DEF Buffers
  <2> QED BY <1>7, <2>1, <2>2, <2>3, <2>4, <2>5, <2>6, <2>7, <2>8, <2>9, <2>10, <2>11 DEF Work
<1> QED BY <1>1, <1>2, <1>3, <1>4, <1>5, <1>6, <1>7 DEF Next, Main

\* What is so of a worker's splitting stays so while the worker rests, unless
\* somebody moves the place before it has gone on from it.
LEMMA SplitRests ==
  ASSUME NEW v \in Workers, Split(v), at'[v] = at[v], line'[v] = line[v],
         loaded'[v] = loaded[v], data'[v] = data[v],
         saved' = saved \/ at[v] \notin {"hash", "password"}
  PROVE  Split(v)'
  BY DEF Split, Own

\* There is nothing to say of a worker before its first call of strtok.
LEMMA SplitFresh ==
  ASSUME NEW v \in Workers, at'[v] \notin Holding \ {"user"}
  PROVE  Split(v)'
  BY DEF Split, Holding

\* A step that calls no strtok keeps the splittings.
LEMMA SplitsKept ==
  ASSUME Splits, UNCHANGED <<loaded, data, saved, overlapped, alive>>,
         alive \/ created' = created,
         \A v \in Workers : \/ at'[v] = at[v] /\ line'[v] = line[v]
                           \/ at'[v] \notin Holding \ {"user"}
  PROVE  Splits'
<1>1. ASSUME NEW v \in Workers \ overlapped PROVE Split(v)'
  <2>1. Split(v)
    BY DEF Splits
  <2> QED BY <2>1, SplitRests, SplitFresh
<1> QED BY <1>1 DEF Splits

\* A worker that moves the place comes between the others, who have all rested.
LEMMA OthersSplit ==
  ASSUME Types, Splits, NEW w \in Workers, NEW p, Move(w, p),
         UNCHANGED <<line, loaded>>,
         \A v \in Workers \ {w} : at'[v] = at[v] /\ data'[v] = data[v],
         NEW v \in Workers \ overlapped', v # w
  PROVE  Split(v)'
<1>1. v \notin overlapped /\ at[v] \notin {"hash", "password"}
  BY DEF Move, Between
<1>2. Split(v)
  BY <1>1 DEF Splits
<1> QED BY <1>1, <1>2, SplitRests

\* A spot of a buffer that is not freed, before its end, is the token found there.
LEMMA ScanOwn ==
  ASSUME NEW l \in Nat, freed[l] = 0, NEW k \in {"user", "hash", "password"},
         NEW r \in Scan(<<l, k>>)
  PROVE  r = <<<<l, k>>, <<l, Behind[k]>>>>
<1>1. ~ Stale(<<l, k>>)
  BY DEF Stale
<1> QED BY <1>1 DEF Scan

\* Noting a token leaves the other tokens and the other workers alone.
LEMMA TokenKept ==
  ASSUME Types, NEW w \in Workers, NEW k \in Tokens, NEW t, Token(w, k, t)
  PROVE  /\ data'[w][k] = t
         /\ \A j \in Tokens \ {k} : data'[w][j] = data[w][j]
         /\ \A v \in Workers \ {w} : data'[v] = data[v]
  BY DEF Types, Token

\* The process may end once a worker has been come between.
LEMMA DiesSplit ==
  ASSUME Splits, Die, NEW w \in overlapped
  PROVE  Splits'
<1>1. ~ alive' /\ UNCHANGED <<at, line, loaded, data, saved, overlapped>>
  BY DEF Die, splitVars
<1>2. ASSUME NEW v \in Workers \ overlapped PROVE Split(v)'
  BY <1>1, SplitRests DEF Splits
<1> QED BY <1>1, <1>2 DEF Splits

\* Who has been let alone goes on from its own place.
LEMMA SplitsStep == ASSUME Types, Buffers, Splits, [Next]_vars PROVE Splits'
<1> USE CrackerAssumption
<1>1. CASE UNCHANGED vars
  BY <1>1, SplitsKept DEF vars, mainVars, queueVars, splitVars, threadVars
<1>2. CASE ReadLine
  BY <1>2, SplitsKept DEF ReadLine, mainVars, queueVars, splitVars, threadVars
<1>3. CASE ReadEnd
  BY <1>3, SplitsKept DEF ReadEnd, mainVars, queueVars, splitVars, threadVars
<1>4. CASE Create
  <2>1. created + 1 \in Workers
    BY <1>4 DEF Create, Types, Workers
  <2>2. \A v \in Workers : at'[v] = IF v = created + 1 THEN "unpack" ELSE at[v]
    BY <1>4 DEF Create, Goto, Types
  <2> QED BY <1>4, <2>1, <2>2, SplitsKept DEF Create, Holding, splitVars
<1>5. CASE CreateFails
  <2>1. created < thread_count /\ created' = created /\ ~ alive'
        /\ UNCHANGED <<at, line, loaded, data, saved, overlapped>>
    BY <1>5 DEF CreateFails, Die, mainVars, splitVars
  <2>2. ASSUME NEW v \in Workers \ overlapped PROVE Split(v)'
    BY <2>1, SplitRests DEF Splits
  <2> QED BY <2>1, <2>2 DEF Splits
<1>6. CASE Finish
  BY <1>6, SplitsKept DEF Finish, mainVars, queueVars, splitVars, threadVars
<1>7. ASSUME NEW w \in Workers, Work(w) PROVE Splits'
  <2>1. CASE Unpack(w)
    BY <2>1, SplitsKept
       DEF Unpack, Goto, Types, Holding, mainVars, queueVars, splitVars, threadVars
  <2>2. CASE Lock(w)
    BY <2>2, SplitsKept
       DEF Lock, Goto, Types, Holding, mainVars, queueVars, splitVars, threadVars
  <2>3. CASE Pull(w)
    BY <2>3, SplitsKept
       DEF Pull, Goto, Types, Holding, mainVars, queueVars, splitVars, threadVars
  <2>4. CASE Leave(w)
    BY <2>4, SplitsKept
       DEF Leave, Goto, Types, Holding, mainVars, queueVars, splitVars, threadVars
  <2>5. CASE SplitUser(w)
    <3>1. /\ alive /\ alive' /\ at[w] = "user" /\ at' = [at EXCEPT ![w] = "hash"]
          /\ Token(w, "user", <<line[w], "user">>) /\ Move(w, <<line[w], "hash">>)
          /\ UNCHANGED <<line, loaded>>
      BY <2>5 DEF SplitUser, Goto
    <3>2. /\ at'[w] = "hash" /\ saved' = <<line[w], "hash">>
          /\ data'[w]["user"] = <<line[w], "user">>
      BY <3>1, TokenKept DEF Types, Move, Tokens
    <3>3. Split(w)'
      BY <3>1, <3>2 DEF Split
    <3>4. \A v \in Workers \ {w} : at'[v] = at[v] /\ data'[v] = data[v]
      BY <3>1, TokenKept DEF Types, Tokens
    <3> QED BY <3>1, <3>3, <3>4, OthersSplit DEF Splits
  <2>6. CASE Load(w)
    <3>1. /\ alive /\ alive' /\ loaded' = [loaded EXCEPT ![w] = saved]
          /\ at' = [at EXCEPT ![w] = IF at[w] = "hash" THEN "at hash" ELSE "at password"]
          /\ at[w] \in {"hash", "password"} /\ UNCHANGED <<line, data, saved, overlapped>>
      BY <2>6 DEF Load, Goto
    <3>2. ASSUME Split(w) PROVE Split(w)'
      <4>1. /\ loaded'[w] = saved
            /\ at'[w] = IF at[w] = "hash" THEN "at hash" ELSE "at password"
        BY <3>1 DEF Types
      <4>2. data[w]["user"] = <<line[w], "user">>
        BY <3>1, <3>2 DEF Split, Holding
      <4>3. CASE at[w] = "hash"
        <5>1. saved = <<line[w], "hash">> /\ at'[w] = "at hash"
          BY <3>2, <4>1, <4>3 DEF Split
        <5> QED BY <3>1, <4>1, <4>2, <5>1 DEF Split
      <4>4. CASE at[w] = "password"
        <5>1. /\ saved = <<line[w], "password">> /\ at'[w] = "at password"
              /\ data[w]["hash"] = <<line[w], "hash">>
          BY <3>2, <4>1, <4>4 DEF Split
        <5> QED BY <3>1, <4>1, <4>2, <5>1 DEF Split
      <4> QED BY <3>1, <4>3, <4>4
    <3>3. ASSUME NEW v \in Workers \ {w}, Split(v) PROVE Split(v)'
      BY <3>1, <3>3, SplitRests DEF Types
    <3> QED BY <3>1, <3>2, <3>3 DEF Splits
  <2>7. CASE SplitHash(w)
    <3>1. /\ alive /\ alive' /\ at[w] = "at hash" /\ at' = [at EXCEPT ![w] = "password"]
          /\ UNCHANGED <<line, loaded>>
      BY <2>7 DEF SplitHash, Goto
    <3>2. PICK r \in Scan(loaded[w]) : Token(w, "hash", r[1]) /\ Move(w, r[2])
      BY <2>7 DEF SplitHash
    <3>3. ASSUME w \notin overlapped' PROVE Split(w)'
      <4>1. Split(w)
        BY <3>1, <3>2, <3>3 DEF Splits, Move
      <4>2. line[w] \in Nat /\ freed[line[w]] = 0
        BY <3>1 DEF Types, Buffers, Holding
      <4>3. r = <<<<line[w], "hash">>, <<line[w], "password">>>>
        BY <3>1, <3>2, <4>1, <4>2, ScanOwn DEF Split, Behind
      <4>4. /\ data'[w]["hash"] = <<line[w], "hash">> /\ saved' = <<line[w], "password">>
            /\ data'[w]["user"] = data[w]["user"] /\ at'[w] = "password"
        BY <3>1, <3>2, <4>3, TokenKept DEF Types, Move, Tokens
      <4>5. data[w]["user"] = <<line[w], "user">>
        BY <3>1, <4>1 DEF Split, Holding
      <4> QED BY <3>1, <4>4, <4>5 DEF Split
    <3>4. \A v \in Workers \ {w} : at'[v] = at[v] /\ data'[v] = data[v]
      BY <3>1, <3>2, TokenKept DEF Types, Tokens
    <3> QED BY <3>1, <3>2, <3>3, <3>4, OthersSplit DEF Splits
  <2>8. CASE SplitPassword(w)
    <3>1. /\ alive /\ at[w] = "at password"
          /\ \E r \in Scan(loaded[w]) :
                \/ /\ Token(w, "password", r[1]) /\ Move(w, r[2])
                   /\ alive' /\ at' = [at EXCEPT ![w] = "known"]
                   /\ UNCHANGED <<line, loaded>>
                \/ r[1] = NoToken /\ Die
      BY <2>8 DEF SplitPassword, Goto
    <3>2. PICK r \in Scan(loaded[w]) :
             \/ /\ Token(w, "password", r[1]) /\ Move(w, r[2])
                /\ alive' /\ at' = [at EXCEPT ![w] = "known"]
                /\ UNCHANGED <<line, loaded>>
             \/ r[1] = NoToken /\ Die
      BY <3>1
    <3>3. ASSUME w \notin overlapped
          PROVE  /\ r = <<<<line[w], "password">>, <<line[w], "end">>>>
                 /\ line[w] # NULL
                 /\ data[w]["user"] = <<line[w], "user">>
                 /\ data[w]["hash"] = <<line[w], "hash">>
      <4>1. Split(w)
        BY <3>3 DEF Splits
      <4>2. line[w] \in Nat /\ freed[line[w]] = 0 /\ line[w] # NULL
        <5>1. line[w] \in 1..Len(pulled) /\ freed[line[w]] = 0
          BY <3>1 DEF Buffers, Holding
        <5>2. Len(pulled) \in Nat
          BY DEF Types
        <5> QED BY <5>1, <5>2 DEF NULL
      <4> QED BY <3>1, <4>1, <4>2, ScanOwn DEF Split, Behind, Holding
    <3>4. CASE r[1] = NoToken /\ Die
      <4>1. w \in overlapped
        BY <3>3, <3>4 DEF NoToken
      <4> QED BY <3>4, <4>1, DiesSplit
    <3>5. CASE /\ Token(w, "password", r[1]) /\ Move(w, r[2])
               /\ alive' /\ at' = [at EXCEPT ![w] = "known"]
               /\ UNCHANGED <<line, loaded>>
      <4>1. ASSUME w \notin overlapped' PROVE Split(w)'
        <5>1. w \notin overlapped
          BY <3>1, <3>5, <4>1 DEF Move
        <5>2. /\ data'[w]["password"] = <<line[w], "password">> /\ at'[w] = "known"
              /\ data'[w]["user"] = <<line[w], "user">>
              /\ data'[w]["hash"] = <<line[w], "hash">>
          BY <3>3, <3>5, <5>1, TokenKept DEF Types, Tokens
        <5>3. Own(w)'
          BY <3>5, <5>2 DEF Own, Tokens
        <5> QED BY <3>5, <5>2, <5>3 DEF Split
      <4>2. \A v \in Workers \ {w} : at'[v] = at[v] /\ data'[v] = data[v]
        BY <3>5, TokenKept DEF Types, Tokens
      <4> QED BY <3>5, <4>1, <4>2, OthersSplit DEF Splits
    <3> QED BY <3>2, <3>4, <3>5
  <2>9. CASE SplitKnown(w)
    <3> DEFINE password == data[w]["password"]
    <3>1. alive /\ at[w] = "known"
      BY <2>9 DEF SplitKnown
    <3>2. ASSUME w \notin overlapped
          PROVE  Own(w) /\ password[2] # "rest" /\ ~ Stale(password)
      <4>1. Own(w)
        BY <3>1, <3>2 DEF Splits, Split
      <4>2. password = <<line[w], "password">>
        BY <4>1 DEF Own, Tokens
      <4>3. freed[line[w]] = 0
        BY <3>1 DEF Buffers, Holding
      <4> QED BY <4>1, <4>2, <4>3 DEF Stale
    <3>3. CASE (password[2] = "rest" \/ Stale(password)) /\ Die
      <4>1. w \in overlapped
        BY <3>2, <3>3
      <4> QED BY <3>3, <4>1, DiesSplit
    <3>4. CASE /\ Move(w, <<password[1], "rest">>) /\ at' = [at EXCEPT ![w] = "guess"]
               /\ UNCHANGED <<line, loaded, data, alive>>
      <4>1. ASSUME w \notin overlapped' PROVE Split(w)'
        <5>1. Own(w) /\ at'[w] = "guess" /\ data[w]["user"] = <<line[w], "user">>
          BY <3>1, <3>2, <3>4, <4>1 DEF Move, Types, Own, Tokens
        <5>2. Own(w)'
          BY <3>4, <5>1 DEF Own
        <5> QED BY <3>4, <5>1, <5>2 DEF Split
      <4>2. \A v \in Workers \ {w} : at'[v] = at[v] /\ data'[v] = data[v]
        BY <3>4 DEF Types
      <4> QED BY <3>1, <3>4, <4>1, <4>2, OthersSplit DEF Splits
    <3> QED BY <2>9, <3>3, <3>4 DEF SplitKnown, Goto
  <2>10. CASE Guess(w)
    <3>1. alive /\ at[w] = "guess"
      BY <2>10 DEF Guess
    <3>2. ASSUME w \notin overlapped PROVE Own(w)
      BY <3>1, <3>2 DEF Splits, Split
    <3>3. CASE ~ Own(w) /\ Die
      BY <3>2, <3>3, DiesSplit
    <3>4. CASE /\ at' = [at EXCEPT ![w] = "free"]
               /\ UNCHANGED <<line, loaded, data, saved, overlapped, alive>>
      <4>1. ASSUME w \notin overlapped PROVE Split(w)'
        <5>1. Own(w) /\ at'[w] = "free" /\ data[w]["user"] = <<line[w], "user">>
          BY <3>2, <3>4, <4>1 DEF Types, Own, Tokens
        <5>2. Own(w)'
          BY <3>4, <5>1 DEF Own
        <5> QED BY <3>4, <5>1, <5>2 DEF Split
      <4>2. ASSUME NEW v \in Workers \ {w}, Split(v) PROVE Split(v)'
        BY <3>4, <4>2, SplitRests DEF Types
      <4> QED BY <3>1, <3>4, <4>1, <4>2 DEF Splits
    <3> QED BY <2>10, <3>3, <3>4 DEF Guess, Goto, splitVars
  <2>11. CASE Free(w)
    BY <2>11, SplitsKept
       DEF Free, Goto, Types, Holding, mainVars, queueVars, splitVars, threadVars
  <2> QED BY <1>7, <2>1, <2>2, <2>3, <2>4, <2>5, <2>6, <2>7, <2>8, <2>9, <2>10, <2>11 DEF Work
<1> QED BY <1>1, <1>2, <1>3, <1>4, <1>5, <1>6, <1>7 DEF Next, Main

-----------------------------------------------------------------------------
\* The strengthening of all three properties.
CrackerInv == Types /\ Numbers /\ Lines /\ Buffers /\ Splits

\* It holds in the beginning, and every step keeps it.
LEMMA CrackerInvariant == Spec => []CrackerInv
<1> USE CrackerAssumption
<1>1. ASSUME Init PROVE CrackerInv
  <2>1. Types
    <3>1. NoToken \in Spots /\ NULL \in Nat
      BY DEF NoToken, NULL, Spots, Parts
    <3>2. /\ data \in [Workers -> [Tokens -> Spots]] /\ loaded \in [Workers -> Spots]
          /\ saved \in Spots /\ line \in [Workers -> Nat] /\ input \in Nat
      BY <1>1, <3>1 DEF Init
    <3>3. /\ at \in [Workers -> Places] /\ thread_id \in [Workers -> Nat]
          /\ freed \in [1 .. MaxPasswords + 1 -> Nat]
      <4>1. "none" \in Places
        BY PlaceTypes
      <4> QED BY <1>1, <4>1 DEF Init
    <3>5. stdin \in Nat /\ created \in 0..thread_count /\ qai \in Nat
      BY <1>1 DEF Init
    <3>4. password_queue \in Seq(Nat) /\ pulled \in Seq(Nat)
      BY <1>1 DEF Init
    <3> QED BY <1>1, <3>2, <3>3, <3>4, <3>5 DEF Init, Types
  <2>2. Numbers
    BY <1>1 DEF Init, Numbers, OwnIds, Workers
  <2>3. Lines
    BY <1>1 DEF Init, Lines, total
  <2>4. Buffers
    BY <1>1 DEF Init, Buffers, Holding
  <2>5. Splits
    BY <1>1 DEF Init, Splits, Split, Holding
  <2> QED BY <2>1, <2>2, <2>3, <2>4, <2>5 DEF CrackerInv
<1>2. ASSUME CrackerInv, [Next]_vars PROVE CrackerInv'
  BY <1>2, TypesStep, NumbersStep, LinesStep, BuffersStep, SplitsStep DEF CrackerInv
<1> QED BY <1>1, <1>2, PTL DEF Spec

\* Every thread has its own number, for any number of threads (cracker1.c:158-161,
\* :225-233).
THEOREM NumbersAreOwn == Spec => []OwnIds
<1>1. CrackerInv => OwnIds
  BY DEF CrackerInv, Numbers
<1> QED BY <1>1, CrackerInvariant, PTL

\* For any numbers of threads and lines, only workers that come between each
\* other's calls of strtok mix their lines or end the process (cracker1.c:176-183).
THEOREM AloneSplitsRight == Spec => []SplitAlone
<1>1. ASSUME CrackerInv PROVE SplitAlone
  <2>1. ASSUME NEW w \in Workers \ overlapped, at[w] \in {"guess", "free"} PROVE Own(w)
    BY <1>1, <2>1 DEF CrackerInv, Splits, Split
  <2>2. ~ alive => overlapped # {} \/ created < thread_count
    BY <1>1 DEF CrackerInv, Splits
  <2> QED BY <2>1, <2>2 DEF SplitAlone
<1> QED BY <1>1, CrackerInvariant, PTL

\* For any numbers of threads, lines and places, every line is handed out once and
\* its buffer freed once, but for the one main takes for its own (cracker1.c:202-212,
\* :248).
THEOREM LinesHandedOutOnce == Spec => []EachLineOnce
<1>1. ASSUME CrackerInv PROVE EachLineOnce
  <2> DEFINE lines == IF main = "reading" THEN total ELSE total - 1
             all == [l \in 1..lines |-> l]
             rest == IF main = "reading" THEN <<>> ELSE <<NULL>>
  <2>1. /\ password_queue \in Seq(Nat) /\ pulled \in Seq(Nat)
        /\ \A i \in 1..Len(pulled) : pulled[i] = i
        /\ \A i \in 1..Len(password_queue) :
              password_queue[i] = IF main # "reading" /\ i = Len(password_queue) THEN NULL
                                  ELSE Len(pulled) + i
        /\ main # "reading" => Len(password_queue) >= 1
    BY <1>1 DEF CrackerInv, Types, Lines
  <2>2. lines \in Nat
    BY <2>1 DEF total
  <2> HIDE DEF lines
  <2>3. /\ all \in Seq(Nat) /\ Len(all) = lines /\ \A i \in 1..lines : all[i] = i
        /\ rest \in Seq(Nat)
        /\ Len(rest) = IF main = "reading" THEN 0 ELSE 1
        /\ main # "reading" => rest[1] = NULL
    BY <2>2 DEF NULL
  <2> HIDE DEF all, rest
  <2>4. /\ pulled \o password_queue \in Seq(Nat) /\ all \o rest \in Seq(Nat)
        /\ Len(pulled \o password_queue) = Len(pulled) + Len(password_queue)
        /\ Len(all \o rest) = lines + Len(rest)
    <3>1. /\ pulled \o password_queue \in Seq(Nat)
          /\ Len(pulled \o password_queue) = Len(pulled) + Len(password_queue)
      BY <2>1, ConcatProperties
    <3>2. all \o rest \in Seq(Nat) /\ Len(all \o rest) = Len(all) + Len(rest)
      BY <2>3, ConcatProperties
    <3> QED BY <2>3, <3>1, <3>2
  <2>5. Len(pulled \o password_queue) = Len(all \o rest)
    BY <2>1, <2>3, <2>4 DEF lines, total
  <2>6. ASSUME NEW i \in 1..Len(pulled \o password_queue)
        PROVE  (pulled \o password_queue)[i] = (all \o rest)[i]
    <3> DEFINE n == Len(pulled)
               m == Len(password_queue)
    <3>1. n \in Nat /\ m \in Nat /\ i \in 1 .. (n + m)
      BY <2>1, <2>4
    <3>2. (pulled \o password_queue)[i] = IF i <= n THEN pulled[i] ELSE password_queue[i - n]
      BY <2>1, <3>1, ConcatProperties
    <3>3. (all \o rest)[i] = IF i <= lines THEN all[i] ELSE rest[i - lines]
      BY <2>3, <2>4, <2>5, ConcatProperties
    <3>4. lines = IF main = "reading" THEN n + m ELSE n + m - 1
      BY DEF lines, total
    <3>5. \A j \in 1..m :
             password_queue[j] = IF main # "reading" /\ j = m THEN NULL ELSE n + j
      BY <2>1
    <3>6. /\ \A j \in 1..n : pulled[j] = j
          /\ main # "reading" => m >= 1
      BY <2>1
    <3> HIDE DEF n, m
    <3>7. CASE i <= n
      BY <2>3, <3>1, <3>2, <3>3, <3>4, <3>6, <3>7
    <3>8. CASE n < i /\ i <= lines
      <4>1. i - n \in 1..m /\ ~ (main # "reading" /\ i - n = m)
        BY <2>2, <3>1, <3>4, <3>8
      <4>2. password_queue[i - n] = n + (i - n)
        BY <3>5, <4>1
      <4>3. n + (i - n) = i /\ ~ (i <= n)
        BY <3>1, <3>8
      <4>4. all[i] = i
        BY <2>2, <2>3, <3>1, <3>8
      <4> QED BY <3>2, <3>3, <3>8, <4>2, <4>3, <4>4
    <3>9. CASE lines < i
      <4>1. main # "reading" /\ i - n = m /\ i - lines = 1 /\ m >= 1
        BY <2>2, <3>1, <3>4, <3>6, <3>9
      <4>2. password_queue[m] = NULL
        BY <3>1, <3>5, <4>1
      <4>3. rest[1] = NULL
        BY <2>3, <4>1
      <4>4. ~ (i <= n) /\ ~ (i <= lines)
        BY <2>2, <3>1, <3>9, <4>1
      <4> QED BY <3>2, <3>3, <4>1, <4>2, <4>3, <4>4
    <3>10. i <= n \/ (n < i /\ i <= lines) \/ lines < i
      BY <2>2, <3>1
    <3> QED BY <3>7, <3>8, <3>9, <3>10
  <2>7. pulled \o password_queue = all \o rest
    BY <2>4, <2>5, <2>6, SeqEqual
  <2>8. \A l \in DOMAIN freed :
           freed[l] > 1 => l = MaxPasswords /\ main = "done" /\ Len(pulled) = MaxPasswords
    BY <1>1 DEF CrackerInv, Types, Buffers
  <2>9. main = "done" => \A l \in 1..input : freed[l] > 0
    BY <1>1 DEF CrackerInv, Buffers
  <2> QED BY <2>7, <2>8, <2>9 DEF EachLineOnce, lines, all, rest
<1> QED BY <1>1, CrackerInvariant, PTL
=============================================================================
