---------------------------- MODULE NonstopProofs ----------------------------
(***************************************************************************)
(* Proofs about NonstopServer, for any connections, requests, files and    *)
(* slots.  First what a slot, a request and a file can be, that no call    *)
(* reads what has not come or writes more than there is room for, and      *)
(* whose the slots are; then what each client is told, what the files      *)
(* hold, and that no event is missed.                                      *)
(***************************************************************************)
EXTENDS NonstopServer, FiniteSetTheorems, SequenceTheorems, TLAPS

USE NonstopAssumption

\* A piece of a stream, a file or a reply, and what a slot remembers.
Words == {"head", "size", "end", "OK", "name"}
Piece == (Words \cup Conns) \X (Nat \cup Files)

SlotType == [head : Int, args : Conns \cup {None, Garbage},
             replied : BOOLEAN, sizeDone : BOOLEAN, size : Int,
             data : SUBSET Seq(Piece), index : Int]

\* A call of process_client.
CallType == [s : SlotType, read : Int, out : Seq(Piece), files : [Files -> Seq(Piece)],
             errno : BOOLEAN, ret : {"more", "done", "error", "exit"}]

\* What a slot remembers goes together: nothing before its command is known;
\* of GET and LIST how much of the reply is written; of PUT how much of its data
\* it has, if its size was no header, and -1 when the data is complete.
Coherent(s) ==
    /\ s.args = None => s.index = 0 /\ ~s.sizeDone /\ s.data = {}
    /\ s.args \in Conns =>
         /\ request[s.args].verb \in {"GET", "LIST"} => s.index >= 0
         /\ request[s.args].verb = "PUT" =>
              IF s.sizeDone /\ s.size # Huge
              THEN s.data # {} /\ (s.index = -1 \/ s.index \in 0..s.size)
              ELSE s.index = 0

\* A call reads no further than what has come, and not the end of the stream.
ReadsOnly(n, c) == n \in Nat /\ n <= sent[c] /\ n <= Len(Stream(c)) - 1

\* What a call starts from, and what it leaves.
Called(r, c) == /\ r \in CallType /\ r.out = <<>> /\ r.ret = "more"
                /\ ReadsOnly(r.read, c) /\ Coherent(r.s)

Fits(r, c) == /\ r \in CallType /\ Len(r.out) <= Room(c)
              /\ r.ret = "error" => r.out = <<>>
              /\ ReadsOnly(r.read, c) /\ Coherent(r.s)

\* What is known of a connection wherever a call is made.
Connected(c) == /\ c \in Conns /\ request \in Workloads
                /\ sent[c] \in Nat /\ unread[c] \in 0..Capacity

\* The lesser and the greater of two numbers.
LEMMA MinTwo ==
  ASSUME NEW a \in Int, NEW b \in Int
  PROVE  Min({a, b}) \in {a, b} /\ Min({a, b}) <= a /\ Min({a, b}) <= b
<1>1. \E x \in {a, b} : \A y \in {a, b} : x <= y
  <2>1. CASE a <= b
    BY <2>1
  <2>2. CASE ~(a <= b)
    <3>1. b <= a /\ b <= b
      BY <2>2
    <3> QED BY <3>1
  <2> QED BY <2>1, <2>2
<1> QED BY <1>1 DEF Min

\* And the greater.
LEMMA MaxTwo ==
  ASSUME NEW a \in Int, NEW b \in Int
  PROVE  Max({a, b}) \in {a, b} /\ Max({a, b}) >= a /\ Max({a, b}) >= b
<1>1. \E x \in {a, b} : \A y \in {a, b} : x >= y
  <2>1. CASE a >= b
    BY <2>1
  <2>2. CASE ~(a >= b)
    <3>1. b >= a /\ b >= b
      BY <2>2
    <3> QED BY <3>1
  <2> QED BY <2>1, <2>2
<1> QED BY <1>1 DEF Max

\* What a client sends is a sequence of pieces, the header first.
LEMMA StreamType ==
  ASSUME request \in Workloads, NEW c \in Conns
  PROVE  /\ Stream(c) \in Seq((Words \cup Conns) \X Nat)
         /\ Stream(c) \in Seq(Piece)
         /\ Len(Stream(c)) \in Nat \ {0}
<1> DEFINE W == (Words \cup Conns) \X Nat
           q == request[c]
           header == [k \in 1..q.head |-> <<"head", k>>]
           size == IF q.verb = "PUT" THEN <<<<"size", q.size>>>> ELSE <<>>
           upload == [k \in 1..q.sends |-> <<c, k>>]
<1>1. q.head \in Nat /\ q.size \in Nat /\ q.sends \in Nat
  OBVIOUS
<1>2. header \in Seq(W)
  <2>1. \A k \in 1..q.head : <<"head", k>> \in W
    BY DEF Words
  <2>2. header \in [1..q.head -> W]
    BY <2>1
  <2> QED BY <1>1, <2>2, SeqDef
<1>3. upload \in Seq(W)
  <2>1. \A k \in 1..q.sends : <<c, k>> \in W
    OBVIOUS
  <2>2. upload \in [1..q.sends -> W]
    BY <2>1
  <2> QED BY <1>1, <2>2, SeqDef
<1>4. size \in Seq(W)
  <2>1. <<"size", q.size>> \in W
    BY <1>1 DEF Words
  <2>2. <<<<"size", q.size>>>> \in Seq(W)
    BY <2>1
  <2> HIDE DEF W
  <2> QED BY <2>2
<1>5. <<<<"end", 0>>>> \in Seq(W)
  BY DEF Words
<1>6. Stream(c) = ((header \o size) \o upload) \o <<<<"end", 0>>>>
  BY DEF Stream
<1>7. Stream(c) \in Seq(W) /\ Len(Stream(c)) \in Nat \ {0}
  <2> DEFINE most == (header \o size) \o upload
  <2> HIDE DEF W, header, size, upload
  <2>1. most \in Seq(W)
    BY <1>2, <1>3, <1>4
  <2> HIDE DEF most
  <2>2. most \o <<<<"end", 0>>>> \in Seq(W) /\ Len(most \o <<<<"end", 0>>>>) = Len(most) + 1
    BY <2>1, <1>5
  <2> QED BY <2>1, <2>2, <1>6 DEF most
<1>8. W \subseteq Piece
  BY DEF Piece
<1> QED BY <1>7, <1>8

\* How far a call can read, and how much it can write.
LEMMA Measures ==
  ASSUME NEW c, Connected(c)
  PROVE  /\ Len(Stream(c)) \in Nat \ {0}
         /\ Arrived(c) \in Nat /\ Arrived(c) <= sent[c] /\ Arrived(c) <= Len(Stream(c)) - 1
         /\ \A n \in Int : n <= sent[c] /\ n <= Len(Stream(c)) - 1 => n <= Arrived(c)
         /\ Room(c) \in Nat /\ AtEnd(c) \in BOOLEAN
<1>1. Stream(c) \in Seq((Words \cup Conns) \X Nat)
  BY StreamType DEF Connected
<1>2. Len(Stream(c)) \in Nat \ {0}
  BY StreamType DEF Connected
<1>3. sent[c] \in Nat /\ Len(Stream(c)) - 1 \in Nat
  BY <1>2 DEF Connected
<1>4. /\ Arrived(c) \in {sent[c], Len(Stream(c)) - 1}
      /\ Arrived(c) <= sent[c] /\ Arrived(c) <= Len(Stream(c)) - 1
  <2> DEFINE a == sent[c]
             b == Len(Stream(c)) - 1
  <2>1. a \in Int /\ b \in Int
    BY <1>3
  <2>2. Arrived(c) = Min({a, b})
    BY DEF Arrived
  <2> HIDE DEF a, b
  <2>3. Min({a, b}) \in {a, b} /\ Min({a, b}) <= a /\ Min({a, b}) <= b
    BY <2>1, MinTwo
  <2> QED BY <2>2, <2>3 DEF a, b
<1>5. Room(c) \in Nat
  BY DEF Room, Connected
<1> QED BY <1>2, <1>3, <1>4, <1>5 DEF AtEnd

\* How far it has read is within bounds when it has come.
LEMMA WithinArrived ==
  ASSUME NEW c, Connected(c), NEW n \in Nat, n <= Arrived(c)
  PROVE  ReadsOnly(n, c)
<1>1. /\ Len(Stream(c)) - 1 \in Int /\ sent[c] \in Nat /\ Arrived(c) \in Nat
      /\ Arrived(c) <= sent[c] /\ Arrived(c) <= Len(Stream(c)) - 1
  BY Measures DEF Connected
<1> QED BY <1>1 DEF ReadsOnly

\* A call that finds nothing to read, with an answer of its own or none.
LEMMA FaultFits ==
  ASSUME NEW c, Connected(c), NEW r, Called(r, c)
  PROVE  Fits(r, c) /\ Fits(Fault(r, c), c) /\ Called(Fault(r, c), c)
<1>1. AtEnd(c) \in BOOLEAN /\ Room(c) \in Nat
  BY Measures
<1>2. Fault(r, c) \in CallType
  BY <1>1 DEF Fault, Called, CallType
<1>3. /\ Fault(r, c).out = r.out /\ Fault(r, c).ret = r.ret
      /\ Fault(r, c).read = r.read /\ Fault(r, c).s = r.s
  BY DEF Fault, Called, CallType
<1> QED BY <1>1, <1>2, <1>3 DEF Called, Fits

\* A call that ends with an error.
LEMMA FailedFits ==
  ASSUME NEW c, Connected(c), NEW r, Called(r, c)
  PROVE  Fits(Failed(r), c) /\ Fits(Failed([r EXCEPT !.errno = TRUE]), c)
<1>1. Room(c) \in Nat
  BY Measures
<1> DEFINE e == Failed(r)
           d == Failed([r EXCEPT !.errno = TRUE])
<1>2. e \in CallType /\ d \in CallType
  BY DEF Failed, Called, CallType
<1>3. /\ e.out = <<>> /\ e.read = r.read /\ e.s = r.s
      /\ d.out = <<>> /\ d.read = r.read /\ d.s = r.s
  BY DEF Failed, Called, CallType
<1> QED BY <1>1, <1>2, <1>3 DEF Called, Fits

\* A reply is written as far as there is room.
LEMMA ReplyFits ==
  ASSUME NEW c, Connected(c), NEW r, Called(r, c), r.s.index >= 0,
         r.s.args \in Conns, request[r.s.args].verb \in {"GET", "LIST"},
         NEW body \in Seq(Piece)
  PROVE  Fits(Reply(r, c, body), c)
<1> DEFINE t == r.s
           all == <<<<"OK", 0>>, <<"size", Len(body)>>>> \o body
           done == (IF t.replied THEN 1 ELSE 0) + (IF t.sizeDone THEN 1 ELSE 0) + t.index
           least == Min({Len(all), done + Room(c)})
           upto == Max({done, least})
           w == SubSeq(all, done + 1, upto)
           left == [t EXCEPT !.replied = upto >= 1, !.sizeDone = upto >= 2,
                             !.index = Max({0, upto - 2})]
<1>1. r \in CallType /\ t \in SlotType /\ Room(c) \in Nat
  BY Measures DEF Called, CallType
<1>2. done \in Nat
  BY <1>1 DEF SlotType
<1>3. all \in Seq(Piece) /\ Len(all) \in Nat
  <2>1. Len(body) \in Nat
    OBVIOUS
  <2>2. <<"OK", 0>> \in Piece /\ <<"size", Len(body)>> \in Piece
    BY <2>1 DEF Piece, Words
  <2>3. <<<<"OK", 0>>, <<"size", Len(body)>>>> \in Seq(Piece)
    BY <2>2
  <2> QED BY <2>3, ConcatProperties
<1>4. least \in Int /\ least <= Len(all) /\ least <= done + Room(c)
  <2>1. Len(all) \in Int /\ done + Room(c) \in Int
    BY <1>1, <1>2, <1>3
  <2> HIDE DEF all, done
  <2> QED BY <2>1, MinTwo
<1>5. upto \in {done, least} /\ upto >= done
  <2> HIDE DEF least, done
  <2>1. done \in Int /\ least \in Int
    BY <1>2, <1>4
  <2>2. Max({done, least}) \in {done, least} /\ Max({done, least}) >= done
    BY <2>1, MaxTwo
  <2> QED BY <2>2
<1>6. w \in Seq(Piece) /\ Len(w) <= Room(c)
  <2> HIDE DEF all, done, upto, least
  <2>1. \A i \in done + 1 .. upto : all[i] \in Piece
    BY <1>2, <1>3, <1>4, <1>5
  <2>2. w \in Seq(Piece) /\ Len(w) = IF done + 1 <= upto THEN upto - (done + 1) + 1 ELSE 0
    BY <1>2, <1>4, <1>5, <2>1, SubSeqProperties
  <2> QED BY <1>1, <1>2, <1>4, <1>5, <2>2
<1>7. left \in SlotType /\ left.args = t.args /\ left.index >= 0
  <2> HIDE DEF done, upto, least
  <2>1. upto \in Int
    BY <1>2, <1>4, <1>5
  <2> DEFINE rest == upto - 2
             next == Max({0, rest})
  <2>2. 0 \in Int /\ rest \in Int
    BY <2>1
  <2> HIDE DEF rest
  <2>3. next \in {0, rest} /\ next >= 0
    BY <2>2, MaxTwo
  <2>4. left = [t EXCEPT !.replied = upto >= 1, !.sizeDone = upto >= 2, !.index = next]
    BY DEF rest
  <2>5. (upto >= 1) \in BOOLEAN /\ (upto >= 2) \in BOOLEAN /\ next \in Int
    BY <2>1, <2>2, <2>3
  <2> HIDE DEF t, left, next
  <2> QED BY <1>1, <2>3, <2>4, <2>5 DEF SlotType
<1>8. Coherent(left)
  BY <1>7 DEF Coherent
<1> DEFINE a == [r EXCEPT !.out = w, !.s = left, !.errno = @ \/ upto < Len(all),
                          !.ret = IF upto = Len(all) THEN "done" ELSE "more"]
<1>9. Reply(r, c, body) = a
  BY DEF Reply
<1> HIDE DEF w, left, upto, all, t
<1>10. a \in CallType
  BY <1>1, <1>6, <1>7 DEF CallType
<1>11. a.out = w /\ a.s = left /\ a.read = r.read /\ a.ret # "error"
  BY <1>1 DEF CallType
<1> HIDE DEF a
<1> QED BY <1>6, <1>8, <1>9, <1>10, <1>11 DEF Fits, Called

\* GET, whatever its file has become since its last call.
LEMMA GetFits ==
  ASSUME NEW c, Connected(c), NEW r, Called(r, c), NEW f \in Files,
         r.s.args \in Conns, request[r.s.args].verb = "GET"
  PROVE  Fits(server_get(r, c, f), c)
<1> DEFINE k == r.s.index
           buffer == [j \in 1..Len(r.files[f]) |-> r.files[f][IF j > k THEN j - k ELSE j]]
<1>1. r.files[f] \in Seq(Piece) /\ k \in Int /\ k >= 0
  BY DEF Called, CallType, SlotType, Coherent
<1>2. \A j \in 1..Len(r.files[f]) : (IF j > k THEN j - k ELSE j) \in 1..Len(r.files[f])
  BY <1>1
<1>3. buffer \in Seq(Piece)
  <2>1. buffer \in [1..Len(r.files[f]) -> Piece]
    BY <1>1, <1>2
  <2> QED BY <1>1, <2>1, SeqDef
<1> HIDE DEF buffer
<1>4. Fits(Reply(r, c, buffer), c)
  BY <1>1, <1>3, ReplyFits
<1> QED BY <1>4, FailedFits DEF server_get, buffer

\* LIST, at its first call and later.
LEMMA ListFits ==
  ASSUME NEW c, Connected(c), NEW r, Called(r, c),
         r.s.args \in Conns, request[r.s.args].verb = "LIST"
  PROVE  Fits(server_list(r, c), c)
<1> DEFINE S == {f \in Files : r.files[f] # <<>>}
           stored == SetToSeq(S)
           names == [k \in 1..Len(stored) |-> <<"name", stored[k]>>]
           listed == [r EXCEPT !.s.data = {names}]
<1>1. stored \in [1..Cardinality(S) -> S] /\ Cardinality(S) \in Nat
  <2>1. IsFiniteSet(S)
    BY FS_Subset
  <2>2. Cardinality(S) \in Nat /\ ExistsBijection(1..Cardinality(S), S)
    BY <2>1, FS_CardinalityType
  <2>3. \E b \in [1..Cardinality(S) -> S] : IsInjective(b)
    BY <2>2 DEF ExistsBijection, Bijection, Injection
  <2> HIDE DEF S
  <2> QED BY <2>2, <2>3 DEF SetToSeq
<1>2. names \in Seq(Piece)
  <2>1. Len(stored) = Cardinality(S)
    BY <1>1
  <2>2. \A k \in 1..Len(stored) : <<"name", stored[k]>> \in Piece
    BY <1>1, <2>1 DEF Piece, Words
  <2>3. names \in [1..Len(stored) -> Piece]
    BY <2>2
  <2>4. Len(stored) \in Nat
    BY <1>1, <2>1
  <2> HIDE DEF names, stored
  <2> QED BY <2>3, <2>4, SeqDef
<1> HIDE DEF S, stored, names
<1>3. r \in CallType /\ r.s \in SlotType /\ r.s.index >= 0
  BY DEF Called, CallType, Coherent
<1>4. listed.s \in SlotType /\ listed.s.args = r.s.args /\ listed.s.index = r.s.index
  BY <1>2, <1>3 DEF CallType, SlotType
<1>5. /\ listed \in CallType /\ listed.out = r.out /\ listed.ret = r.ret
      /\ listed.read = r.read
  BY <1>3, <1>4 DEF CallType
<1>6. Called(listed, c)
  BY <1>4, <1>5 DEF Called, Coherent
<1>7. Fits(Reply(listed, c, names), c)
  <2> HIDE DEF listed
  <2> QED BY <1>2, <1>3, <1>4, <1>6, ReplyFits
<1>8. r.s.data # {} => Fits(Reply(r, c, CHOOSE d \in r.s.data : TRUE), c)
  <2>1. r.s.data # {} => (CHOOSE d \in r.s.data : TRUE) \in Seq(Piece)
    BY <1>3 DEF SlotType
  <2> QED BY <2>1, <1>3, ReplyFits
<1> QED BY <1>7, <1>8, FailedFits DEF server_list, S, stored, names

\* DELETE, which remembers -1 when only its reply is missing.
LEMMA DeleteFits ==
  ASSUME NEW c, Connected(c), NEW r, Called(r, c), NEW f \in Files,
         r.s.args \in Conns, request[r.s.args].verb = "DELETE"
  PROVE  Fits(server_delete(r, c, f), c)
<1> DEFINE failed == Failed([r EXCEPT !.errno = TRUE])
           kept == IF r.s.index = 0 THEN <<>> ELSE r.files[f]
           now == [r EXCEPT !.files[f] = kept, !.out = <<<<"OK", 0>>>>, !.ret = "done"]
           later == [r EXCEPT !.files[f] = kept, !.s.index = -1, !.errno = TRUE]
<1>1. r \in CallType /\ r.files \in [Files -> Seq(Piece)] /\ Room(c) \in Nat
  BY Measures DEF Called, CallType
<1>2. kept \in Seq(Piece)
  BY <1>1
<1>3. server_delete(r, c, f) \in {failed, later}
      \/ (Room(c) > 0 /\ server_delete(r, c, f) = now)
  BY <1>1 DEF server_delete
<1>4. Fits(failed, c)
  BY FailedFits
<1>5. Fits(later, c)
  <2> HIDE DEF kept
  <2>1. later.s = [r.s EXCEPT !.index = -1] /\ later.out = r.out /\ later.ret = r.ret
        /\ later.read = r.read
    BY <1>1 DEF CallType
  <2>2. later.s \in SlotType
    <3>1. r.s \in SlotType
      BY <1>1 DEF CallType
    <3>2. [r.s EXCEPT !.index = -1] \in SlotType
      BY <3>1 DEF SlotType
    <3> QED BY <2>1, <3>2
  <2>3. later.files \in [Files -> Seq(Piece)]
    BY <1>1, <1>2 DEF CallType
  <2>4. later \in CallType
    BY <1>1, <2>2, <2>3 DEF CallType
  <2>5. later.s.args = r.s.args
    BY <1>1, <2>1 DEF CallType, SlotType
  <2>6. Coherent(later.s)
    BY <2>5 DEF Coherent
  <2> QED BY <1>1, <2>1, <2>4, <2>6 DEF Fits, Called
<1>6. Room(c) > 0 => Fits(now, c)
  <2> HIDE DEF kept
  <2>1. now.s = r.s /\ now.read = r.read /\ now.out = <<<<"OK", 0>>>> /\ now.ret = "done"
    BY <1>1 DEF CallType
  <2>2. now.files \in [Files -> Seq(Piece)]
    BY <1>1, <1>2 DEF CallType
  <2>3. now.out \in Seq(Piece) /\ Len(now.out) = 1
    BY <2>1 DEF Piece, Words
  <2>4. now \in CallType
    BY <1>1, <2>1, <2>2, <2>3 DEF CallType
  <2> QED BY <1>1, <2>1, <2>3, <2>4 DEF Fits, Called
<1> QED BY <1>3, <1>4, <1>5, <1>6

\* The end of a PUT.
LEMMA PutReplyFits ==
  ASSUME NEW c, Connected(c), NEW r, Called(r, c), NEW f \in Files, r.s.data # {}
  PROVE  Fits(PutReply(r, c, f), c)
<1> DEFINE new == CHOOSE d \in r.s.data : TRUE
           now == [r EXCEPT !.out = <<<<"OK", 0>>>>, !.ret = "done", !.files[f] = new]
           later == [r EXCEPT !.errno = TRUE]
<1>1. r \in CallType /\ r.s \in SlotType /\ Room(c) \in Nat
  BY Measures DEF Called, CallType
<1>2. new \in Seq(Piece)
  BY <1>1 DEF SlotType
<1>3. PutReply(r, c, f) = IF Room(c) = 0 THEN later ELSE now
  BY DEF PutReply
<1>4. Fits(later, c)
  <2>1. later \in CallType
    BY <1>1 DEF CallType
  <2>2. later.s = r.s /\ later.read = r.read /\ later.out = r.out /\ later.ret = r.ret
    BY <1>1 DEF CallType
  <2> QED BY <1>1, <2>1, <2>2 DEF Fits, Called
<1>5. Room(c) > 0 => Fits(now, c)
  <2> HIDE DEF new
  <2>1. now.s = r.s /\ now.read = r.read /\ now.out = <<<<"OK", 0>>>> /\ now.ret = "done"
    BY <1>1 DEF CallType
  <2>2. now.files \in [Files -> Seq(Piece)]
    BY <1>1, <1>2 DEF CallType
  <2>3. now.out \in Seq(Piece) /\ Len(now.out) = 1
    BY <2>1 DEF Piece, Words
  <2>4. now \in CallType
    BY <1>1, <2>1, <2>2, <2>3 DEF CallType
  <2> QED BY <1>1, <2>1, <2>3, <2>4 DEF Fits, Called
<1> QED BY <1>1, <1>3, <1>4, <1>5

\* The data of a PUT: never past its size, nor past what has come.
LEMMA PutDataFits ==
  ASSUME NEW c, Connected(c), NEW r, Called(r, c), NEW f \in Files,
         r.s.args \in Conns, request[r.s.args].verb = "PUT",
         r.s.sizeDone, r.s.size # Huge, r.s.index # -1
  PROVE  Fits(PutData(r, c, f), c)
<1> DEFINE t == r.s
           here == Arrived(c) - r.read
           missing == t.size - t.index
           n == Min({here, missing})
           piece == SubSeq(Stream(c), r.read + 1, r.read + n)
           got == (CHOOSE d \in t.data : TRUE) \o piece
           kept == [r EXCEPT !.s.data = {got}, !.s.index = @ + n, !.read = @ + n]
           more == Fault(kept, c)
           whole == [more EXCEPT !.s.index = -1]
<1>1. /\ r \in CallType /\ t \in SlotType /\ r.read \in Nat /\ r.out = <<>>
      /\ r.ret = "more"
  BY DEF Called, CallType, ReadsOnly
<1>2. t.data # {} /\ t.index \in 0..t.size /\ t.size \in Int
  BY <1>1 DEF Called, Coherent, SlotType
<1>3. here \in Nat /\ missing \in Nat
  BY <1>1, <1>2, Measures DEF Called, ReadsOnly
<1>4. n \in Nat /\ n <= here /\ n <= missing
  <2> HIDE DEF here, missing
  <2>1. here \in Int /\ missing \in Int
    BY <1>3
  <2>2. n \in {here, missing} /\ n <= here /\ n <= missing
    BY <2>1, MinTwo
  <2> QED BY <1>3, <2>2
<1>5. r.read + n <= Arrived(c)
  <2> HIDE DEF n
  <2> QED BY <1>1, <1>4, Measures
<1>6. piece \in Seq(Piece)
  <2> HIDE DEF n
  <2>1. Stream(c) \in Seq(Piece)
    BY StreamType DEF Connected
  <2>2. Arrived(c) \in Nat /\ Arrived(c) <= Len(Stream(c)) - 1 /\ Len(Stream(c)) \in Nat
    BY Measures
  <2>3. \A i \in r.read + 1 .. r.read + n : Stream(c)[i] \in Piece
    BY <1>1, <1>4, <1>5, <2>1, <2>2
  <2>4. r.read + 1 \in Int /\ r.read + n \in Int
    BY <1>1, <1>4
  <2> QED BY <2>3, <2>4, SubSeqProperties
<1>7. got \in Seq(Piece)
  <2> HIDE DEF piece
  <2>1. (CHOOSE d \in t.data : TRUE) \in Seq(Piece)
    BY <1>1, <1>2 DEF SlotType
  <2> QED BY <1>6, <2>1, ConcatProperties
<1> HIDE DEF n, got, here, piece
<1> DEFINE u == [t EXCEPT !.data = {got}, !.index = @ + n]
<1> HIDE DEF t
<1>8. /\ u \in SlotType /\ u.args = t.args /\ u.size = t.size
      /\ u.sizeDone = t.sizeDone /\ u.index = t.index + n /\ u.data = {got}
  <2>1. t.index + n \in Int /\ {got} \in SUBSET Seq(Piece)
    BY <1>2, <1>4, <1>7
  <2> QED BY <1>1, <2>1 DEF SlotType
<1>9. kept = [r EXCEPT !.s = u, !.read = r.read + n]
  BY <1>1 DEF t, CallType
<1> HIDE DEF u
<1>10. /\ kept \in CallType /\ kept.s = u /\ kept.read = r.read + n
       /\ kept.out = r.out /\ kept.ret = r.ret
  <2>1. r.read + n \in Int
    BY <1>1, <1>4
  <2> HIDE DEF kept
  <2> QED BY <1>1, <1>8, <1>9, <2>1 DEF CallType
<1> HIDE DEF kept
<1>11. Coherent(kept.s)
  <2>1. t.args # None /\ t.sizeDone /\ t.size # Huge
    BY DEF t
  <2>2. u.index \in 0..u.size /\ u.data # {}
    BY <1>2, <1>4, <1>8
  <2> QED BY <1>8, <1>10, <2>1, <2>2 DEF Coherent, t
<1>12. ReadsOnly(kept.read, c)
  BY <1>1, <1>4, <1>5, <1>10, WithinArrived
<1>13. Called(kept, c)
  BY <1>1, <1>10, <1>11, <1>12 DEF Called
<1>14. Called(more, c) /\ Fits(more, c) /\ more.s = u /\ more \in CallType
  <2>1. Called(more, c) /\ Fits(more, c)
    BY <1>13, FaultFits
  <2>2. more.s = kept.s
    BY <1>10 DEF Fault, CallType
  <2> QED BY <1>10, <2>1, <2>2 DEF Called
<1> HIDE DEF more
<1>15. Called(whole, c) /\ whole.s.data # {}
  <2> DEFINE last == [u EXCEPT !.index = -1]
  <2>1. /\ last \in SlotType /\ last.args = t.args /\ last.size = t.size
        /\ last.sizeDone = t.sizeDone /\ last.index = -1 /\ last.data = {got}
    BY <1>8 DEF SlotType
  <2>2. /\ whole = [more EXCEPT !.s = last, !.read = more.read] /\ more.read \in Int
    BY <1>14 DEF CallType
  <2> HIDE DEF last, whole
  <2>3. /\ whole \in CallType /\ whole.s = last /\ whole.read = more.read
        /\ whole.out = more.out /\ whole.ret = more.ret
    BY <1>14, <2>1, <2>2 DEF CallType
  <2>4. Coherent(last)
    BY <2>1 DEF Coherent, t
  <2> QED BY <1>14, <2>1, <2>3, <2>4 DEF Called
<1>16. Fits(PutReply(whole, c, f), c)
  <2> HIDE DEF whole
  <2> QED BY <1>15, PutReplyFits
<1>17. Fits(r, c) /\ Fits(Failed(r), c) /\ Fits(Failed(Fault(r, c)), c)
  BY FaultFits, FailedFits
<1>18. PutData(r, c, f) \in {Failed(Fault(r, c)), r, more, Failed(r), PutReply(whole, c, f)}
  <2>1. t.index + n \in Int /\ t.size \in Int
    BY <1>2, <1>4
  <2>2. \/ t.index + n = 0 /\ t.size > 0
        \/ t.index + n = 0 /\ t.size = 0
        \/ t.index + n \in 1..(t.size - 1)
        \/ ~(\/ t.index + n = 0 /\ t.size > 0
             \/ t.index + n = 0 /\ t.size = 0
             \/ t.index + n \in 1..(t.size - 1))
    OBVIOUS
  <2> HIDE DEF whole
  <2> QED BY DEF PutData, more, kept, whole, t, n, got, here, piece
<1> QED BY <1>14, <1>16, <1>17, <1>18

\* PUT, with its size read now or before.
LEMMA PutFits ==
  ASSUME NEW c, Connected(c), NEW r, Called(r, c), NEW f \in Files,
         r.s.args \in Conns, request[r.s.args].verb = "PUT"
  PROVE  Fits(server_put(r, c, f), c)
<1> DEFINE piece == Stream(c)[r.read + 1]
           size == IF piece[1] = "size" THEN piece[2] ELSE Huge
           sized == [r EXCEPT !.s.sizeDone = TRUE, !.s.size = size, !.read = @ + 1,
                              !.s.data = IF size = Huge THEN {} ELSE {<<>>}]
<1>1. /\ r \in CallType /\ r.s \in SlotType /\ r.read \in Nat /\ r.out = <<>>
      /\ r.ret = "more" /\ Coherent(r.s) /\ ReadsOnly(r.read, c)
  BY DEF Called, CallType, ReadsOnly
<1>2. CASE r.s.sizeDone
  <2>1. r.s.index = -1 => r.s.data # {}
    BY <1>1, <1>2 DEF Coherent, Huge
  <2>2. r.s.index = -1 => Fits(PutReply(r, c, f), c)
    BY <2>1, PutReplyFits
  <2>3. r.s.size # Huge /\ r.s.index # -1 => Fits(PutData(r, c, f), c)
    BY <1>2, PutDataFits
  <2>4. Fits(r, c)
    BY FaultFits
  <2>5. server_put(r, c, f) = IF r.s.index = -1 THEN PutReply(r, c, f)
                              ELSE IF r.s.size = Huge THEN r ELSE PutData(r, c, f)
    <3>1. CASE r.s.index = -1
      <4>1. r.s.size # Huge
        BY <1>1, <1>2, <3>1 DEF Coherent
      <4> QED BY <1>2, <3>1, <4>1 DEF server_put
    <3>2. CASE r.s.index # -1 /\ r.s.size = Huge
      BY <1>2, <3>2 DEF server_put
    <3>3. CASE r.s.index # -1 /\ r.s.size # Huge
      BY <1>2, <3>3 DEF server_put
    <3> QED BY <3>1, <3>2, <3>3
  <2> QED BY <2>2, <2>3, <2>4, <2>5
<1>3. CASE ~r.s.sizeDone /\ Arrived(c) = r.read
  BY <1>3, FaultFits DEF server_put
<1>4. CASE ~r.s.sizeDone /\ Arrived(c) # r.read
  <2>1. /\ Stream(c) \in Seq((Words \cup Conns) \X Nat) /\ Len(Stream(c)) \in Nat
        /\ Arrived(c) \in Nat /\ Arrived(c) <= sent[c] /\ Arrived(c) <= Len(Stream(c)) - 1
        /\ r.read <= Arrived(c)
    <3> HIDE DEF piece, size, sized
    <3>1. request \in Workloads /\ c \in Conns
      BY DEF Connected
    <3>2. Stream(c) \in Seq((Words \cup Conns) \X Nat)
      BY <3>1, StreamType
    <3>3. /\ Len(Stream(c)) \in Nat /\ Arrived(c) \in Nat /\ Arrived(c) <= sent[c]
          /\ Arrived(c) <= Len(Stream(c)) - 1
      BY Measures
    <3>4. r.read <= Arrived(c)
      <4>1. /\ r.read \in Nat /\ r.read <= sent[c]
            /\ r.read <= Len(Stream(c)) - 1
        BY <1>1 DEF ReadsOnly
      <4>2. \A n \in Int : n <= sent[c] /\ n <= Len(Stream(c)) - 1 => n <= Arrived(c)
        BY Measures
      <4> QED BY <4>1, <4>2
    <3> QED BY <3>2, <3>3, <3>4
  <2>2. r.read + 1 \in 1..Len(Stream(c)) /\ r.read + 1 <= Arrived(c)
    BY <1>1, <1>4, <2>1
  <2>3. piece \in (Words \cup Conns) \X Nat
    BY <2>1, <2>2
  <2>4. size \in Nat \/ size = Huge
    BY <2>3
  <2>5. size \in Int /\ (size # Huge => size \in Nat) /\ Huge \in Int
    BY <2>4 DEF Huge
  <2> HIDE DEF size
  <2> DEFINE first == IF size = Huge THEN {} ELSE {<<>>}
  <2>6. first \in SUBSET Seq(Piece) /\ (size # Huge => first # {})
    OBVIOUS
  <2> HIDE DEF first
  <2> DEFINE u == [r.s EXCEPT !.sizeDone = TRUE, !.size = size, !.data = first]
  <2>7. /\ u \in SlotType /\ u.args = r.s.args /\ u.size = size
        /\ u.sizeDone = TRUE /\ u.index = r.s.index /\ u.data = first
    BY <1>1, <2>5, <2>6 DEF SlotType
  <2>8. sized = [r EXCEPT !.s = u, !.read = r.read + 1]
    BY <1>1 DEF CallType, first
  <2> HIDE DEF u, sized
  <2>9. /\ sized \in CallType /\ sized.s = u /\ sized.read = r.read + 1
        /\ sized.out = r.out /\ sized.ret = r.ret
    <3>1. r.read + 1 \in Int
      BY <1>1
    <3> QED BY <1>1, <2>7, <2>8, <3>1 DEF CallType
  <2>10. r.s.index = 0
    BY <1>1, <1>4 DEF Coherent
  <2>11. Coherent(sized.s)
    BY <1>1, <2>5, <2>6, <2>7, <2>9, <2>10 DEF Coherent
  <2>12. ReadsOnly(sized.read, c)
    BY <1>1, <2>2, <2>9, WithinArrived
  <2>13. Called(sized, c)
    BY <1>1, <2>9, <2>11, <2>12 DEF Called
  <2>14. Fits(sized, c)
    BY <2>13, FaultFits
  <2>15. size # Huge => Fits(PutData(sized, c, f), c)
    BY <2>7, <2>9, <2>10, <2>13, PutDataFits
  <2>16. server_put(r, c, f) = IF size = Huge THEN sized ELSE PutData(sized, c, f)
    BY <1>4 DEF server_put, sized, size
  <2> QED BY <2>14, <2>15, <2>16
<1> QED BY <1>2, <1>3, <1>4

\* A call that has its header.
LEMMA CommandFits ==
  ASSUME NEW c, Connected(c), NEW r, Called(r, c)
  PROVE  Fits(server_command(r, c), c)
<1> DEFINE q == request[r.s.args]
<1>1. CASE r.s.args \notin Conns
  <2>1. r.s.args \in {None, Garbage}
    BY <1>1 DEF Called, CallType, SlotType
  <2>2. server_command(r, c) \in {r, Failed(r)}
    BY <2>1 DEF server_command
  <2> QED BY <2>2, FaultFits, FailedFits
<1>2. CASE r.s.args \in Conns
  <2>1. q.file \in Files /\ q.verb \in {"GET", "PUT", "DELETE", "LIST"}
    BY <1>2 DEF Connected
  <2>2. q.verb = "GET" => Fits(server_get(r, c, q.file), c)
    BY <1>2, <2>1, GetFits
  <2>3. q.verb = "PUT" => Fits(server_put(r, c, q.file), c)
    BY <1>2, <2>1, PutFits
  <2>4. q.verb = "DELETE" => Fits(server_delete(r, c, q.file), c)
    BY <1>2, <2>1, DeleteFits
  <2>5. q.verb = "LIST" => Fits(server_list(r, c), c)
    BY <1>2, <2>1, ListFits
  <2>6. server_command(r, c) = CASE q.verb = "GET" -> server_get(r, c, q.file)
                                 [] q.verb = "PUT" -> server_put(r, c, q.file)
                                 [] q.verb = "DELETE" -> server_delete(r, c, q.file)
                                 [] OTHER -> server_list(r, c)
    BY <1>2 DEF server_command, Garbage
  <2> HIDE DEF q
  <2> QED BY <2>1, <2>2, <2>3, <2>4, <2>5, <2>6
<1> QED BY <1>1, <1>2

\* A header, whole, in part, or not there.
LEMMA HeaderFits ==
  ASSUME NEW c, Connected(c), NEW r, Called(r, c), r.s.args = None
  PROVE  LET h == read_header_from_client(r, c)
         IN  Fits(h, c) /\ (h.ret # "exit" => Called(h, c))
<1> DEFINE ours == {k \in r.read + 1 .. Arrived(c) : Stream(c)[k][1] = "head"}
           m == Cardinality(ours)
           whole == r.read + m >= request[c].head
           args == IF r.s.head > 0 THEN Garbage ELSE c
           done == [r EXCEPT !.read = request[c].head, !.s.args = args]
           part == [r EXCEPT !.read = @ + m, !.s.head = @ + m]
           none == Ret(r, "exit")
<1>1. /\ r \in CallType /\ r.s \in SlotType /\ r.read \in Nat /\ r.out = <<>>
      /\ r.ret = "more" /\ Coherent(r.s) /\ ReadsOnly(r.read, c)
  BY DEF Called, CallType, ReadsOnly
<1>2. Arrived(c) \in Nat /\ r.read <= Arrived(c) /\ Room(c) \in Nat
  BY <1>1, Measures DEF ReadsOnly
<1>3. m \in Nat /\ r.read + m <= Arrived(c)
  <2> DEFINE all == r.read + 1 .. Arrived(c)
  <2>1. IsFiniteSet(all) /\ Cardinality(all) = Arrived(c) - r.read
    <3> DEFINE a == r.read + 1
               b == Arrived(c)
    <3>1. a \in Int /\ b \in Int /\ (IF a > b THEN 0 ELSE b - a + 1) = Arrived(c) - r.read
      BY <1>1, <1>2
    <3> HIDE DEF a, b
    <3>2. IsFiniteSet(a..b) /\ Cardinality(a..b) = IF a > b THEN 0 ELSE b - a + 1
      BY <3>1, FS_Interval
    <3> QED BY <3>1, <3>2 DEF a, b
  <2>2. ours \in SUBSET all
    OBVIOUS
  <2>3. IsFiniteSet(ours) /\ m <= Cardinality(all)
    <3> HIDE DEF all, ours
    <3> QED BY <2>1, <2>2, FS_Subset
  <2>4. m \in Nat
    BY <2>3, FS_CardinalityType
  <2> HIDE DEF m, all
  <2> QED BY <1>1, <1>2, <2>1, <2>3, <2>4
<1> HIDE DEF ours, m
<1>4. request[c].head \in Nat /\ args \in Conns \cup {Garbage}
  BY DEF Connected
<1>5. r.s.index = 0 /\ ~r.s.sizeDone /\ r.s.data = {}
  BY <1>1 DEF Coherent
<1>6. whole => Called(done, c)
  <2> SUFFICES ASSUME whole PROVE Called(done, c)
    OBVIOUS
  <2> HIDE DEF args
  <2> DEFINE u == [r.s EXCEPT !.args = args]
  <2>1. /\ u \in SlotType /\ u.args = args /\ u.sizeDone = r.s.sizeDone
        /\ u.index = r.s.index
    BY <1>1, <1>4 DEF SlotType
  <2>2. done = [r EXCEPT !.s = u, !.read = request[c].head]
    BY <1>1 DEF CallType
  <2> HIDE DEF u, done
  <2>3. /\ done \in CallType /\ done.s = u /\ done.read = request[c].head
        /\ done.out = r.out /\ done.ret = r.ret
    <3>1. request[c].head \in Int
      BY <1>4
    <3> QED BY <1>1, <2>1, <2>2, <3>1 DEF CallType
  <2>4. Coherent(u)
    <3>1. args # None
      BY <1>4 DEF Garbage
    <3> QED BY <1>5, <2>1, <3>1 DEF Coherent
  <2>5. ReadsOnly(done.read, c)
    BY <1>1, <1>2, <1>3, <1>4, <2>3, WithinArrived
  <2> QED BY <1>1, <2>3, <2>4, <2>5 DEF Called
<1>7. Called(part, c)
  <2> DEFINE u == [r.s EXCEPT !.head = @ + m]
  <2>1. /\ u \in SlotType /\ u.args = None /\ u.sizeDone = r.s.sizeDone
        /\ u.index = r.s.index /\ u.data = r.s.data
    <3>1. r.s.head + m \in Int /\ r.s.args = None
      BY <1>1, <1>3 DEF SlotType
    <3> QED BY <1>1, <3>1 DEF SlotType
  <2>2. part = [r EXCEPT !.s = u, !.read = r.read + m]
    BY <1>1 DEF CallType
  <2> HIDE DEF u, part
  <2>3. /\ part \in CallType /\ part.s = u /\ part.read = r.read + m
        /\ part.out = r.out /\ part.ret = r.ret
    <3>1. r.read + m \in Int
      BY <1>1, <1>3
    <3> QED BY <1>1, <2>1, <2>2, <3>1 DEF CallType
  <2>4. Coherent(u)
    BY <1>5, <2>1 DEF Coherent
  <2>5. ReadsOnly(part.read, c)
    BY <1>1, <1>3, <2>3, WithinArrived
  <2> QED BY <1>1, <2>3, <2>4, <2>5 DEF Called
<1>8. Fits(none, c) /\ none.ret = "exit"
  <2>1. none \in CallType /\ none.s = r.s /\ none.out = r.out /\ none.read = r.read
        /\ none.ret = "exit"
    BY <1>1 DEF CallType, Ret
  <2> QED BY <1>1, <1>2, <2>1 DEF Fits
<1>9. read_header_from_client(r, c) = IF whole THEN done ELSE IF AtEnd(c) THEN part ELSE none
  <2> HIDE DEF done, part, none, whole
  <2> QED BY DEF read_header_from_client, done, part, none, whole, args, m, ours
<1> HIDE DEF done, part, none, whole
<1>10. (whole => Fits(done, c)) /\ Fits(part, c)
  BY <1>6, <1>7, FaultFits
<1> QED BY <1>6, <1>7, <1>8, <1>9, <1>10
-----------------------------------------------------------------------------
\* What the variables can be.
Types ==
    /\ request \in Workloads /\ alive \in BOOLEAN /\ directory \in BOOLEAN
    /\ errno \in BOOLEAN /\ files \in [Files -> Seq(Piece)]
    /\ at \in 0..MAX_CLIENTS /\ events \in [Slots -> Conns \cup {Listener, None}]
    /\ clients \in [Slots -> Conns \cup {None}] /\ slot \in [Slots -> SlotType]
    /\ place \in [Conns -> {"away", "waiting", "accepted", "closed"}]
    /\ sent \in [Conns -> Nat] /\ taken \in [Conns -> Nat]
    /\ unread \in [Conns -> 0..Capacity]

\* How far each connection and each slot is.
Progress ==
    /\ \A c \in Conns : ReadsOnly(taken[c], c)
    /\ \A i \in Slots : Coherent(slot[i])

\* Whose the slots are.
Seats ==
    /\ \A i \in Slots : IF clients[i] = None THEN slot[i] = Fresh
                        ELSE place[clients[i]] = "accepted"
    /\ \A i, j \in Slots : clients[i] = clients[j] /\ clients[i] # None => i = j
    /\ edge \subseteq Accepted
    /\ \A c \in Accepted : c \notin Range(clients) => c \in disturbed

NonstopInv == Types /\ Progress /\ Seats

\* The invariant is what the runs check, and more.
LEMMA InvImplies == NonstopInv => SlotsServed
<1> SUFFICES ASSUME NonstopInv PROVE SlotsServed
  OBVIOUS
<1>1. \A c \in Conns : taken[c] <= sent[c] /\ unread[c] <= Capacity
  BY DEF NonstopInv, Types, Progress, ReadsOnly
<1> QED BY <1>1 DEF NonstopInv, Types, Seats, SlotsServed

\* An emptied slot is a slot.
LEMMA FreshIsCoherent == Fresh \in SlotType /\ Coherent(Fresh)
<1>1. Fresh \in SlotType /\ Fresh.args = None /\ Fresh.index = 0 /\ ~Fresh.sizeDone /\ Fresh.data = {}
  BY DEF Fresh, SlotType
<1> QED BY <1>1 DEF Coherent

\* It holds at the start.
LEMMA InitInv == Init => NonstopInv
<1> SUFFICES ASSUME Init PROVE NonstopInv
  OBVIOUS
<1>1. Types
  <2>1. /\ request \in Workloads /\ alive \in BOOLEAN /\ directory \in BOOLEAN
        /\ errno \in BOOLEAN /\ at \in 0..MAX_CLIENTS
    <3>1. request \in Workloads /\ alive = TRUE /\ directory = TRUE /\ errno = FALSE /\ at = 0
      BY DEF Init
    <3>2. 0 \in 0..MAX_CLIENTS
      OBVIOUS
    <3> QED BY <3>1, <3>2, Zenon
  <2>2. files \in [Files -> Seq(Piece)]
    <3>1. <<>> \in Seq(Piece)
      OBVIOUS
    <3> QED BY <3>1 DEF Init
  <2>3. /\ events \in [Slots -> Conns \cup {Listener, None}]
        /\ clients \in [Slots -> Conns \cup {None}]
    BY DEF Init
  <2>4. slot \in [Slots -> SlotType]
    BY FreshIsCoherent DEF Init
  <2>5. /\ place \in [Conns -> {"away", "waiting", "accepted", "closed"}]
        /\ sent \in [Conns -> Nat] /\ taken \in [Conns -> Nat]
        /\ unread \in [Conns -> 0..Capacity]
    BY DEF Init
  <2> QED BY <2>1, <2>2, <2>3, <2>4, <2>5 DEF Types
<1>2. Progress
  <2>1. \A c \in Conns : Len(Stream(c)) \in Nat \ {0}
    BY StreamType DEF Init
  <2>2. \A c \in Conns : taken[c] = 0 /\ sent[c] = 0
    BY DEF Init
  <2>3. \A c \in Conns : ReadsOnly(taken[c], c)
    BY <2>1, <2>2 DEF ReadsOnly
  <2>4. \A i \in Slots : Coherent(slot[i])
    BY FreshIsCoherent DEF Init
  <2> QED BY <2>3, <2>4 DEF Progress
<1>3. Seats
  BY DEF Init, Seats, Accepted
<1> QED BY <1>1, <1>2, <1>3 DEF NonstopInv

\* What a step that does not serve a slot leaves of the progress.
LEMMA ProgressKept ==
  ASSUME NonstopInv, request' = request, UNCHANGED <<taken, slot>>,
         \A c \in Conns : sent'[c] \in Nat /\ sent[c] <= sent'[c]
  PROVE  Progress'
<1>1. \A c \in Conns : Stream(c)' = Stream(c) /\ Len(Stream(c)) \in Nat
  <2>1. \A c \in Conns : Stream(c)' = Stream(c)
    BY DEF Stream
  <2> QED BY <2>1, StreamType DEF NonstopInv, Types
<1>2. ASSUME NEW c \in Conns PROVE ReadsOnly(taken[c], c)'
  <2>1. ReadsOnly(taken[c], c) /\ taken[c] \in Nat /\ sent[c] \in Nat
    BY DEF NonstopInv, Types, Progress
  <2>2. taken[c] <= sent[c] /\ sent[c] <= sent'[c] /\ sent'[c] \in Nat
        /\ taken[c] <= Len(Stream(c)) - 1
    BY <2>1 DEF ReadsOnly
  <2>3. taken[c] <= sent'[c]
    BY <2>1, <2>2
  <2> QED BY <1>1, <2>1, <2>2, <2>3 DEF ReadsOnly
<1>3. \A i \in Slots : Coherent(slot[i])'
  BY DEF NonstopInv, Progress, Coherent
<1> QED BY <1>2, <1>3 DEF Progress

\* A step that moves no connection and no slot keeps the seats.
LEMMA SeatsKept ==
  ASSUME NonstopInv, UNCHANGED <<clients, slot, place, disturbed>>,
         edge' \subseteq Accepted
  PROVE  Seats'
BY DEF NonstopInv, Seats, Accepted

\* The loop stays within its slots.
LEMMA AdvanceType == ASSUME NonstopInv, at # 0, Advance PROVE at' \in 0..MAX_CLIENTS
<1>1. at \in 0..MAX_CLIENTS /\ MAX_CLIENTS \in Nat \ {0}
  BY DEF NonstopInv, Types
<1> QED BY <1>1 DEF Advance

\* What process_client starts from and returns.
LEMMA ProcessFits ==
  ASSUME NonstopInv, NEW i \in Slots, clients[i] # None
  PROVE  Connected(clients[i]) /\ Fits(process_client(i), clients[i])
<1> DEFINE c == clients[i]
           r == [s |-> slot[i], read |-> taken[c], out |-> <<>>, files |-> files,
                 errno |-> errno, ret |-> "more"]
           h == read_header_from_client(r, c)
<1>1. c \in Conns
  BY DEF NonstopInv, Types
<1>2. Connected(c)
  BY <1>1 DEF NonstopInv, Types, Connected
<1>3. Called(r, c)
  <2>1. r \in CallType
    BY <1>1 DEF NonstopInv, Types, CallType
  <2>2. r.out = <<>> /\ r.ret = "more" /\ r.read = taken[c] /\ r.s = slot[i]
    OBVIOUS
  <2>3. ReadsOnly(taken[c], c) /\ Coherent(slot[i])
    BY <1>1 DEF NonstopInv, Progress
  <2> HIDE DEF r, c
  <2> QED BY <2>1, <2>2, <2>3 DEF Called
<1>4. r.s.args = slot[i].args
  OBVIOUS
<1>5. process_client(i) = IF slot[i].args = None
                          THEN IF h.ret = "exit" THEN h ELSE server_command(h, c)
                          ELSE server_command(r, c)
  BY DEF process_client
<1> HIDE DEF r, c
<1>6. Fits(server_command(r, c), c)
  BY <1>2, <1>3, CommandFits
<1>7. slot[i].args = None => Fits(h, c) /\ (h.ret # "exit" => Called(h, c))
  BY <1>2, <1>3, <1>4, HeaderFits
<1> HIDE DEF h
<1>8. slot[i].args = None /\ h.ret # "exit" => Fits(server_command(h, c), c)
  BY <1>2, <1>7, CommandFits
<1> QED BY <1>2, <1>5, <1>6, <1>7, <1>8 DEF c

-----------------------------------------------------------------------------
\* The actions keep the invariant.  First those of the clients.
LEMMA ConnectInv == ASSUME NonstopInv, NEW c \in Conns, Connect(c) PROVE NonstopInv'
<1>1. Types'
  BY DEF NonstopInv, Types, Connect, loopVars, clientVars
<1>2. Progress'
  BY ProgressKept DEF NonstopInv, Types, Connect, loopVars, clientVars
<1>3. Seats'
  BY DEF NonstopInv, Types, Seats, Accepted, Connect, loopVars, clientVars
<1> QED BY <1>1, <1>2, <1>3 DEF NonstopInv

\* A client sends: what has been read has still come.
LEMMA SendInv == ASSUME NonstopInv, NEW c \in Conns, Send(c) PROVE NonstopInv'
<1>1. Types'
  BY DEF NonstopInv, Types, Send, loopVars
<1>2. Progress'
  <2>1. \A d \in Conns : sent'[d] \in Nat /\ sent[d] <= sent'[d]
    BY DEF NonstopInv, Types, Send
  <2> QED BY <2>1, ProgressKept DEF Send
<1>3. Seats'
  <2>1. edge' \subseteq Accepted
    BY DEF NonstopInv, Seats, Send, Event
  <2> QED BY <2>1, SeatsKept DEF Send
<1> QED BY <1>1, <1>2, <1>3 DEF NonstopInv

\* A client reads: there is more room.
LEMMA ReceiveInv == ASSUME NonstopInv, NEW c \in Conns, Receive(c) PROVE NonstopInv'
<1>1. Types'
  BY DEF NonstopInv, Types, Receive, loopVars, clientVars
<1>2. Progress'
  BY ProgressKept DEF NonstopInv, Types, Receive, clientVars
<1>3. Seats'
  BY SeatsKept DEF NonstopInv, Seats, Receive
<1> QED BY <1>1, <1>2, <1>3 DEF NonstopInv

\* A client vanishes.
LEMMA VanishInv == ASSUME NonstopInv, NEW c \in Conns, Vanish(c) PROVE NonstopInv'
<1>1. Types'
  BY DEF NonstopInv, Types, Vanish, loopVars
<1>2. Progress'
  BY ProgressKept DEF NonstopInv, Types, Vanish
<1>3. Seats'
  <2>1. edge' \subseteq Accepted
    BY DEF NonstopInv, Seats, Vanish, Event
  <2> QED BY <2>1, SeatsKept DEF Vanish
<1> QED BY <1>1, <1>2, <1>3 DEF NonstopInv

\* Then the loop.
LEMMA WaitInv == ASSUME NonstopInv, Wait PROVE NonstopInv'
<1> DEFINE ready == edge \cup (IF Waiting = {} THEN {} ELSE {Listener})
           n == Min({Cardinality(ready), MAX_CLIENTS})
<1>1. ready \subseteq Conns \cup {Listener} /\ edge \subseteq Conns
  BY DEF NonstopInv, Seats, Accepted
<1>2. n \in Int
  <2>1. IsFiniteSet(ready)
    <3>1. IsFiniteSet(Conns \cup {Listener})
      BY FS_AddElement
    <3> QED BY <1>1, <3>1, FS_Subset
  <2>2. Cardinality(ready) \in Int /\ MAX_CLIENTS \in Int
    BY <2>1, FS_CardinalityType
  <2> HIDE DEF ready
  <2>3. n \in {Cardinality(ready), MAX_CLIENTS}
    BY <2>2, MinTwo
  <2> QED BY <2>2, <2>3
<1> HIDE DEF n
<1>3. PICK s \in [1..n -> ready] :
         /\ events' = [i \in Slots |-> IF i <= n THEN s[i] ELSE events[i]]
         /\ edge' = edge \ Range(s)
  BY DEF Wait, n
<1> HIDE DEF ready
<1>4. events' \in [Slots -> Conns \cup {Listener, None}]
  <2>1. ASSUME NEW i \in Slots
        PROVE  (IF i <= n THEN s[i] ELSE events[i]) \in Conns \cup {Listener, None}
    <3>1. i <= n => i \in 1..n
      BY <1>2 DEF Slots
    <3>2. i <= n => s[i] \in ready
      BY <3>1
    <3> QED BY <1>1, <3>2 DEF NonstopInv, Types
  <2> QED BY <1>3, <2>1
<1>5. Types'
  <2>1. at' \in 0..MAX_CLIENTS
    <3>1. at' = 1
      BY DEF Wait
    <3> QED BY <3>1
  <2> HIDE DEF ready
  <2> QED BY <1>4, <2>1 DEF NonstopInv, Types, Wait, clientVars
<1>6. Progress'
  BY ProgressKept DEF NonstopInv, Types, Wait, clientVars
<1>7. Seats'
  BY <1>3, SeatsKept DEF NonstopInv, Seats, Wait
<1> QED BY <1>5, <1>6, <1>7 DEF NonstopInv

\* A new connection takes a slot, and disturbs whoever had it.
LEMMA AcceptInv == ASSUME NonstopInv, Accept PROVE NonstopInv'
<1>1. PICK c \in Waiting :
        /\ place' = [place EXCEPT ![c] = "accepted"]
        /\ clients' = [clients EXCEPT ![at] = c]
        /\ edge' = IF sent[c] > 0 \/ c \in gone THEN edge \cup {c} ELSE edge
        /\ disturbed' = disturbed \cup ({clients[at]} \ {None})
                                  \cup (IF slot[at] = Fresh THEN {} ELSE {c})
  BY DEF Accept
<1>2. c \in Conns /\ place[c] = "waiting" /\ at \in Slots /\ at # 0
  BY DEF Accept, Waiting, NonstopInv, Types, Slots
<1>3. Types'
  <2>1. at' \in 0..MAX_CLIENTS
    BY AdvanceType DEF Accept
  <2>2. clients' \in [Slots -> Conns \cup {None}]
    BY <1>1, <1>2 DEF NonstopInv, Types
  <2>3. place' \in [Conns -> {"away", "waiting", "accepted", "closed"}]
    BY <1>1, <1>2 DEF NonstopInv, Types
  <2> QED BY <2>1, <2>2, <2>3 DEF NonstopInv, Types, Accept, clientVars
<1>4. Progress'
  BY ProgressKept DEF NonstopInv, Types, Accept, clientVars
<1>5. Seats'
  <2>1. /\ clients \in [Slots -> Conns \cup {None}] /\ clients'[at] = c
        /\ \A i \in Slots : i # at => clients'[i] = clients[i]
    BY <1>1, <1>2 DEF NonstopInv, Types
  <2>2. \A i \in Slots : clients[i] # c
    BY <1>2 DEF NonstopInv, Seats
  <2>3. Accepted' = Accepted \cup {c}
    BY <1>1, <1>2 DEF Accepted, NonstopInv, Types
  <2>4. \A i \in Slots : IF clients'[i] = None THEN slot'[i] = Fresh
                         ELSE place'[clients'[i]] = "accepted"
    BY <1>1, <1>2, <2>1 DEF NonstopInv, Types, Seats, Accept
  <2>5. \A i, j \in Slots : clients'[i] = clients'[j] /\ clients'[i] # None => i = j
    BY <2>1, <2>2 DEF NonstopInv, Seats
  <2>6. edge' \subseteq Accepted'
    BY <1>1, <2>3 DEF NonstopInv, Seats
  <2>7. ASSUME NEW d \in Accepted', d \notin Range(clients') PROVE d \in disturbed'
    <3>1. DOMAIN clients = Slots /\ DOMAIN clients' = Slots
      BY <1>1, <2>1
    <3>2. d # c /\ d \in Accepted /\ d \in Conns
      BY <1>2, <2>1, <2>3, <2>7, <3>1 DEF Range, Accepted
    <3>3. CASE d \in Range(clients)
      <4>1. PICK i \in Slots : clients[i] = d
        BY <3>1, <3>3 DEF Range
      <4>2. i = at
        BY <2>1, <2>7, <3>1, <4>1 DEF Range
      <4> QED BY <1>1, <3>2, <4>1, <4>2
    <3>4. CASE d \notin Range(clients)
      BY <1>1, <3>2, <3>4 DEF NonstopInv, Seats
    <3> QED BY <3>3, <3>4
  <2> QED BY <2>4, <2>5, <2>6, <2>7 DEF Seats
<1> QED BY <1>3, <1>4, <1>5 DEF NonstopInv

\* An empty slot is passed over.
LEMMA SkipInv == ASSUME NonstopInv, Skip PROVE NonstopInv'
<1>1. Types'
  <2>1. at' \in 0..MAX_CLIENTS
    BY AdvanceType DEF Skip
  <2> QED BY <2>1 DEF NonstopInv, Types, Skip, clientVars
<1>2. Progress'
  BY ProgressKept DEF NonstopInv, Types, Skip, clientVars
<1>3. Seats'
  BY SeatsKept DEF NonstopInv, Seats, Skip
<1> QED BY <1>1, <1>2, <1>3 DEF NonstopInv

\* A call and its effects.
LEMMA ServeInv ==
  ASSUME NonstopInv, at # 0, clients[at] # None,
         process_client(at).ret # "exit", Serve(at, process_client(at))
  PROVE  NonstopInv'
<1> DEFINE c == clients[at]
           r == process_client(at)
           over == r.ret # "more"
           last == IF r.ret = "error" /\ Room(c) > 0 THEN <<<<"ERROR", 0>>>> ELSE <<>>
           written == r.out \o last
<1>1. at \in Slots /\ c \in Conns
  BY DEF NonstopInv, Types, Slots
<1>2. Connected(c) /\ Fits(r, c)
  BY <1>1, ProcessFits
<1> HIDE DEF r
<1>3. r \in CallType /\ r.s \in SlotType /\ ReadsOnly(r.read, c) /\ r.read \in Nat
  BY <1>2 DEF Fits, CallType, ReadsOnly
<1>4. /\ files' = r.files /\ errno' = r.errno /\ alive' = TRUE /\ at' \in 0..MAX_CLIENTS
      /\ taken' = [taken EXCEPT ![c] = r.read]
      /\ unread' = [unread EXCEPT ![c] = IF c \in gone THEN unread[c]
                                         ELSE unread[c] + Len(written)]
      /\ slot' = [slot EXCEPT ![at] = Left(r)]
      /\ clients' = [clients EXCEPT ![at] = IF over THEN None ELSE c]
      /\ events' = [events EXCEPT ![at] = IF over THEN None ELSE events[at]]
      /\ place' = [place EXCEPT ![c] = IF over THEN "closed" ELSE place[c]]
      /\ edge' = IF over THEN edge \ {c} ELSE edge
      /\ directory' = directory /\ request' = request /\ sent' = sent /\ gone' = gone
      /\ disturbed' = disturbed
  BY AdvanceType DEF Serve, clientVars, r
<1>5. Left(r) \in SlotType /\ Coherent(Left(r)) /\ (over => Left(r) = Fresh)
  BY <1>2, <1>3, FreshIsCoherent DEF Left, Fits
<1>6. c \notin gone => unread[c] + Len(written) \in 0..Capacity
  <2>1. unread[c] \in 0..Capacity /\ (c \notin gone => Room(c) = Capacity - unread[c])
    BY <1>2 DEF Connected, Room
  <2>2. Room(c) \in Nat
    BY <1>2, Measures
  <2>3. r.out \in Seq(Piece) /\ Len(r.out) <= Room(c) /\ (r.ret = "error" => r.out = <<>>)
    BY <1>2, <1>3 DEF Fits, CallType
  <2>4. Len(written) \in Nat /\ Len(written) <= Room(c)
    <3>1. CASE r.ret = "error" /\ Room(c) > 0
      <4> DEFINE e == <<"ERROR", 0>>
      <4>1. last = <<e>> /\ r.out = <<>>
        BY <2>3, <3>1
      <4> HIDE DEF e, last
      <4>2. <<e>> \in Seq({e}) /\ Len(<<e>>) = 1
        OBVIOUS
      <4>3. <<>> \o <<e>> = <<e>>
        BY <4>2, ConcatEmptySeq
      <4>4. written = <<e>>
        BY <4>1, <4>3
      <4> QED BY <2>2, <3>1, <4>2, <4>4
    <3>2. CASE ~(r.ret = "error" /\ Room(c) > 0)
      <4>1. last = <<>>
        BY <3>2
      <4> HIDE DEF last
      <4>2. written = r.out
        BY <2>3, <4>1, ConcatEmptySeq
      <4> QED BY <2>3, <4>2
    <3> QED BY <3>1, <3>2
  <2> HIDE DEF written
  <2> QED BY <2>1, <2>2, <2>4
<1> HIDE DEF written, over
<1>7. Types'
  <2>1. alive' \in BOOLEAN
    BY <1>4, Zenon
  <2>2. errno' \in BOOLEAN /\ files' \in [Files -> Seq(Piece)]
    BY <1>3, <1>4 DEF CallType
  <2>3. events' \in [Slots -> Conns \cup {Listener, None}]
    BY <1>1, <1>4 DEF NonstopInv, Types
  <2>4. clients' \in [Slots -> Conns \cup {None}] /\ slot' \in [Slots -> SlotType]
    BY <1>1, <1>4, <1>5 DEF NonstopInv, Types
  <2>5. place' \in [Conns -> {"away", "waiting", "accepted", "closed"}]
    BY <1>1, <1>4 DEF NonstopInv, Types
  <2>6. taken' \in [Conns -> Nat]
    BY <1>1, <1>3, <1>4 DEF NonstopInv, Types
  <2>7. unread' \in [Conns -> 0..Capacity]
    <3>1. unread \in [Conns -> 0..Capacity]
      BY DEF NonstopInv, Types
    <3>2. (IF c \in gone THEN unread[c] ELSE unread[c] + Len(written)) \in 0..Capacity
      BY <1>1, <1>6, <3>1
    <3> QED BY <1>1, <1>4, <3>1, <3>2
  <2>8. request' \in Workloads /\ directory' \in BOOLEAN /\ sent' \in [Conns -> Nat]
    BY <1>4 DEF NonstopInv, Types
  <2> QED BY <1>4, <2>1, <2>2, <2>3, <2>4, <2>5, <2>6, <2>7, <2>8 DEF Types
<1>8. Progress'
  <2>1. \A d \in Conns : Stream(d)' = Stream(d)
    BY <1>4 DEF Stream
  <2>2. \A d \in Conns : ReadsOnly(taken'[d], d)
    BY <1>1, <1>3, <1>4 DEF NonstopInv, Types, Progress
  <2>3. \A d \in Conns : ReadsOnly(taken[d], d)'
    BY <1>4, <2>1, <2>2 DEF ReadsOnly
  <2>4. \A i \in Slots : Coherent(slot'[i])
    BY <1>1, <1>4, <1>5 DEF NonstopInv, Types, Progress
  <2>5. \A i \in Slots : Coherent(slot[i])'
    BY <1>4, <2>4 DEF Coherent
  <2> QED BY <2>3, <2>5 DEF Progress
<1>9. Seats'
  <2>1. /\ clients \in [Slots -> Conns \cup {None}] /\ place[c] = "accepted"
        /\ place \in [Conns -> {"away", "waiting", "accepted", "closed"}]
        /\ slot \in [Slots -> SlotType]
    BY <1>1 DEF NonstopInv, Types, Seats
  <2>2. \A i \in Slots \ {at} : clients'[i] = clients[i] /\ slot'[i] = slot[i] /\ clients[i] # c
    BY <1>1, <1>4, <2>1 DEF NonstopInv, Seats
  <2>3. \A d \in Conns \ {c} : place'[d] = place[d]
    BY <1>1, <1>4, <2>1
  <2>4. /\ clients'[at] = IF over THEN None ELSE c
        /\ slot'[at] = Left(r)
        /\ place'[c] = IF over THEN "closed" ELSE "accepted"
    BY <1>1, <1>4, <2>1
  <2>5. ASSUME NEW i \in Slots
        PROVE  IF clients'[i] = None THEN slot'[i] = Fresh ELSE place'[clients'[i]] = "accepted"
    <3>1. CASE i = at
      BY <1>1, <1>5, <2>4, <3>1
    <3>2. CASE i # at
      <4>1. clients'[i] = clients[i] /\ slot'[i] = slot[i] /\ clients[i] # c
        BY <2>2, <3>2
      <4>2. clients[i] \in Conns \cup {None}
        BY <2>1
      <4> QED BY <2>3, <4>1, <4>2 DEF NonstopInv, Seats
    <3> QED BY <3>1, <3>2
  <2>6. \A i, j \in Slots : clients'[i] = clients'[j] /\ clients'[i] # None => i = j
    BY <2>2, <2>4 DEF NonstopInv, Seats
  <2>7. Accepted' = IF over THEN Accepted \ {c} ELSE Accepted
    BY <1>1, <2>1, <2>3, <2>4 DEF Accepted
  <2>8. edge' \subseteq Accepted'
    BY <1>4, <2>7 DEF NonstopInv, Seats
  <2>9. ASSUME NEW d \in Accepted', d \notin Range(clients') PROVE d \in disturbed'
    <3>1. DOMAIN clients = Slots /\ DOMAIN clients' = Slots
      BY <1>4, <2>1
    <3>2. d \in Accepted
      BY <2>7
    <3>3. d \notin Range(clients)
      <4> SUFFICES ASSUME NEW i \in Slots, clients[i] = d PROVE FALSE
        BY <3>1 DEF Range
      <4>1. clients'[i] # d
        BY <2>9, <3>1 DEF Range
      <4>2. i = at /\ over
        BY <2>2, <2>4, <4>1
      <4>3. d = c
        BY <4>2
      <4> QED BY <2>7, <4>2, <4>3
    <3> QED BY <1>4, <3>2, <3>3 DEF NonstopInv, Seats
  <2> QED BY <2>5, <2>6, <2>8, <2>9 DEF Seats
<1> QED BY <1>7, <1>8, <1>9 DEF NonstopInv

\* The process may end at a call, or be interrupted.
LEMMA EndInv ==
  ASSUME NonstopInv, alive' = FALSE, directory' \in BOOLEAN,
         files' \in [Files -> Seq(Piece)],
         UNCHANGED <<loopVars, clients, slot, errno, place, edge, clientVars, taken, out,
                     unread, disturbed>>
  PROVE  NonstopInv'
<1>1. Types'
  <2>1. alive' \in BOOLEAN
    BY Zenon
  <2> QED BY <2>1 DEF NonstopInv, Types, loopVars, clientVars
<1>2. Progress'
  BY ProgressKept DEF NonstopInv, Types, clientVars
<1>3. Seats'
  BY SeatsKept DEF NonstopInv, Seats
<1> QED BY <1>1, <1>2, <1>3 DEF NonstopInv

\* A slot is served, or the process ends at it.
LEMMA ProcessInv == ASSUME NonstopInv, Process PROVE NonstopInv'
<1> DEFINE r == process_client(at)
<1>1. at \in Slots /\ at # 0 /\ clients[at] # None
  BY DEF NonstopInv, Types, Process, Slots
<1>2. files \in [Files -> Seq(Piece)] /\ r.files \in [Files -> Seq(Piece)]
  <2>1. r \in CallType
    BY <1>1, ProcessFits DEF Fits
  <2> HIDE DEF r
  <2> QED BY <2>1 DEF NonstopInv, Types, CallType
<1>3. r.ret # "exit" /\ Serve(at, r) => NonstopInv'
  BY <1>1, ServeInv
<1>4. Die /\ files' \in {files, r.files} => NonstopInv'
  BY <1>2, EndInv DEF Die, NonstopInv, Types
<1>5. \/ r.ret # "exit" /\ Serve(at, r)
      \/ Die /\ files' \in {files, r.files}
  BY DEF Process
<1> QED BY <1>3, <1>4, <1>5

\* SIGINT.
LEMMA InterruptInv == ASSUME NonstopInv, Interrupt PROVE NonstopInv'
<1>1. files' \in [Files -> Seq(Piece)]
  <2>1. <<>> \in Seq(Piece)
    OBVIOUS
  <2> QED BY <2>1 DEF Interrupt
<1>2. directory' \in BOOLEAN
  BY DEF Interrupt, NonstopInv, Types
<1> QED BY <1>1, <1>2, EndInv DEF Interrupt

\* Every step keeps the invariant.
LEMMA NextInv == NonstopInv /\ [Next]_vars => NonstopInv'
<1> SUFFICES ASSUME NonstopInv, [Next]_vars PROVE NonstopInv'
  OBVIOUS
<1>1. CASE \E c \in Conns : Connect(c) \/ Send(c) \/ Receive(c) \/ Vanish(c)
  BY <1>1, ConnectInv, SendInv, ReceiveInv, VanishInv
<1>2. CASE Wait \/ Accept \/ Skip \/ Process \/ Interrupt
  BY <1>2, WaitInv, AcceptInv, SkipInv, ProcessInv, InterruptInv
<1>3. CASE UNCHANGED vars
  <2>1. Types'
    BY <1>3 DEF NonstopInv, Types, vars, loopVars, clientVars
  <2>2. Progress'
    BY <1>3, ProgressKept DEF NonstopInv, Types, vars, clientVars
  <2>3. Seats'
    BY <1>3, SeatsKept DEF NonstopInv, Seats, vars
  <2> QED BY <2>1, <2>2, <2>3 DEF NonstopInv
<1> QED BY <1>1, <1>2, <1>3 DEF Next

\* The types, and whose the slots are, for any number of clients and slots,
\* requests and files: each connection in at most one slot, open and not yet
\* answered, emptied slots ready for the next one, nothing read that has not
\* come and nothing written that does not fit; and a connection that has been
\* accepted loses its slot only when another one is put there (server.c:296-357).
THEOREM SlotsAreServed == Spec => []SlotsServed
<1>1. Init => NonstopInv
  BY InitInv
<1>2. NonstopInv /\ [Next]_vars => NonstopInv'
  BY NextInv
<1>3. NonstopInv => SlotsServed
  BY InvImplies
<1> QED BY <1>1, <1>2, <1>3, PTL DEF Spec

-----------------------------------------------------------------------------
(***************************************************************************)
(* What each client is told, and what it sees of the files.                *)
(***************************************************************************)
Error == <<"ERROR", 0>>

\* The first pieces of c's data.
Begun(c, m) == [k \in 1..m |-> <<c, k>>]

\* A reply: "OK", the size and the body.
Answer(body) == <<<<"OK", 0>>, <<"size", Len(body)>>>> \o body

\* The pieces of a reply that a slot remembers to have written.
Count(s) == (IF s.replied THEN 1 ELSE 0) + (IF s.sizeDone THEN 1 ELSE 0) + s.index

\* The data a slot holds for a PUT is as long as its index says, and not empty
\* when it is complete.
Full(s) ==
    s.args \in Conns /\ request[s.args].verb = "PUT" /\ s.sizeDone /\ s.size # Huge
    => \E d \in Seq(Piece) : s.data = {d} /\ IF s.index = -1 THEN d # <<>>
                                             ELSE Len(d) = s.index

\* How a slot stands to its connection c when nobody has disturbed it, o written
\* to c so far and n pieces read: nothing is written before the command is
\* known; of GET and LIST as much as the slot says, and all that one call can
\* write if anything; a PUT or a DELETE is answered when it ends.  A PUT's data
\* is what c has sent.
Tale(s, c, o, n) ==
    /\ o \in Seq(Piece) /\ s.args \in {None, c}
    /\ s.args = None => o = <<>> /\ ~s.replied
    /\ s.args = c =>
         /\ Verb(c) \in {"GET", "LIST"} =>
              /\ Len(o) = Count(s) /\ (Len(o) = 0 \/ Len(o) >= Capacity)
              /\ Verb(c) = "LIST" /\ s.data = {} => o = <<>>
         /\ Verb(c) = "PUT" =>
              /\ o = <<>> /\ s.index # -1
              /\ n = request[c].head + (IF s.sizeDone THEN 1 + s.index ELSE 0)
              /\ s.sizeDone => s.size = request[c].size /\ s.data = {Begun(c, s.index)}
         /\ Verb(c) = "DELETE" => o = <<>> /\ s.index = 0

\* What a call's command does to the slot and the files, whoever's it is.
Keeps(e, r) ==
    /\ e.s.args = r.s.args /\ Full(e.s) /\ e.read >= r.read
    /\ \A f \in Files :
         e.files[f] # r.files[f]
         => /\ r.s.args \in Conns /\ request[r.s.args].file = f
            /\ \/ request[r.s.args].verb = "DELETE" /\ e.files[f] = <<>>
               \/ request[r.s.args].verb = "PUT" /\ e.files[f] # <<>>

\* What a call tells c, undisturbed, to whom o has been written before.
Tells(e, r, c, o) ==
    LET q == request[c]
        was == r.files[q.file]
    IN  /\ e.ret = "more" => Tale(e.s, c, o \o e.out, e.read)
        /\ e.ret = "error" /\ o # <<>> =>
             q.verb = "GET" /\ was = <<>> /\ Len(o) >= Capacity
        /\ q.verb = "GET" /\ o = <<>> /\ e.out # <<>> =>
             /\ was # <<>>
             /\ e.out = SubSeq(Answer(was), 1, Min({Capacity, Len(Answer(was))}))
        /\ e.ret = "more" /\ sent[c] = Len(Stream(c)) =>
             \/ Len(o \o e.out) >= Capacity
             \/ q.verb = "PUT" /\ (q.sends < q.size \/ q.size = 0)
        /\ q.verb = "PUT" => e.files[q.file] \in {was, Upload(c)}

\* Writing starts with all the room there is.
Ready(r, c, o) ==
    /\ Connected(c) /\ Called(r, c) /\ Tale(r.s, c, o, r.read) /\ r.s.args = c
    /\ o = <<>> => Room(c) = Capacity

\* How far a reply has been written after this call.
Upto(r, c, body) == Max({Count(r.s), Min({Len(Answer(body)), Count(r.s) + Room(c)})})

\* The parts of a reply.
Replies(e, r, all, upto) ==
    /\ e.files = r.files /\ e.read = r.read /\ e.ret \in {"more", "done"}
    /\ e.out = SubSeq(all, Count(r.s) + 1, upto) /\ all \in Seq(Piece)
    /\ Count(r.s) \in Nat /\ upto \in Nat /\ upto >= Count(r.s)
    /\ e.ret = "more" => upto # Len(all)
    /\ e.s.args = r.s.args /\ e.s.data = r.s.data
    /\ Count(e.s) = upto /\ Len(e.out) = upto - Count(r.s)

\* A reply, from where the last call stopped: what its parts are.
LEMMA ReplyParts ==
  ASSUME NEW c, Connected(c), NEW r, Called(r, c), NEW body \in Seq(Piece), r.s.index >= 0
  PROVE  Replies(Reply(r, c, body), r, Answer(body), Upto(r, c, body))
<1> DEFINE t == r.s
           all == Answer(body)
           done == Count(t)
           least == Min({Len(all), done + Room(c)})
           upto == Max({done, least})
           rest == Max({0, upto - 2})
           left == [t EXCEPT !.replied = upto >= 1, !.sizeDone = upto >= 2, !.index = rest]
           a == [r EXCEPT !.out = SubSeq(all, done + 1, upto), !.s = left,
                          !.errno = @ \/ upto < Len(all),
                          !.ret = IF upto = Len(all) THEN "done" ELSE "more"]
<1>1. r \in CallType /\ t \in SlotType /\ Room(c) \in Nat
  BY Measures DEF Called, CallType
<1>2. done \in Nat
  BY <1>1 DEF SlotType, Count
<1>3. all \in Seq(Piece) /\ Len(all) \in Nat
  <2>1. Len(body) \in Nat
    OBVIOUS
  <2>2. <<"OK", 0>> \in Piece /\ <<"size", Len(body)>> \in Piece
    BY <2>1 DEF Piece, Words
  <2>3. <<<<"OK", 0>>, <<"size", Len(body)>>>> \in Seq(Piece)
    BY <2>2
  <2> QED BY <2>3, ConcatProperties DEF Answer
<1>4. Reply(r, c, body) = a
  BY DEF Reply, Answer, Count
<1> HIDE DEF t, all, done
<1>5. least \in Int /\ least <= Len(all) /\ least <= done + Room(c)
  <2> DEFINE x == Len(all)
             y == done + Room(c)
  <2>1. x \in Int /\ y \in Int
    BY <1>1, <1>2, <1>3
  <2> HIDE DEF x, y
  <2>2. Min({x, y}) \in {x, y} /\ Min({x, y}) <= x /\ Min({x, y}) <= y
    BY <2>1, MinTwo
  <2> QED BY <2>1, <2>2 DEF x, y
<1> HIDE DEF least
<1>6. upto \in {done, least} /\ upto >= done /\ upto \in Nat
  <2>1. upto \in {done, least} /\ upto >= done
    BY <1>2, <1>5, MaxTwo
  <2> HIDE DEF upto
  <2> QED BY <1>2, <1>5, <2>1
<1> HIDE DEF upto
<1>7. rest \in Int /\ (upto >= 2 => rest = upto - 2) /\ (upto < 2 => rest = 0)
  <2> DEFINE z == upto - 2
  <2>1. 0 \in Int /\ z \in Int
    BY <1>6
  <2> HIDE DEF z
  <2>2. Max({0, z}) \in {0, z} /\ Max({0, z}) >= 0 /\ Max({0, z}) >= z
    BY <2>1, MaxTwo
  <2>3. rest = Max({0, z})
    BY DEF z
  <2> HIDE DEF rest
  <2> QED BY <1>6, <2>1, <2>2, <2>3 DEF z
<1> HIDE DEF rest
<1>8. /\ left.args = t.args /\ left.data = t.data /\ left.index = rest
      /\ left.replied = (upto >= 1) /\ left.sizeDone = (upto >= 2)
  BY <1>1 DEF SlotType
<1> HIDE DEF left
<1>9. Count(left) = upto
  <2>1. (left.replied <=> upto >= 1) /\ (left.sizeDone <=> upto >= 2)
    BY <1>8
  <2>2. (IF left.replied THEN 1 ELSE 0) = IF upto >= 1 THEN 1 ELSE 0
    BY <2>1
  <2>3. (IF left.sizeDone THEN 1 ELSE 0) = IF upto >= 2 THEN 1 ELSE 0
    BY <2>1
  <2> QED BY <1>6, <1>7, <1>8, <2>2, <2>3 DEF Count
<1>10. /\ a.files = r.files /\ a.read = r.read /\ a.s = left
       /\ a.out = SubSeq(all, done + 1, upto)
       /\ a.ret = IF upto = Len(all) THEN "done" ELSE "more"
  BY <1>1 DEF CallType
<1>11. Len(a.out) = upto - done
  <2>1. \A i \in done + 1 .. upto : all[i] \in Piece
    BY <1>2, <1>3, <1>5, <1>6
  <2>2. Len(SubSeq(all, done + 1, upto)) = IF done + 1 <= upto THEN upto - (done + 1) + 1 ELSE 0
    BY <1>2, <1>6, <2>1, SubSeqProperties
  <2> QED BY <1>2, <1>6, <1>10, <2>2
<1> HIDE DEF a
<1> QED BY <1>2, <1>3, <1>4, <1>6, <1>8, <1>9, <1>10, <1>11
        DEF t, all, done, least, upto, Upto, Replies

\* The least room is all there is.
LEMMA FirstRoom ==
  ASSUME NEW n \in Nat, NEW room \in Nat
  PROVE  /\ Min({Capacity, n}) = Max({0, Min({n, 0 + room})}) \/ room # Capacity
         /\ Min({Capacity, n}) \in {Capacity, n}
         /\ Min({Capacity, n}) <= Capacity /\ Min({Capacity, n}) <= n
<1>1. Capacity \in Int /\ n \in Int /\ {n, Capacity} = {Capacity, n} /\ 0 + room = room
  OBVIOUS
<1> DEFINE m == Min({Capacity, n})
<1>2. m \in {Capacity, n} /\ m <= Capacity /\ m <= n
  BY <1>1, MinTwo
<1> HIDE DEF m
<1>3. Max({0, m}) \in {0, m} /\ Max({0, m}) >= 0 /\ Max({0, m}) >= m
  <2>1. 0 \in Int /\ m \in Int
    BY <1>1, <1>2
  <2> QED BY <2>1, MaxTwo
<1>4. Max({0, m}) = m
  <2> DEFINE x == Max({0, m})
  <2>1. x \in {0, m} /\ x >= 0 /\ x >= m /\ m >= 0 /\ m \in Int
    BY <1>1, <1>2, <1>3
  <2> HIDE DEF x
  <2> QED BY <2>1 DEF x
<1>5. room = Capacity => Min({n, 0 + room}) = m
  BY <1>1 DEF m
<1> QED BY <1>2, <1>4, <1>5 DEF m

\* What c is told by a reply, all of which is all.
Answers(e, r, c, o, all) ==
    /\ e.ret \in {"more", "done"} /\ e.files = r.files /\ e.read = r.read
    /\ e.s.args = c /\ e.s.data = r.s.data
    /\ e.ret = "more" => Tale(e.s, c, o \o e.out, e.read) /\ Len(o \o e.out) >= Capacity
    /\ o = <<>> => e.out = SubSeq(all, 1, Min({Capacity, Len(all)}))

\* What a reply tells c, at its first call and later.
LEMMA ReplyTells ==
  ASSUME NEW c, NEW r, NEW o, Ready(r, c, o), Verb(c) \in {"GET", "LIST"},
         NEW body \in Seq(Piece), Verb(c) = "LIST" => r.s.data # {}
  PROVE  Answers(Reply(r, c, body), r, c, o, Answer(body))
<1> DEFINE e == Reply(r, c, body)
           all == Answer(body)
           done == Count(r.s)
           upto == Upto(r, c, body)
<1>1. /\ c \in Conns /\ Connected(c) /\ Called(r, c) /\ r.s.args = c
      /\ o \in Seq(Piece) /\ Len(o) = done /\ (Len(o) = 0 \/ Len(o) >= Capacity)
      /\ o = <<>> => Room(c) = Capacity
  BY DEF Ready, Tale, Connected
<1>2. r.s.index >= 0
  BY <1>1 DEF Called, Coherent, Verb
<1>3. /\ e.files = r.files /\ e.read = r.read /\ e.ret \in {"more", "done"}
      /\ e.out = SubSeq(all, done + 1, upto) /\ all \in Seq(Piece)
      /\ done \in Nat /\ upto \in Nat /\ upto >= done
      /\ e.ret = "more" => upto # Len(all)
      /\ e.s.args = c /\ e.s.data = r.s.data
      /\ Count(e.s) = upto /\ Len(e.out) = upto - done
  <2>1. Replies(e, r, all, upto)
    BY <1>1, <1>2, ReplyParts
  <2> HIDE DEF e, all, upto
  <2> QED BY <1>1, <2>1 DEF Replies
<1>4. e.out \in Seq(Piece)
  <2>1. e.ret # "error" /\ Fits(e, c)
    BY <1>1, <1>2, <1>3, ReplyFits DEF Verb
  <2> QED BY <2>1 DEF Fits, CallType
<1>5. Len(all) \in Nat /\ Room(c) \in Nat
  BY <1>1, <1>3, Measures
<1>6. done = 0 => upto = Min({Capacity, Len(all)})
  <2>1. done = 0 => Room(c) = Capacity
    BY <1>1
  <2>2. done = 0 => upto = Max({0, Min({Len(all), 0 + Room(c)})})
    BY DEF Upto
  <2> QED BY <1>5, <2>1, <2>2, FirstRoom
<1>7. done = 0 => upto \in {Capacity, Len(all)}
  BY <1>5, <1>6, FirstRoom
<1> HIDE DEF e, all, done, upto
<1>8. o \o e.out \in Seq(Piece) /\ Len(o \o e.out) = upto
  <2>1. Len(o \o e.out) = Len(o) + Len(e.out) /\ o \o e.out \in Seq(Piece)
    BY <1>1, <1>4, ConcatProperties
  <2>2. Len(o) = done /\ Len(e.out) = upto - done /\ done \in Nat /\ upto \in Nat
    BY <1>1, <1>3
  <2> QED BY <2>1, <2>2
<1>9. e.ret = "more" => upto >= Capacity
  BY <1>1, <1>3, <1>7
<1>10. e.ret = "more" => Tale(e.s, c, o \o e.out, e.read)
  <2> SUFFICES ASSUME e.ret = "more" PROVE Tale(e.s, c, o \o e.out, e.read)
    OBVIOUS
  <2> DEFINE p == o \o e.out
  <2>1. /\ p \in Seq(Piece) /\ e.s.args = c /\ e.s.args # None /\ Len(p) = Count(e.s)
        /\ Len(p) >= Capacity /\ (Verb(c) = "LIST" => e.s.data # {})
    BY <1>1, <1>3, <1>8, <1>9
  <2> HIDE DEF p
  <2>2. Tale(e.s, c, p, e.read)
    BY <2>1 DEF Tale
  <2> QED BY <2>2 DEF p
<1>11. o = <<>> => e.out = SubSeq(all, 1, Min({Capacity, Len(all)}))
  <2>1. o = <<>> => done = 0 /\ done + 1 = 1
    BY <1>1
  <2> QED BY <1>3, <1>6, <2>1
<1> QED BY <1>3, <1>8, <1>9, <1>10, <1>11 DEF e, all, Answers

\* A call that has failed, and why it changes nothing but errno.
LEMMA FailedIs ==
  ASSUME NEW r \in CallType
  PROVE  \A e \in {Failed(r), Failed([r EXCEPT !.errno = TRUE])} :
            /\ e.ret = "error" /\ e.s = r.s /\ e.files = r.files /\ e.read = r.read
            /\ e.out = r.out
BY DEF Failed, CallType

\* GET and LIST change no file and keep to their command.
LEMMA ReaderKeeps ==
  ASSUME NEW e, NEW r, r.s.args \in Conns, r \in CallType,
         request[r.s.args].verb \in {"GET", "LIST"},
         e.s.args = r.s.args, e.files = r.files, e.read = r.read
  PROVE  Keeps(e, r)
BY DEF Keeps, Full, CallType

\* The copy of a file that a GET replies with when it has k pieces of it.
Buffer(b, k) == [j \in 1..Len(b) |-> b[IF j > k THEN j - k ELSE j]]

\* It is the file at the first call.
LEMMA BufferIs ==
  ASSUME NEW b \in Seq(Piece), NEW k \in Int, k >= 0
  PROVE  Buffer(b, k) \in Seq(Piece) /\ (k = 0 => Buffer(b, k) = b)
<1> DEFINE buffer == [j \in 1..Len(b) |-> b[IF j > k THEN j - k ELSE j]]
<1>1. \A j \in 1..Len(b) : (IF j > k THEN j - k ELSE j) \in 1..Len(b)
  OBVIOUS
<1>2. buffer \in [1..Len(b) -> Piece]
  BY <1>1
<1>3. Len(b) \in Nat
  OBVIOUS
<1>4. buffer \in Seq(Piece) /\ Len(buffer) = Len(b)
  BY <1>2, <1>3, SeqDef
<1>5. k = 0 => \A j \in 1..Len(b) : buffer[j] = b[j]
  OBVIOUS
<1> HIDE DEF buffer
<1>6. k = 0 => buffer = b
  BY <1>4, <1>5, SeqEqual
<1> QED BY <1>4, <1>6 DEF buffer, Buffer

\* GET.
LEMMA GetTells ==
  ASSUME NEW c, NEW r, Connected(c), Called(r, c), r.s.args \in Conns,
         NEW f \in Files, f = request[r.s.args].file, request[r.s.args].verb = "GET"
  PROVE  /\ Keeps(server_get(r, c, f), r)
         /\ \A o : Ready(r, c, o) => Tells(server_get(r, c, f), r, c, o)
<1> DEFINE k == r.s.index
           b == r.files[f]
           buffer == Buffer(b, k)
           failed == Failed([r EXCEPT !.errno = TRUE])
           e == Reply(r, c, buffer)
<1>1. b \in Seq(Piece) /\ k \in Int /\ k >= 0 /\ r \in CallType /\ r.out = <<>>
  BY DEF Called, CallType, SlotType, Coherent
<1>2. buffer \in Seq(Piece) /\ (k = 0 => buffer = b)
  BY <1>1, BufferIs
<1>3. server_get(r, c, f) = IF b = <<>> THEN failed ELSE e
  BY DEF server_get, Buffer
<1>4. /\ failed.ret = "error" /\ failed.s = r.s /\ failed.files = r.files
      /\ failed.read = r.read /\ failed.out = <<>>
  BY <1>1, FailedIs
<1> HIDE DEF buffer, failed
<1>5. Replies(e, r, Answer(buffer), Upto(r, c, buffer))
  BY <1>1, <1>2, ReplyParts
<1> HIDE DEF e
<1>6. Keeps(server_get(r, c, f), r)
  <2>1. Keeps(failed, r) /\ Keeps(e, r)
    <3>1. failed.s.args = r.s.args /\ e.s.args = r.s.args /\ e.files = r.files /\ e.read = r.read
      BY <1>4, <1>5 DEF Replies
    <3> QED BY <1>1, <1>4, <3>1, ReaderKeeps
  <2> QED BY <1>3, <2>1
<1>7. ASSUME NEW o, Ready(r, c, o) PROVE Tells(server_get(r, c, f), r, c, o)
  <2>1. /\ r.s.args = c /\ o \in Seq(Piece) /\ c \in Conns /\ Verb(c) = "GET"
        /\ Len(o) = Count(r.s) /\ (Len(o) = 0 \/ Len(o) >= Capacity)
        /\ f = request[c].file
    BY <1>7 DEF Ready, Tale, Verb
  <2>2. o # <<>> => Len(o) >= Capacity
    BY <2>1, EmptySeq
  <2>3. CASE b = <<>>
    BY <1>3, <1>4, <2>1, <2>2, <2>3 DEF Tells, Verb
  <2>4. CASE b # <<>>
    <3>1. Answers(e, r, c, o, Answer(buffer))
      <4>1. Verb(c) \in {"GET", "LIST"} /\ Verb(c) # "LIST"
        BY <2>1
      <4> QED BY <1>2, <1>7, <4>1, ReplyTells DEF e
    <3>2. o = <<>> => buffer = b
      <4>1. o = <<>> => Count(r.s) = 0
        BY <2>1
      <4>2. o = <<>> => k = 0
        BY <4>1, <1>1 DEF Count
      <4> QED BY <1>2, <4>2
    <3> HIDE DEF b, k
    <3>3. e.ret # "error" /\ request[c].verb = "GET" /\ b = r.files[request[c].file]
      BY <2>1, <3>1 DEF Verb, b, Answers
    <3>4. Tells(e, r, c, o)
      BY <2>4, <3>1, <3>2, <3>3 DEF Tells, Answers
    <3> QED BY <1>3, <2>4, <3>4
  <2> QED BY <2>3, <2>4
<1> QED BY <1>6, <1>7

\* The names a LIST replies with, and its call once it has them.
Names(fs) ==
    LET stored == SetToSeq({f \in Files : fs[f] # <<>>})
    IN  [k \in 1..Len(stored) |-> <<"name", stored[k]>>]
Listing(r) == [r EXCEPT !.s.data = {Names(r.files)}]

\* The names are pieces, and the call is a call with them.
LEMMA ListingCalled ==
  ASSUME NEW c, NEW r, Called(r, c), r.s.args \in Conns,
         request[r.s.args].verb = "LIST"
  PROVE  /\ Names(r.files) \in Seq(Piece) /\ Called(Listing(r), c) /\ r.s.index >= 0
         /\ Listing(r).s.args = r.s.args /\ Listing(r).s.index = r.s.index
         /\ Listing(r).s.data = {Names(r.files)} /\ Count(Listing(r).s) = Count(r.s)
         /\ Listing(r).files = r.files /\ Listing(r).read = r.read
<1> DEFINE S == {f \in Files : r.files[f] # <<>>}
           stored == SetToSeq(S)
           names == Names(r.files)
           listed == Listing(r)
<1>1. stored \in [1..Cardinality(S) -> S] /\ Cardinality(S) \in Nat
  <2>1. IsFiniteSet(S)
    BY FS_Subset
  <2>2. Cardinality(S) \in Nat /\ ExistsBijection(1..Cardinality(S), S)
    BY <2>1, FS_CardinalityType
  <2>3. \E b \in [1..Cardinality(S) -> S] : IsInjective(b)
    BY <2>2 DEF ExistsBijection, Bijection, Injection
  <2> HIDE DEF S
  <2> QED BY <2>2, <2>3 DEF SetToSeq
<1>2. names \in Seq(Piece)
  <2>1. Len(stored) = Cardinality(S)
    BY <1>1
  <2>2. \A k \in 1..Len(stored) : <<"name", stored[k]>> \in Piece
    BY <1>1, <2>1 DEF Piece, Words
  <2>3. names \in [1..Len(stored) -> Piece]
    BY <2>2 DEF Names
  <2>4. Len(stored) \in Nat
    BY <1>1, <2>1
  <2> HIDE DEF names, stored
  <2> QED BY <2>3, <2>4, SeqDef
<1> HIDE DEF S, stored, names
<1>3. r \in CallType /\ r.s \in SlotType /\ r.s.index >= 0
  BY DEF Called, CallType, Coherent
<1>4. /\ listed.s \in SlotType /\ listed.s.args = r.s.args /\ listed.s.index = r.s.index
      /\ listed.s.replied = r.s.replied /\ listed.s.sizeDone = r.s.sizeDone
      /\ listed.s.data = {names}
  BY <1>2, <1>3 DEF CallType, SlotType, Listing, names
<1>5. /\ listed \in CallType /\ listed.out = r.out /\ listed.ret = r.ret
      /\ listed.read = r.read /\ listed.files = r.files
  BY <1>3, <1>4 DEF CallType, Listing
<1>6. Called(listed, c)
  BY <1>4, <1>5 DEF Called, Coherent
<1>7. Count(listed.s) = Count(r.s)
  BY <1>4 DEF Count
<1> HIDE DEF listed
<1> QED BY <1>2, <1>3, <1>4, <1>5, <1>6, <1>7 DEF names, listed

\* LIST.
LEMMA ListTells ==
  ASSUME NEW c, NEW r, Connected(c), Called(r, c), r.s.args \in Conns,
         request[r.s.args].verb = "LIST"
  PROVE  /\ Keeps(server_list(r, c), r)
         /\ \A o : Ready(r, c, o) => Tells(server_list(r, c), r, c, o)
<1> DEFINE names == Names(r.files)
           listed == Listing(r)
           known == CHOOSE d \in r.s.data : TRUE
           failed == Failed(r)
           again == Reply(r, c, known)
           first == Reply(listed, c, names)
<1>1. r \in CallType /\ r.s \in SlotType /\ r.out = <<>>
  BY DEF Called, CallType
<1>2. /\ names \in Seq(Piece) /\ Called(listed, c) /\ r.s.index >= 0
      /\ listed.s.args = r.s.args /\ listed.s.index = r.s.index
      /\ listed.s.data = {names} /\ Count(listed.s) = Count(r.s)
      /\ listed.files = r.files /\ listed.read = r.read
  BY ListingCalled
<1>3. server_list(r, c) = IF r.s.data # {} THEN again ELSE IF r.errno THEN failed ELSE first
  BY DEF server_list, Names, Listing
<1>4. /\ failed.ret = "error" /\ failed.s = r.s /\ failed.files = r.files
      /\ failed.read = r.read /\ failed.out = <<>>
  BY <1>1, FailedIs
<1>5. r.s.data # {} => known \in Seq(Piece)
  BY <1>1 DEF SlotType
<1> HIDE DEF names, listed, known, failed
<1>6. /\ r.s.data # {} => Replies(again, r, Answer(known), Upto(r, c, known))
      /\ Replies(first, listed, Answer(names), Upto(listed, c, names))
  BY <1>2, <1>5, ReplyParts
<1>7. Keeps(server_list(r, c), r)
  <2>1. Keeps(failed, r)
    BY <1>1, <1>4, ReaderKeeps
  <2>2. r.s.data # {} => Keeps(again, r)
    <3>1. r.s.data # {} => /\ again.s.args = r.s.args /\ again.files = r.files
                           /\ again.read = r.read
      BY <1>6 DEF Replies
    <3> HIDE DEF again
    <3> QED BY <1>1, <3>1, ReaderKeeps
  <2>3. Keeps(first, r)
    <3>1. first.s.args = r.s.args /\ first.files = r.files /\ first.read = r.read
      BY <1>2, <1>6 DEF Replies
    <3> HIDE DEF first
    <3> QED BY <1>1, <3>1, ReaderKeeps
  <2> HIDE DEF again, first
  <2> QED BY <1>3, <2>1, <2>2, <2>3
<1>8. ASSUME NEW o, Ready(r, c, o) PROVE Tells(server_list(r, c), r, c, o)
  <2>1. /\ r.s.args = c /\ o \in Seq(Piece) /\ c \in Conns /\ Verb(c) = "LIST"
        /\ Len(o) = Count(r.s) /\ (Len(o) = 0 \/ Len(o) >= Capacity)
        /\ r.s.data = {} => o = <<>>
        /\ o = <<>> => Room(c) = Capacity
    BY <1>8 DEF Ready, Tale, Verb
  <2>2. ASSUME NEW e, NEW q, NEW all, Answers(e, q, c, o, all) PROVE Tells(e, r, c, o)
    <3>1. request[c].verb = "LIST"
      BY <2>1 DEF Verb
    <3> QED BY <2>2, <3>1 DEF Tells, Answers
  <2>3. CASE r.s.data # {}
    <3>1. Answers(again, r, c, o, Answer(known))
      BY <1>5, <1>8, <2>1, <2>3, ReplyTells
    <3> HIDE DEF again
    <3> QED BY <1>3, <2>2, <2>3, <3>1
  <2>4. CASE r.s.data = {} /\ r.errno
    <3>1. request[c].verb = "LIST" /\ o = <<>>
      BY <2>1, <2>4 DEF Verb
    <3>2. Tells(failed, r, c, o)
      BY <1>4, <3>1 DEF Tells
    <3> QED BY <1>3, <2>4, <3>2
  <2>5. CASE r.s.data = {} /\ ~r.errno
    <3>1. listed.s.data # {}
      BY <1>2
    <3>2. Tale(listed.s, c, o, listed.read)
      BY <1>2, <2>1, <3>1 DEF Tale
    <3>3. Ready(listed, c, o)
      BY <1>2, <2>1, <3>2 DEF Ready
    <3>4. Answers(first, listed, c, o, Answer(names))
      BY <1>2, <2>1, <3>1, <3>3, ReplyTells
    <3> HIDE DEF first
    <3> QED BY <1>3, <2>2, <2>5, <3>4
  <2> QED BY <2>3, <2>4, <2>5
<1> QED BY <1>7, <1>8

\* DELETE.
LEMMA DeleteTells ==
  ASSUME NEW c, NEW r, Connected(c), Called(r, c), r.s.args \in Conns,
         NEW f \in Files, f = request[r.s.args].file, request[r.s.args].verb = "DELETE"
  PROVE  /\ Keeps(server_delete(r, c, f), r)
         /\ \A o : Ready(r, c, o) => Tells(server_delete(r, c, f), r, c, o)
<1> DEFINE kept == IF r.s.index = 0 THEN <<>> ELSE r.files[f]
           failed == Failed([r EXCEPT !.errno = TRUE])
           now == [r EXCEPT !.files[f] = kept, !.out = <<<<"OK", 0>>>>, !.ret = "done"]
           later == [r EXCEPT !.files[f] = kept, !.s.index = -1, !.errno = TRUE]
<1>1. /\ r \in CallType /\ r.s \in SlotType /\ r.files \in [Files -> Seq(Piece)]
      /\ r.out = <<>> /\ r.read \in Int /\ Room(c) \in Nat
  BY Measures DEF Called, CallType
<1>2. server_delete(r, c, f) =
        IF r.s.index = 0 /\ r.files[f] = <<>> THEN failed
        ELSE IF (r.s.index = -1 \/ r.files[f] # <<>>) /\ Room(c) > 0 THEN now ELSE later
  <2>1. CASE r.s.index = 0 /\ r.files[f] = <<>>
    BY <2>1 DEF server_delete
  <2>2. CASE ~(r.s.index = 0 /\ r.files[f] = <<>>)
    BY <2>2 DEF server_delete
  <2> QED BY <2>1, <2>2
<1>3. /\ failed.ret = "error" /\ failed.s = r.s /\ failed.files = r.files
      /\ failed.read = r.read /\ failed.out = <<>>
  BY <1>1, FailedIs
<1>4. /\ now.s = r.s /\ now.read = r.read /\ now.ret = "done"
      /\ now.files = [r.files EXCEPT ![f] = kept]
  BY <1>1 DEF CallType
<1>5. /\ later.s.args = r.s.args /\ later.read = r.read
      /\ later.files = [r.files EXCEPT ![f] = kept]
  BY <1>1 DEF CallType, SlotType
<1> HIDE DEF failed, now, later
<1>6. ASSUME NEW e, e.s.args = r.s.args, e.read = r.read,
             e.files = r.files \/ e.files = [r.files EXCEPT ![f] = kept]
      PROVE  Keeps(e, r)
  <2>1. Full(e.s)
    BY <1>6 DEF Full
  <2>2. \A g \in Files : e.files[g] # r.files[g] => g = f /\ e.files[g] = <<>>
    BY <1>1, <1>6
  <2> QED BY <1>1, <1>6, <2>1, <2>2 DEF Keeps
<1>7. Keeps(server_delete(r, c, f), r)
  <2>1. Keeps(failed, r) /\ Keeps(now, r) /\ Keeps(later, r)
    BY <1>3, <1>4, <1>5, <1>6
  <2> QED BY <1>2, <2>1
<1>8. ASSUME NEW o, Ready(r, c, o) PROVE Tells(server_delete(r, c, f), r, c, o)
  <2>1. /\ r.s.args = c /\ c \in Conns /\ request[c].verb = "DELETE" /\ o = <<>>
        /\ r.s.index = 0 /\ Room(c) = Capacity
    BY <1>8 DEF Ready, Tale, Verb
  <2>2. Tells(failed, r, c, o) /\ Tells(now, r, c, o)
    BY <1>3, <1>4, <2>1 DEF Tells
  <2>3. Room(c) > 0
    BY <2>1
  <2> QED BY <1>2, <2>1, <2>2, <2>3
<1> QED BY <1>7, <1>8

\* Where the elements of two sequences are when they are joined.
LEMMA Joined ==
  ASSUME NEW S, NEW s \in Seq(S), NEW t \in Seq(S)
  PROVE  /\ s \o t \in Seq(S) /\ Len(s \o t) = Len(s) + Len(t)
         /\ \A i \in 1..Len(s) : (s \o t)[i] = s[i]
         /\ \A k \in 1..Len(t) : (s \o t)[Len(s) + k] = t[k]
<1>1. Len(s) \in Nat /\ Len(t) \in Nat
  OBVIOUS
<1>2. /\ s \o t \in Seq(S) /\ Len(s \o t) = Len(s) + Len(t)
      /\ \A i \in 1 .. Len(s) + Len(t) :
            (s \o t)[i] = IF i <= Len(s) THEN s[i] ELSE t[i - Len(s)]
  BY ConcatProperties
<1>3. \A i \in 1..Len(s) : (s \o t)[i] = s[i]
  BY <1>1, <1>2
<1>4. ASSUME NEW k \in 1..Len(t) PROVE (s \o t)[Len(s) + k] = t[k]
  <2>1. /\ Len(s) + k \in 1 .. Len(s) + Len(t) /\ ~(Len(s) + k <= Len(s))
        /\ (Len(s) + k) - Len(s) = k
    BY <1>1
  <2> QED BY <1>2, <2>1
<1> QED BY <1>2, <1>3, <1>4

\* Where the pieces of a stream are.
LEMMA StreamParts ==
  ASSUME request \in Workloads, NEW c \in Conns
  PROVE  LET q == request[c]
             m == IF q.verb = "PUT" THEN 1 ELSE 0
         IN  /\ q.head \in Nat \ {0} /\ q.size \in Nat /\ q.sends \in Nat
             /\ Len(Stream(c)) = q.head + m + q.sends + 1
             /\ \A k \in 1..q.head : Stream(c)[k] = <<"head", k>>
             /\ q.verb = "PUT" => Stream(c)[q.head + 1] = <<"size", q.size>>
             /\ \A k \in 1..q.sends : Stream(c)[q.head + m + k] = <<c, k>>
<1> DEFINE P == (Words \cup Conns) \X Nat
           q == request[c]
           m == IF q.verb = "PUT" THEN 1 ELSE 0
           header == [k \in 1..q.head |-> <<"head", k>>]
           size == IF q.verb = "PUT" THEN <<<<"size", q.size>>>> ELSE <<>>
           upload == [k \in 1..q.sends |-> <<c, k>>]
           end == <<<<"end", 0>>>>
<1>1. q.head \in Nat \ {0} /\ q.size \in Nat /\ q.sends \in Nat
  OBVIOUS
<1>2. header \in Seq(P) /\ Len(header) = q.head
  <2>1. \A k \in 1..q.head : <<"head", k>> \in P
    BY DEF Words
  <2>2. header \in [1..q.head -> P]
    BY <2>1
  <2> QED BY <1>1, <2>2, SeqDef
<1>3. upload \in Seq(P) /\ Len(upload) = q.sends
  <2>1. \A k \in 1..q.sends : <<c, k>> \in P
    OBVIOUS
  <2>2. upload \in [1..q.sends -> P]
    BY <2>1
  <2> QED BY <1>1, <2>2, SeqDef
<1>4. size \in Seq(P) /\ Len(size) = m /\ (q.verb = "PUT" => size[1] = <<"size", q.size>>)
  <2>1. <<"size", q.size>> \in P
    BY <1>1 DEF Words
  <2> HIDE DEF P
  <2>2. <<<<"size", q.size>>>> \in Seq(P)
    BY <2>1
  <2> QED BY <2>2
<1>5. end \in Seq(P) /\ Len(end) = 1
  <2>1. <<"end", 0>> \in P
    BY DEF Words
  <2> HIDE DEF P
  <2> QED BY <2>1
<1>6. Stream(c) = ((header \o size) \o upload) \o end
  BY DEF Stream
<1> DEFINE a == header \o size
           b == a \o upload
<1>7. /\ \A k \in 1..q.head : header[k] = <<"head", k>>
      /\ \A k \in 1..q.sends : upload[k] = <<c, k>>
  OBVIOUS
<1>8. m \in {0, 1} /\ (q.verb = "PUT" => m = 1)
  OBVIOUS
<1> HIDE NonstopAssumption
<1> HIDE DEF P, header, size, upload, end, m, q
<1>9. /\ a \in Seq(P) /\ Len(a) = q.head + m
      /\ \A k \in 1..q.head : a[k] = <<"head", k>>
      /\ q.verb = "PUT" => a[q.head + 1] = <<"size", q.size>>
  <2>1. /\ a \in Seq(P) /\ Len(a) = Len(header) + Len(size)
        /\ \A i \in 1..Len(header) : a[i] = header[i]
        /\ \A k \in 1..Len(size) : a[Len(header) + k] = size[k]
    <3>1. header \in Seq(P) /\ size \in Seq(P)
      BY <1>2, <1>4
    <3> QED BY <3>1, Joined
  <2> HIDE DEF a
  <2>2. \A k \in 1..q.head : a[k] = <<"head", k>>
    BY <1>2, <1>7, <2>1
  <2>3. q.verb = "PUT" => a[q.head + 1] = <<"size", q.size>>
    BY <1>2, <1>4, <1>8, <2>1
  <2> QED BY <1>2, <1>4, <2>1, <2>2, <2>3
<1> HIDE DEF a
<1>10. /\ b \in Seq(P) /\ Len(b) = q.head + m + q.sends
       /\ \A i \in 1 .. q.head + m : b[i] = a[i]
       /\ \A k \in 1..q.sends : b[q.head + m + k] = <<c, k>>
  <2>1. /\ b \in Seq(P) /\ Len(b) = Len(a) + Len(upload)
        /\ \A i \in 1..Len(a) : b[i] = a[i]
        /\ \A k \in 1..Len(upload) : b[Len(a) + k] = upload[k]
    <3>1. a \in Seq(P) /\ upload \in Seq(P)
      BY <1>3, <1>9
    <3> QED BY <3>1, Joined
  <2> HIDE DEF b
  <2> QED BY <1>3, <1>7, <1>9, <2>1
<1> HIDE DEF b
<1>11. /\ Len(Stream(c)) = q.head + m + q.sends + 1
       /\ \A i \in 1 .. q.head + m + q.sends : Stream(c)[i] = b[i]
  <2>1. Stream(c) = b \o end
    BY <1>6 DEF a, b
  <2>2. Len(b \o end) = Len(b) + Len(end) /\ \A i \in 1..Len(b) : (b \o end)[i] = b[i]
    <3>1. b \in Seq(P) /\ end \in Seq(P)
      BY <1>5, <1>10
    <3> QED BY <3>1, Joined
  <2> QED BY <1>5, <1>10, <2>1, <2>2
<1>12. /\ \A k \in 1..q.head : Stream(c)[k] = <<"head", k>>
       /\ \A k \in 1..q.sends : Stream(c)[q.head + m + k] = <<c, k>>
       /\ q.verb = "PUT" => Stream(c)[q.head + 1] = <<"size", q.size>>
  <2>1. \A k \in 1..q.head : Stream(c)[k] = b[k] /\ b[k] = a[k]
    <3>1. \A k \in 1..q.head : k \in 1 .. q.head + m /\ k \in 1 .. q.head + m + q.sends
      BY <1>1, <1>8
    <3> QED BY <1>10, <1>11, <3>1
  <2>2. \A k \in 1..q.sends : Stream(c)[q.head + m + k] = b[q.head + m + k]
    <3> DEFINE h == q.head + m
               l == q.sends
    <3>1. h \in Nat /\ l \in Nat
      BY <1>1, <1>8
    <3>2. \A i \in 1 .. h + l : Stream(c)[i] = b[i]
      BY <1>11
    <3> HIDE DEF h, l
    <3>3. \A k \in 1..l : h + k \in 1 .. h + l
      BY <3>1
    <3>4. \A k \in 1..l : Stream(c)[h + k] = b[h + k]
      BY <3>2, <3>3
    <3> QED BY <3>4 DEF h, l
  <2>3. q.verb = "PUT" => Stream(c)[q.head + 1] = b[q.head + 1] /\ b[q.head + 1] = a[q.head + 1]
    <3>1. q.verb = "PUT" => /\ q.head + 1 \in 1 .. q.head + m
                           /\ q.head + 1 \in 1 .. q.head + m + q.sends
      BY <1>1, <1>8
    <3> QED BY <1>10, <1>11, <3>1
  <2> QED BY <1>9, <1>10, <2>1, <2>2, <2>3
<1> QED BY <1>1, <1>11, <1>12 DEF q, m

\* The pieces of PUT's data that a call reads, and its data after them.
Coming(r, c) == Min({Arrived(c) - r.read, r.s.size - r.s.index})
Gathered(r, c) ==
    (CHOOSE d \in r.s.data : TRUE) \o SubSeq(Stream(c), r.read + 1, r.read + Coming(r, c))

\* A call that reads a PUT's data: n pieces of it, the data then being g.
Reads(e, r, c, f, n, g) ==
    LET upto == r.s.index + n
    IN  /\ e.s.args = r.s.args
        /\ \/ e.ret = "error" /\ e.s = r.s /\ e.read = r.read /\ e.files = r.files
           \/ /\ e.ret = "more" /\ r.s.size = 0
              /\ e.s = r.s /\ e.read = r.read /\ e.files = r.files /\ e.out = <<>>
           \/ /\ e.ret = "more" /\ upto < r.s.size /\ e.out = <<>>
              /\ e.s.index = upto /\ e.s.data = {g} /\ e.s.size = r.s.size /\ e.s.sizeDone
              /\ e.read = r.read + n /\ e.files = r.files
           \/ /\ upto = r.s.size /\ g # <<>>
              /\ e.s.index = -1 /\ e.s.data = {g} /\ e.read = r.read + n
              /\ \/ e.ret = "more" /\ Room(c) = 0 /\ e.files = r.files
                 \/ e.ret = "done" /\ e.files = [r.files EXCEPT ![f] = g]

\* What a call that reads a PUT's data is: the parts of its result.
LEMMA PutDataParts ==
  ASSUME NEW c, Connected(c), NEW r, Called(r, c), NEW f \in Files,
         r.s.args \in Conns, request[r.s.args].verb = "PUT",
         r.s.sizeDone, r.s.size # Huge, r.s.index # -1, Full(r.s)
  PROVE  LET n == Coming(r, c)
             g == Gathered(r, c)
         IN  /\ n \in Nat /\ n <= Arrived(c) - r.read /\ n <= r.s.size - r.s.index
             /\ n \in {Arrived(c) - r.read, r.s.size - r.s.index}
             /\ r.s.index \in 0..r.s.size /\ r.s.size \in Nat /\ r.read \in Nat
             /\ r.read + n <= Arrived(c)
             /\ g \in Seq(Piece) /\ Len(g) = r.s.index + n
             /\ Reads(PutData(r, c, f), r, c, f, n, g)
<1> DEFINE t == r.s
           here == Arrived(c) - r.read
           missing == t.size - t.index
           n == Coming(r, c)
           piece == SubSeq(Stream(c), r.read + 1, r.read + n)
           g == Gathered(r, c)
           upto == t.index + n
           kept == [r EXCEPT !.s.data = {g}, !.s.index = @ + n, !.read = @ + n]
           more == Fault(kept, c)
           whole == [more EXCEPT !.s.index = -1]
<1>1. /\ r \in CallType /\ t \in SlotType /\ r.read \in Nat /\ r.out = <<>>
      /\ r.ret = "more"
  BY DEF Called, CallType, ReadsOnly
<1>2. t.index \in 0..t.size /\ t.size \in Int /\ t.data # {}
  BY <1>1 DEF Called, Coherent, SlotType
<1>3. here \in Nat /\ missing \in Nat
  <2>1. /\ r.read <= sent[c] /\ r.read <= Len(Stream(c)) - 1
    BY DEF Called, ReadsOnly
  <2>2. r.read <= Arrived(c) /\ Arrived(c) \in Nat
    BY <1>1, <2>1, Measures
  <2> QED BY <1>1, <1>2, <2>2
<1>4. n \in {here, missing} /\ n <= here /\ n <= missing /\ n \in Nat
  <2>1. here \in Int /\ missing \in Int /\ n = Min({here, missing})
    BY <1>3 DEF Coming
  <2> HIDE DEF here, missing, n
  <2>2. n \in {here, missing} /\ n <= here /\ n <= missing
    BY <2>1, MinTwo
  <2> QED BY <1>3, <2>2
<1> HIDE DEF n
<1>5. r.read + n <= Arrived(c)
  BY <1>1, <1>4, Measures
<1>6. piece \in Seq(Piece) /\ Len(piece) = n
  <2>1. Stream(c) \in Seq(Piece)
    BY StreamType DEF Connected
  <2>2. Arrived(c) \in Nat /\ Arrived(c) <= Len(Stream(c)) - 1 /\ Len(Stream(c)) \in Nat
    BY Measures
  <2>3. \A i \in r.read + 1 .. r.read + n : Stream(c)[i] \in Piece
    BY <1>1, <1>4, <1>5, <2>1, <2>2
  <2>4. r.read + 1 \in Int /\ r.read + n \in Int
    BY <1>1, <1>4
  <2>5. /\ piece \in Seq(Piece)
        /\ Len(piece) = IF r.read + 1 <= r.read + n
                        THEN (r.read + n) - (r.read + 1) + 1 ELSE 0
    BY <2>3, <2>4, SubSeqProperties
  <2> QED BY <1>1, <1>4, <2>5
<1>7. g \in Seq(Piece) /\ Len(g) = upto
  <2> HIDE DEF piece
  <2>1. PICK d \in Seq(Piece) : t.data = {d} /\ Len(d) = t.index
    BY DEF Full
  <2>2. g = d \o piece
    BY <2>1 DEF Gathered, piece, n
  <2> HIDE DEF g
  <2>3. Len(d \o piece) = Len(d) + Len(piece) /\ d \o piece \in Seq(Piece)
    <3>1. d \in Seq(Piece) /\ piece \in Seq(Piece)
      BY <1>6, <2>1
    <3> HIDE NonstopAssumption
    <3> QED BY ONLY <3>1, Joined
  <2> QED BY <1>6, <2>1, <2>2, <2>3
<1> HIDE DEF piece, g
<1> DEFINE u == [t EXCEPT !.data = {g}, !.index = upto]
           last == [u EXCEPT !.index = -1]
<1>8. /\ u \in SlotType /\ u.args = t.args /\ u.size = t.size /\ u.index = upto
      /\ u.data = {g} /\ u.sizeDone
      /\ last \in SlotType /\ last.args = t.args /\ last.index = -1 /\ last.data = {g}
  <2>1. upto \in Int /\ {g} \in SUBSET Seq(Piece)
    BY <1>2, <1>4, <1>7
  <2> HIDE DEF upto, t
  <2>2. /\ u \in SlotType /\ u.args = t.args /\ u.size = t.size /\ u.index = upto
        /\ u.data = {g} /\ u.sizeDone = t.sizeDone
    BY <1>1, <2>1 DEF SlotType
  <2> HIDE DEF u
  <2>3. last \in SlotType /\ last.args = u.args /\ last.index = -1 /\ last.data = u.data
    BY <2>2 DEF SlotType
  <2> QED BY <2>2, <2>3 DEF t
<1>9. kept = [r EXCEPT !.s = u, !.read = r.read + n]
  BY <1>1 DEF CallType
<1> HIDE DEF u, kept
<1>10. /\ kept.out = <<>> /\ kept.ret = "more" /\ kept.read = r.read + n
       /\ kept.files = r.files /\ kept.s = u /\ kept \in CallType
  <2>1. r.read + n \in Int
    BY <1>1, <1>4
  <2> QED BY <1>1, <1>8, <1>9, <2>1 DEF CallType
<1>11. /\ more.out = <<>> /\ more.ret = "more" /\ more.read = r.read + n
       /\ more.files = r.files /\ more.s = u /\ more \in CallType
  <2>1. AtEnd(c) \in BOOLEAN
    BY Measures
  <2> QED BY <1>10, <2>1 DEF Fault, CallType
<1> HIDE DEF more
<1>12. /\ whole.out = <<>> /\ whole.ret = "more" /\ whole.read = r.read + n
       /\ whole.files = r.files /\ whole.s = last /\ whole \in CallType
  <2>1. whole = [more EXCEPT !.s = last]
    BY <1>11 DEF CallType
  <2> HIDE DEF whole, last
  <2> QED BY <1>8, <1>11, <2>1 DEF CallType
<1> HIDE DEF whole, last
<1>13. Reads(Failed(r), r, c, f, n, g) /\ Reads(Failed(Fault(r, c)), r, c, f, n, g)
  <2> DEFINE a == Fault(r, c)
  <2>1. a \in CallType /\ a.s = r.s /\ a.read = r.read /\ a.files = r.files
    <3>1. AtEnd(c) \in BOOLEAN
      BY Measures
    <3> QED BY <1>1, <3>1 DEF Fault, CallType
  <2> HIDE DEF a
  <2>2. ASSUME NEW e, e.ret = "error", e.s = r.s, e.read = r.read, e.files = r.files
        PROVE  Reads(e, r, c, f, n, g)
    BY <2>2 DEF Reads
  <2>3. /\ Failed(r).ret = "error" /\ Failed(r).s = r.s /\ Failed(r).read = r.read
        /\ Failed(r).files = r.files
        /\ Failed(a).ret = "error" /\ Failed(a).s = r.s /\ Failed(a).read = r.read
        /\ Failed(a).files = r.files
    BY <1>1, <2>1, FailedIs
  <2> QED BY <2>2, <2>3 DEF a
<1>14. t.size = 0 => Reads(r, r, c, f, n, g)
  BY <1>1 DEF Reads
<1>15. upto < t.size => Reads(more, r, c, f, n, g)
  BY <1>8, <1>11 DEF Reads
<1>16. upto = t.size /\ upto > 0 => Reads(PutReply(whole, c, f), r, c, f, n, g)
  <2> SUFFICES ASSUME upto = t.size, upto > 0 PROVE Reads(PutReply(whole, c, f), r, c, f, n, g)
    OBVIOUS
  <2> DEFINE later == [whole EXCEPT !.errno = TRUE]
             now == [whole EXCEPT !.out = <<<<"OK", 0>>>>, !.ret = "done",
                                  !.files[f] = CHOOSE d \in whole.s.data : TRUE]
  <2>1. g # <<>> /\ (CHOOSE d \in whole.s.data : TRUE) = g
    BY <1>7, <1>8, <1>12
  <2>2. /\ later.s = last /\ later.read = r.read + n /\ later.files = r.files
        /\ later.ret = "more"
    BY <1>12 DEF CallType
  <2>3. /\ now.s = last /\ now.read = r.read + n /\ now.files = [r.files EXCEPT ![f] = g]
        /\ now.ret = "done"
    BY <1>12, <2>1 DEF CallType
  <2>4. PutReply(whole, c, f) = IF Room(c) = 0 THEN later ELSE now
    BY DEF PutReply
  <2> HIDE DEF later, now
  <2>5. (Room(c) = 0 => Reads(later, r, c, f, n, g)) /\ Reads(now, r, c, f, n, g)
    BY <1>8, <2>1, <2>2, <2>3 DEF Reads
  <2> QED BY <2>4, <2>5
<1>17. PutData(r, c, f) =
         CASE upto = 0 /\ t.size > 0 -> Failed(Fault(r, c))
           [] upto = 0 /\ t.size = 0 -> r
           [] upto \in 1..(t.size - 1) -> more
           [] OTHER -> IF here > n THEN Failed(r) ELSE PutReply(whole, c, f)
  BY DEF PutData, Coming, Gathered, more, kept, whole, n, g, u
<1>18. upto \in Nat /\ upto <= t.size
  BY <1>2, <1>4
<1> HIDE DEF t, upto, here
<1>19. \/ upto = 0 /\ t.size > 0 /\ PutData(r, c, f) = Failed(Fault(r, c))
       \/ upto = 0 /\ t.size = 0 /\ PutData(r, c, f) = r
       \/ upto \in 1..(t.size - 1) /\ PutData(r, c, f) = more
       \/ upto = t.size /\ upto > 0 /\ PutData(r, c, f) \in {Failed(r), PutReply(whole, c, f)}
  <2>1. CASE upto = 0 /\ t.size > 0
    BY <1>17, <2>1
  <2>2. CASE upto = 0 /\ t.size = 0
    BY <1>17, <2>2
  <2>3. CASE upto # 0 /\ upto < t.size
    <3>1. upto \in 1..(t.size - 1)
      BY <1>2, <1>18, <2>3 DEF t
    <3> QED BY <1>17, <2>3, <3>1
  <2>4. CASE upto # 0 /\ upto = t.size
    <3>1. upto \notin 1..(t.size - 1)
      BY <1>18, <2>4
    <3> QED BY <1>17, <1>18, <2>4, <3>1
  <2> QED BY <1>18, <2>1, <2>2, <2>3, <2>4, <1>2 DEF t
<1>20. Reads(PutData(r, c, f), r, c, f, n, g)
  <2>1. upto \in 1..(t.size - 1) => upto < t.size
    BY <1>2, <1>18 DEF t
  <2> QED BY <1>13, <1>14, <1>15, <1>16, <1>19, <2>1
<1> QED BY <1>1, <1>2, <1>3, <1>4, <1>5, <1>7, <1>20 DEF n, g, upto, t, here

\* The data of a PUT grows by the next pieces that have come.
LEMMA BegunGrows ==
  ASSUME request \in Workloads, NEW c \in Conns, request[c].verb = "PUT",
         NEW m \in Nat, NEW n \in Nat, m + n <= request[c].sends
  PROVE  LET from == request[c].head + 1 + m
         IN  Begun(c, m) \o SubSeq(Stream(c), from + 1, from + n) = Begun(c, m + n)
<1> DEFINE q == request[c]
           from == q.head + 1 + m
           piece == SubSeq(Stream(c), from + 1, from + n)
           P == (Words \cup Conns) \X Nat
<1>1. /\ q.head \in Nat \ {0} /\ q.sends \in Nat /\ m + n <= q.sends
      /\ Len(Stream(c)) = q.head + 1 + q.sends + 1
      /\ \A k \in 1..q.sends : Stream(c)[q.head + 1 + k] = <<c, k>>
  BY StreamParts
<1>2. \A k \in Nat : Begun(c, k) \in Seq(P) /\ Len(Begun(c, k)) = k
  <2> SUFFICES ASSUME NEW k \in Nat PROVE Begun(c, k) \in Seq(P) /\ Len(Begun(c, k)) = k
    OBVIOUS
  <2>1. \A j \in 1..k : <<c, j>> \in P
    OBVIOUS
  <2>2. Begun(c, k) \in [1..k -> P]
    BY <2>1 DEF Begun
  <2> HIDE DEF P
  <2> QED BY <2>2, SeqDef
<1>3. Stream(c) \in Seq(P)
  BY StreamType
<1> HIDE NonstopAssumption
<1> DEFINE x == q.head + 1
           l == q.sends
<1>4. x \in Nat /\ l \in Nat /\ m + n <= l /\ Len(Stream(c)) = x + l + 1 /\ from = x + m
      /\ \A k \in 1..l : Stream(c)[x + k] = <<c, k>>
  <2> HIDE DEF q, piece, P
  <2>1. x \in Nat /\ l \in Nat /\ m + n <= l
    BY <1>1
  <2>2. Len(Stream(c)) = x + l + 1 /\ from = x + m
    BY <1>1
  <2>3. \A k \in 1..l : Stream(c)[x + k] = <<c, k>>
    BY <1>1
  <2> QED BY <2>1, <2>2, <2>3
<1> HIDE DEF P, q, x, l, from, piece
<1>5. /\ piece \in Seq(P) /\ Len(piece) = n
      /\ \A k \in 1..n : piece[k] = <<c, m + k>>
  <2>1. from \in Nat /\ from + 1 \in Int /\ from + n \in Int /\ from = x + m
    BY <1>4
  <2>2. \A i \in from + 1 .. from + n : i \in 1..Len(Stream(c))
    BY <1>4, <2>1
  <2>3. \A i \in from + 1 .. from + n : Stream(c)[i] \in P
    BY <1>3, <2>2
  <2>4. /\ piece \in Seq(P)
        /\ Len(piece) = IF from + 1 <= from + n THEN (from + n) - (from + 1) + 1 ELSE 0
        /\ \A i \in 1 .. (from + n) - (from + 1) + 1 : piece[i] = Stream(c)[(from + 1) + i - 1]
    BY <2>1, <2>3, SubSeqProperties DEF piece
  <2>5. (from + n) - (from + 1) + 1 = n /\ (from + 1 <= from + n <=> n # 0)
    BY <2>1
  <2>6. ASSUME NEW k \in 1..n PROVE piece[k] = <<c, m + k>>
    <3>1. (from + 1) + k - 1 = x + (m + k) /\ m + k \in 1..l
      BY <1>4, <2>1
    <3>2. piece[k] = Stream(c)[(from + 1) + k - 1]
      BY <2>4, <2>5
    <3>3. Stream(c)[x + (m + k)] = <<c, m + k>>
      BY <1>4, <3>1
    <3> QED BY <3>1, <3>2, <3>3
  <2>7. Len(piece) = n
    BY <2>4, <2>5
  <2> QED BY <2>4, <2>6, <2>7
<1>6. /\ Begun(c, m) \o piece \in Seq(P) /\ Len(Begun(c, m) \o piece) = m + n
      /\ \A i \in 1..m : (Begun(c, m) \o piece)[i] = Begun(c, m)[i]
      /\ \A k \in 1..n : (Begun(c, m) \o piece)[m + k] = piece[k]
  <2> DEFINE b == Begun(c, m)
  <2>1. b \in Seq(P) /\ Len(b) = m
    BY <1>2
  <2> HIDE DEF b
  <2>2. /\ b \o piece \in Seq(P) /\ Len(b \o piece) = Len(b) + Len(piece)
        /\ \A i \in 1..Len(b) : (b \o piece)[i] = b[i]
        /\ \A k \in 1..Len(piece) : (b \o piece)[Len(b) + k] = piece[k]
    <3>1. b \in Seq(P) /\ piece \in Seq(P)
      BY <1>5, <2>1
    <3> QED BY ONLY <3>1, Joined
  <2> QED BY <1>5, <2>1, <2>2 DEF b
<1>7. \A i \in 1 .. m + n : (Begun(c, m) \o piece)[i] = Begun(c, m + n)[i]
  <2> SUFFICES ASSUME NEW i \in 1 .. m + n
               PROVE  (Begun(c, m) \o piece)[i] = Begun(c, m + n)[i]
    OBVIOUS
  <2>1. Begun(c, m + n)[i] = <<c, i>>
    BY DEF Begun
  <2>2. CASE i <= m
    <3>1. i \in 1..m
      BY <2>2
    <3>2. Begun(c, m)[i] = <<c, i>>
      BY <3>1 DEF Begun
    <3> QED BY <1>6, <2>1, <3>1, <3>2
  <2>3. CASE ~(i <= m)
    <3>1. i - m \in 1..n /\ m + (i - m) = i
      BY <2>3
    <3> QED BY <1>5, <1>6, <2>1, <3>1
  <2> QED BY <2>2, <2>3
<1>8. Begun(c, m + n) \in Seq(P) /\ Len(Begun(c, m + n)) = m + n
  BY <1>2
<1>9. Begun(c, m) \o piece = Begun(c, m + n)
  BY <1>6, <1>7, <1>8, SeqEqual
<1> QED BY <1>9 DEF piece, q, from

\* How many pieces of data a call gathers: k before it and n now, of l that are
\* sent and z that are announced, d of the stream read and a of it come.
LEMMA PutCounts ==
  ASSUME NEW x \in Nat, NEW l \in Nat, NEW z \in Nat, NEW k \in 0..z, NEW n \in Nat,
         NEW d \in Nat, NEW a \in Nat, d = x + k, a <= x + l, n <= a - d, n <= z - k,
         n \in {a - d, z - k}
  PROVE  k + n <= l /\ d + n = x + (k + n) /\ (k + n < z /\ a = x + l => l < z)
<1> HIDE NonstopAssumption
<1> QED OBVIOUS

\* PUT, when its size is known.
LEMMA PutDataTells ==
  ASSUME NEW c, NEW r, Connected(c), Called(r, c), r.s.args \in Conns,
         NEW f \in Files, f = request[r.s.args].file, request[r.s.args].verb = "PUT",
         r.s.sizeDone, r.s.size # Huge, r.s.index # -1, Full(r.s)
  PROVE  /\ Keeps(PutData(r, c, f), r)
         /\ \A o : Ready(r, c, o) => Tells(PutData(r, c, f), r, c, o)
<1> DEFINE e == PutData(r, c, f)
           n == Coming(r, c)
           g == Gathered(r, c)
           upto == r.s.index + n
<1>1. /\ n \in Nat /\ n <= Arrived(c) - r.read /\ n <= r.s.size - r.s.index
      /\ n \in {Arrived(c) - r.read, r.s.size - r.s.index}
      /\ r.s.index \in 0..r.s.size /\ r.s.size \in Nat /\ r.read \in Nat
      /\ r.read + n <= Arrived(c)
      /\ g \in Seq(Piece) /\ Len(g) = upto
      /\ Reads(e, r, c, f, n, g)
  BY PutDataParts
<1>2. r \in CallType /\ r.files \in [Files -> Seq(Piece)]
  BY DEF Called, CallType
<1>3. g = <<>> <=> upto = 0
  BY <1>1, EmptySeq
<1> HIDE DEF e, n, g
<1>4. Keeps(e, r)
  <2>1. e.s.args = r.s.args
    BY <1>1 DEF Reads
  <2>2. Full(e.s)
    <3>1. CASE e.s = r.s
      BY <3>1
    <3>2. CASE e.s.index = upto /\ e.s.data = {g}
      <4>1. e.s.index # -1
        BY <1>1, <3>2
      <4> QED BY <1>1, <3>2, <4>1 DEF Full
    <3>3. CASE e.s.index = -1 /\ e.s.data = {g} /\ g # <<>>
      BY <1>1, <3>3 DEF Full
    <3> QED BY <1>1, <3>1, <3>2, <3>3 DEF Reads
  <2>3. e.read >= r.read
    BY <1>1 DEF Reads
  <2>4. e.files = r.files \/ (e.files = [r.files EXCEPT ![f] = g] /\ g # <<>>)
    BY <1>1 DEF Reads
  <2>5. \A h \in Files : e.files[h] # r.files[h] => h = f /\ e.files[h] # <<>>
    BY <1>2, <2>4
  <2> QED BY <2>1, <2>2, <2>3, <2>5 DEF Keeps
<1>5. ASSUME NEW o, Ready(r, c, o) PROVE Tells(e, r, c, o)
  <2> DEFINE x == request[c].head + 1
             l == request[c].sends
             z == request[c].size
             k == r.s.index
             d == r.read
             a == Arrived(c)
  <2>1. /\ r.s.args = c /\ c \in Conns /\ request \in Workloads
        /\ o = <<>> => Room(c) = Capacity
        /\ Tale(r.s, c, o, r.read)
    BY <1>5 DEF Ready, Connected
  <2>2. request[c].verb = "PUT" /\ f = request[c].file
    BY <2>1
  <2>3. /\ o = <<>> /\ d = request[c].head + (1 + k) /\ r.s.size = z
        /\ r.s.data = {Begun(c, k)} /\ Room(c) = Capacity
    BY <2>1, <2>2 DEF Tale, Verb
  <2>4. /\ request[c].head \in Nat \ {0} /\ z \in Nat /\ l \in Nat /\ x \in Nat
        /\ Len(Stream(c)) = x + l + 1
    BY <2>1, <2>2, StreamParts
  <2> HIDE NonstopAssumption
  <2>16. k \in 0..r.s.size /\ n <= a - d /\ n <= r.s.size - k /\ n \in {a - d, r.s.size - k}
         /\ d \in Nat
    BY <1>1
  <2>17. d = request[c].head + (1 + k) /\ r.s.size = z
    BY <2>3
  <2>18. x = request[c].head + 1
    OBVIOUS
  <2> HIDE DEF x, l, z, k, d, a
  <2>5. /\ d = x + k /\ d \in Nat /\ k \in 0..z /\ n <= a - d /\ n <= z - k
        /\ n \in {a - d, z - k}
    <3>1. k \in Nat /\ k \in 0..z
      BY <2>4, <2>16, <2>17
    <3>2. d = x + k
      <4> DEFINE h == request[c].head
      <4>1. h \in Int /\ k \in Int /\ d \in Int /\ x \in Int /\ x = h + 1 /\ d = h + (1 + k)
        BY <2>4, <2>16, <2>17, <2>18, <3>1
      <4> HIDE DEF h
      <4> QED BY ONLY <4>1
    <3> QED BY <2>16, <2>17, <3>1, <3>2
  <2>12. /\ a \in Nat /\ a <= x + l
         /\ sent[c] = Len(Stream(c)) => a = x + l
    <3>1. /\ a \in Nat /\ a <= Len(Stream(c)) - 1
          /\ \A m \in Int : m <= sent[c] /\ m <= Len(Stream(c)) - 1 => m <= a
      BY Measures, NonstopAssumption DEF a
    <3>2. x + l \in Int /\ Len(Stream(c)) - 1 = x + l
      BY <2>4
    <3>3. sent[c] = Len(Stream(c)) => x + l <= sent[c]
      BY <2>4
    <3>4. sent[c] = Len(Stream(c)) => x + l <= a
      BY <3>1, <3>2, <3>3
    <3>5. a <= x + l /\ a \in Nat
      BY <3>1, <3>2
    <3> QED BY <3>2, <3>4, <3>5
  <2>13. /\ k + n <= l /\ d + n = x + (k + n)
         /\ k + n < z /\ sent[c] = Len(Stream(c)) => l < z
    <3>1. n \in Nat
      BY <1>1
    <3>2. k + n <= l /\ d + n = x + (k + n) /\ (k + n < z /\ a = x + l => l < z)
      BY <2>4, <2>5, <2>12, <3>1, PutCounts
    <3> QED BY <2>12, <3>2
  <2>14. g = Begun(c, k + n)
    <3>1. g = Begun(c, k) \o SubSeq(Stream(c), d + 1, d + n)
      BY <2>3 DEF g, Gathered, n, d, k
    <3>2. /\ k \in Nat /\ n \in Nat /\ k + n <= request[c].sends
          /\ d = request[c].head + 1 + k
      BY <1>1, <2>4, <2>5, <2>13 DEF l, x
    <3>3. request[c].verb = "PUT"
      BY <2>2
    <3>4. Begun(c, k) \o SubSeq(Stream(c), (request[c].head + 1 + k) + 1,
                                (request[c].head + 1 + k) + n) = Begun(c, k + n)
      BY ONLY <2>1, <3>2, <3>3, BegunGrows
    <3> QED BY <3>1, <3>2, <3>4
  <2>6. <<>> \o <<>> = <<>> /\ <<>> \in Seq(Piece)
    OBVIOUS
  <2>7. Room(c) # 0
    BY <2>3, NonstopAssumption
  <2>8. \/ e.ret \in {"error", "done"}
        \/ e.ret = "more" /\ e.out = <<>> /\ e.s = r.s /\ e.read = d /\ z = 0
        \/ /\ e.ret = "more" /\ e.out = <<>> /\ k + n < z /\ e.s.sizeDone /\ e.s.size = z
           /\ e.s.index = k + n /\ e.s.data = {g} /\ e.read = d + n
    BY <1>1, <2>3, <2>7 DEF Reads, k, z, d
  <2>9. e.ret = "more" => Tale(e.s, c, o \o e.out, e.read)
    <3> SUFFICES ASSUME e.ret = "more" PROVE Tale(e.s, c, o \o e.out, e.read)
      OBVIOUS
    <3>1. o \o e.out = <<>>
      BY <2>3, <2>6, <2>8
    <3>2. CASE e.s = r.s /\ e.read = d
      BY <2>1, <2>3, <3>1, <3>2 DEF d
    <3>3. CASE /\ e.s.sizeDone /\ e.s.size = z /\ e.s.index = k + n /\ e.s.data = {g}
               /\ e.read = d + n
      <4>1. k + n # -1 /\ d + n = request[c].head + (1 + (k + n))
        <5> DEFINE h == request[c].head
        <5>1. h \in Int /\ k \in Nat /\ n \in Nat /\ d \in Int /\ x \in Int /\ x = h + 1
          BY <1>1, <2>4, <2>5, <2>18
        <5> HIDE DEF h
        <5>2. d = x + k
          BY <2>5
        <5> QED BY ONLY <5>1, <5>2 DEF h
      <4>2. e.s.args = c /\ c # None
        BY <1>1, <2>1, NonstopAssumption DEF Reads
      <4>3. Verb(c) = "PUT"
        BY <2>2 DEF Verb
      <4> QED BY <2>6, <2>14, <3>1, <3>3, <4>1, <4>2, <4>3 DEF Tale, z
    <3> QED BY <2>8, <3>2, <3>3
  <2>10. e.ret = "more" /\ sent[c] = Len(Stream(c)) => l < z \/ z = 0
    BY <2>8, <2>13
  <2>11. e.files[f] \in {r.files[f], Upload(c)}
    <3>1. Upload(c) = Begun(c, z)
      BY DEF Upload, Begun, z
    <3>2. e.files = r.files \/ (e.files = [r.files EXCEPT ![f] = g] /\ k + n = z)
      BY <1>1, <2>3 DEF Reads, k
    <3> QED BY <1>2, <2>14, <3>1, <3>2
  <2>15. e.ret = "error" => o = <<>>
    BY <2>3
  <2> QED BY <2>2, <2>9, <2>10, <2>11, <2>15 DEF Tells, l, z
<1> QED BY <1>4, <1>5 DEF e

\* The size that a PUT reads, and its call after that.
SizeRead(r, c) ==
    LET piece == Stream(c)[r.read + 1] IN IF piece[1] = "size" THEN piece[2] ELSE Huge
Sized(r, c) ==
    [r EXCEPT !.s.sizeDone = TRUE, !.s.size = SizeRead(r, c), !.read = @ + 1,
              !.s.data = IF SizeRead(r, c) = Huge THEN {} ELSE {<<>>}]

\* It is a call, with no data yet.
LEMMA SizedCalled ==
  ASSUME NEW c, Connected(c), NEW r, Called(r, c),
         r.s.args \in Conns, request[r.s.args].verb = "PUT",
         ~r.s.sizeDone, Arrived(c) # r.read
  PROVE  /\ Called(Sized(r, c), c) /\ Sized(r, c).s.args = r.s.args
         /\ Sized(r, c).s.sizeDone /\ Sized(r, c).s.size = SizeRead(r, c)
         /\ Sized(r, c).s.index = 0
         /\ Sized(r, c).s.data = IF SizeRead(r, c) = Huge THEN {} ELSE {<<>>}
         /\ Sized(r, c).read = r.read + 1 /\ Sized(r, c).files = r.files
         /\ Sized(r, c).out = <<>> /\ Sized(r, c).ret = "more"
<1> DEFINE size == SizeRead(r, c)
           sized == Sized(r, c)
           first == IF size = Huge THEN {} ELSE {<<>>}
           u == [r.s EXCEPT !.sizeDone = TRUE, !.size = size, !.data = first]
<1>1. /\ r \in CallType /\ r.s \in SlotType /\ r.read \in Nat /\ r.out = <<>>
      /\ r.ret = "more" /\ Coherent(r.s) /\ ReadsOnly(r.read, c)
  BY DEF Called, CallType, ReadsOnly
<1>2. /\ Stream(c) \in Seq((Words \cup Conns) \X Nat) /\ Len(Stream(c)) \in Nat
      /\ Arrived(c) \in Nat /\ Arrived(c) <= sent[c] /\ Arrived(c) <= Len(Stream(c)) - 1
      /\ r.read <= Arrived(c)
  <2>1. request \in Workloads /\ c \in Conns
    BY DEF Connected
  <2>2. Stream(c) \in Seq((Words \cup Conns) \X Nat)
    BY <2>1, StreamType
  <2>3. /\ Len(Stream(c)) \in Nat /\ Arrived(c) \in Nat /\ Arrived(c) <= sent[c]
        /\ Arrived(c) <= Len(Stream(c)) - 1
    BY Measures
  <2>4. r.read <= Arrived(c)
    <3>1. /\ r.read \in Nat /\ r.read <= sent[c]
          /\ r.read <= Len(Stream(c)) - 1
      BY <1>1 DEF ReadsOnly
    <3>2. \A n \in Int : n <= sent[c] /\ n <= Len(Stream(c)) - 1 => n <= Arrived(c)
      BY Measures
    <3> QED BY <3>1, <3>2
  <2> QED BY <2>2, <2>3, <2>4
<1>3. r.read + 1 \in 1..Len(Stream(c)) /\ r.read + 1 <= Arrived(c)
  BY <1>1, <1>2
<1>4. Stream(c)[r.read + 1] \in (Words \cup Conns) \X Nat
  BY <1>2, <1>3
<1>5. size \in Int /\ (size # Huge => size \in Nat) /\ Huge \in Int
  <2>1. size \in Nat \/ size = Huge
    BY <1>4 DEF SizeRead
  <2> QED BY <2>1 DEF Huge
<1> HIDE DEF size
<1>6. first \in SUBSET Seq(Piece) /\ (size # Huge => first # {})
  OBVIOUS
<1>7. sized = [r EXCEPT !.s = u, !.read = r.read + 1]
  BY <1>1 DEF CallType, Sized, size
<1> HIDE DEF first, sized
<1>8. /\ u \in SlotType /\ u.args = r.s.args /\ u.size = size
      /\ u.sizeDone = TRUE /\ u.index = r.s.index /\ u.data = first
  BY <1>1, <1>5, <1>6 DEF SlotType
<1> HIDE DEF u
<1>9. /\ sized \in CallType /\ sized.s = u /\ sized.read = r.read + 1
      /\ sized.out = r.out /\ sized.ret = r.ret /\ sized.files = r.files
  <2>1. r.read + 1 \in Int
    BY <1>1
  <2> QED BY <1>1, <1>7, <1>8, <2>1 DEF CallType
<1>10. r.s.index = 0
  BY <1>1 DEF Coherent
<1>11. Coherent(sized.s)
  BY <1>1, <1>5, <1>6, <1>8, <1>9, <1>10 DEF Coherent
<1>12. ReadsOnly(sized.read, c)
  BY <1>1, <1>3, <1>9, WithinArrived
<1>13. Called(sized, c)
  BY <1>1, <1>9, <1>11, <1>12 DEF Called
<1> QED BY <1>1, <1>8, <1>9, <1>10, <1>13 DEF sized, size, first

\* PUT: what its steps are.
LEMMA PutIs ==
  ASSUME NEW c, NEW r, Called(r, c), NEW f,
         r.s.args \in Conns, request[r.s.args].verb = "PUT"
  PROVE  server_put(r, c, f) =
           IF r.s.sizeDone
           THEN IF r.s.index = -1 THEN PutReply(r, c, f)
                ELSE IF r.s.size = Huge THEN r ELSE PutData(r, c, f)
           ELSE IF Arrived(c) = r.read THEN Fault(r, c)
           ELSE IF SizeRead(r, c) = Huge THEN Sized(r, c) ELSE PutData(Sized(r, c), c, f)
<1>1. Coherent(r.s)
  BY DEF Called
<1>2. CASE r.s.sizeDone /\ r.s.index = -1
  <2>1. r.s.size # Huge
    BY <1>1, <1>2 DEF Coherent
  <2> QED BY <1>2, <2>1 DEF server_put
<1>3. CASE r.s.sizeDone /\ r.s.index # -1 /\ r.s.size = Huge
  BY <1>3 DEF server_put
<1>4. CASE r.s.sizeDone /\ r.s.index # -1 /\ r.s.size # Huge
  BY <1>4 DEF server_put
<1>5. CASE ~r.s.sizeDone /\ Arrived(c) = r.read
  BY <1>5 DEF server_put
<1>6. CASE ~r.s.sizeDone /\ Arrived(c) # r.read
  BY <1>6 DEF server_put, Sized, SizeRead
<1> QED BY <1>2, <1>3, <1>4, <1>5, <1>6

\* How a PUT's connection stands before its size is read.
LEMMA PutBegins ==
  ASSUME NEW c, NEW r, NEW o, Ready(r, c, o), Verb(c) = "PUT", ~r.s.sizeDone
  PROVE  /\ o = <<>> /\ r.read = request[c].head /\ r.s.args = c
         /\ sent[c] = Len(Stream(c)) => Arrived(c) # r.read
         /\ Arrived(c) # r.read => SizeRead(r, c) = request[c].size
<1> DEFINE q == request[c]
<1>1. /\ c \in Conns /\ request \in Workloads /\ Connected(c) /\ r.s.args = c
      /\ Tale(r.s, c, o, r.read) /\ q.verb = "PUT"
  BY DEF Ready, Connected, Verb
<1>2. /\ q.head \in Nat \ {0} /\ q.size \in Nat /\ q.sends \in Nat
      /\ Len(Stream(c)) = q.head + 1 + q.sends + 1
      /\ Stream(c)[q.head + 1] = <<"size", q.size>>
  BY <1>1, StreamParts
<1>3. o = <<>> /\ r.read = q.head
  BY <1>1, <1>2 DEF Tale, Verb
<1> HIDE NonstopAssumption
<1>4. sent[c] = Len(Stream(c)) => Arrived(c) # r.read
  <2>1. \A m \in Int : m <= sent[c] /\ m <= Len(Stream(c)) - 1 => m <= Arrived(c)
    BY <1>1, Measures, NonstopAssumption
  <2> HIDE DEF q
  <2>2. /\ q.head + 1 \in Int /\ q.head + 1 <= Len(Stream(c)) - 1
        /\ q.head + 1 <= Len(Stream(c))
    BY <1>2
  <2>3. sent[c] = Len(Stream(c)) => q.head + 1 <= Arrived(c)
    BY <2>1, <2>2
  <2>4. ~(q.head + 1 <= q.head)
    BY <1>2
  <2> QED BY <1>3, <2>3, <2>4
<1>5. SizeRead(r, c) = q.size
  BY <1>2, <1>3 DEF SizeRead
<1> QED BY <1>1, <1>3, <1>4, <1>5 DEF q

\* PUT, whatever it has.
LEMMA PutTells ==
  ASSUME NEW c, NEW r, Connected(c), Called(r, c), r.s.args \in Conns,
         NEW f \in Files, f = request[r.s.args].file, request[r.s.args].verb = "PUT",
         Full(r.s)
  PROVE  /\ Keeps(server_put(r, c, f), r)
         /\ \A o : Ready(r, c, o) => Tells(server_put(r, c, f), r, c, o)
<1> DEFINE size == SizeRead(r, c)
           sized == Sized(r, c)
           fault == Fault(r, c)
           new == CHOOSE d \in r.s.data : TRUE
           now == [r EXCEPT !.out = <<<<"OK", 0>>>>, !.ret = "done", !.files[f] = new]
           later == [r EXCEPT !.errno = TRUE]
<1>1. /\ r \in CallType /\ r.s \in SlotType /\ r.read \in Nat /\ r.out = <<>>
      /\ r.ret = "more" /\ Coherent(r.s) /\ r.files \in [Files -> Seq(Piece)]
  BY DEF Called, CallType, ReadsOnly
<1>2. server_put(r, c, f) =
        IF r.s.sizeDone
        THEN IF r.s.index = -1 THEN PutReply(r, c, f)
             ELSE IF r.s.size = Huge THEN r ELSE PutData(r, c, f)
        ELSE IF Arrived(c) = r.read THEN fault
        ELSE IF size = Huge THEN sized ELSE PutData(sized, c, f)
  BY PutIs
<1>3. PutReply(r, c, f) = IF Room(c) = 0 THEN later ELSE now
  BY DEF PutReply
<1>4. /\ later.s = r.s /\ later.read = r.read /\ later.files = r.files
      /\ now.s = r.s /\ now.read = r.read /\ now.files = [r.files EXCEPT ![f] = new]
      /\ fault.s = r.s /\ fault.read = r.read /\ fault.files = r.files
      /\ fault.out = <<>> /\ fault.ret = "more"
  <2>1. AtEnd(c) \in BOOLEAN
    BY Measures
  <2> QED BY <1>1, <2>1 DEF CallType, Fault
<1>5. ~r.s.sizeDone /\ Arrived(c) # r.read =>
        /\ Called(sized, c) /\ sized.s.args = r.s.args
        /\ sized.s.sizeDone /\ sized.s.size = size
        /\ sized.s.index = 0 /\ sized.s.data = IF size = Huge THEN {} ELSE {<<>>}
        /\ sized.read = r.read + 1 /\ sized.files = r.files
        /\ sized.out = <<>> /\ sized.ret = "more"
  BY SizedCalled
<1> HIDE DEF later, now, fault, sized, size
<1>6. ~r.s.sizeDone /\ Arrived(c) # r.read => Full(sized.s)
  <2>1. <<>> \in Seq(Piece) /\ Len(<<>>) = 0
    OBVIOUS
  <2>2. ASSUME NEW v, v.data = {<<>>}, v.index = 0 PROVE Full(v)
    <3>1. 0 # -1
      OBVIOUS
    <3> QED BY <2>1, <2>2, <3>1 DEF Full
  <2>3. ASSUME NEW v, v.size = Huge PROVE Full(v)
    BY <2>3 DEF Full
  <2> QED BY <1>5, <2>2, <2>3
<1>7. Keeps(server_put(r, c, f), r)
  <2>1. ASSUME NEW e, e.s.args = r.s.args, Full(e.s), e.read >= r.read, e.files = r.files
        PROVE  Keeps(e, r)
    BY <2>1 DEF Keeps
  <2>2. Keeps(r, r) /\ Keeps(fault, r) /\ Keeps(later, r)
    <3>1. r.read >= r.read
      BY <1>1
    <3> QED BY <1>4, <2>1, <3>1
  <2>3. r.s.sizeDone /\ r.s.index = -1 => Keeps(now, r)
    <3> SUFFICES ASSUME r.s.sizeDone, r.s.index = -1 PROVE Keeps(now, r)
      OBVIOUS
    <3>1. r.s.size # Huge
      BY <1>1 DEF Coherent
    <3>2. new # <<>>
      BY <3>1 DEF Full
    <3>3. \A h \in Files : now.files[h] # r.files[h] => h = f /\ now.files[h] # <<>>
      <4> HIDE DEF new
      <4> QED BY <1>1, <1>4, <3>2
    <3>4. now.read >= r.read
      BY <1>1, <1>4
    <3> QED BY <1>4, <3>3, <3>4 DEF Keeps
  <2>4. r.s.sizeDone /\ r.s.index # -1 /\ r.s.size # Huge => Keeps(PutData(r, c, f), r)
    BY PutDataTells
  <2>5. ~r.s.sizeDone /\ Arrived(c) # r.read =>
          /\ Keeps(sized, r)
          /\ size # Huge => Keeps(PutData(sized, c, f), r)
    <3> SUFFICES ASSUME ~r.s.sizeDone, Arrived(c) # r.read
                 PROVE  Keeps(sized, r) /\ (size # Huge => Keeps(PutData(sized, c, f), r))
      OBVIOUS
    <3>1. sized.read >= r.read
      BY <1>1, <1>5
    <3>2. Keeps(sized, r)
      BY <1>5, <1>6, <2>1, <3>1
    <3>3. size # Huge => Keeps(PutData(sized, c, f), sized)
      BY <1>5, <1>6, PutDataTells
    <3>4. ASSUME NEW e, Keeps(e, sized), e.read \in Int PROVE Keeps(e, r)
      <4>1. e.read >= r.read
        BY <1>1, <1>5, <3>4 DEF Keeps
      <4> QED BY <1>5, <3>4, <4>1 DEF Keeps
    <3>5. size # Huge => PutData(sized, c, f).read \in Int
      <4>1. size # Huge => Fits(PutData(sized, c, f), c)
        BY <1>5, PutDataFits
      <4> QED BY <4>1 DEF Fits, CallType
    <3> QED BY <3>2, <3>3, <3>4, <3>5
  <2> QED BY <1>2, <1>3, <2>2, <2>3, <2>4, <2>5
<1>8. ASSUME NEW o, Ready(r, c, o) PROVE Tells(server_put(r, c, f), r, c, o)
  <2>1. /\ r.s.args = c /\ c \in Conns /\ request \in Workloads /\ Verb(c) = "PUT"
        /\ request[c].size \in Nat
        /\ Tale(r.s, c, o, r.read) /\ (o = <<>> => Room(c) = Capacity)
    BY <1>8 DEF Ready, Connected, Verb
  <2>2. CASE r.s.sizeDone
    <3>1. r.s.index # -1 /\ r.s.size # Huge
      BY <2>1, <2>2 DEF Tale, Huge
    <3>2. Tells(PutData(r, c, f), r, c, o)
      BY <1>8, <2>2, <3>1, PutDataTells
    <3> QED BY <1>2, <2>2, <3>1, <3>2
  <2>3. CASE ~r.s.sizeDone /\ Arrived(c) = r.read
    <3>1. o = <<>> /\ sent[c] # Len(Stream(c))
      BY <1>8, <2>1, <2>3, PutBegins
    <3>2. o \o fault.out = o
      BY <1>4, <3>1
    <3>3. Tells(fault, r, c, o)
      BY <1>4, <2>1, <3>1, <3>2 DEF Tells, Verb
    <3> QED BY <1>2, <2>3, <3>3
  <2>4. CASE ~r.s.sizeDone /\ Arrived(c) # r.read
    <3>1. o = <<>> /\ r.read = request[c].head /\ size = request[c].size
      BY <1>8, <2>1, <2>4, PutBegins DEF size
    <3>2. size # Huge
      BY <2>1, <3>1 DEF Huge
    <3>3. Tale(sized.s, c, o, sized.read)
      <4>1. Begun(c, 0) = <<>>
        BY DEF Begun
      <4>2. sized.s.data = {Begun(c, 0)} /\ sized.s.size = request[c].size
        BY <1>5, <2>4, <3>1, <3>2, <4>1
      <4>3. sized.read = request[c].head + (1 + 0) /\ <<>> \in Seq(Piece) /\ 0 # -1
        BY <1>5, <2>4, <3>1
      <4> QED BY <1>5, <2>1, <2>4, <3>1, <4>2, <4>3 DEF Tale
    <3>4. Ready(sized, c, o)
      BY <1>5, <2>1, <2>4, <3>3 DEF Ready
    <3>5. Tells(PutData(sized, c, f), sized, c, o)
      BY <1>5, <1>6, <2>4, <3>2, <3>4, PutDataTells
    <3>6. Tells(PutData(sized, c, f), r, c, o)
      BY <1>5, <2>4, <3>5 DEF Tells
    <3> QED BY <1>2, <2>4, <3>2, <3>6
  <2> QED BY <2>2, <2>3, <2>4
<1> QED BY <1>7, <1>8

\* A call that has its header, or has not.
LEMMA CommandTells ==
  ASSUME NEW c, NEW r, Connected(c), Called(r, c), Full(r.s)
  PROVE  /\ Keeps(server_command(r, c), r)
         /\ \A o : Ready(r, c, o) => Tells(server_command(r, c), r, c, o)
         /\ r.s.args = None => server_command(r, c) = r
         /\ r.s.args = Garbage => server_command(r, c) = Failed(r)
<1> DEFINE q == request[r.s.args]
           e == server_command(r, c)
<1>1. r \in CallType /\ r.read \in Nat
  BY DEF Called, ReadsOnly
<1>2. /\ r.s.args = None => e = r
      /\ r.s.args = Garbage => e = Failed(r)
  BY DEF server_command, Garbage
<1>3. CASE r.s.args \notin Conns
  <2>1. r.s.args \in {None, Garbage}
    BY <1>1, <1>3 DEF CallType, SlotType
  <2>2. e \in {r, Failed(r)}
    BY <1>2, <2>1
  <2> HIDE DEF e
  <2>3. e.s = r.s /\ e.read = r.read /\ e.files = r.files
    BY <1>1, <2>2, FailedIs
  <2>4. Keeps(e, r)
    BY <1>1, <2>3 DEF Keeps
  <2>5. \A o : ~Ready(r, c, o)
    BY <1>3 DEF Ready, Connected
  <2> QED BY <1>2, <2>4, <2>5 DEF e
<1>4. CASE r.s.args \in Conns
  <2>1. q.file \in Files /\ q.verb \in {"GET", "PUT", "DELETE", "LIST"}
    BY <1>4 DEF Connected
  <2>2. e = CASE q.verb = "GET" -> server_get(r, c, q.file)
              [] q.verb = "PUT" -> server_put(r, c, q.file)
              [] q.verb = "DELETE" -> server_delete(r, c, q.file)
              [] OTHER -> server_list(r, c)
    BY <1>4 DEF server_command, Garbage
  <2>3. CASE q.verb = "GET"
    <3>1. e = server_get(r, c, q.file)
      BY <2>2, <2>3
    <3> QED BY <1>2, <1>4, <2>1, <2>3, <3>1, GetTells
  <2>4. CASE q.verb = "PUT"
    <3>1. e = server_put(r, c, q.file)
      BY <2>2, <2>4
    <3> QED BY <1>2, <1>4, <2>1, <2>4, <3>1, PutTells
  <2>5. CASE q.verb = "DELETE"
    <3>1. e = server_delete(r, c, q.file)
      BY <2>2, <2>5
    <3> QED BY <1>2, <1>4, <2>1, <2>5, <3>1, DeleteTells
  <2>6. CASE q.verb = "LIST"
    <3>1. e = server_list(r, c)
      BY <2>2, <2>6
    <3> QED BY <1>2, <1>4, <2>1, <2>6, <3>1, ListTells
  <2> QED BY <2>1, <2>3, <2>4, <2>5, <2>6
<1> QED BY <1>3, <1>4

\* A header read, and what is known with it: the command, unless some of a
\* header was there before, if all of it has come.
Headed(h, r, c) ==
    /\ h.files = r.files /\ h.out = <<>> /\ h.ret = "more"
    /\ h.read \in Nat /\ (r.read > 0 => h.read > 0)
    /\ h.s.args \in {None, Garbage, c}
    /\ h.s.args = c => h.read = request[c].head
    /\ h.s.index = 0 /\ ~h.s.sizeDone /\ h.s.replied = r.s.replied
    /\ sent[c] = Len(Stream(c)) => h.s.args # None

\* When all of a client's pieces are there, so is its header.
LEMMA HeaderComes ==
  ASSUME NEW c, Connected(c), NEW n, ReadsOnly(n, c), sent[c] = Len(Stream(c))
  PROVE  n + Cardinality({k \in n + 1 .. Arrived(c) : Stream(c)[k][1] = "head"})
           >= request[c].head
<1> DEFINE ours == {k \in n + 1 .. Arrived(c) : Stream(c)[k][1] = "head"}
           h == request[c].head
           most == (n + 1)..h
           m == Cardinality(ours)
<1>1. /\ h \in Nat /\ h <= Len(Stream(c)) - 1
      /\ \A k \in 1..h : Stream(c)[k] = <<"head", k>>
  <2>1. /\ h \in Nat \ {0} /\ request[c].sends \in Nat
        /\ Len(Stream(c)) = h + (IF request[c].verb = "PUT" THEN 1 ELSE 0) + request[c].sends + 1
        /\ \A k \in 1..h : Stream(c)[k] = <<"head", k>>
    BY StreamParts DEF Connected
  <2> HIDE DEF h
  <2> QED BY <2>1
<1>2. Arrived(c) \in Nat /\ h <= Arrived(c) /\ n \in Nat
  <2>1. /\ Arrived(c) \in Nat
        /\ \A k \in Int : k <= sent[c] /\ k <= Len(Stream(c)) - 1 => k <= Arrived(c)
        /\ Len(Stream(c)) \in Nat
    BY Measures
  <2> HIDE DEF h
  <2>2. h \in Int /\ h <= sent[c] /\ h <= Len(Stream(c)) - 1
    BY <1>1, <2>1
  <2> QED BY <2>1, <2>2 DEF ReadsOnly
<1> HIDE DEF h
<1>3. most \subseteq ours
  <2>1. \A k \in most : k \in n + 1 .. Arrived(c) /\ k \in 1..h
    BY <1>1, <1>2
  <2>2. \A k \in most : Stream(c)[k][1] = "head"
    BY <1>1, <2>1
  <2> QED BY <2>1, <2>2
<1>4. IsFiniteSet(ours)
  <2> DEFINE a == n + 1
             b == Arrived(c)
  <2>1. a \in Int /\ b \in Int
    BY <1>2
  <2>2. ours \subseteq a..b
    OBVIOUS
  <2> HIDE DEF a, b, ours
  <2>3. IsFiniteSet(a..b)
    BY <2>1, FS_Interval
  <2> QED BY <2>2, <2>3, FS_Subset
<1>5. Cardinality(most) = IF n + 1 > h THEN 0 ELSE h - (n + 1) + 1
  <2> DEFINE a == n + 1
  <2>1. a \in Int /\ h \in Int
    BY <1>1, <1>2
  <2> HIDE DEF a
  <2>2. Cardinality(a..h) = IF a > h THEN 0 ELSE h - a + 1
    BY <2>1, FS_Interval
  <2> QED BY <2>2 DEF a
<1> HIDE DEF ours, most
<1>6. Cardinality(most) <= m
  BY <1>3, <1>4, FS_Subset
<1>7. m \in Nat
  BY <1>4, FS_CardinalityType
<1> HIDE DEF m
<1>8. n + m >= h
  BY <1>1, <1>2, <1>5, <1>6, <1>7
<1> QED BY <1>8 DEF m, ours, h

\* What the header is read to.
LEMMA HeaderTells ==
  ASSUME NEW c, Connected(c), NEW r, Called(r, c), r.s.args = None
  PROVE  LET h == read_header_from_client(r, c) IN h.ret # "exit" => Headed(h, r, c)
<1> DEFINE ours == {k \in r.read + 1 .. Arrived(c) : Stream(c)[k][1] = "head"}
           m == Cardinality(ours)
           whole == r.read + m >= request[c].head
           args == IF r.s.head > 0 THEN Garbage ELSE c
           done == [r EXCEPT !.read = request[c].head, !.s.args = args]
           part == [r EXCEPT !.read = @ + m, !.s.head = @ + m]
           none == Ret(r, "exit")
           h == read_header_from_client(r, c)
<1>1. /\ r \in CallType /\ r.s \in SlotType /\ r.read \in Nat /\ r.out = <<>>
      /\ r.ret = "more" /\ ReadsOnly(r.read, c) /\ r.s.index = 0 /\ ~r.s.sizeDone
      /\ c \in Conns /\ request[c].head \in Nat
  BY DEF Called, CallType, ReadsOnly, Coherent, Connected
<1>2. h = IF whole THEN done ELSE IF AtEnd(c) THEN part ELSE none
  BY DEF read_header_from_client
<1>3. none.ret = "exit"
  BY <1>1 DEF Ret, CallType
<1>4. m \in Nat
  <2> DEFINE a == r.read + 1
             b == Arrived(c)
  <2>1. a \in Int /\ b \in Int
    BY <1>1, Measures
  <2>2. ours \subseteq a..b
    OBVIOUS
  <2> HIDE DEF a, b, ours
  <2>3. IsFiniteSet(a..b)
    BY <2>1, FS_Interval
  <2>4. IsFiniteSet(ours)
    BY <2>2, <2>3, FS_Subset
  <2> QED BY <2>4, FS_CardinalityType
<1>5. sent[c] = Len(Stream(c)) => whole
  BY <1>1, HeaderComes
<1> HIDE DEF ours, m
<1>6. /\ done.files = r.files /\ done.out = <<>> /\ done.ret = "more"
      /\ done.read = request[c].head /\ done.s.args = args /\ done.s.index = 0
      /\ ~done.s.sizeDone /\ done.s.replied = r.s.replied
  BY <1>1 DEF CallType, SlotType
<1>7. /\ part.files = r.files /\ part.out = <<>> /\ part.ret = "more"
      /\ part.read = r.read + m /\ part.s.args = None /\ part.s.index = 0
      /\ ~part.s.sizeDone /\ part.s.replied = r.s.replied
  BY <1>1 DEF CallType, SlotType
<1>8. args \in {Garbage, c} /\ args # None
  BY <1>1 DEF Garbage
<1> HIDE DEF done, part, none, h, args
<1>9. whole => Headed(done, r, c)
  <2>1. request[c].head \in Nat \ {0}
    BY <1>1 DEF Connected
  <2> QED BY <1>6, <1>8, <2>1 DEF Headed
<1>10. ~whole => Headed(part, r, c)
  <2>1. part.read \in Nat /\ part.read >= r.read /\ None # c
    BY <1>1, <1>4, <1>7
  <2> QED BY <1>1, <1>5, <1>7, <2>1 DEF Headed
<1> QED BY <1>2, <1>3, <1>9, <1>10 DEF h

\* A slot with its command just read, for a connection that has been told nothing.
LEMMA HeadedTale ==
  ASSUME NEW c, Connected(c), NEW h, NEW r, Headed(h, r, c), ~r.s.replied,
         h.s.args # Garbage
  PROVE  Tale(h.s, c, <<>>, h.read)
<1>1. /\ h.s.args \in {None, c} /\ h.s.index = 0 /\ ~h.s.sizeDone /\ ~h.s.replied
      /\ h.s.args = c => h.read = request[c].head
      /\ c \in Conns /\ c # None /\ request[c].head \in Nat
  BY DEF Headed, Connected
<1> HIDE NonstopAssumption
<1>2. Count(h.s) = 0
  BY <1>1 DEF Count
<1>3. <<>> \in Seq(Piece) /\ Len(<<>>) = 0 /\ 0 # -1 /\ request[c].head + 0 = request[c].head
  BY <1>1
<1> QED BY <1>1, <1>2, <1>3 DEF Tale
-----------------------------------------------------------------------------
\* What has been written to each connection: to those the server has not
\* accepted nothing, and where nothing is written there is all the room.
Outs ==
    /\ out \in [Conns -> Seq(Piece \cup {Error})]
    /\ \A c \in Conns : /\ out[c] = <<>> => unread[c] = 0
                        /\ place[c] \in {"away", "waiting"} => out[c] = <<>>

\* Whose command a slot holds: its connection's, or somebody's whom that one has
\* displaced; and with a PUT's command its data.
Holders ==
    \A i \in Slots :
       /\ Full(slot[i])
       /\ slot[i].args \in Conns => /\ taken[slot[i].args] > 0
                                    /\ slot[i].args = clients[i] \/ slot[i].args \in disturbed

Tales ==
    \A i \in Slots :
       clients[i] \in Conns \ disturbed
       => Tale(slot[i], clients[i], out[clients[i]], taken[clients[i]])

Books == Outs /\ Holders /\ Tales

\* The call made for a slot, and what it does: it ends with the slot holding what
\* it held or the command of its connection; it changes a file only as a PUT or
\* a DELETE, of that connection or of one displaced; and what it tells.
Call(i) == [s |-> slot[i], read |-> taken[clients[i]], out |-> <<>>, files |-> files,
            errno |-> errno, ret |-> "more"]
Calls(e, i) ==
    LET c == clients[i]
    IN  /\ e.read \in Nat /\ (taken[c] > 0 => e.read > 0) /\ Full(e.s)
        /\ e.s.args \in Conns => e.s.args = slot[i].args \/ (e.s.args = c /\ e.read > 0)
        /\ \A f \in Files :
             e.files[f] # files[f]
             => \E d \in Conns :
                  /\ request[d].file = f
                  /\ (d = c /\ e.read > 0) \/ (d \in disturbed /\ taken[d] > 0)
                  /\ \/ request[d].verb = "DELETE" /\ e.files[f] = <<>>
                     \/ request[d].verb = "PUT" /\ e.files[f] # <<>>
        /\ c \notin disturbed => Tells(e, Call(i), c, out[c])

\* A call with its header read, for a slot without one.
LEMMA HeadedCalls ==
  ASSUME NonstopInv, Books, NEW i \in Slots, clients[i] # None, slot[i].args = None,
         NEW h, Called(h, clients[i]), Headed(h, Call(i), clients[i])
  PROVE  Calls(server_command(h, clients[i]), i)
<1> DEFINE c == clients[i]
           r == Call(i)
           e == server_command(h, c)
<1>1. c \in Conns /\ Connected(c)
  BY DEF NonstopInv, Types, Connected
<1>2. r.s = slot[i] /\ r.read = taken[c] /\ r.files = files
  BY DEF Call
<1>3. /\ h.files = files /\ h.out = <<>> /\ h.ret = "more"
      /\ h.read \in Nat /\ (taken[c] > 0 => h.read > 0)
      /\ h.s.args \in {None, Garbage, c} /\ ~h.s.sizeDone
      /\ h.s.args = c => h.read = request[c].head /\ request[c].head > 0
      /\ sent[c] = Len(Stream(c)) => h.s.args # None
  BY <1>1, <1>2 DEF Headed, Connected
<1>4. h \in CallType /\ Fits(e, c)
  BY <1>1, CommandFits DEF Called
<1>5. /\ Full(h.s)
      /\ Keeps(e, h) /\ \A o : Ready(h, c, o) => Tells(e, h, c, o)
      /\ h.s.args = None => e = h
      /\ h.s.args = Garbage => e = Failed(h)
  <2>1. Full(h.s)
    BY <1>3 DEF Full
  <2> QED BY <1>1, <2>1, CommandTells
<1> HIDE DEF r, e
<1>6. e.read \in Nat /\ e.read >= h.read
  BY <1>4, <1>5 DEF Keeps, Fits, ReadsOnly
<1>7. /\ taken[c] > 0 => e.read > 0
      /\ h.s.args = c => e.read > 0
  <2>1. taken[c] > 0 \/ h.s.args = c => h.read > 0
    BY <1>3
  <2>2. h.read > 0 => e.read > 0
    BY <1>3, <1>6
  <2> QED BY <2>1, <2>2
<1>8. e.s.args \in Conns => e.s.args = c /\ e.read > 0
  BY <1>3, <1>5, <1>7 DEF Keeps, Garbage
<1>9. ASSUME NEW f \in Files, e.files[f] # files[f]
      PROVE  \E d \in Conns :
               /\ request[d].file = f
               /\ (d = c /\ e.read > 0) \/ (d \in disturbed /\ taken[d] > 0)
               /\ \/ request[d].verb = "DELETE" /\ e.files[f] = <<>>
                  \/ request[d].verb = "PUT" /\ e.files[f] # <<>>
  <2>1. /\ h.s.args \in Conns /\ request[h.s.args].file = f
        /\ \/ request[h.s.args].verb = "DELETE" /\ e.files[f] = <<>>
           \/ request[h.s.args].verb = "PUT" /\ e.files[f] # <<>>
    BY <1>3, <1>5, <1>9 DEF Keeps
  <2>2. h.s.args = c
    BY <1>3, <2>1 DEF Garbage
  <2> QED BY <1>1, <1>7, <2>1, <2>2
<1>10. ASSUME c \notin disturbed PROVE Tells(e, r, c, out[c])
  <2>1. out[c] = <<>> /\ ~slot[i].replied
    <3>1. Tale(slot[i], c, out[c], taken[c])
      BY <1>1, <1>10 DEF Books, Tales
    <3> QED BY <3>1 DEF Tale
  <2>2. h.s.args # Garbage => Tale(h.s, c, <<>>, h.read)
    <3>1. Headed(h, r, c) /\ ~r.s.replied
      BY <1>2, <2>1 DEF r
    <3> QED BY <1>1, <3>1, HeadedTale
  <2>3. <<>> \o <<>> = <<>>
    OBVIOUS
  <2>4. CASE h.s.args = None
    <3>1. e = h /\ sent[c] # Len(Stream(c)) /\ h.s.args # Garbage /\ h.out = <<>>
      BY <1>3, <1>5, <2>4 DEF Garbage
    <3> QED BY <1>2, <1>3, <2>1, <2>2, <2>3, <3>1 DEF Tells
  <2>5. CASE h.s.args = Garbage
    <3>1. e.ret = "error" /\ e.files = files /\ e.out = <<>>
      BY <1>3, <1>4, <1>5, <2>5, FailedIs
    <3> QED BY <1>2, <2>1, <3>1 DEF Tells
  <2>6. CASE h.s.args = c
    <3>1. c # Garbage
      BY <1>1 DEF Garbage
    <3>2. Room(c) = Capacity
      <4>1. unread[c] = 0
        BY <1>1, <2>1 DEF Books, Outs
      <4> QED BY <4>1 DEF Room
    <3>3. Ready(h, c, <<>>)
      BY <1>1, <2>2, <2>6, <3>1, <3>2 DEF Ready
    <3>4. Tells(e, h, c, <<>>)
      BY <1>5, <3>3
    <3> QED BY <1>2, <1>3, <2>1, <3>4 DEF Tells
  <2> QED BY <1>3, <2>4, <2>5, <2>6
<1> QED BY <1>5, <1>6, <1>7, <1>8, <1>9, <1>10 DEF Calls, Keeps, e, r

\* A call for a slot that has its command.
LEMMA CommandCalls ==
  ASSUME NonstopInv, Books, NEW i \in Slots, clients[i] # None, slot[i].args # None,
         Called(Call(i), clients[i])
  PROVE  Calls(server_command(Call(i), clients[i]), i)
<1> DEFINE c == clients[i]
           r == Call(i)
           e == server_command(r, c)
<1>1. c \in Conns /\ Connected(c)
  BY DEF NonstopInv, Types, Connected
<1>2. r.s = slot[i] /\ r.read = taken[c] /\ r.files = files
  BY DEF Call
<1>3. /\ Full(slot[i])
      /\ slot[i].args \in Conns => /\ taken[slot[i].args] > 0
                                   /\ slot[i].args = c \/ slot[i].args \in disturbed
  BY DEF Books, Holders
<1>4. taken[c] \in Nat /\ Fits(e, c)
  BY <1>1, CommandFits DEF NonstopInv, Types
<1>5. Keeps(e, r) /\ \A o : Ready(r, c, o) => Tells(e, r, c, o)
  <2>1. Full(r.s)
    BY <1>2, <1>3
  <2> QED BY <1>1, <2>1, CommandTells
<1> HIDE DEF r, e
<1>6. e.read \in Nat /\ e.read >= taken[c]
  BY <1>2, <1>4, <1>5 DEF Keeps, Fits, ReadsOnly
<1>7. taken[c] > 0 => e.read > 0
  BY <1>4, <1>6
<1>8. e.s.args = slot[i].args /\ Full(e.s)
  BY <1>2, <1>5 DEF Keeps
<1>9. ASSUME NEW f \in Files, e.files[f] # files[f]
      PROVE  \E d \in Conns :
               /\ request[d].file = f
               /\ (d = c /\ e.read > 0) \/ (d \in disturbed /\ taken[d] > 0)
               /\ \/ request[d].verb = "DELETE" /\ e.files[f] = <<>>
                  \/ request[d].verb = "PUT" /\ e.files[f] # <<>>
  <2> DEFINE d == slot[i].args
  <2>1. /\ d \in Conns /\ request[d].file = f
        /\ \/ request[d].verb = "DELETE" /\ e.files[f] = <<>>
           \/ request[d].verb = "PUT" /\ e.files[f] # <<>>
    BY <1>2, <1>5, <1>9 DEF Keeps
  <2>2. (d = c /\ e.read > 0) \/ (d \in disturbed /\ taken[d] > 0)
    BY <1>3, <1>7, <2>1
  <2> HIDE DEF d
  <2> QED BY <2>1, <2>2
<1>10. ASSUME c \notin disturbed PROVE Tells(e, r, c, out[c])
  <2>1. Tale(slot[i], c, out[c], taken[c])
    BY <1>1, <1>10 DEF Books, Tales
  <2>2. slot[i].args = c
    BY <2>1 DEF Tale
  <2>3. out[c] = <<>> => Room(c) = Capacity
    <3>1. out[c] = <<>> => unread[c] = 0
      BY <1>1 DEF Books, Outs
    <3> QED BY <3>1 DEF Room
  <2>4. Ready(r, c, out[c])
    BY <1>1, <1>2, <2>1, <2>2, <2>3 DEF Ready, r
  <2> QED BY <1>5, <2>4
<1> QED BY <1>6, <1>7, <1>8, <1>9, <1>10 DEF Calls, e, r

\* Every call.
LEMMA ProcessCalls ==
  ASSUME NonstopInv, Books, NEW i \in Slots, clients[i] # None,
         process_client(i).ret # "exit"
  PROVE  Calls(process_client(i), i)
<1> DEFINE c == clients[i]
           r == Call(i)
           h == read_header_from_client(r, c)
<1>1. c \in Conns /\ Connected(c)
  BY DEF NonstopInv, Types, Connected
<1>2. Called(r, c)
  <2>1. r \in CallType
    BY <1>1 DEF NonstopInv, Types, CallType, Call
  <2>2. r.out = <<>> /\ r.ret = "more" /\ r.read = taken[c] /\ r.s = slot[i]
    BY DEF Call
  <2>3. ReadsOnly(taken[c], c) /\ Coherent(slot[i])
    BY <1>1 DEF NonstopInv, Progress
  <2> HIDE DEF r, c
  <2> QED BY <2>1, <2>2, <2>3 DEF Called
<1>3. r.s.args = slot[i].args
  BY DEF Call
<1>4. process_client(i) = IF slot[i].args = None
                          THEN IF h.ret = "exit" THEN h ELSE server_command(h, c)
                          ELSE server_command(r, c)
  BY <1>2 DEF process_client, Call, Called
<1>5. slot[i].args # None => Calls(server_command(r, c), i)
  BY <1>2, CommandCalls
<1>6. slot[i].args = None /\ h.ret # "exit" => Calls(server_command(h, c), i)
  <2> SUFFICES ASSUME slot[i].args = None, h.ret # "exit"
               PROVE  Calls(server_command(h, c), i)
    OBVIOUS
  <2>1. Headed(h, r, c)
    BY <1>1, <1>2, <1>3, HeaderTells
  <2>2. Called(h, c)
    BY <1>1, <1>2, <1>3, HeaderFits
  <2> HIDE DEF h
  <2> QED BY <2>1, <2>2, HeadedCalls
<1> QED BY <1>4, <1>5, <1>6

\* The first elements of a sequence.
LEMMA Begins ==
  ASSUME NEW S, NEW s \in Seq(S), NEW n \in Nat, n <= Len(s)
  PROVE  /\ SubSeq(s, 1, n) \in Seq(S) /\ Len(SubSeq(s, 1, n)) = n
         /\ \A i \in 1..n : SubSeq(s, 1, n)[i] = s[i]
         /\ SubSeq(SubSeq(s, 1, n), 1, n) = SubSeq(s, 1, n)
<1> HIDE NonstopAssumption
<1> DEFINE t == SubSeq(s, 1, n)
<1>1. /\ t \in Seq(S) /\ Len(t) = IF 1 <= n THEN n - 1 + 1 ELSE 0
      /\ \A i \in 1 .. n - 1 + 1 : t[i] = s[1 + i - 1]
  <2>1. \A i \in 1..n : s[i] \in S
    OBVIOUS
  <2>2. 1 \in Int /\ n \in Int
    OBVIOUS
  <2> QED BY <2>1, <2>2, SubSeqProperties
<1> HIDE DEF t
<1>2. Len(t) = n
  BY <1>1
<1>3. \A i \in 1..n : t[i] = s[i]
  BY <1>1
<1>4. SubSeq(t, 1, n) = t
  <2>1. SubSeq(t, 1, Len(t)) = t
    BY <1>1, SubSeqFull
  <2> QED BY <1>2, <2>1
<1> QED BY <1>1, <1>2, <1>3, <1>4 DEF t

\* They stay when more is written.
LEMMA PrefixKept ==
  ASSUME NEW S, NEW s \in Seq(S), NEW t \in Seq(S), NEW n \in Nat, n <= Len(s)
  PROVE  n <= Len(s \o t) /\ SubSeq(s \o t, 1, n) = SubSeq(s, 1, n)
<1> HIDE NonstopAssumption
<1> DEFINE b == s \o t
           x == SubSeq(b, 1, n)
           y == SubSeq(s, 1, n)
<1>1. /\ b \in Seq(S) /\ Len(b) = Len(s) + Len(t)
      /\ \A i \in 1..Len(s) : b[i] = s[i]
  BY ONLY Joined
<1>2. Len(s) \in Nat /\ Len(t) \in Nat
  OBVIOUS
<1> HIDE DEF b
<1>3. n <= Len(b)
  BY <1>1, <1>2
<1>4. x \in Seq(S) /\ Len(x) = n /\ \A i \in 1..n : x[i] = b[i]
  BY <1>1, <1>3, Begins
<1>5. y \in Seq(S) /\ Len(y) = n /\ \A i \in 1..n : y[i] = s[i]
  BY Begins
<1> HIDE DEF x, y
<1>6. \A i \in 1..n : x[i] = y[i]
  <2>1. \A i \in 1..n : i \in 1..Len(s)
    BY <1>2
  <2> QED BY <1>1, <1>4, <1>5, <2>1
<1>7. x = y
  BY <1>4, <1>5, <1>6, SeqEqual
<1> QED BY <1>3, <1>7 DEF b, x, y

-----------------------------------------------------------------------------
\* The effects of a call e for c that has written w.
Effects(e, c, w) ==
    /\ w = e.out \/ (e.ret = "error" /\ w = <<Error>>)
    /\ w \in Seq(Piece \cup {Error})
    /\ request' = request /\ sent' = sent /\ gone' = gone /\ disturbed' = disturbed
    /\ files' = e.files
    /\ taken' = [taken EXCEPT ![c] = e.read]
    /\ out' = [out EXCEPT ![c] = out[c] \o w]
    /\ unread' = [unread EXCEPT ![c] = IF c \in gone THEN unread[c] ELSE unread[c] + Len(w)]
    /\ slot' = [slot EXCEPT ![at] = IF e.ret = "more" THEN e.s ELSE Fresh]
    /\ clients' = [clients EXCEPT ![at] = IF e.ret = "more" THEN c ELSE None]
    /\ place' = [place EXCEPT ![c] = IF e.ret = "more" THEN "accepted" ELSE "closed"]
    /\ edge' = IF e.ret = "more" THEN edge ELSE edge \ {c}
    /\ at' = IF at = MAX_CLIENTS THEN 0 ELSE at + 1

\* A call that is made, for the slot of the loop, whose connection is c.
Serving(e, c, w) ==
    /\ alive /\ at \in Slots /\ c \in Conns /\ clients[at] = c /\ place[c] = "accepted"
    /\ \A j \in Slots \ {at} : clients[j] # c
    /\ Calls(e, at) /\ Effects(e, c, w)
    /\ e.out \in Seq(Piece) /\ (e.ret = "error" => e.out = <<>>)

\* What is served, and what it has written.
LEMMA ServeEffects ==
  ASSUME NonstopInv, Books, alive, at # 0, clients[at] # None,
         process_client(at).ret # "exit", Serve(at, process_client(at))
  PROVE  \E w : Serving(process_client(at), clients[at], w)
<1> DEFINE c == clients[at]
           e == process_client(at)
           last == IF e.ret = "error" /\ Room(c) > 0 THEN <<<<"ERROR", 0>>>> ELSE <<>>
           w == e.out \o last
<1>1. at \in Slots /\ c \in Conns
  BY DEF NonstopInv, Types, Slots
<1>2. Fits(e, c) /\ Calls(e, at)
  BY <1>1, ProcessFits, ProcessCalls
<1> HIDE DEF e
<1>3. e.out \in Seq(Piece) /\ (e.ret = "error" => e.out = <<>>)
  BY <1>2 DEF Fits, CallType
<1>4. place[c] = "accepted" /\ \A j \in Slots \ {at} : clients[j] # c
  BY <1>1 DEF NonstopInv, Seats
<1>5. (w = e.out \/ (e.ret = "error" /\ w = <<Error>>)) /\ w \in Seq(Piece \cup {Error})
  <2> DEFINE P == Piece \cup {Error}
  <2>1. <<Error>> \in Seq(P) /\ e.out \in Seq(P)
    <3>1. Error \in P
      OBVIOUS
    <3>2. Piece \subseteq P
      OBVIOUS
    <3> HIDE DEF P
    <3>3. <<Error>> \in Seq(P)
      BY <3>1
    <3>4. Seq(Piece) \subseteq Seq(P)
      BY <3>2
    <3> QED BY <1>3, <3>3, <3>4
  <2> HIDE DEF P
  <2>2. CASE e.ret = "error" /\ Room(c) > 0
    <3>1. w = <<>> \o <<Error>>
      BY <1>3, <2>2 DEF Error
    <3> HIDE DEF w
    <3>2. w = <<Error>>
      BY <2>1, <3>1, ConcatEmptySeq
    <3> QED BY <2>1, <2>2, <3>2 DEF P
  <2>3. CASE ~(e.ret = "error" /\ Room(c) > 0)
    <3>1. w = e.out \o <<>>
      BY <2>3
    <3> HIDE DEF w
    <3>2. w = e.out
      BY <2>1, <3>1, ConcatEmptySeq
    <3> QED BY <2>1, <3>2 DEF P
  <2> QED BY <2>2, <2>3
<1>6. /\ request' = request /\ sent' = sent /\ gone' = gone /\ disturbed' = disturbed
      /\ files' = e.files
      /\ taken' = [taken EXCEPT ![c] = e.read]
      /\ out' = [out EXCEPT ![c] = out[c] \o w]
      /\ unread' = [unread EXCEPT ![c] = IF c \in gone THEN unread[c] ELSE unread[c] + Len(w)]
      /\ slot' = [slot EXCEPT ![at] = Left(e)]
      /\ clients' = [clients EXCEPT ![at] = IF e.ret # "more" THEN None ELSE clients[at]]
      /\ place' = [place EXCEPT ![c] = IF e.ret # "more" THEN "closed" ELSE place[c]]
      /\ edge' = IF e.ret # "more" THEN edge \ {c} ELSE edge
      /\ at' = IF at = MAX_CLIENTS THEN 0 ELSE at + 1
  BY DEF Serve, clientVars, Advance, e
<1> HIDE DEF w
<1>7. Effects(e, c, w)
  <2>1. CASE e.ret = "more"
    BY <1>4, <1>5, <1>6, <2>1 DEF Effects, Left
  <2>2. CASE e.ret # "more"
    BY <1>4, <1>5, <1>6, <2>2 DEF Effects, Left
  <2> QED BY <2>1, <2>2
<1>8. Serving(e, c, w)
  BY <1>1, <1>2, <1>3, <1>4, <1>7 DEF Serving
<1> QED BY <1>8 DEF e

\* What is written to c when there was o before.
LEMMA Longer ==
  ASSUME NEW S, NEW o \in Seq(S), NEW w \in Seq(S)
  PROVE  /\ o \o w \in Seq(S) /\ Len(o \o w) = Len(o) + Len(w)
         /\ o \o w = <<>> <=> o = <<>> /\ w = <<>>
         /\ o = <<>> => o \o w = w
         /\ Len(o) \in Nat /\ Len(w) \in Nat
<1> HIDE NonstopAssumption
<1>1. Len(o) \in Nat /\ Len(w) \in Nat
  OBVIOUS
<1> QED BY <1>1, Joined, ConcatEqualIffEmpty, ConcatEmptySeq

\* A call keeps the books.
LEMMA ServeBooks ==
  ASSUME NonstopInv, Books, NEW e, NEW c, NEW w, Serving(e, c, w)
  PROVE  Books'
<1>1. /\ at \in Slots /\ c \in Conns /\ clients[at] = c /\ place[c] = "accepted"
      /\ \A j \in Slots \ {at} : clients[j] # c
      /\ Calls(e, at) /\ Effects(e, c, w)
      /\ e.out \in Seq(Piece) /\ (e.ret = "error" => e.out = <<>>)
  BY DEF Serving
<1>2. /\ w = e.out \/ (e.ret = "error" /\ w = <<Error>>)
      /\ w \in Seq(Piece \cup {Error})
      /\ request' = request /\ disturbed' = disturbed
      /\ taken' = [taken EXCEPT ![c] = e.read]
      /\ out' = [out EXCEPT ![c] = out[c] \o w]
      /\ unread' = [unread EXCEPT ![c] = IF c \in gone THEN unread[c] ELSE unread[c] + Len(w)]
      /\ slot' = [slot EXCEPT ![at] = IF e.ret = "more" THEN e.s ELSE Fresh]
      /\ clients' = [clients EXCEPT ![at] = IF e.ret = "more" THEN c ELSE None]
      /\ place' = [place EXCEPT ![c] = IF e.ret = "more" THEN "accepted" ELSE "closed"]
  BY <1>1 DEF Effects
<1>3. /\ clients \in [Slots -> Conns \cup {None}] /\ slot \in [Slots -> SlotType]
      /\ taken \in [Conns -> Nat] /\ unread \in [Conns -> 0..Capacity]
      /\ place \in [Conns -> {"away", "waiting", "accepted", "closed"}]
      /\ out \in [Conns -> Seq(Piece \cup {Error})]
  BY DEF NonstopInv, Types, Books, Outs
<1>4. /\ out[c] \o w \in Seq(Piece \cup {Error})
      /\ out[c] \o w = <<>> => out[c] = <<>> /\ w = <<>>
  <2> DEFINE P == Piece \cup {Error}
             o == out[c]
  <2>1. o \in Seq(P) /\ w \in Seq(P)
    BY <1>1, <1>2, <1>3
  <2> HIDE DEF P, o
  <2>2. o \o w \in Seq(P) /\ (o \o w = <<>> <=> o = <<>> /\ w = <<>>)
    BY <2>1, Longer
  <2> QED BY <2>2 DEF P, o
<1>5. Outs'
  <2>1. out' \in [Conns -> Seq(Piece \cup {Error})]
    BY <1>1, <1>2, <1>3, <1>4
  <2>2. ASSUME NEW d \in Conns
        PROVE  /\ out'[d] = <<>> => unread'[d] = 0
               /\ place'[d] \in {"away", "waiting"} => out'[d] = <<>>
    <3>1. CASE d # c
      BY <1>1, <1>2, <1>3, <2>2, <3>1 DEF Books, Outs
    <3>2. CASE d = c
      <4>1. out'[d] = out[c] \o w /\ place'[d] \in {"accepted", "closed"}
        BY <1>1, <1>2, <1>3, <3>2
      <4>2. ASSUME out'[d] = <<>> PROVE unread'[d] = 0
        <5>1. out[c] = <<>> /\ w = <<>>
          BY <1>4, <4>1, <4>2
        <5>2. unread[c] = 0 /\ Len(w) = 0
          BY <1>1, <5>1 DEF Books, Outs
        <5>3. unread'[d] = IF c \in gone THEN 0 ELSE 0 + 0
          BY <1>1, <1>2, <1>3, <3>2, <5>2
        <5> QED BY <5>3
      <4> QED BY <4>1, <4>2
    <3> QED BY <3>1, <3>2
  <2> QED BY <2>1, <2>2 DEF Outs
<1>6. /\ e.read \in Nat /\ (taken[c] > 0 => e.read > 0) /\ Full(e.s)
      /\ e.s.args \in Conns => e.s.args = slot[at].args \/ (e.s.args = c /\ e.read > 0)
      /\ c \notin disturbed => Tells(e, Call(at), c, out[c])
  BY <1>1 DEF Calls
<1>7. \A d \in Conns : taken[d] > 0 => taken'[d] > 0
  BY <1>1, <1>2, <1>3, <1>6
<1>8. ASSUME NEW i \in Slots
      PROVE  /\ Full(slot'[i])
             /\ slot'[i].args \in Conns => /\ taken'[slot'[i].args] > 0
                                           /\ \/ slot'[i].args = clients'[i]
                                              \/ slot'[i].args \in disturbed
  <2>1. /\ Full(slot[i])
        /\ slot[i].args \in Conns => /\ taken[slot[i].args] > 0
                                     /\ slot[i].args = clients[i] \/ slot[i].args \in disturbed
    BY DEF Books, Holders
  <2>2. CASE i # at
    <3>1. slot'[i] = slot[i] /\ clients'[i] = clients[i]
      BY <1>1, <1>2, <1>3, <2>2
    <3> QED BY <1>7, <2>1, <3>1
  <2>3. CASE i = at /\ e.ret = "more"
    <3>1. slot'[i] = e.s /\ clients'[i] = c /\ taken'[c] = e.read
      BY <1>1, <1>2, <1>3, <2>3
    <3> QED BY <1>1, <1>6, <1>7, <2>1, <2>3, <3>1
  <2>4. CASE i = at /\ e.ret # "more"
    <3>1. slot'[i] = Fresh
      BY <1>1, <1>2, <1>3, <2>4
    <3>2. Fresh.args = None
      BY DEF Fresh
    <3>3. Full(Fresh)
      BY <3>2 DEF Full
    <3> QED BY <3>1, <3>2, <3>3
  <2> QED BY <2>2, <2>3, <2>4
<1>9. Holders'
  <2>1. \A i \in Slots : Full(slot'[i]) => Full(slot[i])'
    BY <1>2 DEF Full
  <2> QED BY <1>2, <1>8, <2>1 DEF Holders
<1>10. ASSUME NEW i \in Slots, clients'[i] \in Conns \ disturbed
       PROVE  Tale(slot'[i], clients'[i], out'[clients'[i]], taken'[clients'[i]])
  <2>1. CASE i # at
    <3> DEFINE d == clients[i]
    <3>1. slot'[i] = slot[i] /\ clients'[i] = d
      BY <1>1, <1>2, <1>3, <2>1
    <3>2. d # c /\ d \in Conns \ disturbed
      BY <1>1, <1>10, <2>1, <3>1
    <3>3. out'[d] = out[d] /\ taken'[d] = taken[d]
      BY <1>1, <1>2, <1>3, <3>2
    <3>4. Tale(slot[i], d, out[d], taken[d])
      BY <3>2 DEF Books, Tales
    <3> QED BY <3>1, <3>3, <3>4
  <2>2. CASE i = at
    <3>1. clients'[i] = (IF e.ret = "more" THEN c ELSE None)
      BY <1>1, <1>2, <1>3, <2>2
    <3>2. e.ret = "more" /\ clients'[i] = c /\ c \notin disturbed
      BY <1>10, <3>1
    <3>3. slot'[i] = e.s /\ taken'[c] = e.read /\ out'[c] = out[c] \o e.out
      BY <1>1, <1>2, <1>3, <2>2, <3>2
    <3>4. Tale(e.s, c, out[c] \o e.out, e.read)
      BY <1>6, <3>2 DEF Tells
    <3> QED BY <3>2, <3>3, <3>4
  <2> QED BY <2>1, <2>2
<1>11. Tales'
  <2>1. ASSUME NEW i \in Slots,
               Tale(slot'[i], clients'[i], out'[clients'[i]], taken'[clients'[i]])
        PROVE  Tale(slot[i], clients[i], out[clients[i]], taken[clients[i]])'
    BY <1>2, <2>1 DEF Tale, Verb
  <2> QED BY <1>2, <1>10, <2>1 DEF Tales
<1> QED BY <1>5, <1>9, <1>11 DEF Books
-----------------------------------------------------------------------------
\* Somebody's DELETE of f has been read, n being how far each one has been.
Deleted(f, n) == \E d \in Conns : Verb(d) = "DELETE" /\ n[d] > 0 /\ request[d].file = f

\* What c has got, o, begins as the reply with a PUT's data.
Got(c, o) ==
    \E d \in Conns :
       /\ Verb(d) = "PUT" /\ request[d].file = request[c].file
       /\ LET reply == Answer(Upload(d))
              n == Min({Capacity, Len(reply)})
          IN  \/ d \in disturbed
              \/ Len(o) >= n /\ SubSeq(o, 1, n) = SubSeq(reply, 1, n)

\* Each file is what one PUT of it has sent, or comes from a slot taken over.
Stored ==
    alive => \A f \in Files :
       files[f] # <<>>
       => \E d \in Conns : /\ Verb(d) = "PUT" /\ request[d].file = f
                           /\ d \in disturbed \/ files[f] = Upload(d)

\* A GET that has been told anything but an error has got a PUT's data.
Seen ==
    \A c \in Conns \ disturbed :
       Verb(c) = "GET" /\ (\E k \in 1..Len(out[c]) : out[c][k] \in Piece) => Got(c, out[c])

\* The file of a GET that has been told something is there until it is deleted.
Lasting ==
    \A c \in Conns \ disturbed :
       alive /\ place[c] = "accepted" /\ Verb(c) = "GET" /\ out[c] # <<>>
       => files[request[c].file] # <<>> \/ Deleted(request[c].file, taken)

Stories == Stored /\ Seen /\ Lasting /\ OneVerdict

\* An error is no piece.
LEMMA NoPiece == Error \notin Piece /\ \A p \in Piece : p[1] # "ERROR"
BY DEF Error, Piece, Words

\* A step that serves nobody keeps the stories.
LEMMA StoriesKept ==
  ASSUME Stories, request' = request, out' = out, taken' = taken,
         disturbed \subseteq disturbed', alive' => alive /\ files' = files,
         \A c \in Conns : place'[c] = "accepted" => place[c] = "accepted" \/ out[c] = <<>>
  PROVE  Stories'
<1>1. \A d \in Conns : /\ Verb(d)' = Verb(d) /\ request'[d] = request[d]
                       /\ Upload(d)' = Upload(d)
  BY DEF Verb, Upload
<1>2. \A f : Deleted(f, taken) => Deleted(f, taken')
  OBVIOUS
<1>3. Stored'
  BY <1>1 DEF Stories, Stored
<1>4. ASSUME NEW c \in Conns, Got(c, out[c]) PROVE Got(c, out[c])'
  <2>1. PICK d \in Conns :
           /\ Verb(d) = "PUT" /\ request[d].file = request[c].file
           /\ LET reply == Answer(Upload(d))
                  n == Min({Capacity, Len(reply)})
              IN  \/ d \in disturbed
                  \/ Len(out[c]) >= n /\ SubSeq(out[c], 1, n) = SubSeq(reply, 1, n)
    BY <1>4 DEF Got
  <2>2. Answer(Upload(d))' = Answer(Upload(d))
    BY <1>1 DEF Answer
  <2> QED BY <1>1, <2>1, <2>2 DEF Got
<1>5. Seen'
  BY <1>1, <1>4 DEF Stories, Seen
<1>6. Lasting'
  BY <1>1, <1>2 DEF Stories, Lasting, Deleted
<1>7. OneVerdict'
  <2>1. \A c \in Conns : \A what : Wrote(c, what)' <=> Wrote(c, what)
    BY DEF Wrote
  <2>2. \A c \in Conns \ disturbed' :
           Wrote(c, "OK") /\ Wrote(c, "ERROR")
           => /\ Verb(c) = "GET" /\ Len(out[c]) > Capacity
              /\ \E d \in Conns : /\ Verb(d) = "DELETE" /\ taken[d] > 0
                                  /\ request[d].file = request[c].file
    BY DEF Stories, OneVerdict
  <2> QED BY <1>1, <2>1, <2>2 DEF OneVerdict
<1> QED BY <1>3, <1>5, <1>6, <1>7 DEF Stories

\* A reply is a sequence of pieces, of which one call writes some.
LEMMA Answered ==
  ASSUME NEW b \in Seq(Piece)
  PROVE  /\ Answer(b) \in Seq(Piece) /\ Len(Answer(b)) \in Nat
         /\ Min({Capacity, Len(Answer(b))}) \in Nat
         /\ Min({Capacity, Len(Answer(b))}) <= Len(Answer(b))
<1>1. Answer(b) \in Seq(Piece)
  <2>1. Len(b) \in Nat
    OBVIOUS
  <2>2. <<"OK", 0>> \in Piece /\ <<"size", Len(b)>> \in Piece
    BY <2>1 DEF Piece, Words
  <2>3. <<<<"OK", 0>>, <<"size", Len(b)>>>> \in Seq(Piece)
    BY <2>2
  <2> QED BY <2>3, ConcatProperties DEF Answer
<1> DEFINE all == Answer(b)
<1> HIDE DEF all
<1>2. Len(all) \in Nat
  BY <1>1 DEF all
<1>3. Min({Capacity, Len(all)}) \in {Capacity, Len(all)} /\ Min({Capacity, Len(all)}) <= Len(all)
  BY <1>2, FirstRoom
<1>4. Min({Capacity, Len(all)}) \in Nat
  BY <1>2, <1>3
<1> QED BY <1>1, <1>2, <1>3, <1>4 DEF all

\* So is the reply with what a PUT sends.
LEMMA UploadAnswered ==
  ASSUME request \in Workloads, NEW d \in Conns
  PROVE  Upload(d) \in Seq(Piece) /\ Min({Capacity, Len(Answer(Upload(d)))}) \in Nat
<1>1. request[d].size \in Nat
  OBVIOUS
<1>2. \A k \in 1..request[d].size : <<d, k>> \in Piece
  BY DEF Piece
<1>3. Upload(d) \in [1..request[d].size -> Piece]
  BY <1>2 DEF Upload
<1>4. Upload(d) \in Seq(Piece)
  BY <1>1, <1>3, SeqDef
<1> QED BY <1>4, Answered

\* What c has got, it has got when more is written.
LEMMA GotKept ==
  ASSUME NEW c \in Conns, request \in Workloads, NEW S, NEW o \in Seq(S), NEW w \in Seq(S),
         Got(c, o)
  PROVE  Got(c, o \o w)
<1>1. PICK d \in Conns :
         /\ Verb(d) = "PUT" /\ request[d].file = request[c].file
         /\ LET reply == Answer(Upload(d))
                n == Min({Capacity, Len(reply)})
            IN  \/ d \in disturbed
                \/ Len(o) >= n /\ SubSeq(o, 1, n) = SubSeq(reply, 1, n)
  BY DEF Got
<1> DEFINE reply == Answer(Upload(d))
           n == Min({Capacity, Len(reply)})
<1>2. n \in Nat
  BY <1>1, UploadAnswered
<1> HIDE DEF reply, n
<1>3. Len(o) >= n => n <= Len(o \o w) /\ SubSeq(o \o w, 1, n) = SubSeq(o, 1, n)
  <2>1. Len(o) \in Nat /\ (Len(o) >= n => n <= Len(o))
    BY <1>2
  <2> QED BY <1>2, <2>1, PrefixKept
<1>4. Len(o) >= n => Len(o \o w) >= n
  <2>1. Len(o \o w) \in Nat
    BY Longer
  <2> QED BY <1>2, <1>3, <2>1
<1> QED BY <1>1, <1>3, <1>4 DEF Got, reply, n

\* The first call of a GET gets what a PUT has sent.
LEMMA FirstGot ==
  ASSUME NEW c \in Conns, request \in Workloads, NEW d \in Conns, Verb(d) = "PUT",
         request[d].file = request[c].file, NEW b \in Seq(Piece),
         d \in disturbed \/ b = Upload(d)
  PROVE  Got(c, SubSeq(Answer(b), 1, Min({Capacity, Len(Answer(b))})))
<1> DEFINE all == Answer(b)
           n == Min({Capacity, Len(all)})
           o == SubSeq(all, 1, n)
<1>1. all \in Seq(Piece) /\ Len(all) \in Nat /\ n \in Nat /\ n <= Len(all)
  BY Answered
<1> HIDE DEF all, n
<1>2. o \in Seq(Piece) /\ Len(o) = n /\ SubSeq(o, 1, n) = o
  BY <1>1, Begins
<1>3. CASE d \in disturbed
  BY <1>3 DEF Got
<1>4. CASE b = Upload(d)
  <2>1. Len(o) >= n /\ SubSeq(o, 1, n) = SubSeq(all, 1, n)
    BY <1>1, <1>2
  <2>2. all = Answer(Upload(d)) /\ n = Min({Capacity, Len(Answer(Upload(d)))})
    BY <1>4 DEF all, n
  <2> HIDE DEF o
  <2>3. Got(c, o)
    BY <2>1, <2>2 DEF Got
  <2> QED BY <2>3 DEF o, all, n
<1> QED BY <1>3, <1>4

\* What a call tells its connection, in terms of the state.
LEMMA ServeTells ==
  ASSUME NonstopInv, Books, NEW e, NEW c, NEW w, Serving(e, c, w), c \notin disturbed
  PROVE  LET f == request[c].file
         IN  /\ out[c] \in Seq(Piece) /\ Len(out[c]) \in Nat
             /\ e.ret = "error" /\ out[c] # <<>> =>
                  Verb(c) = "GET" /\ files[f] = <<>> /\ Len(out[c]) >= Capacity
             /\ Verb(c) = "GET" /\ out[c] = <<>> /\ e.out # <<>> =>
                  /\ files[f] # <<>>
                  /\ e.out = SubSeq(Answer(files[f]), 1, Min({Capacity, Len(Answer(files[f]))}))
             /\ e.ret = "more" /\ sent[c] = Len(Stream(c)) =>
                  \/ Len(out[c] \o e.out) >= Capacity
                  \/ Verb(c) = "PUT" /\ (request[c].sends < request[c].size \/ request[c].size = 0)
             /\ Verb(c) = "PUT" => e.files[f] \in {files[f], Upload(c)}
<1>1. /\ at \in Slots /\ c \in Conns /\ clients[at] = c /\ Calls(e, at)
  BY DEF Serving
<1>2. Tells(e, Call(at), c, out[c])
  BY <1>1 DEF Calls
<1>3. Call(at).files = files
  BY DEF Call
<1>4. out[c] \in Seq(Piece)
  <2>1. Tale(slot[at], c, out[c], taken[c])
    BY <1>1 DEF Books, Tales
  <2> QED BY <2>1 DEF Tale
<1>5. Len(out[c]) \in Nat
  BY <1>4
<1> QED BY <1>2, <1>3, <1>4, <1>5 DEF Tells, Verb

\* What a call changes of the files and of what has been read.
LEMMA ServeChanges ==
  ASSUME NonstopInv, Books, NEW e, NEW c, NEW w, Serving(e, c, w)
  PROVE  /\ \A d \in Conns : taken[d] > 0 => taken'[d] > 0
         /\ \A d \in Conns \ {c} : out'[d] = out[d] /\ place'[d] = place[d]
         /\ out'[c] = out[c] \o w /\ w \in Seq(Piece \cup {Error})
         /\ place'[c] = IF e.ret = "more" THEN "accepted" ELSE "closed"
         /\ \A f : Deleted(f, taken) => Deleted(f, taken')
         /\ \A f \in Files :
              files'[f] # files[f]
              => \/ files'[f] = <<>> /\ Deleted(f, taken')
                 \/ /\ files'[f] # <<>>
                    /\ \E d \in Conns : /\ Verb(d) = "PUT" /\ request[d].file = f
                                        /\ d = c \/ d \in disturbed
<1>1. /\ at \in Slots /\ c \in Conns /\ clients[at] = c /\ Calls(e, at) /\ Effects(e, c, w)
  BY DEF Serving
<1>2. /\ request' = request /\ disturbed' = disturbed /\ files' = e.files
      /\ taken' = [taken EXCEPT ![c] = e.read]
      /\ out' = [out EXCEPT ![c] = out[c] \o w]
      /\ w \in Seq(Piece \cup {Error})
      /\ place' = [place EXCEPT ![c] = IF e.ret = "more" THEN "accepted" ELSE "closed"]
  BY <1>1 DEF Effects
<1>3. /\ taken \in [Conns -> Nat] /\ out \in [Conns -> Seq(Piece \cup {Error})]
      /\ place \in [Conns -> {"away", "waiting", "accepted", "closed"}]
  BY DEF NonstopInv, Types, Books, Outs
<1>4. /\ e.read \in Nat /\ (taken[c] > 0 => e.read > 0)
      /\ \A f \in Files :
             e.files[f] # files[f]
             => \E d \in Conns :
                  /\ request[d].file = f
                  /\ (d = c /\ e.read > 0) \/ (d \in disturbed /\ taken[d] > 0)
                  /\ \/ request[d].verb = "DELETE" /\ e.files[f] = <<>>
                     \/ request[d].verb = "PUT" /\ e.files[f] # <<>>
  BY <1>1 DEF Calls
<1>5. \A d \in Conns : taken[d] > 0 => taken'[d] > 0
  BY <1>1, <1>2, <1>3, <1>4
<1>6. \A d \in Conns : Verb(d)' = Verb(d)
  BY <1>2 DEF Verb
<1>7. \A f : Deleted(f, taken) => Deleted(f, taken')
  BY <1>2, <1>5, <1>6 DEF Deleted
<1>8. ASSUME NEW f \in Files, files'[f] # files[f]
      PROVE  \/ files'[f] = <<>> /\ Deleted(f, taken')
             \/ /\ files'[f] # <<>>
                /\ \E d \in Conns : /\ Verb(d) = "PUT" /\ request[d].file = f
                                    /\ d = c \/ d \in disturbed
  <2>1. PICK d \in Conns :
          /\ request[d].file = f
          /\ (d = c /\ e.read > 0) \/ (d \in disturbed /\ taken[d] > 0)
          /\ \/ request[d].verb = "DELETE" /\ e.files[f] = <<>>
             \/ request[d].verb = "PUT" /\ e.files[f] # <<>>
    BY <1>2, <1>4, <1>8
  <2>2. taken'[d] > 0
    BY <1>1, <1>2, <1>3, <1>5, <2>1
  <2>3. CASE request[d].verb = "DELETE" /\ e.files[f] = <<>>
    <3>1. Verb(d) = "DELETE" /\ taken'[d] > 0 /\ request[d].file = f
      BY <2>1, <2>2, <2>3 DEF Verb
    <3>2. Deleted(f, taken')
      BY <3>1 DEF Deleted
    <3> QED BY <1>2, <2>3, <3>2
  <2>4. CASE request[d].verb = "PUT" /\ e.files[f] # <<>>
    BY <1>2, <2>1, <2>4 DEF Verb
  <2> QED BY <2>1, <2>3, <2>4
<1>9. \A d \in Conns \ {c} : out'[d] = out[d] /\ place'[d] = place[d]
  BY <1>1, <1>2, <1>3
<1>10. out'[c] = out[c] \o w /\ place'[c] = IF e.ret = "more" THEN "accepted" ELSE "closed"
  BY <1>1, <1>2, <1>3
<1> QED BY <1>2, <1>5, <1>7, <1>8, <1>9, <1>10

\* A call keeps the files' story.
LEMMA ServeStored ==
  ASSUME NonstopInv, Books, Stored, NEW e, NEW c, NEW w, Serving(e, c, w)
  PROVE  Stored'
<1>1. /\ c \in Conns /\ alive /\ request' = request /\ disturbed' = disturbed
      /\ files' = e.files
  BY DEF Serving, Effects
<1>2. \A d \in Conns : /\ Verb(d)' = Verb(d) /\ request'[d] = request[d]
                       /\ Upload(d)' = Upload(d)
  BY <1>1 DEF Verb, Upload
<1>3. ASSUME NEW f \in Files, files'[f] # <<>>
      PROVE  \E d \in Conns : /\ Verb(d) = "PUT" /\ request[d].file = f
                              /\ d \in disturbed \/ files'[f] = Upload(d)
  <2>1. CASE files'[f] = files[f]
    BY <1>1, <1>3, <2>1 DEF Stored
  <2>2. CASE files'[f] # files[f]
    <3>1. PICK d \in Conns : /\ Verb(d) = "PUT" /\ request[d].file = f
                             /\ d = c \/ d \in disturbed
      BY <1>3, <2>2, ServeChanges
    <3>2. CASE d \in disturbed
      BY <3>1, <3>2
    <3>3. CASE d = c /\ c \notin disturbed
      <4>1. e.files[f] \in {files[f], Upload(c)}
        BY <3>1, <3>3, ServeTells
      <4> QED BY <1>1, <2>2, <3>1, <3>3, <4>1
    <3> QED BY <3>1, <3>2, <3>3
  <2> QED BY <2>1, <2>2
<1> QED BY <1>1, <1>2, <1>3 DEF Stored

\* A call keeps what GETs have got.
LEMMA ServeSeen ==
  ASSUME NonstopInv, Books, Stories, NEW e, NEW c, NEW w, Serving(e, c, w)
  PROVE  Seen'
<1>1. /\ c \in Conns /\ alive /\ request' = request /\ disturbed' = disturbed
      /\ w = e.out \/ w = <<Error>>
      /\ request \in Workloads /\ files \in [Files -> Seq(Piece)]
      /\ out[c] \in Seq(Piece \cup {Error})
  BY DEF Serving, Effects, NonstopInv, Types, Books, Outs
<1>2. /\ \A d \in Conns \ {c} : out'[d] = out[d]
      /\ out'[c] = out[c] \o w /\ w \in Seq(Piece \cup {Error})
  BY ServeChanges
<1>3. \A d \in Conns : \A o : Got(d, o) => Got(d, o)'
  <2>1. \A d \in Conns : /\ Verb(d)' = Verb(d) /\ Answer(Upload(d))' = Answer(Upload(d))
    BY <1>1 DEF Verb, Upload, Answer
  <2> QED BY <1>1, <2>1 DEF Got
<1>4. ASSUME NEW d \in Conns \ disturbed, Verb(d) = "GET",
             NEW k \in 1..Len(out'[d]), out'[d][k] \in Piece
      PROVE  Got(d, out'[d])
  <2>1. CASE d # c
    BY <1>2, <1>4, <2>1 DEF Stories, Seen
  <2>2. CASE d = c /\ out[c] # <<>>
    <3>1. out[c] \in Seq(Piece)
      BY <1>4, <2>2, ServeTells
    <3>2. 1 \in 1..Len(out[c]) /\ out[c][1] \in Piece
      BY <2>2, <3>1, EmptySeq
    <3>3. Got(c, out[c])
      BY <1>4, <2>2, <3>2 DEF Stories, Seen
    <3>4. Got(c, out[c] \o w)
      BY <1>1, <1>2, <3>3, GotKept
    <3> QED BY <1>2, <2>2, <3>4
  <2>3. CASE d = c /\ out[c] = <<>>
    <3>1. out'[c] = w
      <4>1. <<>> \o w = w
        BY <1>2, ConcatEmptySeq
      <4> QED BY <1>2, <2>3, <4>1
    <3>2. w # <<Error>> /\ w # <<>>
      <4>1. w = <<Error>> => k = 1 /\ w[k] = Error
        BY <1>4, <2>3, <3>1
      <4>2. w = <<>> => Len(w) = 0
        BY EmptySeq
      <4> QED BY <1>4, <2>3, <3>1, <4>1, <4>2, NoPiece
    <3> DEFINE b == files[request[c].file]
    <3>3. /\ b # <<>> /\ w = SubSeq(Answer(b), 1, Min({Capacity, Len(Answer(b))}))
      <4>1. e.out # <<>> /\ w = e.out /\ c \notin disturbed /\ Verb(c) = "GET"
        BY <1>1, <1>4, <2>3, <3>2
      <4> QED BY <2>3, <4>1, ServeTells
    <3>4. request[c].file \in Files /\ b \in Seq(Piece)
      BY <1>1
    <3>5. PICK q \in Conns : /\ Verb(q) = "PUT" /\ request[q].file = request[c].file
                             /\ q \in disturbed \/ b = Upload(q)
      BY <1>1, <3>3, <3>4 DEF Stories, Stored
    <3> HIDE DEF b
    <3>6. Got(c, w)
      BY <1>1, <3>3, <3>4, <3>5, FirstGot
    <3> QED BY <2>3, <3>1, <3>6
  <2> QED BY <2>1, <2>2, <2>3
<1>5. \A d \in Conns : Verb(d)' = Verb(d)
  BY <1>1 DEF Verb
<1> QED BY <1>1, <1>3, <1>4, <1>5 DEF Seen

\* A call keeps the files of the GETs that go on.
LEMMA ServeLasting ==
  ASSUME NonstopInv, Books, Stories, NEW e, NEW c, NEW w, Serving(e, c, w)
  PROVE  Lasting'
<1>1. /\ c \in Conns /\ alive /\ request' = request /\ disturbed' = disturbed
      /\ w = e.out \/ (e.ret = "error" /\ w = <<Error>>)
      /\ request \in Workloads /\ place[c] = "accepted"
  BY DEF Serving, Effects, NonstopInv, Types
<1>2. /\ \A d \in Conns \ {c} : out'[d] = out[d] /\ place'[d] = place[d]
      /\ out'[c] = out[c] \o w /\ w \in Seq(Piece \cup {Error})
      /\ place'[c] = IF e.ret = "more" THEN "accepted" ELSE "closed"
      /\ \A f : Deleted(f, taken) => Deleted(f, taken')
      /\ \A f \in Files : files'[f] # files[f] => files'[f] # <<>> \/ Deleted(f, taken')
  BY ServeChanges
<1>3. ASSUME NEW d \in Conns \ disturbed, place'[d] = "accepted", Verb(d) = "GET",
             out'[d] # <<>>
      PROVE  files'[request[d].file] # <<>> \/ Deleted(request[d].file, taken')
  <2> DEFINE f == request[d].file
  <2>1. f \in Files
    BY <1>1
  <2>2. files[f] # <<>> \/ Deleted(f, taken)
    <3>1. CASE d # c
      BY <1>1, <1>2, <1>3, <3>1 DEF Stories, Lasting
    <3>2. CASE d = c /\ out[c] # <<>>
      BY <1>1, <1>3, <3>2 DEF Stories, Lasting
    <3>3. CASE d = c /\ out[c] = <<>>
      <4>1. w # <<>>
        <5>1. out'[c] = <<>> \o w
          BY <1>2, <3>3
        <5>2. <<>> \o w = w
          BY <1>2, ConcatEmptySeq
        <5> QED BY <1>3, <3>3, <5>1, <5>2
      <4>2. e.ret = "more"
        BY <1>2, <1>3, <3>3
      <4>3. e.out # <<>> /\ c \notin disturbed /\ Verb(c) = "GET"
        BY <1>1, <1>3, <3>3, <4>1, <4>2
      <4> QED BY <3>3, <4>3, ServeTells
    <3> QED BY <3>1, <3>2, <3>3
  <2> HIDE DEF f
  <2>3. files'[f] # <<>> \/ Deleted(f, taken')
    BY <1>2, <2>1, <2>2
  <2> QED BY <2>3 DEF f
<1>4. \A d \in Conns : Verb(d)' = Verb(d)
  BY <1>1 DEF Verb
<1> QED BY <1>1, <1>3, <1>4 DEF Lasting, Deleted

\* A call keeps to one verdict.
LEMMA ServeVerdict ==
  ASSUME NonstopInv, Books, Stories, NEW e, NEW c, NEW w, Serving(e, c, w)
  PROVE  OneVerdict'
<1>1. /\ c \in Conns /\ alive /\ request' = request /\ disturbed' = disturbed
      /\ w = e.out \/ (e.ret = "error" /\ w = <<Error>>)
      /\ place[c] = "accepted" /\ e.out \in Seq(Piece)
  BY DEF Serving, Effects
<1>2. /\ \A d \in Conns \ {c} : out'[d] = out[d]
      /\ out'[c] = out[c] \o w /\ w \in Seq(Piece \cup {Error})
      /\ \A f : Deleted(f, taken) => Deleted(f, taken')
  BY ServeChanges
<1>3. \A d \in Conns : Verb(d)' = Verb(d)
  BY <1>1 DEF Verb
<1>4. \A d \in Conns \ {c} : \A what : Wrote(d, what)' <=> Wrote(d, what)
  BY <1>2 DEF Wrote
<1>5. ASSUME NEW d \in Conns \ disturbed, d # c, Wrote(d, "OK")', Wrote(d, "ERROR")'
      PROVE  /\ Verb(d) = "GET" /\ Len(out'[d]) > Capacity
             /\ Deleted(request[d].file, taken')
  <2>1. /\ Verb(d) = "GET" /\ Len(out[d]) > Capacity
        /\ Deleted(request[d].file, taken)
    BY <1>4, <1>5 DEF Stories, OneVerdict, Deleted
  <2> QED BY <1>2, <1>5, <2>1
<1>6. ASSUME c \notin disturbed, Wrote(c, "OK")', Wrote(c, "ERROR")'
      PROVE  /\ Verb(c) = "GET" /\ Len(out'[c]) > Capacity
             /\ Deleted(request[c].file, taken')
  <2> DEFINE o == out[c]
  <2>1. /\ o \in Seq(Piece) /\ Len(o) \in Nat
        /\ e.ret = "error" /\ o # <<>> =>
             Verb(c) = "GET" /\ files[request[c].file] = <<>> /\ Len(o) >= Capacity
    BY <1>6, ServeTells
  <2> HIDE DEF o
  <2>2. w = <<Error>> /\ e.ret = "error"
    <3> SUFFICES ASSUME w = e.out PROVE FALSE
      BY <1>1
    <3>1. o \o w \in Seq(Piece)
      BY <1>1, <2>1, Joined
    <3>2. \A k \in 1..Len(o \o w) : (o \o w)[k] \in Piece
      BY <3>1
    <3>3. \E k \in 1..Len(o \o w) : (o \o w)[k][1] = "ERROR"
      BY <1>2, <1>6 DEF Wrote, o
    <3> QED BY <3>2, <3>3, NoPiece
  <2>3. Len(o \o w) = Len(o) + 1 /\ (o \o w)[Len(o) + 1] = Error
    <3> DEFINE P == Piece \cup {Error}
    <3>1. o \in Seq(P) /\ w \in Seq(P)
      <4>1. Piece \subseteq P
        OBVIOUS
      <4> HIDE DEF P
      <4>2. o \in Seq(P)
        BY <2>1, <4>1
      <4> QED BY <1>2, <4>2 DEF P
    <3> HIDE DEF P
    <3>2. Len(o \o w) = Len(o) + Len(w) /\ \A k \in 1..Len(w) : (o \o w)[Len(o) + k] = w[k]
      BY ONLY <3>1, Joined
    <3>3. Len(w) = 1 /\ w[1] = Error /\ 1 \in 1..Len(w)
      BY <2>2
    <3> QED BY <3>2, <3>3
  <2>4. o # <<>>
    <3> SUFFICES ASSUME o = <<>> PROVE FALSE
      OBVIOUS
    <3>1. Len(o) = 0
      BY EmptySeq
    <3>2. Len(o \o w) = 1 /\ (o \o w)[1] = Error
      BY <2>3, <3>1
    <3>3. \E k \in 1..Len(o \o w) : (o \o w)[k][1] = "OK"
      BY <1>2, <1>6 DEF Wrote, o
    <3>4. Error[1] # "OK"
      BY DEF Error
    <3>5. \A k \in 1..Len(o \o w) : k = 1
      <4> DEFINE m == Len(o \o w)
      <4>1. m = 1
        BY <3>2
      <4> HIDE DEF m
      <4>2. \A k \in 1..m : k = 1
        BY ONLY <4>1
      <4> QED BY <4>2 DEF m
    <3>6. \A k \in 1..Len(o \o w) : (o \o w)[k] = Error
      BY <3>2, <3>5
    <3> QED BY <3>3, <3>4, <3>6
  <2>5. Verb(c) = "GET" /\ files[request[c].file] = <<>> /\ Len(o) >= Capacity
    BY <2>1, <2>2, <2>4
  <2>6. Deleted(request[c].file, taken)
    BY <1>1, <1>6, <2>4, <2>5 DEF Stories, Lasting, o
  <2>7. Len(o \o w) > Capacity
    BY <2>1, <2>3, <2>5
  <2> QED BY <1>2, <2>5, <2>6, <2>7 DEF o
<1>7. ASSUME NEW d \in Conns \ disturbed, Wrote(d, "OK")', Wrote(d, "ERROR")'
      PROVE  /\ Verb(d) = "GET" /\ Len(out'[d]) > Capacity
             /\ Deleted(request[d].file, taken')
  BY <1>5, <1>6, <1>7
<1>8. \A d \in Conns : Deleted(request[d].file, taken') =>
         \E q \in Conns : /\ Verb(q)' = "DELETE" /\ taken'[q] > 0
                         /\ request'[q].file = request'[d].file
  BY <1>1, <1>3 DEF Deleted
<1> QED BY <1>1, <1>3, <1>7, <1>8 DEF OneVerdict

\* A step that serves nobody and fills no slot keeps the books.
LEMMA BooksKept ==
  ASSUME NonstopInv, Books, request' = request,
         UNCHANGED <<slot, clients, taken, out, disturbed>>,
         \A c \in Conns : /\ unread'[c] = unread[c] \/ unread'[c] = 0
                          /\ place'[c] \in {"away", "waiting"} => place[c] \in {"away", "waiting"}
  PROVE  Books'
<1>1. Outs'
  BY DEF Books, Outs
<1>2. Holders'
  <2>1. \A i \in Slots : Full(slot[i]) => Full(slot[i])'
    BY DEF Full
  <2> QED BY <2>1 DEF Books, Holders
<1>3. Tales'
  <2>1. ASSUME NEW i \in Slots,
               Tale(slot[i], clients[i], out[clients[i]], taken[clients[i]])
        PROVE  Tale(slot[i], clients[i], out[clients[i]], taken[clients[i]])'
    BY <2>1 DEF Tale, Verb
  <2> QED BY <2>1 DEF Books, Tales
<1> QED BY <1>1, <1>2, <1>3 DEF Books

\* A new connection has been told nothing, and is disturbed unless its slot is
\* empty.
LEMMA AcceptBooks == ASSUME NonstopInv, Books, Accept PROVE Books'
<1>1. PICK c \in Waiting :
        /\ place' = [place EXCEPT ![c] = "accepted"]
        /\ clients' = [clients EXCEPT ![at] = c]
        /\ edge' = IF sent[c] > 0 \/ c \in gone THEN edge \cup {c} ELSE edge
        /\ disturbed' = disturbed \cup ({clients[at]} \ {None})
                                  \cup (IF slot[at] = Fresh THEN {} ELSE {c})
  BY DEF Accept
<1>2. /\ c \in Conns /\ place[c] = "waiting" /\ at \in Slots
      /\ clients \in [Slots -> Conns \cup {None}] /\ slot \in [Slots -> SlotType]
      /\ place \in [Conns -> {"away", "waiting", "accepted", "closed"}]
      /\ request' = request /\ slot' = slot /\ taken' = taken /\ out' = out
      /\ unread' = unread
  BY DEF Accept, Waiting, NonstopInv, Types, Slots, clientVars
<1>3. clients'[at] = c /\ \A i \in Slots \ {at} : clients'[i] = clients[i]
  BY <1>1, <1>2
<1>4. Outs'
  BY <1>1, <1>2 DEF Books, Outs
<1>5. Holders'
  <2>1. \A i \in Slots : Full(slot[i]) => Full(slot[i])'
    BY <1>2 DEF Full
  <2>2. ASSUME NEW i \in Slots, slot[i].args \in Conns
        PROVE  slot[i].args = clients'[i] \/ slot[i].args \in disturbed'
    <3>1. slot[i].args = clients[i] \/ slot[i].args \in disturbed
      BY <2>2 DEF Books, Holders
    <3>2. CASE i # at
      BY <1>1, <1>3, <3>1, <3>2
    <3>3. CASE i = at
      BY <1>1, <2>2, <3>1, <3>3
    <3> QED BY <3>2, <3>3
  <2> QED BY <1>2, <2>1, <2>2 DEF Books, Holders
<1>6. Tales'
  <2>1. ASSUME NEW i \in Slots, NEW d, Tale(slot[i], d, out[d], taken[d])
        PROVE  Tale(slot'[i], d, out'[d], taken'[d])
    BY <1>2, <2>1
  <2>2. ASSUME NEW i \in Slots, clients'[i] \in Conns \ disturbed'
        PROVE  Tale(slot'[i], clients'[i], out'[clients'[i]], taken'[clients'[i]])
    <3>1. CASE i # at
      <4>1. clients'[i] = clients[i] /\ clients[i] \in Conns \ disturbed
        BY <1>1, <1>3, <2>2, <3>1
      <4>2. Tale(slot[i], clients[i], out[clients[i]], taken[clients[i]])
        BY <4>1 DEF Books, Tales
      <4> QED BY <1>2, <4>1, <4>2
    <3>2. CASE i = at
      <4>1. clients'[i] = c /\ slot[at] = Fresh /\ out[c] = <<>>
        BY <1>1, <1>2, <1>3, <2>2, <3>2 DEF Books, Outs
      <4>2. Fresh.args = None /\ Fresh.replied = FALSE
        BY DEF Fresh
      <4>3. <<>> \in Seq(Piece) /\ c # None
        BY <1>2
      <4>4. Tale(Fresh, c, <<>>, taken[c])
        BY <4>2, <4>3 DEF Tale
      <4> QED BY <1>2, <3>2, <4>1, <4>4
    <3> QED BY <3>1, <3>2
  <2>3. ASSUME NEW i \in Slots,
               Tale(slot'[i], clients'[i], out'[clients'[i]], taken'[clients'[i]])
        PROVE  Tale(slot[i], clients[i], out[clients[i]], taken[clients[i]])'
    BY <1>2, <2>3 DEF Tale, Verb
  <2> QED BY <2>2, <2>3 DEF Tales
<1> QED BY <1>4, <1>5, <1>6 DEF Books

-----------------------------------------------------------------------------
\* An undisturbed connection whose client is there and has sent all there is
\* has an event to report, or its slot is still to come in this round, unless
\* stuck: a call that has read everything goes on only then.
Heard ==
    \A i \in Slots :
       LET c == clients[i]
       IN  c \in Conns \ (disturbed \cup gone) /\ sent[c] = Len(Stream(c))
           => c \in edge \/ (at # 0 /\ i >= at) \/ Stuck(c)

\* What a step has to keep of it when it serves nobody.
LEMMA HeardKept ==
  ASSUME Heard, request' = request, out' = out, disturbed \subseteq disturbed',
         gone \subseteq gone',
         \A i \in Slots, c \in Conns \ (disturbed' \cup gone') :
            clients'[i] = c /\ sent'[c] = Len(Stream(c))
            => \/ c \in edge' \/ (at' # 0 /\ i >= at')
               \/ /\ clients[i] = c /\ sent'[c] = sent[c]
                  /\ c \in edge => c \in edge'
                  /\ at # 0 /\ i >= at => at' # 0 /\ i >= at'
  PROVE  Heard'
<1>1. \A c \in Conns : Stream(c)' = Stream(c) /\ Stuck(c)' = Stuck(c)
  BY DEF Stream, Stuck, Verb
<1>2. ASSUME NEW i \in Slots, NEW c \in Conns \ (disturbed' \cup gone'), clients'[i] = c,
             sent'[c] = Len(Stream(c))
      PROVE  c \in edge' \/ (at' # 0 /\ i >= at') \/ Stuck(c)
  BY <1>2 DEF Heard
<1> QED BY <1>1, <1>2 DEF Heard

\* The slots that were still to come are, but for the one of the loop.
LEMMA AdvancePast ==
  ASSUME NEW i \in Slots, at \in Slots, i # at, i >= at, Advance
  PROVE  at' # 0 /\ i >= at'
<1>1. i \in Nat /\ at \in Nat /\ i <= MAX_CLIENTS /\ at >= 1 /\ MAX_CLIENTS \in Nat
  BY DEF Slots
<1>2. at # MAX_CLIENTS /\ at + 1 <= i
  BY <1>1
<1> QED BY <1>1, <1>2 DEF Advance

\* A call: its connection, if it goes on, is stuck when all has come.
LEMMA ServeHeard ==
  ASSUME NonstopInv, Books, Heard, NEW e, NEW c, NEW w, Serving(e, c, w)
  PROVE  Heard'
<1>1. /\ at \in Slots /\ c \in Conns /\ clients[at] = c
      /\ \A j \in Slots \ {at} : clients[j] # c
      /\ w = e.out \/ e.ret = "error"
      /\ request' = request /\ sent' = sent /\ gone' = gone /\ disturbed' = disturbed
      /\ clients' = [clients EXCEPT ![at] = IF e.ret = "more" THEN c ELSE None]
      /\ edge' = IF e.ret = "more" THEN edge ELSE edge \ {c}
      /\ Advance
  BY DEF Serving, Effects, Advance
<1>2. \A d \in Conns : Stream(d)' = Stream(d) /\ Verb(d)' = Verb(d)
  BY <1>1 DEF Stream, Verb
<1>3. clients \in [Slots -> Conns \cup {None}]
  BY DEF NonstopInv, Types
<1>4. /\ \A d \in Conns \ {c} : out'[d] = out[d]
      /\ out'[c] = out[c] \o w
  BY ServeChanges
<1>5. ASSUME NEW i \in Slots, NEW d \in Conns \ (disturbed \cup gone), clients'[i] = d,
             sent[d] = Len(Stream(d))
      PROVE  d \in edge' \/ (at' # 0 /\ i >= at') \/ Stuck(d)'
  <2>1. CASE i # at
    <3>1. clients[i] = d /\ d # c
      BY <1>1, <1>3, <1>5, <2>1
    <3>2. d \in edge \/ (at # 0 /\ i >= at) \/ Stuck(d)
      BY <1>5, <3>1 DEF Heard
    <3>3. Stuck(d) => Stuck(d)'
      BY <1>1, <1>2, <1>4, <1>5, <3>1 DEF Stuck
    <3>4. i >= at => at' # 0 /\ i >= at'
      BY <1>1, <2>1, AdvancePast
    <3> QED BY <1>1, <3>1, <3>2, <3>3, <3>4
  <2>2. CASE i = at
    <3>1. e.ret = "more" /\ d = c /\ c \notin disturbed
      <4>1. clients'[i] = (IF e.ret = "more" THEN c ELSE None)
        BY <1>1, <1>3, <2>2
      <4> QED BY <1>5, <4>1
    <3>2. \/ Len(out[c] \o e.out) >= Capacity
          \/ Verb(c) = "PUT" /\ (request[c].sends < request[c].size \/ request[c].size = 0)
      <4>1. sent[c] = Len(Stream(c))
        BY <1>5, <3>1
      <4> HIDE NonstopAssumption
      <4> QED BY <3>1, <4>1, ServeTells
    <3>3. out'[c] = out[c] \o e.out
      BY <1>1, <1>4, <3>1
    <3>4. Stuck(c)'
      BY <1>1, <1>2, <3>2, <3>3 DEF Stuck
    <3> QED BY <3>1, <3>4
  <2> QED BY <2>1, <2>2
<1> QED BY <1>1, <1>2, <1>5 DEF Heard

-----------------------------------------------------------------------------
\* What the types and the slots are, what has been written and read of each
\* connection and why, and who is still to hear of an event.
Told == Books /\ Stories /\ Heard
StoryInv == NonstopInv /\ Told

\* Nobody has been told anything.
LEMMA InitTold == Init => Told
<1> SUFFICES ASSUME Init PROVE Told
  OBVIOUS
<1>1. /\ request \in Workloads
      /\ \A c \in Conns : out[c] = <<>> /\ unread[c] = 0 /\ Len(out[c]) = 0
      /\ \A i \in Slots : clients[i] = None /\ slot[i] = Fresh
      /\ \A f \in Files : files[f] = <<>>
      /\ out = [c \in Conns |-> <<>>]
  BY DEF Init
<1>2. Fresh.args = None
  BY DEF Fresh
<1>3. Outs
  <2>1. <<>> \in Seq(Piece \cup {Error})
    OBVIOUS
  <2> QED BY <1>1, <2>1 DEF Outs
<1>4. Holders
  BY <1>1, <1>2 DEF Holders, Full
<1>5. Tales /\ Heard
  BY <1>1 DEF Tales, Heard
<1>6. Stored /\ Lasting
  BY <1>1 DEF Stored, Lasting
<1>7. Seen /\ OneVerdict
  <2>1. \A c \in Conns : 1..Len(out[c]) = {}
    BY <1>1
  <2> QED BY <2>1 DEF Seen, OneVerdict, Wrote
<1> QED BY <1>3, <1>4, <1>5, <1>6, <1>7 DEF Told, Books, Stories

\* The clients' steps tell them nothing.
LEMMA ClientsTold ==
  ASSUME StoryInv, NEW c \in Conns, Connect(c) \/ Send(c) \/ Receive(c) \/ Vanish(c)
  PROVE  Told'
<1>1. CASE Connect(c)
  <2>1. Books'
    BY <1>1, BooksKept DEF StoryInv, Told, NonstopInv, Types, Connect, clientVars
  <2>2. Stories'
    BY <1>1, StoriesKept DEF StoryInv, Told, NonstopInv, Types, Connect, clientVars
  <2>3. Heard'
    BY <1>1, HeardKept DEF StoryInv, Told, Connect, clientVars, loopVars
  <2> QED BY <2>1, <2>2, <2>3 DEF Told
<1>2. CASE Send(c)
  <2>1. Books'
    BY <1>2, BooksKept DEF StoryInv, Told, Send
  <2>2. Stories'
    BY <1>2, StoriesKept DEF StoryInv, Told, Send
  <2>3. \A i \in Slots, d \in Conns \ (disturbed' \cup gone') :
           clients'[i] = d => d \in edge' \/ (clients[i] = d /\ sent'[d] = sent[d])
    <3>1. ASSUME NEW i \in Slots, NEW d \in Conns, clients'[i] = d
          PROVE  d \in edge' \/ (clients[i] = d /\ sent'[d] = sent[d])
      <4>1. clients[i] = d /\ d \in Accepted
        BY <1>2, <3>1 DEF Send, StoryInv, NonstopInv, Seats, Accepted
      <4>2. d = c => d \in edge'
        BY <1>2, <4>1 DEF Send, Event
      <4>3. d # c => sent'[d] = sent[d]
        BY <1>2 DEF Send, StoryInv, NonstopInv, Types
      <4> QED BY <4>1, <4>2, <4>3
    <3> QED BY <3>1
  <2>4. edge \subseteq edge'
    BY <1>2 DEF Send, Event
  <2>5. Heard'
    BY <1>2, <2>3, <2>4, HeardKept DEF StoryInv, Told, Send, loopVars
  <2> QED BY <2>1, <2>2, <2>5 DEF Told
<1>3. CASE Receive(c)
  <2>1. Books'
    <3>1. \A d \in Conns : unread'[d] = unread[d] \/ unread'[d] = 0
      BY <1>3 DEF Receive, StoryInv, NonstopInv, Types
    <3> QED BY <1>3, <3>1, BooksKept DEF StoryInv, Told, Receive, clientVars
  <2>2. Stories'
    BY <1>3, StoriesKept DEF StoryInv, Told, Receive, clientVars
  <2>3. Heard'
    BY <1>3, HeardKept DEF StoryInv, Told, Receive, clientVars, loopVars
  <2> QED BY <2>1, <2>2, <2>3 DEF Told
<1>4. CASE Vanish(c)
  <2>1. Books'
    BY <1>4, BooksKept DEF StoryInv, Told, Vanish
  <2>2. Stories'
    BY <1>4, StoriesKept DEF StoryInv, Told, Vanish
  <2>3. edge \subseteq edge'
    BY <1>4 DEF Vanish, Event
  <2>4. Heard'
    BY <1>4, <2>3, HeardKept DEF StoryInv, Told, Vanish, loopVars
  <2> QED BY <2>1, <2>2, <2>4 DEF Told
<1> QED BY <1>1, <1>2, <1>3, <1>4

\* The server wakes up for every slot, whatever has an event to report.
LEMMA WaitTold == ASSUME StoryInv, Wait PROVE Told'
<1>1. /\ at' = 1 /\ request' = request /\ gone' = gone
      /\ UNCHANGED <<slot, clients, taken, out, disturbed, unread, place, files, alive>>
  BY DEF Wait, clientVars
<1>2. Books'
  BY <1>1, BooksKept DEF StoryInv, Told
<1>3. Stories'
  BY <1>1, StoriesKept DEF StoryInv, Told
<1>4. Heard'
  <2>1. at' # 0 /\ \A i \in Slots : i >= at'
    BY <1>1 DEF Slots
  <2> QED BY <1>1, <2>1, HeardKept DEF StoryInv, Told
<1> QED BY <1>2, <1>3, <1>4 DEF Told

\* The slot of the loop is empty.
LEMMA SkipTold == ASSUME StoryInv, Skip PROVE Told'
<1>1. /\ at \in Slots /\ clients[at] = None /\ Advance /\ request' = request
      /\ UNCHANGED <<slot, clients, taken, out, disturbed, unread, place, files, alive,
                     edge, gone, sent>>
  BY DEF Skip, clientVars, Slots, StoryInv, NonstopInv, Types
<1>2. Books'
  BY <1>1, BooksKept DEF StoryInv, Told
<1>3. Stories'
  BY <1>1, StoriesKept DEF StoryInv, Told
<1>4. Heard'
  <2>1. \A i \in Slots, c \in Conns : clients'[i] = c => i # at
    BY <1>1
  <2>2. \A i \in Slots : i # at /\ i >= at => at' # 0 /\ i >= at'
    BY <1>1, AdvancePast
  <2> QED BY <1>1, <2>1, <2>2, HeardKept DEF StoryInv, Told
<1> QED BY <1>2, <1>3, <1>4 DEF Told

\* A connection that has sent before it has a slot has an event to report.
LEMMA AcceptTold == ASSUME StoryInv, Accept PROVE Told'
<1>1. PICK c \in Waiting :
        /\ place' = [place EXCEPT ![c] = "accepted"]
        /\ clients' = [clients EXCEPT ![at] = c]
        /\ edge' = IF sent[c] > 0 \/ c \in gone THEN edge \cup {c} ELSE edge
        /\ disturbed' = disturbed \cup ({clients[at]} \ {None})
                                  \cup (IF slot[at] = Fresh THEN {} ELSE {c})
  BY DEF Accept
<1>2. /\ at \in Slots /\ Advance /\ request' = request /\ c \in Conns
      /\ place[c] = "waiting"
      /\ UNCHANGED <<slot, taken, out, unread, files, alive, gone, sent>>
  BY <1>1 DEF Accept, clientVars, Slots, Waiting, StoryInv, NonstopInv, Types
<1>3. disturbed \subseteq disturbed'
  BY <1>1
<1>4. Books'
  BY AcceptBooks DEF StoryInv, Told
<1>5. Stories'
  <2>1. out[c] = <<>>
    BY <1>2 DEF StoryInv, Told, Books, Outs
  <2>2. \A d \in Conns : d # c => place'[d] = place[d]
    BY <1>1, <1>2 DEF StoryInv, NonstopInv, Types
  <2> QED BY <1>2, <1>3, <2>1, <2>2, StoriesKept DEF StoryInv, Told
<1>6. Heard'
  <2>1. ASSUME NEW i \in Slots, NEW d \in Conns, clients'[i] = d,
               sent'[d] = Len(Stream(d))
        PROVE  \/ d \in edge'
               \/ /\ clients[i] = d /\ sent'[d] = sent[d] /\ (d \in edge => d \in edge')
                  /\ at # 0 /\ i >= at => at' # 0 /\ i >= at'
    <3>1. clients'[at] = c /\ (i # at => clients'[i] = clients[i])
      BY <1>1, <1>2 DEF StoryInv, NonstopInv, Types
    <3>2. CASE i = at
      <4>1. Len(Stream(c)) \in Nat \ {0}
        BY <1>2, StreamType DEF StoryInv, NonstopInv, Types
      <4>2. sent[c] > 0 /\ d = c
        BY <1>2, <2>1, <3>1, <3>2, <4>1
      <4> QED BY <1>1, <4>2
    <3>3. CASE i # at
      <4>1. i >= at => at' # 0 /\ i >= at'
        BY <1>2, <3>3, AdvancePast
      <4> QED BY <1>1, <1>2, <2>1, <3>1, <3>3, <4>1
    <3> QED BY <3>2, <3>3
  <2> QED BY <1>2, <1>3, <2>1, HeardKept DEF StoryInv, Told
<1> QED BY <1>4, <1>5, <1>6 DEF Told

\* The process ends: its files are its own no more.
LEMMA EndTold ==
  ASSUME StoryInv, alive' = FALSE, request' = request,
         UNCHANGED <<at, clients, slot, place, edge, sent, gone, taken, out, unread,
                     disturbed>>
  PROVE  Told'
<1>1. Books'
  BY BooksKept DEF StoryInv, Told
<1>2. Stories'
  BY StoriesKept DEF StoryInv, Told
<1>3. Heard'
  BY HeardKept DEF StoryInv, Told
<1> QED BY <1>1, <1>2, <1>3 DEF Told

\* A slot is served, or the process ends at it.
LEMMA ProcessTold == ASSUME StoryInv, Process PROVE Told'
<1> DEFINE e == process_client(at)
<1>1. alive /\ at # 0 /\ clients[at] # None
  BY DEF Process
<1>2. CASE e.ret # "exit" /\ Serve(at, e)
  <2>1. PICK w : Serving(e, clients[at], w)
    BY <1>1, <1>2, ServeEffects DEF StoryInv, Told
  <2> HIDE DEF e
  <2>2. Books'
    BY <2>1, ServeBooks DEF StoryInv, Told
  <2>3. Stored' /\ Seen' /\ Lasting' /\ OneVerdict'
    BY <2>1, ServeStored, ServeSeen, ServeLasting, ServeVerdict
       DEF StoryInv, Told, Stories
  <2>4. Heard'
    BY <2>1, ServeHeard DEF StoryInv, Told
  <2> QED BY <2>2, <2>3, <2>4 DEF Told, Stories
<1>3. CASE Die
  BY <1>3, EndTold DEF Die, loopVars, clientVars
<1>4. (e.ret # "exit" /\ Serve(at, e)) \/ Die
  BY DEF Process
<1> QED BY <1>2, <1>3, <1>4

\* Every step keeps what is told.
LEMMA NextTold == StoryInv /\ [Next]_vars => StoryInv'
<1> SUFFICES ASSUME StoryInv, [Next]_vars PROVE Told'
  BY NextInv DEF StoryInv
<1>1. CASE \E c \in Conns : Connect(c) \/ Send(c) \/ Receive(c) \/ Vanish(c)
  BY <1>1, ClientsTold
<1>2. CASE Wait \/ Accept \/ Skip \/ Process
  BY <1>2, WaitTold, AcceptTold, SkipTold, ProcessTold
<1>3. CASE Interrupt
  BY <1>3, EndTold DEF Interrupt, loopVars, clientVars
<1>4. CASE UNCHANGED vars
  <2>1. Books'
    BY <1>4, BooksKept DEF StoryInv, Told, vars, clientVars
  <2>2. Stories'
    BY <1>4, StoriesKept DEF StoryInv, Told, vars, clientVars
  <2>3. Heard'
    BY <1>4, HeardKept DEF StoryInv, Told, vars, clientVars, loopVars
  <2> QED BY <2>1, <2>2, <2>3 DEF Told
<1> QED BY <1>1, <1>2, <1>3, <1>4 DEF Next

\* Who has been told OK has been told a piece of a reply.
LEMMA SeenImplies == StoryInv => GetReturnsAPut
<1> SUFFICES ASSUME StoryInv PROVE GetReturnsAPut
  OBVIOUS
<1>1. ASSUME NEW c \in Conns \ disturbed, Verb(c) = "GET", Wrote(c, "OK")
      PROVE  Got(c, out[c])
  <2>1. PICK k \in 1..Len(out[c]) : out[c][k][1] = "OK"
    BY <1>1 DEF Wrote
  <2>2. out[c][k] \in Piece \cup {Error}
    BY <2>1 DEF StoryInv, Told, Books, Outs
  <2>3. Error[1] # "OK"
    BY DEF Error
  <2>4. out[c][k] \in Piece
    BY <2>1, <2>2, <2>3
  <2> QED BY <1>1, <2>4 DEF StoryInv, Told, Stories, Seen
<1> QED BY <1>1 DEF GetReturnsAPut, Got, Answer

\* An undisturbed connection has a slot, and Heard speaks of all slots.
LEMMA HeardImplies == StoryInv => NobodyForgotten
<1> SUFFICES ASSUME StoryInv, NEW c \in Accepted \ (disturbed \cup gone),
                    sent[c] = Len(Stream(c))
             PROVE  c \in edge \/ StillToCome(c) \/ Stuck(c)
  BY DEF NobodyForgotten
<1>1. c \in Conns \ (disturbed \cup gone) /\ c \in Range(clients)
  BY DEF Accepted, StoryInv, NonstopInv, Seats
<1>2. PICK i \in Slots : clients[i] = c
  BY <1>1 DEF Range, StoryInv, NonstopInv, Types
<1>3. c \in edge \/ (at # 0 /\ i >= at) \/ Stuck(c)
  BY <1>1, <1>2 DEF StoryInv, Told, Heard
<1>4. at # 0 /\ i >= at => i \in at..MAX_CLIENTS
  BY DEF Slots, StoryInv, NonstopInv, Types
<1> QED BY <1>2, <1>3, <1>4 DEF StillToCome

\* What is told is so in every state.
LEMMA Always == Spec => []StoryInv
<1>1. Init => StoryInv
  BY InitInv, InitTold DEF StoryInv
<1> QED BY <1>1, NextTold, PTL DEF Spec

\* Nobody undisturbed is told OK and then an error, for any number of clients
\* and slots, requests and files, except by a GET whose file is deleted before
\* all of its reply has been sent (server.c:535-646, :325-337).
THEOREM VerdictIsOne == Spec => []OneVerdict
<1>1. StoryInv => OneVerdict
  BY DEF StoryInv, Told, Stories
<1> QED BY <1>1, Always, PTL

\* A GET that is told OK gets what one PUT of that file has sent, as far as its
\* first call goes, whatever is put, listed and deleted meanwhile
\* (server.c:535-646).
THEOREM GetsReturnPuts == Spec => []GetReturnsAPut
BY SeenImplies, Always, PTL

\* At any time, for any number of clients and slots, an accepted client that
\* has sent everything has an event to be reported or its slot is still to come
\* in this round, unless its reply is too long for one call, its PUT too short,
\* its slot taken over or itself gone (server.c:288-357).  It does not say that
\* the round ends: accept() may block it (:297).
THEOREM NobodyIsForgotten == Spec => []NobodyForgotten
BY HeardImplies, Always, PTL

=============================================================================
