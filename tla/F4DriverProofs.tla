--------------------------- MODULE F4DriverProofs ---------------------------
(***************************************************************************)
(* Invariants of the parts of MCF4Drivers, for any threads, streams,       *)
(* requests and sizes: the streams of DMA2, what READs return, and what    *)
(* arrives of the messages of printf_.  A step of the composition is a     *)
(* step of one part or leaves its variables alone.                         *)
(***************************************************************************)
EXTENDS MCF4Drivers, ListLemmas, FiniteSetTheorems

-----------------------------------------------------------------------------
\* DmaStreams.  The inductive invariant relates the registers of a stream to
\* the one call that has tested it, until a second call tests it too.

\* What may be asked for, and what NDTR may hold.
Asks == CopiesAndMessages \cup Anything
Counts == {0} \cup {(a.size \div (2 ^ a.align)) % (2 ^ Bits) : a \in Asks}
Modes == {"none", "copy", "set", "send"}

Statement == {"scan", "test", "cr", "ndtr", "par", "m0ar", "load", "store"}

StreamType ==
  /\ req \in Seq(Asks) /\ Len(req) <= MoreCalls
  /\ call \in [Threads -> [id : Nat, s : R!Stream, left : Seq(Statement),
                           cr : Modes, free : SUBSET R!Stream,
                           found : BOOLEAN]]
  /\ stream \in [R!Stream -> [mode : Modes, en : BOOLEAN, n : Counts,
                              par : 0 .. Len(req), m0 : 0 .. Len(req),
                              by : 0 .. Len(req)]]
  /\ done \in [0 .. MoreCalls -> Seq([mode : Modes, n : Counts, m0 : Nat])]
  /\ raced \in SUBSET (1 .. Len(req))

Active(t) == call[t].left # <<>>
Left(t) == Len(call[t].left)
Order(r) == IF req[r].kind = "send" THEN R!Peripheral ELSE R!Memory

\* How many statements are left before each of them, in either driver.
Turn(r, statement) ==
  CASE statement = "scan" -> IF req[r].kind = "send" THEN 9 ELSE 8
    [] statement = "test" -> 7
    [] statement = "cr"   -> IF req[r].kind = "send" THEN 3 ELSE 6
    [] statement = "ndtr" -> IF req[r].kind = "send" THEN 4 ELSE 5
    [] statement = "par"  -> IF req[r].kind = "send" THEN 5 ELSE 4
    [] statement = "m0ar" -> IF req[r].kind = "send" THEN 6 ELSE 3
    [] statement = "load" -> 2
    [] OTHER -> 1

\* A call goes through the statements of its driver, for a request that was
\* not rejected.
UnderWay(t) ==
  LET r == call[t].id
  IN Active(t) =>
       /\ r \in 1 .. Len(req) /\ req[r].size # 0
       /\ req[r].null => req[r].kind # "send"
       /\ Left(t) \in 1 .. Len(Order(r))
       /\ \A m \in 1 .. Left(t) :
            call[t].left[m] = Order(r)[(Len(Order(r)) - Left(t)) + m]

\* A call has tested its stream and not yet started it.
Holds(t, s) == Active(t) /\ call[t].s = s /\ Left(t) <= 6

\* A request has one call, and is not both under way and started.
Apart ==
  /\ \A t, u \in Threads : t # u /\ Active(t) /\ Active(u)
                             => call[t].id # call[u].id
  /\ \A t \in Threads, s \in R!Stream :
       Active(t) /\ R!Busy(s) => stream[s].by # call[t].id
  /\ \A s1, s2 \in R!Stream :
       s1 # s2 /\ R!Busy(s1) /\ R!Busy(s2) => stream[s1].by # stream[s2].by

\* Whoever shares a stream has been recorded.
Rivals ==
  /\ \A t, u \in Threads, s \in R!Stream :
       t # u /\ Holds(t, s) /\ Holds(u, s)
         => call[t].id \in raced /\ call[u].id \in raced
  /\ \A t \in Threads, s \in R!Stream :
       Holds(t, s) /\ R!Busy(s)
         => call[t].id \in raced /\ stream[s].by \in raced

\* The registers hold what an undisturbed call has written so far.
Address(r) == IF req[r].null THEN 0 ELSE r

Registers(t) ==
  LET r == call[t].id
      s == call[t].s
  IN Holds(t, s) /\ r \notin raced =>
       /\ Left(t) < Turn(r, "cr") => stream[s].mode = req[r].kind
       /\ Left(t) < Turn(r, "ndtr") => stream[s].n = R!Units(r)
       /\ Left(t) < Turn(r, "par") => stream[s].par = Address(r)
       /\ Left(t) < Turn(r, "m0ar") => stream[s].m0 = Address(r)
       /\ Left(t) < 2 => call[t].cr = req[r].kind /\ ~req[r].null

\* A stream that was started undisturbed is set for its request.
Started(s) ==
  LET r == stream[s].by
  IN R!Busy(s) =>
       /\ r \in 1 .. Len(req) /\ req[r].size # 0
       /\ r \notin raced => /\ stream[s].mode = req[r].kind
                            /\ stream[s].n = R!Units(r)
                            /\ stream[s].par = r /\ stream[s].m0 = r

\* A disturbed one does not move the data of an undisturbed request.
OwnSource(t) ==
  \A s \in R!Stream :
    Holds(t, s) /\ Left(t) < Turn(call[t].id, "par")
      => stream[s].par \in raced \cup {0, call[t].id}

OwnTransfer(s) ==
  R!Busy(s) => stream[s].par \in raced \cup {0, stream[s].by}

Exact(r) == [mode |-> req[r].kind, n |-> R!Units(r), m0 |-> r]

\* What is done is over.
Moved ==
  /\ \A r \in (1 .. Len(req)) \ raced :
       /\ done[r] \in {<<>>, <<Exact(r)>>}
       /\ done[r] # <<>> =>
            /\ \A t \in Threads : Active(t) => call[t].id # r
            /\ \A s \in R!Stream : R!Busy(s) => stream[s].by # r
  /\ \A r \in Len(req) + 1 .. MoreCalls : done[r] = <<>>

Transfers ==
  /\ StreamType /\ Apart /\ Rivals /\ Moved
  /\ \A t \in Threads : UnderWay(t) /\ Registers(t) /\ OwnSource(t)
  /\ \A s \in R!Stream : Started(s) /\ OwnTransfer(s)

-----------------------------------------------------------------------------
\* The steps, whichever of the two instances they are of.

Calls(t) == S!Call(t) \/ R!Call(t)

LEMMA StreamSteps ==
  ASSUME [Next]_vars
  PROVE  \/ UNCHANGED streamVars
         \/ \E t \in Threads : \/ Calls(t) \/ R!Scan(t) \/ R!Test(t)
                               \/ R!Write(t) \/ R!Load(t) \/ R!Store(t)
         \/ \E s \in R!Stream : R!End(s)
<1>1. \A t \in Threads : S!Scan(t) => R!Scan(t)
  BY DEF S!Scan, R!Scan, S!At, R!At, S!Busy, R!Busy, S!Last, R!Last, S!Goes,
         R!Goes
<1>2. \A t \in Threads : S!Test(t) => R!Test(t)
  BY DEF S!Test, R!Test, S!At, R!At, S!Tested, R!Tested, S!Busy, R!Busy,
         S!Idle, R!Idle, S!Goes, R!Goes, S!Claims, R!Claims
<1>3. \A t \in Threads : S!Write(t) => R!Write(t)
  BY DEF S!Write, R!Write, S!At, R!At, S!Written, R!Written, S!Busy, R!Busy,
         S!Units, R!Units, S!Goes, R!Goes
<1>4. \A t \in Threads : S!Load(t) => R!Load(t)
  BY DEF S!Load, R!Load, S!At, R!At, S!Idle, R!Idle, S!Goes, R!Goes
<1>5. \A t \in Threads : S!Store(t) => R!Store(t)
  BY DEF S!Store, R!Store, S!At, R!At, S!Idle, R!Idle, S!Busy, R!Busy
<1>6. \A s \in R!Stream : S!End(s) => R!End(s)
  BY DEF S!End, R!End, S!Busy, R!Busy, S!AfterEnd, R!AfterEnd
<1>7. S!Stream = R!Stream
  BY DEF S!Stream, R!Stream
<1>8. CASE UNCHANGED vars
  BY <1>8 DEF vars
<1>9. CASE S!Next
  BY <1>1, <1>2, <1>3, <1>4, <1>5, <1>6, <1>7, <1>9 DEF S!Next, Calls
<1>10. CASE R!Next
  BY <1>10 DEF R!Next, Calls
<1> QED
  BY <1>8, <1>9, <1>10 DEF Next

\* The statement that comes next, by how many are left.
LEMMA AtTurn ==
  ASSUME StreamType, NEW t \in Threads, UnderWay(t), Active(t)
  PROVE  /\ \A statement \in {"scan", "test", "cr", "ndtr", "par", "m0ar",
                              "load", "store"} :
              R!At(t, statement) <=> Left(t) = Turn(call[t].id, statement)
         /\ Left(t) \in 1 .. 8
<1> DEFINE r == call[t].id
           n == Left(t)
<1>1. call[t].left \in Seq(Statement) /\ call[t].left # <<>>
  BY DEF StreamType, Active
<1>2. n \in 1 .. Len(Order(r)) /\ Head(call[t].left) = call[t].left[1]
  BY <1>1 DEF UnderWay, Left
<1>3. Head(call[t].left) = Order(r)[(Len(Order(r)) - n) + 1]
  BY <1>2 DEF UnderWay
<1>4. CASE req[r].kind = "send"
  <2>1. Order(r) = R!Peripheral /\ Len(R!Peripheral) = 7
    BY <1>4 DEF Order, R!Peripheral
  <2>2. n \in 1 .. 7 /\ Head(call[t].left) = R!Peripheral[8 - n]
    BY <1>2, <1>3, <2>1
  <2> HIDE DEF n, r
  <2>3. Head(call[t].left) = IF n = 7 THEN "test" ELSE IF n = 6 THEN "m0ar"
          ELSE IF n = 5 THEN "par" ELSE IF n = 4 THEN "ndtr"
          ELSE IF n = 3 THEN "cr" ELSE IF n = 2 THEN "load" ELSE "store"
    BY <2>2 DEF R!Peripheral
  <2>4. \A statement \in {"scan", "test", "cr", "ndtr", "par", "m0ar",
                         "load", "store"} :
          Head(call[t].left) = statement <=> n = Turn(r, statement)
    BY <1>4, <2>2, <2>3 DEF Turn
  <2>5. \A statement : R!At(t, statement) <=> Head(call[t].left) = statement
    BY <1>1 DEF R!At
  <2>6. n \in 1 .. 8
    BY <2>2
  <2> QED
    BY <2>4, <2>5, <2>6 DEF n, r
<1>5. CASE req[r].kind # "send"
  <2>1. Order(r) = R!Memory /\ Len(R!Memory) = 8
    BY <1>5 DEF Order, R!Memory
  <2>2. n \in 1 .. 8 /\ Head(call[t].left) = R!Memory[9 - n]
    BY <1>2, <1>3, <2>1
  <2> HIDE DEF n, r
  <2>3. Head(call[t].left) = IF n = 8 THEN "scan" ELSE IF n = 7 THEN "test"
          ELSE IF n = 6 THEN "cr" ELSE IF n = 5 THEN "ndtr"
          ELSE IF n = 4 THEN "par" ELSE IF n = 3 THEN "m0ar"
          ELSE IF n = 2 THEN "load" ELSE "store"
    BY <2>2 DEF R!Memory
  <2>4. \A statement \in {"scan", "test", "cr", "ndtr", "par", "m0ar",
                         "load", "store"} :
          Head(call[t].left) = statement <=> n = Turn(r, statement)
    BY <1>5, <2>2, <2>3 DEF Turn
  <2>5. \A statement : R!At(t, statement) <=> Head(call[t].left) = statement
    BY <1>1 DEF R!At
  <2>6. n \in 1 .. 8
    BY <2>2
  <2> QED
    BY <2>4, <2>5, <2>6 DEF n, r
<1> QED
  BY <1>4, <1>5

LEMMA AtActive ==
  ASSUME NEW t \in Threads, NEW statement, R!At(t, statement)
  PROVE  Active(t)
  BY DEF R!At, Active

LEMMA GoesOn ==
  ASSUME StreamType, NEW t \in Threads, UnderWay(t), Active(t), Left(t) # 1,
         call'[t].left = Tail(call[t].left), call'[t].id = call[t].id,
         req' = req
  PROVE  /\ UnderWay(t)' /\ Active(t)' /\ Left(t)' = Left(t) - 1
         /\ call'[t].left \in Seq(Statement)
<1> DEFINE r == call[t].id
<1>1. call[t].left \in Seq(Statement) /\ call[t].left # <<>>
  BY DEF StreamType, Active
<1>2. /\ Tail(call[t].left) \in Seq(Statement)
      /\ Len(Tail(call[t].left)) = Left(t) - 1
      /\ \A m \in 1 .. Left(t) - 1 :
           Tail(call[t].left)[m] = call[t].left[m + 1]
  BY <1>1, HeadTailProperties DEF Left
<1>3. Left(t) \in 1 .. Len(Order(r)) /\ Len(Order(r)) \in {7, 8}
  BY DEF UnderWay, Active, Order, R!Peripheral, R!Memory
<1>4. Left(t)' = Left(t) - 1 /\ Order(r)' = Order(r)
  BY <1>2 DEF Left, Order
<1>5. Active(t)'
  <2>1. Left(t) \in Nat /\ Left(t) - 1 # 0
    BY <1>3
  <2>2. Len(call'[t].left) # 0
    BY <1>2, <2>1
  <2> QED
    BY <1>2, <2>2, EmptySeq DEF Active
<1>6. \A m \in 1 .. Left(t) - 1 :
        call'[t].left[m] = Order(r)[(Len(Order(r)) - (Left(t) - 1)) + m]
  <2> SUFFICES ASSUME NEW m \in 1 .. Left(t) - 1
               PROVE  call'[t].left[m]
                        = Order(r)[(Len(Order(r)) - (Left(t) - 1)) + m]
    OBVIOUS
  <2>1. call'[t].left[m] = call[t].left[m + 1] /\ m + 1 \in 1 .. Left(t)
    BY <1>2, <1>3
  <2>2. call[t].left[m + 1] = Order(r)[(Len(Order(r)) - Left(t)) + (m + 1)]
    BY <2>1 DEF UnderWay
  <2>3. (Len(Order(r)) - Left(t)) + (m + 1)
          = (Len(Order(r)) - (Left(t) - 1)) + m
    BY <1>3
  <2> QED
    BY <2>1, <2>2, <2>3
<1>7. UnderWay(t)'
  <2>1. Left(t)' \in 1 .. Len(Order(r))
    BY <1>3, <1>4
  <2> QED
    BY <1>4, <1>6, <2>1 DEF UnderWay
<1> QED
  BY <1>2, <1>4, <1>5, <1>7

LEMMA SameRequests ==
  ASSUME req' = req
  PROVE  \A r : /\ R!Units(r)' = R!Units(r) /\ Order(r)' = Order(r)
                /\ Address(r)' = Address(r) /\ Exact(r)' = Exact(r)
                /\ \A statement : Turn(r, statement)' = Turn(r, statement)
  BY DEF R!Units, Order, Address, Exact, Turn

\* What the invariant says of a call is about these.
Kept(u) == /\ call'[u].id = call[u].id /\ call'[u].s = call[u].s
           /\ call'[u].left = call[u].left /\ call'[u].cr = call[u].cr

\* A step that changes no register: what is left to show is about the call.
LEMMA CallGoesOn ==
  ASSUME Transfers, StreamType', NEW t \in Threads,
         UNCHANGED <<req, stream, done>>, raced \subseteq raced',
         \A u \in Threads \ {t} : Kept(u),
         Active(t)' => Active(t) /\ call'[t].id = call[t].id,
         UnderWay(t)', Registers(t)', OwnSource(t)',
         \A s \in R!Stream :
           Holds(t, s)' =>
             /\ R!Busy(s) => call[t].id \in raced' /\ stream[s].by \in raced'
             /\ \A u \in Threads \ {t} :
                  Holds(u, s) => call[t].id \in raced' /\ call[u].id \in raced'
  PROVE  Transfers'
<1>1. /\ \A r : /\ R!Units(r)' = R!Units(r) /\ Order(r)' = Order(r)
                /\ Address(r)' = Address(r) /\ Exact(r)' = Exact(r)
                /\ \A statement : Turn(r, statement)' = Turn(r, statement)
      /\ \A s \in R!Stream : R!Busy(s)' <=> R!Busy(s)
  BY SameRequests DEF R!Busy
<1>2. \A u \in Threads \ {t} : /\ Active(u)' <=> Active(u)
                               /\ Left(u)' = Left(u)
                               /\ \A s : Holds(u, s)' <=> Holds(u, s)
  BY DEF Active, Left, Holds, Kept
<1>3. \A u \in Threads : UnderWay(u)'
  <2> SUFFICES ASSUME NEW u \in Threads \ {t} PROVE UnderWay(u)'
    OBVIOUS
  <2>1. UnderWay(u) /\ Kept(u)
    BY DEF Transfers
  <2> QED
    BY <1>1, <1>2, <2>1 DEF UnderWay, Kept
<1>4. \A u \in Threads : Registers(u)' /\ OwnSource(u)'
  BY <1>1, <1>2 DEF Transfers, Registers, OwnSource, Kept
<1>5. \A s \in R!Stream : Started(s)' /\ OwnTransfer(s)'
  BY <1>1 DEF Transfers, Started, OwnTransfer
<1>6. Apart'
  BY <1>1, <1>2 DEF Transfers, Apart, Kept
<1>7. Rivals'
  BY <1>1, <1>2 DEF Transfers, Rivals, Holds, Kept
<1>8. Moved'
  BY <1>1, <1>2 DEF Transfers, Moved, Kept
<1> QED
  BY <1>3, <1>4, <1>5, <1>6, <1>7, <1>8 DEF Transfers

\* The claims of the model are the calls that hold the stream.
LEMMA ClaimsAre ==
  ASSUME StreamType, \A t \in Threads : UnderWay(t), NEW s \in R!Stream
  PROVE  /\ \A r : r \in R!Claims(s)
                     <=> \E u \in Threads : Holds(u, s) /\ r = call[u].id
         /\ R!Claims(s) \subseteq 1 .. Len(req)
<1>1. ASSUME NEW u \in Threads, Active(u)
      PROVE  Head(call[u].left) \notin {"scan", "test"} <=> Left(u) <= 6
  <2>1. /\ Left(u) \in 1 .. 8
        /\ R!At(u, "scan") <=> Left(u) = Turn(call[u].id, "scan")
        /\ R!At(u, "test") <=> Left(u) = Turn(call[u].id, "test")
    BY <1>1, AtTurn
  <2>2. Turn(call[u].id, "test") = 7 /\ Turn(call[u].id, "scan") \in {8, 9}
    BY DEF Turn
  <2>3. Left(u) = 8 => Turn(call[u].id, "scan") = 8
    BY <1>1 DEF UnderWay, Turn, Order, R!Peripheral
  <2> QED
    BY <1>1, <2>1, <2>2, <2>3 DEF R!At, Active
<1>2. \A u \in Threads :
        (call[u].left # <<>> /\ call[u].s = s
           /\ Head(call[u].left) \notin {"scan", "test"}) <=> Holds(u, s)
  BY <1>1 DEF Holds, Active
<1>3. \A r : r \in R!Claims(s)
               <=> \E u \in Threads : Holds(u, s) /\ r = call[u].id
  BY <1>2 DEF R!Claims
<1>4. R!Claims(s) \subseteq 1 .. Len(req)
  BY <1>3 DEF Holds, UnderWay
<1> QED
  BY <1>3, <1>4

CallType == [id : Nat, s : R!Stream, left : Seq(Statement), cr : Modes,
             free : SUBSET R!Stream, found : BOOLEAN]

LEMMA IdleType == R!Idle \in CallType /\ R!Idle.left = <<>> /\ 0 \in R!Stream
<1>1. 0 \in R!Stream
  BY StreamAssumption DEF R!StreamAssumption, R!Stream
<1> QED
  BY <1>1 DEF R!Idle, CallType, Modes

\* The call is over.
LEMMA CallIsOver ==
  ASSUME Transfers, NEW t \in Threads, StreamType', call'[t] = R!Idle,
         \A u \in Threads \ {t} : Kept(u),
         UNCHANGED <<req, stream, done, raced>>
  PROVE  Transfers'
<1>1. ~Active(t)'
  BY IdleType DEF Active
<1>2. UnderWay(t)' /\ Registers(t)' /\ OwnSource(t)'
      /\ \A s \in R!Stream : ~Holds(t, s)'
  BY <1>1 DEF UnderWay, Registers, OwnSource, Holds
<1> QED
  BY <1>1, <1>2, CallGoesOn

RegisterType == [mode : Modes, en : BOOLEAN, n : Counts, par : 0 .. Len(req),
                 m0 : 0 .. Len(req), by : 0 .. Len(req)]

LEMMA StreamIsTyped ==
  ASSUME StreamType
  PROVE  /\ stream \in [R!Stream -> RegisterType]
         /\ \A s \in R!Stream : stream[s] \in RegisterType
  BY DEF StreamType, RegisterType

LEMMA IdleCall ==
  ASSUME StreamType, NEW t \in Threads, call' = [call EXCEPT ![t] = R!Idle],
         UNCHANGED <<req, stream, done, raced>>
  PROVE  /\ StreamType' /\ call'[t] = R!Idle
         /\ \A u \in Threads \ {t} : Kept(u)
  BY IdleType DEF StreamType, CallType, Kept

LEMMA ScanTransfers ==
  ASSUME Transfers, NEW t \in Threads, R!Scan(t)
  PROVE  Transfers'
<1> DEFINE r == call[t].id
           s == call[t].s
<1>1. /\ Active(t) /\ Left(t) = 8 /\ req[r].kind # "send"
      /\ StreamType /\ UnderWay(t) /\ s \in R!Stream /\ call[t] \in CallType
  <2>1. Active(t) /\ R!At(t, "scan")
    BY AtActive DEF R!Scan
  <2>2. Left(t) = Turn(r, "scan") /\ Left(t) \in 1 .. 8
    BY <2>1, AtTurn DEF Transfers
  <2>3. StreamType /\ UnderWay(t) /\ call[t] \in CallType
    BY DEF Transfers, StreamType, CallType
  <2> QED
    BY <2>1, <2>2, <2>3 DEF Turn, CallType
<1>2. UNCHANGED <<req, stream, done, raced>>
  BY DEF R!Scan
<1>3. CASE R!Busy(s) /\ s < R!Last
  <2>1. s + 1 \in R!Stream
    BY <1>1, <1>3, StreamAssumption
    DEF R!Stream, R!Last, R!StreamAssumption
  <2>2. call' = [call EXCEPT ![t].s = s + 1]
    BY <1>3 DEF R!Scan
  <2>3. /\ call'[t] \in CallType /\ call' \in [Threads -> CallType]
        /\ call'[t].left = call[t].left /\ call'[t].id = r
        /\ \A u \in Threads \ {t} : call'[u] = call[u]
    BY <2>1, <2>2 DEF Transfers, StreamType, CallType
  <2>4. StreamType'
    BY <1>2, <2>3 DEF Transfers, StreamType, CallType
  <2>5. UnderWay(t)' /\ Left(t)' = 8
    BY <1>1, <1>2, <2>3 DEF UnderWay, Active, Left, Order
  <2>6. \A s2 : ~Holds(t, s2)'
    BY <2>5 DEF Holds
  <2>7. Registers(t)' /\ OwnSource(t)'
    BY <2>6 DEF Registers, OwnSource
  <2> QED
    BY <1>1, <1>2, <2>3, <2>4, <2>5, <2>6, <2>7, CallGoesOn DEF Kept
<1>4. CASE ~(R!Busy(s) /\ s < R!Last)
  <2>1. call' = [[call EXCEPT ![t].left = Tail(@)]
                   EXCEPT ![t].found = ~R!Busy(s)]
    BY <1>4 DEF R!Scan, R!Goes
  <2>2. Tail(call[t].left) \in Seq(Statement) /\ R!Busy(s) \in BOOLEAN
    BY <1>1, HeadTailProperties DEF CallType, Active, StreamType, R!Busy
  <2>3. /\ call'[t] \in CallType /\ call' \in [Threads -> CallType]
        /\ call'[t].left = Tail(call[t].left) /\ call'[t].id = r
        /\ \A u \in Threads \ {t} : call'[u] = call[u]
    <3> DEFINE new == [[call[t] EXCEPT !.left = Tail(@)]
                         EXCEPT !.found = ~R!Busy(s)]
    <3>1. call \in [Threads -> CallType] /\ call[t] \in CallType
      BY <1>1 DEF StreamType, CallType
    <3>2. new \in CallType /\ new.left = Tail(call[t].left) /\ new.id = r
      BY <2>2, <3>1 DEF CallType
    <3>3. call' = [call EXCEPT ![t] = new]
      BY <2>1, <3>1
    <3> HIDE DEF new
    <3> QED
      BY <3>1, <3>2, <3>3
  <2>4. StreamType'
    BY <1>2, <2>3 DEF Transfers, StreamType, CallType
  <2>5. UnderWay(t)' /\ Left(t)' = 7
    BY <1>1, <1>2, <2>3, GoesOn
  <2>6. \A s2 : ~Holds(t, s2)'
    BY <2>5 DEF Holds
  <2>7. Registers(t)' /\ OwnSource(t)'
    BY <2>6 DEF Registers, OwnSource
  <2> QED
    BY <1>1, <1>2, <2>3, <2>4, <2>5, <2>6, <2>7, CallGoesOn DEF Kept
<1> QED
  BY <1>3, <1>4


LEMMA TestTransfers ==
  ASSUME Transfers, NEW t \in Threads, R!Test(t)
  PROVE  Transfers'
<1> DEFINE r == call[t].id
           s == call[t].s
<1>1. /\ Active(t) /\ Left(t) = 7 /\ r \in 1 .. Len(req)
      /\ StreamType /\ UnderWay(t) /\ s \in R!Stream /\ call[t] \in CallType
  <2>1. Active(t) /\ R!At(t, "test")
    BY AtActive DEF R!Test
  <2>2. Left(t) = Turn(r, "test")
    BY <2>1, AtTurn DEF Transfers
  <2>3. StreamType /\ UnderWay(t) /\ call[t] \in CallType
    BY DEF Transfers, StreamType, CallType
  <2> QED
    BY <2>1, <2>2, <2>3 DEF Turn, CallType, UnderWay
<1>2. UNCHANGED <<req, stream, done>>
  BY DEF R!Test
<1>3. CASE R!Busy(s)
  <2>1. call' = [call EXCEPT ![t] = R!Idle] /\ raced' = raced
    BY <1>3 DEF R!Test, R!Tested
  <2> QED
    BY <1>1, <1>2, <2>1, IdleCall, CallIsOver
<1>4. CASE ~R!Busy(s)
  <2>1. /\ call' = [call EXCEPT ![t].left = Tail(@)]
        /\ raced' = IF R!Claims(s) = {} THEN raced
                    ELSE raced \cup R!Claims(s) \cup {r}
    BY <1>4 DEF R!Test, R!Tested, R!Goes
  <2>2. Tail(call[t].left) \in Seq(Statement)
    BY <1>1, HeadTailProperties DEF CallType, Active
  <2>3. /\ call'[t] \in CallType /\ call' \in [Threads -> CallType]
        /\ call'[t].left = Tail(call[t].left) /\ call'[t].id = r
        /\ call'[t].s = s
        /\ \A u \in Threads \ {t} : call'[u] = call[u]
    BY <2>1, <2>2 DEF Transfers, StreamType, CallType
  <2>4. /\ R!Claims(s) \subseteq 1 .. Len(req)
        /\ \A u \in Threads : Holds(u, s) => call[u].id \in R!Claims(s)
    BY <1>1, ClaimsAre DEF Transfers
  <2>5. raced \subseteq raced' /\ raced' \subseteq 1 .. Len(req)
    BY <1>1, <2>1, <2>4 DEF StreamType
  <2>6. StreamType'
    BY <1>1, <1>2, <2>3, <2>5 DEF StreamType, CallType
  <2>7. UnderWay(t)' /\ Active(t)' /\ Left(t)' = 6
    BY <1>1, <1>2, <2>3, GoesOn
  <2>8. Registers(t)' /\ OwnSource(t)'
    BY <1>2, <2>3, <2>7 DEF Registers, OwnSource, Turn
  <2>9. ASSUME NEW s2 \in R!Stream, Holds(t, s2)'
        PROVE  /\ ~R!Busy(s2)
               /\ \A u \in Threads \ {t} :
                    Holds(u, s2) => r \in raced' /\ call[u].id \in raced'
    <3>1. s2 = s
      BY <2>3, <2>9 DEF Holds
    <3> QED
      BY <1>4, <2>1, <2>4, <3>1
  <2> QED
    BY <1>1, <1>2, <2>3, <2>5, <2>6, <2>7, <2>8, <2>9, CallGoesOn DEF Kept
<1> QED
  BY <1>3, <1>4

LEMMA LoadTransfers ==
  ASSUME Transfers, NEW t \in Threads, R!Load(t)
  PROVE  Transfers'
<1> DEFINE r == call[t].id
           s == call[t].s
<1>1. /\ Active(t) /\ Left(t) = 2 /\ r \in 1 .. Len(req)
      /\ StreamType /\ UnderWay(t) /\ s \in R!Stream /\ call[t] \in CallType
  <2>1. Active(t) /\ R!At(t, "load")
    BY AtActive DEF R!Load
  <2>2. Left(t) = Turn(r, "load")
    BY <2>1, AtTurn DEF Transfers
  <2>3. StreamType /\ UnderWay(t) /\ call[t] \in CallType
    BY DEF Transfers, StreamType, CallType
  <2> QED
    BY <2>1, <2>2, <2>3 DEF Turn, CallType, UnderWay
<1>2. UNCHANGED <<req, stream, done, raced>>
  BY DEF R!Load
<1>3. CASE ~(stream[s].m0 # 0 /\ stream[s].par # 0)
  <2>1. call' = [call EXCEPT ![t] = R!Idle]
    BY <1>3 DEF R!Load
  <2> QED
    BY <1>1, <1>2, <2>1, IdleCall, CallIsOver
<1>4. CASE stream[s].m0 # 0 /\ stream[s].par # 0
  <2>1. call' = [[call EXCEPT ![t].left = Tail(@)]
                   EXCEPT ![t].cr = stream[s].mode]
    BY <1>4 DEF R!Load, R!Goes
  <2>2. Tail(call[t].left) \in Seq(Statement) /\ stream[s].mode \in Modes
    BY <1>1, HeadTailProperties DEF CallType, Active, StreamType
  <2>3. /\ call'[t] \in CallType /\ call' \in [Threads -> CallType]
        /\ call'[t].left = Tail(call[t].left) /\ call'[t].id = r
        /\ call'[t].s = s /\ call'[t].cr = stream[s].mode
        /\ \A u \in Threads \ {t} : call'[u] = call[u]
    BY <2>1, <2>2 DEF Transfers, StreamType, CallType
  <2>4. StreamType'
    BY <1>1, <1>2, <2>3 DEF StreamType, CallType
  <2>5. UnderWay(t)' /\ Active(t)' /\ Left(t)' = 1
    BY <1>1, <1>2, <2>3, GoesOn
  <2>6. Holds(t, s) /\ \A s2 : Holds(t, s2)' => s2 = s
    BY <1>1, <2>3 DEF Holds
  <2>7. \A statement \in {"cr", "ndtr", "par", "m0ar"} :
          Turn(r, statement) > 2 /\ Turn(r, statement) \in Nat
    BY DEF Turn
  <2>8. ASSUME r \notin raced
        PROVE  /\ stream[s].mode = req[r].kind /\ stream[s].n = R!Units(r)
               /\ stream[s].par = Address(r) /\ stream[s].m0 = Address(r)
               /\ ~req[r].null
    BY <1>1, <1>4, <2>6, <2>7, <2>8 DEF Transfers, Registers, Address
  <2>9. Registers(t)'
    BY <1>2, <2>3, <2>5, <2>8, SameRequests DEF Registers
  <2>10. OwnSource(t)'
    <3>1. stream[s].par \in raced \cup {0, r}
      BY <1>1, <2>6, <2>7 DEF Transfers, OwnSource
    <3> QED
      BY <1>2, <2>3, <2>6, <3>1 DEF OwnSource
  <2>11. ASSUME NEW s2 \in R!Stream, Holds(t, s2)'
         PROVE  /\ R!Busy(s2) => r \in raced /\ stream[s2].by \in raced
                /\ \A u \in Threads \ {t} :
                     Holds(u, s2) => r \in raced /\ call[u].id \in raced
    <3>1. s2 = s
      BY <2>6, <2>11
    <3> QED
      BY <2>6, <3>1 DEF Transfers, Rivals
  <2> QED
    BY <1>1, <1>2, <2>3, <2>4, <2>5, <2>9, <2>10, <2>11, CallGoesOn DEF Kept
<1> QED
  BY <1>3, <1>4


LEMMA StoreTransfers ==
  ASSUME Transfers, NEW t \in Threads, R!Store(t)
  PROVE  Transfers'
<1>0. PICK r, s : r = call[t].id /\ s = call[t].s
  OBVIOUS
<1> USE <1>0
<1>1. /\ Active(t) /\ Left(t) = 1 /\ r \in 1 .. Len(req)
      /\ StreamType /\ UnderWay(t) /\ s \in R!Stream /\ call[t] \in CallType
  <2>1. Active(t) /\ R!At(t, "store")
    BY AtActive DEF R!Store
  <2>2. Left(t) = Turn(r, "store")
    BY <2>1, AtTurn DEF Transfers
  <2>3. StreamType /\ UnderWay(t) /\ call[t] \in CallType
    BY DEF Transfers, StreamType, CallType
  <2> QED
    BY <2>1, <2>2, <2>3 DEF Turn, CallType, UnderWay
<1>2. UNCHANGED <<req, done, raced>>
  BY DEF R!Store
<1>3. /\ call' \in [Threads -> CallType] /\ call'[t] = R!Idle
      /\ \A u \in Threads \ {t} : Kept(u)
  <2>1. call' = [u \in Threads |->
                   IF u = t THEN R!Idle
                   ELSE [call[u] EXCEPT !.free = @ \ {s}]]
    BY DEF R!Store
  <2>2. call \in [Threads -> CallType]
    BY <1>1 DEF StreamType, CallType
  <2>3. ASSUME NEW u \in Threads \ {t}
        PROVE  call'[u] \in CallType /\ Kept(u)
    <3>1. call[u] \in CallType
      BY <2>2
    <3>2. call'[u] = [call[u] EXCEPT !.free = @ \ {s}]
      BY <2>1
    <3> QED
      BY <3>1, <3>2 DEF CallType, Kept
  <2>4. call'[t] = R!Idle
    BY <2>1
  <2> QED
    BY <2>1, <2>3, <2>4, IdleType
<1>4. CASE R!Busy(s)
  <2>1. stream' = stream
    BY <1>4 DEF R!Store
  <2>2. StreamType'
    BY <1>1, <1>2, <1>3, <2>1 DEF StreamType, CallType
  <2> QED
    BY <1>2, <1>3, <2>1, <2>2, CallIsOver
<1>5. CASE ~R!Busy(s)
  <2>1. stream' = [stream EXCEPT ![s].en = TRUE, ![s].mode = call[t].cr,
                                 ![s].by = r]
    BY <1>5 DEF R!Store
  <2>2. /\ stream'[s].en = TRUE /\ stream'[s].mode = call[t].cr
        /\ stream'[s].by = r /\ stream'[s].n = stream[s].n
        /\ stream'[s].par = stream[s].par /\ stream'[s].m0 = stream[s].m0
        /\ \A s2 \in R!Stream \ {s} : stream'[s2] = stream[s2]
    BY <1>1, <2>1 DEF StreamType
  <2>3. StreamType'
    <3>1. call[t].cr \in Modes /\ r \in 0 .. Len(req)
      BY <1>1 DEF CallType
    <3> DEFINE v == [stream[s] EXCEPT !.en = TRUE, !.mode = call[t].cr,
                                      !.by = r]
    <3>2. v \in RegisterType
      BY <1>1, <3>1, StreamIsTyped DEF RegisterType
    <3>3. stream' = [stream EXCEPT ![s] = v]
      BY <1>1, <2>1, StreamIsTyped
    <3> HIDE DEF v
    <3>4. stream' \in [R!Stream -> RegisterType]
      BY <1>1, <3>2, <3>3, StreamIsTyped
    <3> QED
      BY <1>1, <1>2, <1>3, <3>4 DEF StreamType, CallType, RegisterType
  <2>4. /\ R!Busy(s)'
        /\ \A s2 \in R!Stream \ {s} : R!Busy(s2)' <=> R!Busy(s2)
    <3>1. R!Busy(s)'
      BY <2>2, Zenon DEF R!Busy
    <3> QED
      BY <2>2, <3>1, Zenon DEF R!Busy
  <2>5. /\ ~Active(t)' /\ \A s2 : ~Holds(t, s2)'
        /\ \A u \in Threads \ {t} : /\ Active(u)' <=> Active(u)
                                    /\ Left(u)' = Left(u)
                                    /\ \A s2 : Holds(u, s2)' <=> Holds(u, s2)
    BY <1>3, IdleType DEF Active, Left, Holds, Kept
  <2>6. Holds(t, s)
    BY <1>1 DEF Holds
  <2>7. \A u \in Threads \ {t} :
          Holds(u, s) => r \in raced /\ call[u].id \in raced
    BY <1>1, <2>6 DEF Transfers, Rivals
  <2>8. \A u \in Threads : UnderWay(u)'
    <3>1. UnderWay(t)'
      BY <2>5 DEF UnderWay
    <3>2. ASSUME NEW u \in Threads \ {t} PROVE UnderWay(u)'
      <4>1. UnderWay(u) /\ Kept(u)
        BY <1>3 DEF Transfers
      <4> QED
        BY <1>2, <2>5, <4>1, SameRequests DEF UnderWay, Kept
    <3> QED
      BY <3>1, <3>2
  <2>9. Apart'
    <3>1. \A u \in Threads \ {t} : Active(u) => call[u].id # r
      BY <1>1 DEF Transfers, Apart
    <3>2. \A s2 \in R!Stream \ {s} : R!Busy(s2) => stream[s2].by # r
      BY <1>1 DEF Transfers, Apart
    <3> QED
      BY <1>3, <2>2, <2>4, <2>5, <3>1, <3>2 DEF Transfers, Apart, Kept
  <2>10. Rivals'
    BY <1>2, <1>3, <2>2, <2>4, <2>5, <2>7 DEF Transfers, Rivals, Kept
  <2>11. \A u \in Threads : Registers(u)'
    <3>1. ASSUME NEW u \in Threads \ {t} PROVE Registers(u)'
      <4>1. Registers(u) /\ Kept(u)
        BY <1>3 DEF Transfers
      <4>2. CASE call[u].s = s
        BY <1>2, <2>5, <2>7, <4>1, <4>2 DEF Registers, Kept, Holds
      <4>3. CASE call[u].s # s
        <5>1. stream'[call[u].s] = stream[call[u].s]
          BY <1>1, <2>2, <4>3 DEF StreamType
        <5> QED
          BY <1>2, <2>5, <4>1, <5>1, SameRequests DEF Registers, Kept
      <4> QED
        BY <4>2, <4>3
    <3> QED
      BY <2>5, <3>1 DEF Registers
  <2>12. \A u \in Threads : OwnSource(u)'
    <3>1. \A s2 \in R!Stream : stream'[s2].par = stream[s2].par
      BY <2>2
    <3>2. ASSUME NEW u \in Threads \ {t} PROVE OwnSource(u)'
      <4>1. OwnSource(u) /\ Kept(u)
        BY <1>3 DEF Transfers
      <4> QED
        BY <1>2, <2>5, <3>1, <4>1, SameRequests DEF OwnSource, Kept
    <3> QED
      BY <2>5, <3>2 DEF OwnSource
  <2>13. stream[s].par \in raced \cup {0, r}
    <3>1. Turn(r, "par") \in {4, 5}
      BY DEF Turn
    <3> QED
      BY <1>1, <2>6, <3>1 DEF Transfers, OwnSource
  <2>14. \A s2 \in R!Stream : OwnTransfer(s2)'
    BY <1>2, <2>2, <2>4, <2>13 DEF Transfers, OwnTransfer
  <2>15. \A s2 \in R!Stream : Started(s2)'
    <3>1. ASSUME r \notin raced
          PROVE  /\ call[t].cr = req[r].kind /\ stream[s].n = R!Units(r)
                 /\ stream[s].par = r /\ stream[s].m0 = r
      <4>1. \A statement \in {"ndtr", "par", "m0ar"} :
              Turn(r, statement) > 1 /\ Turn(r, statement) \in Nat
        BY DEF Turn
      <4> QED
        BY <1>1, <2>6, <3>1, <4>1 DEF Transfers, Registers, Address
    <3>2. r \in 1 .. Len(req) /\ req[r].size # 0
      BY <1>1 DEF UnderWay
    <3>3. Started(s)'
      <4>1. req' = req /\ raced' = raced /\ R!Units(r)' = R!Units(r)
        BY <1>2, SameRequests
      <4>2. /\ r \in 1 .. Len(req') /\ req'[r].size # 0
            /\ r \notin raced' =>
                 /\ stream'[s].mode = req'[r].kind
                 /\ stream'[s].n = R!Units(r)'
                 /\ stream'[s].par = r /\ stream'[s].m0 = r
        BY <2>2, <3>1, <3>2, <4>1
      <4>3. stream'[s].by = r
        BY <2>2
      <4> QED
        BY <4>2, <4>3 DEF Started, R!Units
    <3>4. ASSUME NEW s2 \in R!Stream \ {s} PROVE Started(s2)'
      BY <1>2, <2>2, <2>4, SameRequests DEF Transfers, Started
    <3> QED
      BY <3>3, <3>4
  <2>16. Moved'
    <3>1. r \notin raced => done[r] = <<>>
      BY <1>1 DEF Transfers, Moved
    <3> QED
      BY <1>2, <1>3, <2>2, <2>4, <2>5, <3>1, SameRequests
      DEF Transfers, Moved, Kept
  <2> QED
    BY <2>3, <2>8, <2>9, <2>10, <2>11, <2>12, <2>14, <2>15, <2>16
    DEF Transfers
<1> QED
  BY <1>4, <1>5


\* What a write does to the registers of its stream.
WriteView(s, r, statement) ==
  /\ stream' \in [R!Stream -> RegisterType]
  /\ \A s2 \in R!Stream \ {s} : stream'[s2] = stream[s2]
  /\ stream'[s].by = stream[s].by
  /\ stream'[s].en => stream' = stream
  /\ R!Busy(s) => stream'[s].par = stream[s].par
  /\ ~R!Busy(s) =>
       /\ stream'[s].mode = IF statement = "cr" THEN req[r].kind
                            ELSE stream[s].mode
       /\ stream'[s].n = IF statement = "ndtr" THEN R!Units(r)
                         ELSE stream[s].n
       /\ stream'[s].par = IF statement = "par" THEN Address(r)
                           ELSE stream[s].par
       /\ stream'[s].m0 = IF statement = "m0ar" THEN Address(r)
                          ELSE stream[s].m0

LEMMA WriteIs ==
  ASSUME StreamType, NEW s \in R!Stream, NEW r \in 1 .. Len(req),
         NEW statement \in {"cr", "ndtr", "par", "m0ar"},
         stream' = R!Written(s, statement, r)
  PROVE  WriteView(s, r, statement)
<1>1. /\ stream \in [R!Stream -> RegisterType] /\ stream[s] \in RegisterType
      /\ req[r] \in Asks /\ stream[s].en \in BOOLEAN
  BY StreamIsTyped DEF StreamType, RegisterType
<1>2. /\ req[r].kind \in Modes /\ "none" \in Modes /\ R!Units(r) \in Counts
      /\ Address(r) \in 0 .. Len(req)
  <2>1. req[r].kind \in {"copy", "set", "send"}
    BY <1>1, StreamAssumption
    DEF Asks, S!StreamAssumption, R!StreamAssumption
  <2>2. R!Units(r) \in Counts
    BY <1>1 DEF R!Units, Counts
  <2>3. Address(r) \in 0 .. Len(req)
    BY DEF Address, StreamType
  <2> QED
    BY <2>1, <2>2, <2>3 DEF Modes
<1>3. CASE statement = "cr"
  <2> DEFINE v == [stream[s] EXCEPT !.en = FALSE,
                                    !.mode = IF R!Busy(s) THEN "none"
                                             ELSE req[r].kind]
  <2>1. stream' = [stream EXCEPT ![s].en = FALSE,
                                 ![s].mode = IF R!Busy(s) THEN "none"
                                             ELSE req[r].kind]
    BY <1>3 DEF R!Written
  <2>2. stream' = [stream EXCEPT ![s] = v]
    BY <1>1, <2>1
  <2>3. /\ v \in RegisterType /\ v.en = FALSE /\ v.by = stream[s].by
        /\ v.n = stream[s].n /\ v.par = stream[s].par /\ v.m0 = stream[s].m0
        /\ ~R!Busy(s) => v.mode = req[r].kind
    BY <1>1, <1>2 DEF RegisterType
  <2> HIDE DEF v
  <2>4. /\ stream' \in [R!Stream -> RegisterType] /\ stream'[s] = v
        /\ \A s2 \in R!Stream \ {s} : stream'[s2] = stream[s2]
    BY <1>1, <2>2, <2>3
  <2> QED
    BY <1>3, <2>3, <2>4 DEF WriteView
<1>4. CASE statement # "cr" /\ R!Busy(s)
  <2>1. stream' = stream
    BY <1>4 DEF R!Written
  <2> QED
    BY <1>1, <1>4, <2>1 DEF WriteView
<1>5. CASE statement # "cr" /\ ~R!Busy(s)
  <2>1. stream' = CASE statement = "ndtr" ->
                         [stream EXCEPT ![s].n = R!Units(r)]
                    [] statement = "par" -> [stream EXCEPT ![s].par = Address(r)]
                    [] OTHER -> [stream EXCEPT ![s].m0 = Address(r)]
    BY <1>5 DEF R!Written, Address
  <2> DEFINE v == CASE statement = "ndtr" ->
                         [stream[s] EXCEPT !.n = R!Units(r)]
                    [] statement = "par" -> [stream[s] EXCEPT !.par = Address(r)]
                    [] OTHER -> [stream[s] EXCEPT !.m0 = Address(r)]
  <2>2. stream' = [stream EXCEPT ![s] = v]
    BY <1>1, <2>1
  <2>3. /\ v \in RegisterType /\ v.en = stream[s].en /\ v.by = stream[s].by
        /\ v.mode = stream[s].mode
        /\ v.n = IF statement = "ndtr" THEN R!Units(r) ELSE stream[s].n
        /\ v.par = IF statement = "par" THEN Address(r) ELSE stream[s].par
        /\ v.m0 = IF statement = "m0ar" THEN Address(r) ELSE stream[s].m0
    BY <1>1, <1>2, <1>5 DEF RegisterType
  <2> HIDE DEF v
  <2>4. /\ stream' \in [R!Stream -> RegisterType] /\ stream'[s] = v
        /\ \A s2 \in R!Stream \ {s} : stream'[s2] = stream[s2]
    BY <1>1, <2>2, <2>3
  <2>5. ~stream'[s].en
    BY <1>5, <2>3, <2>4, Zenon DEF R!Busy
  <2> QED
    BY <1>5, <2>3, <2>4, <2>5 DEF WriteView
<1> QED
  BY <1>3, <1>4, <1>5


LEMMA WriteTransfers ==
  ASSUME Transfers, NEW t \in Threads, R!Write(t)
  PROVE  Transfers'
<1>0. PICK r, s : r = call[t].id /\ s = call[t].s
  OBVIOUS
<1> USE <1>0
<1>1. PICK statement \in {"cr", "ndtr", "par", "m0ar"} :
        R!At(t, statement) /\ stream' = R!Written(s, statement, r)
  BY DEF R!Write
<1>2. /\ Active(t) /\ Left(t) = Turn(r, statement) /\ Left(t) \in 3 .. 6
      /\ StreamType /\ UnderWay(t) /\ s \in R!Stream /\ call[t] \in CallType
      /\ r \in 1 .. Len(req)
  <2>1. Active(t)
    BY <1>1, AtActive
  <2>2. Left(t) = Turn(r, statement)
    BY <1>1, <2>1, AtTurn DEF Transfers
  <2>3. StreamType /\ UnderWay(t) /\ call[t] \in CallType
    BY DEF Transfers, StreamType, CallType
  <2>4. Turn(r, statement) \in 3 .. 6
    BY DEF Turn
  <2> QED
    BY <2>1, <2>2, <2>3, <2>4 DEF CallType, UnderWay
<1>3. UNCHANGED <<req, done, raced>> /\ call' = R!Goes(t)
  BY DEF R!Write
<1>4. WriteView(s, r, statement)
  BY <1>1, <1>2, WriteIs
<1>5. /\ call' \in [Threads -> CallType] /\ call'[t].left = Tail(call[t].left)
      /\ call'[t].id = r /\ call'[t].s = s
      /\ \A u \in Threads \ {t} : Kept(u)
  <2>1. Tail(call[t].left) \in Seq(Statement)
    BY <1>2, HeadTailProperties DEF CallType, Active
  <2> QED
    BY <1>2, <1>3, <2>1 DEF R!Goes, StreamType, CallType, Kept
<1>6. UnderWay(t)' /\ Active(t)' /\ Left(t)' = Left(t) - 1
  BY <1>2, <1>3, <1>5, GoesOn
<1>7. StreamType'
  BY <1>2, <1>3, <1>4, <1>5 DEF StreamType, CallType, WriteView, RegisterType
<1>8. /\ \A u \in Threads \ {t} : Left(u)' = Left(u)
      /\ \A u \in Threads : /\ Active(u)' <=> Active(u)
                            /\ \A s2 : Holds(u, s2)' <=> Holds(u, s2)
      /\ Holds(t, s)
  <2>1. \A u \in Threads \ {t} : /\ Left(u)' = Left(u)
                                 /\ Active(u)' <=> Active(u)
                                 /\ \A s2 : Holds(u, s2)' <=> Holds(u, s2)
    BY <1>5 DEF Active, Left, Holds, Kept
  <2>2. /\ Active(t)' <=> Active(t)
        /\ \A s2 : Holds(t, s2)' <=> Holds(t, s2)
        /\ Holds(t, s)
    BY <1>2, <1>5, <1>6 DEF Holds
  <2> QED
    BY <2>1, <2>2
<1>9. \A s2 \in R!Stream : /\ R!Busy(s2)' => stream'[s2] = stream[s2]
                           /\ R!Busy(s2)' => R!Busy(s2)
                           /\ stream'[s2].by = stream[s2].by
  BY <1>4 DEF WriteView, R!Busy
<1>10. \A u \in Threads \ {t} :
         Holds(u, s) => r \in raced /\ call[u].id \in raced
  BY <1>2, <1>8 DEF Transfers, Rivals
<1>11. R!Busy(s) => r \in raced /\ stream[s].by \in raced
  BY <1>2, <1>8 DEF Transfers, Rivals
<1>12. \A u \in Threads : UnderWay(u)'
  <2>1. ASSUME NEW u \in Threads \ {t} PROVE UnderWay(u)'
    <3>1. UnderWay(u) /\ Kept(u)
      BY <1>5 DEF Transfers
    <3> QED
      BY <1>3, <1>8, <3>1, SameRequests DEF UnderWay, Kept
  <2> QED
    BY <1>6, <2>1
<1>13. \A u \in Threads : call'[u].id = call[u].id
  BY <1>5 DEF Kept
<1>14. Apart'
  BY <1>8, <1>9, <1>13 DEF Transfers, Apart
<1>15. Rivals'
  BY <1>3, <1>8, <1>9, <1>13 DEF Transfers, Rivals
<1>16. \A s2 \in R!Stream : Started(s2)' /\ OwnTransfer(s2)'
  BY <1>3, <1>9, SameRequests DEF Transfers, Started, OwnTransfer
<1>17. Moved'
  BY <1>3, <1>8, <1>9, <1>13, SameRequests DEF Transfers, Moved
<1>18. ASSUME NEW u \in Threads \ {t} PROVE Registers(u)' /\ OwnSource(u)'
  <2>1. Registers(u) /\ OwnSource(u) /\ Kept(u)
    BY <1>5 DEF Transfers
  <2>2. Registers(u)'
    <3>1. CASE call[u].s = s
      BY <1>3, <1>8, <1>10, <2>1, <3>1 DEF Registers, Kept, Holds
    <3>2. CASE call[u].s # s
      <4>1. stream'[call[u].s] = stream[call[u].s]
        BY <1>2, <1>4, <3>2 DEF StreamType, WriteView
      <4> QED
        BY <1>3, <1>8, <2>1, <4>1, SameRequests DEF Registers, Kept
    <3> QED
      BY <3>1, <3>2
  <2>3. \A s2 \in R!Stream :
          Holds(u, s2) => \/ stream'[s2].par = stream[s2].par
                          \/ stream'[s2].par \in raced \cup {0}
    BY <1>4, <1>10 DEF WriteView, Address
  <2>4. OwnSource(u)'
    BY <1>3, <1>8, <2>1, <2>3, SameRequests DEF OwnSource, Kept
  <2> QED
    BY <2>2, <2>4
<1>19. \A other \in {"cr", "ndtr", "par", "m0ar"} :
         /\ Turn(r, other) \in 3 .. 6
         /\ other # statement => Turn(r, other) # Turn(r, statement)
         /\ other # statement /\ Left(t)' < Turn(r, other)
              => Left(t) < Turn(r, other)
         /\ Turn(r, other)' = Turn(r, other)
  <2>1. \A other \in {"cr", "ndtr", "par", "m0ar"} :
          /\ Turn(r, other) \in 3 .. 6
          /\ other # statement => Turn(r, other) # Turn(r, statement)
    BY DEF Turn
  <2>2. \A other : Turn(r, other)' = Turn(r, other)
    BY <1>3, SameRequests
  <2>3. Left(t)' < Left(t) + 1 /\ Left(t)' \in Int /\ Left(t) \in Int
        /\ Left(t)' + 1 = Left(t)
    BY <1>2, <1>6
  <2>4. ASSUME NEW other \in {"cr", "ndtr", "par", "m0ar"},
               other # statement, Left(t)' < Turn(r, other)
        PROVE  Left(t) < Turn(r, other)
    <3>1. Turn(r, other) \in Int /\ Turn(r, other) # Left(t)
      BY <1>2, <2>1, <2>4
    <3> QED
      BY <2>3, <2>4, <3>1
  <2> QED
    BY <2>1, <2>2, <2>4
<1>20. Registers(t)'
  <2> SUFFICES ASSUME r \notin raced
               PROVE
         /\ Left(t)' < Turn(r, "cr") => stream'[s].mode = req[r].kind
         /\ Left(t)' < Turn(r, "ndtr") => stream'[s].n = R!Units(r)
         /\ Left(t)' < Turn(r, "par") => stream'[s].par = Address(r)
         /\ Left(t)' < Turn(r, "m0ar") => stream'[s].m0 = Address(r)
         /\ ~(Left(t)' < 2)
    BY <1>3, <1>5, <1>19, SameRequests DEF Registers
  <2>1. ~R!Busy(s)
    BY <1>11
  <2>2. /\ Left(t) < Turn(r, "cr") => stream[s].mode = req[r].kind
        /\ Left(t) < Turn(r, "ndtr") => stream[s].n = R!Units(r)
        /\ Left(t) < Turn(r, "par") => stream[s].par = Address(r)
        /\ Left(t) < Turn(r, "m0ar") => stream[s].m0 = Address(r)
    BY <1>8 DEF Transfers, Registers
  <2>3. ~(Left(t)' < 2)
    BY <1>2, <1>6
  <2> QED
    BY <1>4, <1>19, <2>1, <2>2, <2>3 DEF WriteView
<1>21. OwnSource(t)'
  <2> SUFFICES ASSUME Left(t)' < Turn(r, "par")
               PROVE  stream'[s].par \in raced \cup {0, r}
    BY <1>3, <1>5, <1>19 DEF OwnSource, Holds
  <2>1. CASE statement = "par" /\ ~R!Busy(s)
    BY <1>4, <2>1 DEF WriteView, Address
  <2>2. CASE statement = "par" /\ R!Busy(s)
    BY <1>2, <1>4, <1>11, <2>2 DEF WriteView, Transfers, OwnTransfer
  <2>3. CASE statement # "par"
    <3>1. stream[s].par \in raced \cup {0, r}
      BY <1>2, <1>8, <1>19, <2>3 DEF Transfers, OwnSource
    <3> QED
      BY <1>4, <2>3, <3>1 DEF WriteView
  <2> QED
    BY <2>1, <2>2, <2>3
<1> QED
  BY <1>7, <1>12, <1>14, <1>15, <1>16, <1>17, <1>18, <1>20, <1>21
  DEF Transfers

\* The hardware moves the data of an undisturbed request at most once.
LEMMA EndTransfers ==
  ASSUME Transfers, NEW s \in R!Stream, R!End(s)
  PROVE  Transfers'
<1>0. PICK r, p, b : /\ r = [mode |-> stream[s].mode, n |-> stream[s].n,
                              m0 |-> stream[s].m0]
                     /\ p = stream[s].par /\ b = stream[s].by
  OBVIOUS
<1>1. /\ stream[s].en /\ UNCHANGED <<req, call, raced>>
      /\ done' = [done EXCEPT ![p] = Append(@, r)]
      /\ stream' = [stream EXCEPT
                      ![s] = [stream[s] EXCEPT !.en = FALSE, !.mode = "none",
                                               !.n = 0]]
  BY <1>0 DEF R!End, R!Busy, R!AfterEnd
<1>2. /\ StreamType /\ stream[s] \in RegisterType
      /\ p \in 0 .. Len(req) /\ Len(req) \in Nat /\ Len(req) <= MoreCalls
  <2>1. StreamType
    BY DEF Transfers
  <2>2. stream[s] \in RegisterType
    BY <2>1, StreamIsTyped
  <2>3. Len(req) \in Nat /\ Len(req) <= MoreCalls
    BY <2>1 DEF StreamType
  <2> QED
    BY <1>0, <2>1, <2>2, <2>3 DEF RegisterType
<1>3. p \in 0 .. MoreCalls
  BY <1>2, StreamAssumption
<1>4. /\ \A s2 \in R!Stream \ {s} : stream'[s2] = stream[s2]
      /\ stream'[s].en = FALSE /\ stream'[s].par = p /\ stream'[s].by = b
      /\ stream' \in [R!Stream -> RegisterType]
  <2> DEFINE v == [stream[s] EXCEPT !.en = FALSE, !.mode = "none", !.n = 0]
  <2>1. /\ v \in RegisterType /\ v.en = FALSE /\ v.par = p /\ v.by = b
    BY <1>0, <1>2 DEF RegisterType, Modes, Counts
  <2>2. stream' = [stream EXCEPT ![s] = v]
    BY <1>1
  <2> HIDE DEF v
  <2> QED
    BY <1>2, <2>1, <2>2, StreamIsTyped
<1>5. /\ ~R!Busy(s)' /\ R!Busy(s)
      /\ \A s2 \in R!Stream : /\ R!Busy(s2)' => R!Busy(s2) /\ s2 # s
                              /\ stream'[s2].par = stream[s2].par
                              /\ stream'[s2].by = stream[s2].by
  <2>1. ~R!Busy(s)' /\ R!Busy(s)
    BY <1>1, <1>4, Zenon DEF R!Busy
  <2>2. \A s2 \in R!Stream \ {s} : R!Busy(s2)' <=> R!Busy(s2)
    BY <1>4, Zenon DEF R!Busy
  <2> QED
    BY <1>0, <1>4, <2>1, <2>2
<1>6. /\ done[p] \in Seq([mode : Modes, n : Counts, m0 : Nat])
      /\ r \in [mode : Modes, n : Counts, m0 : Nat]
      /\ \A q \in 0 .. MoreCalls :
           done'[q] = IF q = p THEN Append(done[p], r) ELSE done[q]
      /\ done' \in [0 .. MoreCalls -> Seq([mode : Modes, n : Counts, m0 : Nat])]
  <2>1. /\ done[p] \in Seq([mode : Modes, n : Counts, m0 : Nat])
        /\ r \in [mode : Modes, n : Counts, m0 : Nat]
    <3>1. done[p] \in Seq([mode : Modes, n : Counts, m0 : Nat])
      BY <1>2, <1>3 DEF StreamType
    <3>2. r \in [mode : Modes, n : Counts, m0 : Nat]
      BY <1>0, <1>2 DEF RegisterType
    <3> QED
      BY <3>1, <3>2
  <2>2. Append(done[p], r) \in Seq([mode : Modes, n : Counts, m0 : Nat])
    BY <2>1, AppendView
  <2> QED
    BY <1>1, <1>2, <1>3, <2>1, <2>2 DEF StreamType
<1>7. StreamType'
  BY <1>1, <1>2, <1>4, <1>6 DEF StreamType, RegisterType
<1>8. \A t \in Threads : /\ Active(t)' <=> Active(t)
                         /\ Left(t)' = Left(t)
                         /\ \A s2 : Holds(t, s2)' <=> Holds(t, s2)
  BY <1>1 DEF Active, Left, Holds
<1>9. \A t \in Threads : UnderWay(t)'
  BY <1>1, <1>8, SameRequests DEF Transfers, UnderWay
<1>10. Apart'
  BY <1>1, <1>5, <1>8 DEF Transfers, Apart
<1>11. Rivals'
  BY <1>1, <1>5, <1>8 DEF Transfers, Rivals
<1>12. \A t \in Threads : Registers(t)'
  <2> SUFFICES ASSUME NEW t \in Threads PROVE Registers(t)'
    OBVIOUS
  <2>1. Registers(t) /\ call[t].s \in R!Stream
    BY <1>2 DEF Transfers, StreamType
  <2>2. CASE call[t].s = s
    <3>1. Holds(t, s) => call[t].id \in raced
      BY <1>5 DEF Transfers, Rivals
    <3> QED
      BY <1>1, <1>8, <2>2, <3>1 DEF Registers
  <2>3. CASE call[t].s # s
    <3>1. stream'[call[t].s] = stream[call[t].s]
      BY <1>4, <2>1, <2>3
    <3> QED
      BY <1>1, <1>8, <2>1, <3>1, SameRequests DEF Registers
  <2> QED
    BY <2>2, <2>3
<1>13. \A t \in Threads : OwnSource(t)'
  <2>1. ASSUME NEW t \in Threads PROVE OwnSource(t)'
    <3>1. OwnSource(t) /\ call'[t].id = call[t].id /\ raced' = raced
      BY <1>1 DEF Transfers
    <3>2. Turn(call[t].id, "par")' = Turn(call[t].id, "par")
      BY <1>1 DEF Turn
    <3> QED
      BY <1>5, <1>8, <3>1, <3>2 DEF OwnSource
  <2> QED
    BY <2>1
<1>14. \A s2 \in R!Stream : Started(s2)' /\ OwnTransfer(s2)'
  BY <1>1, <1>4, <1>5, SameRequests DEF Transfers, Started, OwnTransfer
<1>15. Moved'
  <2>1. ASSUME NEW q \in (1 .. Len(req)) \ raced, q = p
        PROVE  /\ done'[q] = <<Exact(q)>>
               /\ \A t \in Threads : Active(t) => call[t].id # q
               /\ \A s2 \in R!Stream : R!Busy(s2)' => stream[s2].by # q
    <3>1. b = q
      BY <1>0, <1>5, <2>1 DEF Transfers, OwnTransfer
    <3>2. r = Exact(q)
      BY <1>0, <1>5, <2>1, <3>1 DEF Transfers, Started, Exact
    <3>3. done[q] = <<>>
      BY <1>0, <1>5, <2>1, <3>1 DEF Transfers, Moved
    <3>4. done'[q] = Append(<<>>, r)
      BY <1>3, <1>6, <2>1, <3>3
    <3>5. Append(<<>>, r) = <<r>>
      OBVIOUS
    <3> QED
      BY <1>0, <1>5, <3>1, <3>2, <3>4, <3>5 DEF Transfers, Apart
  <2>2. \A q \in (1 .. Len(req)) \ raced : q # p => done'[q] = done[q]
    BY <1>2, <1>6, StreamAssumption
  <2>3. \A q \in Len(req) + 1 .. MoreCalls : q # p /\ done'[q] = done[q]
    BY <1>2, <1>6, StreamAssumption
  <2>4. ASSUME NEW q \in (1 .. Len(req)) \ raced
        PROVE  /\ done'[q] \in {<<>>, <<Exact(q)>>}
               /\ done'[q] # <<>> =>
                    /\ \A t \in Threads : Active(t) => call[t].id # q
                    /\ \A s2 \in R!Stream : R!Busy(s2)' => stream[s2].by # q
    <3>1. CASE q = p
      BY <2>1, <3>1
    <3>2. CASE q # p
      BY <1>5, <2>2, <3>2 DEF Transfers, Moved
    <3> QED
      BY <3>1, <3>2
  <2>5. \A q \in Len(req) + 1 .. MoreCalls : done'[q] = <<>>
    BY <2>3 DEF Transfers, Moved
  <2> QED
    BY <1>1, <1>5, <1>8, <2>4, <2>5, SameRequests DEF Moved
<1> QED
  BY <1>7, <1>9, <1>10, <1>11, <1>12, <1>13, <1>14, <1>15 DEF Transfers


\* A call, whichever of the two instances it is of.
CallWith(t, a, max) ==
  /\ call[t] = R!Idle /\ Len(req) < max /\ max <= MoreCalls
  /\ req' = Append(req, a)
  /\ call' = IF R!Rejected(a) THEN call
             ELSE [call EXCEPT ![t] =
                    [R!Idle EXCEPT
                      !.id = Len(req) + 1,
                      !.s = IF a.kind = "send" THEN R!Last ELSE 0,
                      !.left = IF a.kind = "send" THEN R!Peripheral
                               ELSE R!Memory,
                      !.free = {s \in R!Stream : ~R!Busy(s)}]]
  /\ UNCHANGED <<stream, done, raced>>

LEMMA CallIs ==
  ASSUME NEW t \in Threads, Calls(t)
  PROVE  \E a \in Asks, max \in Nat : CallWith(t, a, max)
<1>1. CASE S!Call(t)
  <2>1. /\ S!Idle = R!Idle /\ S!Last = R!Last /\ S!Memory = R!Memory
        /\ S!Peripheral = R!Peripheral /\ S!Stream = R!Stream
        /\ \A s : S!Busy(s) <=> R!Busy(s)
        /\ \A a : S!Rejected(a) <=> R!Rejected(a)
    BY DEF S!Rejected, S!Idle, S!Last, S!Peripheral, S!Memory, S!Stream,
           S!Busy, R!Rejected, R!Idle, R!Last, R!Peripheral, R!Memory,
           R!Stream, R!Busy
  <2>2. MoreCalls \in Nat /\ MoreCalls <= MoreCalls
    BY StreamAssumption
  <2>3. PICK a \in CopiesAndMessages : CallWith(t, a, MoreCalls)
    BY <1>1, <2>1, <2>2 DEF S!Call, CallWith
  <2> QED
    BY <2>2, <2>3 DEF Asks
<1>2. CASE R!Call(t)
  <2>1. PICK a \in Anything : CallWith(t, a, MaxCalls)
    BY <1>2, StreamAssumption DEF R!Call, CallWith
  <2> QED
    BY <2>1, StreamAssumption DEF Asks
<1> QED
  BY <1>1, <1>2 DEF Calls

\* What the step of a call comes to: a new request, and if it is not rejected
\* a call that has all its statements before it.
LEMMA CallView ==
  ASSUME StreamType, NEW t \in Threads, NEW a \in Asks, NEW max \in Nat,
         CallWith(t, a, max)
  PROVE  /\ StreamType' /\ UnderWay(t)'
         /\ Active(t)' => call'[t].id = Len(req) + 1 /\ Left(t)' > 6
         /\ \A u \in Threads \ {t} : call'[u] = call[u]
         /\ Len(req)' = Len(req) + 1 /\ Len(req) + 1 <= MoreCalls
         /\ \A r \in 1 .. Len(req) : req'[r] = req[r]
<1>0. PICK n : n = Len(req) + 1
  OBVIOUS
<1> DEFINE c == [R!Idle EXCEPT
                   !.id = n,
                   !.s = IF a.kind = "send" THEN R!Last ELSE 0,
                   !.left = IF a.kind = "send" THEN R!Peripheral ELSE R!Memory,
                   !.free = {s \in R!Stream : ~R!Busy(s)}]
<1>1. /\ req' = Append(req, a) /\ n <= MoreCalls /\ n \in Nat
      /\ call' = IF R!Rejected(a) THEN call ELSE [call EXCEPT ![t] = c]
      /\ call[t] = R!Idle /\ UNCHANGED <<stream, done, raced>>
  BY <1>0, StreamAssumption DEF CallWith, StreamType
<1>2. /\ req' \in Seq(Asks) /\ Len(req)' = n /\ req'[n] = a
      /\ \A r \in 1 .. Len(req) : req'[r] = req[r]
  BY <1>0, <1>1, AppendView DEF StreamType
<1>3. /\ R!Peripheral \in Seq(Statement) /\ Len(R!Peripheral) = 7
      /\ R!Memory \in Seq(Statement) /\ Len(R!Memory) = 8
  <2>1. R!Peripheral \in Seq(Statement)
    BY DEF R!Peripheral, Statement
  <2>2. Len(R!Peripheral) = 7
    BY DEF R!Peripheral
  <2>3. R!Memory \in Seq(Statement)
    BY DEF R!Memory, Statement
  <2>4. Len(R!Memory) = 8
    BY DEF R!Memory
  <2> QED
    BY <2>1, <2>2, <2>3, <2>4
<1>4. R!Last \in R!Stream /\ 0 \in R!Stream
  BY StreamAssumption DEF R!StreamAssumption, R!Last, R!Stream
<1>5. /\ c \in CallType /\ c.id = n
      /\ c.left = IF a.kind = "send" THEN R!Peripheral ELSE R!Memory
  BY <1>1, <1>3, <1>4 DEF R!Idle, CallType, Modes
<1> HIDE DEF c
<1>6. call \in [Threads -> CallType]
  BY DEF StreamType, CallType
<1>7. /\ call' \in [Threads -> CallType]
      /\ \A u \in Threads \ {t} : call'[u] = call[u]
      /\ R!Rejected(a) => call'[t] = R!Idle
      /\ ~R!Rejected(a) => call'[t] = c
  BY <1>1, <1>5, <1>6
<1>8. StreamType'
  <2>1. \A m : m \in 0 .. Len(req) => m \in 0 .. n
    BY <1>0, <1>1
  <2>2. stream \in [R!Stream -> [mode : Modes, en : BOOLEAN, n : Counts,
                                 par : 0 .. n, m0 : 0 .. n, by : 0 .. n]]
    BY <2>1 DEF StreamType
  <2>3. raced \in SUBSET (1 .. n)
    BY <1>0, <1>1 DEF StreamType
  <2> QED
    BY <1>1, <1>2, <1>7, <2>2, <2>3 DEF StreamType, CallType
<1>9. CASE R!Rejected(a)
  <2>1. ~Active(t)'
    BY <1>7, <1>9, IdleType DEF Active
  <2> QED
    BY <1>0, <1>1, <1>2, <1>7, <1>8, <2>1 DEF UnderWay
<1>10. CASE ~R!Rejected(a)
  <2>1. /\ call'[t].id = n /\ call'[t].left = Order(n)'
        /\ a.size # 0 /\ (a.null => a.kind # "send")
    <3>1. /\ call'[t].id = n /\ req'[n] = a
          /\ call'[t].left = IF a.kind = "send" THEN R!Peripheral ELSE R!Memory
      BY <1>2, <1>5, <1>7, <1>10
    <3>2. a.size # 0 /\ (a.null => a.kind # "send")
      BY <1>10 DEF R!Rejected
    <3>3. call'[t].left = Order(n)'
      BY <3>1 DEF Order
    <3> QED
      BY <3>1, <3>2, <3>3
  <2>2. /\ Left(t)' = Len(Order(n)') /\ Len(Order(n)') \in {7, 8}
        /\ Left(t)' > 6
    <3>1. Order(n)' \in {R!Peripheral, R!Memory}
      BY DEF Order
    <3>2. Left(t)' = Len(Order(n)')
      BY <2>1 DEF Left
    <3>3. Len(Order(n)') = 7 \/ Len(Order(n)') = 8
      BY <1>3, <3>1
    <3>4. Left(t)' = 7 \/ Left(t)' = 8
      BY <3>2, <3>3
    <3>5. Left(t)' > 6
      BY <3>4
    <3> QED
      BY <3>2, <3>3, <3>5
  <2>3. \A m \in 1 .. Len(Order(n)') : (Len(Order(n)') - Len(Order(n)')) + m = m
    BY <2>2
  <2>4. UnderWay(t)'
    <3>1. n \in 1 .. Len(req)'
      BY <1>1, <1>2
    <3>2. req'[n] = a
      BY <1>2
    <3>3. \A m \in 1 .. Left(t)' :
            call'[t].left[m] = Order(n)'[(Len(Order(n)') - Left(t)') + m]
      BY <2>1, <2>2, <2>3
    <3>4. Left(t)' \in 1 .. Len(Order(n)')
      BY <2>2
    <3> QED
      BY <2>1, <3>1, <3>2, <3>3, <3>4 DEF UnderWay
  <2> QED
    BY <1>0, <1>1, <1>2, <1>7, <1>8, <2>1, <2>2, <2>4
<1> QED
  BY <1>9, <1>10

LEMMA CallTransfers ==
  ASSUME Transfers, NEW t \in Threads, Calls(t)
  PROVE  Transfers'
<1>1. PICK a \in Asks, max \in Nat : CallWith(t, a, max)
  BY CallIs
<1>2. /\ UNCHANGED <<stream, done, raced>> /\ call[t] = R!Idle
      /\ StreamType /\ Len(req) \in Nat
  <2>1. UNCHANGED <<stream, done, raced>> /\ call[t] = R!Idle
    BY <1>1 DEF CallWith
  <2>2. StreamType
    BY DEF Transfers
  <2>3. Len(req) \in Nat
    BY <2>2 DEF StreamType
  <2> QED
    BY <2>1, <2>2, <2>3
<1>3. PICK n : n = Len(req) + 1
  OBVIOUS
<1>4. /\ StreamType' /\ UnderWay(t)'
      /\ Active(t)' => call'[t].id = n /\ Left(t)' > 6
      /\ \A u \in Threads \ {t} : call'[u] = call[u]
      /\ Len(req)' = n /\ n <= MoreCalls /\ n \in Nat
      /\ \A r \in 1 .. n - 1 : req'[r] = req[r]
  BY <1>1, <1>2, <1>3, CallView
<1>5. \A r \in 1 .. n - 1 :
        /\ R!Units(r)' = R!Units(r) /\ Order(r)' = Order(r)
        /\ Address(r)' = Address(r) /\ Exact(r)' = Exact(r)
        /\ \A statement : Turn(r, statement)' = Turn(r, statement)
  BY <1>4 DEF R!Units, Order, Address, Exact, Turn
<1>6. /\ ~Active(t)
      /\ \A s : ~Holds(t, s)' /\ ~Holds(t, s)
      /\ \A u \in Threads \ {t} : /\ Active(u)' <=> Active(u)
                                  /\ Left(u)' = Left(u)
                                  /\ \A s : Holds(u, s)' <=> Holds(u, s)
  <2>1. ~Active(t)
    BY <1>2, IdleType DEF Active
  <2>2. \A s : ~Holds(t, s)' /\ ~Holds(t, s)
    <3>1. ~Active(t)' \/ ~(Left(t)' <= 6)
      <4>1. CASE Active(t)'
        <5>1. Left(t)' \in Nat /\ Left(t)' > 6
          BY <1>4, <4>1 DEF UnderWay
        <5> QED
          BY <5>1
      <4> QED
        BY <4>1
    <3> QED
      BY <2>1, <3>1 DEF Holds
  <2> QED
    BY <1>4, <2>1, <2>2 DEF Active, Left, Holds
<1>7. /\ \A u \in Threads : Active(u) => call[u].id \in 1 .. n - 1
      /\ \A s \in R!Stream : R!Busy(s) => stream[s].by \in 1 .. n - 1
      /\ n \notin 1 .. n - 1
  <2>1. 1 .. Len(req) = 1 .. n - 1
    BY <1>2, <1>3
  <2> QED
    BY <1>4, <2>1 DEF Transfers, UnderWay, Started
<1>8. \A u \in Threads : UnderWay(u)'
  <2>1. ASSUME NEW u \in Threads \ {t} PROVE UnderWay(u)'
    <3>1. UnderWay(u) /\ call'[u] = call[u]
      BY <1>4 DEF Transfers
    <3>2. CASE Active(u)
      <4>1. call[u].id \in 1 .. n - 1 /\ call[u].id \in 1 .. n
        BY <1>4, <1>7, <3>2
      <4> QED
        BY <1>4, <1>5, <1>6, <3>1, <3>2, <4>1 DEF UnderWay
    <3>3. CASE ~Active(u)
      BY <1>6, <3>3 DEF UnderWay
    <3> QED
      BY <3>2, <3>3
  <2> QED
    BY <1>4, <2>1
<1>9. \A s \in R!Stream : R!Busy(s)' <=> R!Busy(s)
  BY <1>2, Zenon DEF R!Busy
<1>10. Apart'
  <2>1. \A u \in Threads : Active(u)' =>
          \/ u = t /\ call'[u].id = n
          \/ u # t /\ Active(u) /\ call'[u].id = call[u].id
    BY <1>4, <1>6
  <2> QED
    BY <1>2, <1>7, <1>9, <2>1 DEF Transfers, Apart
<1>11. Rivals'
  BY <1>2, <1>4, <1>6, <1>9 DEF Transfers, Rivals
<1>12. \A u \in Threads : Registers(u)' /\ OwnSource(u)'
  <2>1. ASSUME NEW u \in Threads, Active(u), u # t
        PROVE  Registers(u)' /\ OwnSource(u)'
    <3>1. /\ Registers(u) /\ OwnSource(u) /\ call'[u] = call[u]
          /\ call[u].id \in 1 .. n - 1
      BY <1>4, <1>7, <2>1 DEF Transfers
    <3>2. Registers(u)'
      BY <1>2, <1>4, <1>5, <1>6, <2>1, <3>1 DEF Registers
    <3>3. OwnSource(u)'
      BY <1>2, <1>5, <1>6, <2>1, <3>1 DEF OwnSource
    <3> QED
      BY <3>2, <3>3
  <2>2. ASSUME NEW u \in Threads, ~Active(u) \/ u = t
        PROVE  Registers(u)' /\ OwnSource(u)'
    <3>1. \A s : ~Holds(u, s)'
      BY <1>6, <2>2 DEF Holds
    <3> QED
      BY <3>1 DEF Registers, OwnSource
  <2> QED
    BY <2>1, <2>2
<1>13. \A s \in R!Stream : Started(s)' /\ OwnTransfer(s)'
  <2>1. \A s \in R!Stream : Started(s)'
    <3>1. \A r : r \in 1 .. n - 1 => r \in 1 .. n
      BY <1>4
    <3> QED
      BY <1>2, <1>4, <1>5, <1>7, <1>9, <3>1 DEF Transfers, Started
  <2>2. \A s \in R!Stream : OwnTransfer(s)'
    BY <1>2, <1>9 DEF Transfers, OwnTransfer
  <2> QED
    BY <2>1, <2>2
<1>14. Moved'
  <2>1. done[n] = <<>> /\ \A r \in n + 1 .. MoreCalls : done[r] = <<>>
    <3>1. n \in Len(req) + 1 .. MoreCalls
          /\ \A r \in n + 1 .. MoreCalls : r \in Len(req) + 1 .. MoreCalls
      BY <1>2, <1>3, <1>4, StreamAssumption
    <3> QED
      BY <3>1 DEF Transfers, Moved
  <2>2. ASSUME NEW r \in (1 .. n - 1) \ raced
        PROVE  /\ done[r] \in {<<>>, <<Exact(r)>>}
               /\ done[r] # <<>> =>
                    /\ \A u \in Threads : Active(u) => call[u].id # r
                    /\ \A s \in R!Stream : R!Busy(s) => stream[s].by # r
    <3>1. r \in (1 .. Len(req)) \ raced
      BY <1>2, <1>3
    <3> QED
      BY <3>1 DEF Transfers, Moved
  <2>3. \A r \in 1 .. n : r = n \/ r \in 1 .. n - 1
    BY <1>4
  <2>4. \A u \in Threads : Active(u)' =>
          \/ u = t /\ call'[u].id = n
          \/ u # t /\ Active(u) /\ call'[u].id = call[u].id
    BY <1>4, <1>6
  <2>5. ASSUME NEW r \in (1 .. n) \ raced
        PROVE  /\ done[r] \in {<<>>, <<Exact(r)'>>}
               /\ done[r] # <<>> =>
                    /\ \A u \in Threads : Active(u)' => call'[u].id # r
                    /\ \A s \in R!Stream : R!Busy(s)' => stream[s].by # r
    <3>1. CASE r = n
      BY <2>1, <3>1
    <3>2. CASE r # n
      <4>1. r \in (1 .. n - 1) \ raced
        BY <2>3, <3>2
      <4> QED
        BY <1>5, <1>9, <2>2, <2>4, <3>2, <4>1
    <3> QED
      BY <3>1, <3>2
  <2> QED
    BY <1>2, <1>4, <2>1, <2>5 DEF Moved
<1> QED
  BY <1>4, <1>8, <1>10, <1>11, <1>12, <1>13, <1>14 DEF Transfers


LEMMA SameTransfers ==
  ASSUME Transfers, UNCHANGED streamVars
  PROVE  Transfers'
<1>1. UNCHANGED <<req, call, stream, done, raced>>
  BY DEF streamVars
<1>2. StreamType' /\ Apart' /\ Rivals'
  BY <1>1 DEF Transfers, StreamType, Apart, Rivals, Holds, Active, Left, R!Busy
<1>3. Moved'
  BY <1>1, SameRequests DEF Transfers, Moved, Active, R!Busy
<1>4. ASSUME NEW t \in Threads PROVE UnderWay(t)' /\ Registers(t)' /\ OwnSource(t)'
  <2>1. UnderWay(t) /\ Registers(t) /\ OwnSource(t)
    BY DEF Transfers
  <2>2. /\ Active(t)' <=> Active(t)
        /\ Left(t)' = Left(t)
        /\ \A s : Holds(t, s)' <=> Holds(t, s)
    BY <1>1 DEF Active, Left, Holds
  <2>3. UnderWay(t)'
    BY <1>1, <2>1, <2>2, SameRequests DEF UnderWay
  <2>4. Registers(t)'
    BY <1>1, <2>1, <2>2, SameRequests DEF Registers
  <2>5. OwnSource(t)'
    BY <1>1, <2>1, <2>2, SameRequests DEF OwnSource
  <2> QED
    BY <2>3, <2>4, <2>5
<1>5. \A s \in R!Stream : Started(s)' /\ OwnTransfer(s)'
  BY <1>1, SameRequests DEF Transfers, Started, OwnTransfer, R!Busy
<1> QED
  BY <1>2, <1>3, <1>4, <1>5 DEF Transfers

LEMMA InitTransfers == ASSUME Init PROVE Transfers
<1>1. /\ req = <<>> /\ call = [t \in Threads |-> R!Idle]
      /\ stream = [s \in R!Stream |-> R!Free]
      /\ done = [r \in {0} \cup 1 .. MoreCalls |-> <<>>] /\ raced = {}
  BY DEF Init, S!Init, S!Idle, R!Idle, S!Stream, R!Stream, S!Free, R!Free, S!Id
<1>2. Len(req) = 0 /\ req \in Seq(Asks) /\ MoreCalls \in Nat
  BY <1>1, StreamAssumption
<1>3. R!Free \in RegisterType /\ R!Free.en = FALSE
  BY <1>2 DEF R!Free, RegisterType, Modes, Counts
<1>4. \A t \in Threads : ~Active(t) /\ \A s : ~Holds(t, s)
  BY <1>1, IdleType DEF Active, Holds
<1>5. \A s \in R!Stream : ~R!Busy(s)
  BY <1>1, <1>3, Zenon DEF R!Busy
<1>6. {0} \cup 1 .. MoreCalls = 0 .. MoreCalls
  BY <1>2
<1>7. StreamType
  <2>1. call \in [Threads -> CallType]
    BY <1>1, IdleType
  <2>2. stream \in [R!Stream -> RegisterType]
    BY <1>1, <1>3
  <2>3. done \in [0 .. MoreCalls -> Seq([mode : Modes, n : Counts, m0 : Nat])]
    BY <1>1, <1>6
  <2> QED
    BY <1>1, <1>2, <2>1, <2>2, <2>3 DEF StreamType, CallType, RegisterType
<1>8. Moved
  <2>1. \A r \in 0 .. MoreCalls : done[r] = <<>>
    BY <1>1, <1>6
  <2>2. \A r \in Len(req) + 1 .. MoreCalls : r \in 0 .. MoreCalls
    BY <1>2
  <2>3. 1 .. Len(req) = {}
    BY <1>2
  <2> QED
    BY <2>1, <2>2, <2>3 DEF Moved
<1> QED
  BY <1>4, <1>5, <1>7, <1>8
  DEF Transfers, Apart, Rivals, UnderWay, Registers, OwnSource, Started,
      OwnTransfer

LEMMA NextTransfers == ASSUME Transfers, [Next]_vars PROVE Transfers'
<1>1. CASE UNCHANGED streamVars
  BY <1>1, SameTransfers
<1>2. ASSUME NEW t \in Threads, Calls(t) PROVE Transfers'
  BY <1>2, CallTransfers
<1>3. ASSUME NEW t \in Threads, R!Scan(t) PROVE Transfers'
  BY <1>3, ScanTransfers
<1>4. ASSUME NEW t \in Threads, R!Test(t) PROVE Transfers'
  BY <1>4, TestTransfers
<1>5. ASSUME NEW t \in Threads, R!Write(t) PROVE Transfers'
  BY <1>5, WriteTransfers
<1>6. ASSUME NEW t \in Threads, R!Load(t) PROVE Transfers'
  BY <1>6, LoadTransfers
<1>7. ASSUME NEW t \in Threads, R!Store(t) PROVE Transfers'
  BY <1>7, StoreTransfers
<1>8. ASSUME NEW s \in R!Stream, R!End(s) PROVE Transfers'
  BY <1>8, EndTransfers
<1> QED
  BY <1>1, <1>2, <1>3, <1>4, <1>5, <1>6, <1>7, <1>8, StreamSteps

LEMMA TransfersAreExact == ASSUME Transfers PROVE ExactUnlessRaced
<1>1. DOMAIN req = 1 .. Len(req)
  BY DEF Transfers, StreamType
<1>2. R!ExactUnlessRaced
  BY <1>1 DEF Transfers, Moved, Exact, R!ExactUnlessRaced
<1>3. ASSUME NEW s \in R!Stream, R!Busy(s), stream[s].by \notin raced,
             stream[s].mode = "none" \/ stream[s].n = 0
      PROVE  R!Unmovable(stream[s].by)
  <2>0. PICK r : r = stream[s].by
    OBVIOUS
  <2>1. /\ r \in 1 .. Len(req) /\ req[r].size # 0
        /\ stream[s].mode = req[r].kind /\ stream[s].n = R!Units(r)
    BY <1>3, <2>0 DEF Transfers, Started
  <2>2. req[r] \in Asks
    BY <2>1 DEF Transfers, StreamType
  <2>3. req[r].kind # "none" /\ req[r].size \in Nat
    BY <2>2, StreamAssumption
    DEF Asks, S!StreamAssumption, R!StreamAssumption
  <2>4. R!Units(r) = 0 /\ req[r].size > 0
    BY <1>3, <2>1, <2>3
  <2> QED
    BY <1>1, <2>0, <2>1, <2>4 DEF R!Unmovable
<1>4. R!StuckHasCause
  BY <1>3 DEF R!StuckHasCause
<1> QED
  BY <1>2, <1>4 DEF ExactUnlessRaced

\* A request moves its own data, once and all units of it, unless another one
\* took its stream between its test and its start; and a stream that is busy
\* for good was started by two requests or for a number of units that NDTR
\* cannot count (F4/driver_DMA.c:54-97, 143-157).
THEOREM ExactAlwaysUnlessRaced == Spec => []ExactUnlessRaced
<1>1. Init => Transfers
  BY InitTransfers
<1>2. Transfers /\ [Next]_vars => Transfers'
  BY NextTransfers
<1>3. Transfers => ExactUnlessRaced
  BY TransfersAreExact
<1> QED
  BY <1>1, <1>2, <1>3, PTL DEF Spec

-----------------------------------------------------------------------------
\* UartReceive.  The bytes are numbered as they arrive, so that order is <.

Item == (1 .. MaxBytes) \cup {None}
LineType == [rxne : BOOLEAN, dr : Nat, idle : BOOLEAN, arrived : 0 .. MaxBytes]
ReaderType == [pc : {"idle", "copy", "restart"}, size : 0 .. BufferSize,
               got : Seq(Item), newest : Nat, asked : Nat]

ReceiveType ==
  /\ usart \in LineType /\ usart.dr <= usart.arrived
  /\ usart.rxne => usart.dr > 0
  /\ uart_buff \in [0 .. BufferSize - 1 -> Item]
  /\ buff_offset \in 0 .. BufferSize
  /\ reader \in [Threads -> ReaderType]
  /\ delivered \in Seq(Item)
  /\ lost \in [U!Causes -> SUBSET Item]
  /\ together \in BOOLEAN

\* Where a READ is.
Within(r) ==
  /\ reader[r].pc = "idle" => reader[r] = U!Idle
  /\ reader[r].pc = "restart" => Len(reader[r].got) = reader[r].size
  /\ Len(reader[r].got) <= reader[r].size
  /\ reader[r].newest <= usart.arrived

\* The buffer and DR hold bytes in the order of their arrival.
Buffered ==
  /\ \A m \in 0 .. buff_offset - 1 :
       /\ uart_buff[m] \in 1 .. usart.arrived
       /\ usart.rxne => uart_buff[m] < usart.dr
  /\ \A l, m \in 0 .. buff_offset - 1 : l < m => uart_buff[l] < uart_buff[m]

\* What a READ has copied is the beginning of the buffer, but for the last
\* place of a full one; and a READ that takes all there is leaves only what
\* came since.
Copying(r) ==
  LET got == reader[r].got
  IN reader[r].pc # "idle" =>
       /\ reader[r].size <= buff_offset
       /\ \A j \in 1 .. Len(got) :
            /\ got[j] \in 1 .. usart.arrived
            /\ got[j] <= uart_buff[j - 1]
            /\ j < BufferSize => got[j] = uart_buff[j - 1]
       /\ \A l, j \in 1 .. Len(got) : l < j => got[l] < got[j]
       /\ reader[r].size # reader[r].asked =>
            /\ usart.rxne => usart.dr > reader[r].newest
            /\ \A m \in 0 .. buff_offset - 1 :
                 \/ uart_buff[m] > reader[r].newest
                 \/ /\ m < reader[r].size
                    /\ m < Len(got) => got[m + 1] = uart_buff[m]

\* The bytes by where they are.
InLine(u) == IF u.rxne THEN {u.dr} ELSE {}
InBuffer(b, n) == {b[m] : m \in 0 .. n - 1}
InSequence(s) == {s[j] : j \in 1 .. Len(s)}
InReaders(f) == UNION {InSequence(f[r].got) : r \in Threads}
AllLost(l) == UNION {l[c] : c \in U!Causes}

Here == InLine(usart) \cup InBuffer(uart_buff, buff_offset)
          \cup InReaders(reader) \cup InSequence(delivered)

\* What was delivered came before everything else.
Delivering ==
  /\ \A j \in 1 .. Len(delivered) :
       /\ delivered[j] \in 1 .. usart.arrived
       /\ usart.rxne => delivered[j] < usart.dr
       /\ \A m \in 0 .. buff_offset - 1 : delivered[j] < uart_buff[m]
       /\ \A r \in Threads : \A l \in 1 .. Len(reader[r].got) :
            delivered[j] < reader[r].got[l]
  /\ \A l, j \in 1 .. Len(delivered) : l < j => delivered[l] < delivered[j]

Accounted == /\ 1 .. usart.arrived = Here \cup AllLost(lost)
             /\ \A c \in U!Causes \ {"full"} : lost[c] \cap Here = {}

OneReads == \A r, s \in Threads :
              reader[r].pc # "idle" /\ reader[s].pc # "idle" => r = s

Received ==
  /\ ReceiveType /\ Buffered /\ \A r \in Threads : Within(r)
  /\ ~together => /\ OneReads /\ Delivering /\ Accounted
                  /\ \A r \in Threads : Copying(r)

-----------------------------------------------------------------------------
LEMMA ReceiveConstants ==
  /\ BufferSize \in Nat \ {0} /\ MaxBytes \in Nat /\ None \notin Nat
  /\ Sizes \subseteq Nat \ {0}
  BY UartAssumption DEF U!ReceiveAssumption

\* The steps of UartReceive, and the rest.
LEMMA ReceiveSteps ==
  ASSUME [Next]_vars
  PROVE  UNCHANGED receiveVars \/ U!Next
  BY DEF Next, vars, receiveVars

LEMMA IdleReader ==
  /\ U!Idle \in ReaderType /\ U!Idle.pc = "idle" /\ U!Idle.got = <<>>
  /\ Len(U!Idle.got) = 0 /\ U!Idle.size = 0 /\ U!Idle.newest = 0
  BY ReceiveConstants DEF U!Idle, ReaderType

\* Where the bytes are, one by one.
LEMMA BufferView ==
  ASSUME NEW b, NEW n, NEW x
  PROVE  x \in InBuffer(b, n) <=> \E m \in 0 .. n - 1 : b[m] = x
  BY DEF InBuffer

LEMMA SequenceView ==
  ASSUME NEW s, NEW x
  PROVE  x \in InSequence(s) <=> \E j \in 1 .. Len(s) : s[j] = x
  BY DEF InSequence

LEMMA SequenceSet ==
  ASSUME NEW s \in Seq(Item)
  PROVE  U!ToSet(s) = InSequence(s)
<1>1. DOMAIN s = 1 .. Len(s)
  OBVIOUS
<1> QED
  BY <1>1, Zenon DEF U!ToSet, InSequence

LEMMA ReadersView ==
  ASSUME NEW f, NEW x
  PROVE  x \in InReaders(f) <=>
           \E r \in Threads : \E j \in 1 .. Len(f[r].got) : f[r].got[j] = x
  BY DEF InReaders, InSequence

LEMMA LostView ==
  ASSUME NEW l, NEW x
  PROVE  x \in AllLost(l) <=> \E c \in U!Causes : x \in l[c]
  BY DEF AllLost

LEMMA SameReceived == ASSUME Received, UNCHANGED receiveVars PROVE Received'
<1>1. /\ (ReceiveType' <=> ReceiveType) /\ (Buffered' <=> Buffered)
      /\ \A r \in Threads : (Within(r)' <=> Within(r))
  BY DEF receiveVars, ReceiveType, Buffered, Within
<1>2. /\ (OneReads' <=> OneReads) /\ (Delivering' <=> Delivering)
      /\ \A r \in Threads : (Copying(r)' <=> Copying(r))
  BY DEF receiveVars, OneReads, Delivering, Copying
<1>3. Accounted' <=> Accounted
  BY DEF receiveVars, Accounted, Here
<1>4. together' = together
  BY DEF receiveVars
<1> QED
  BY <1>1, <1>2, <1>3, <1>4 DEF Received

\* A step that leaves the READs alone.
LEMMA ReadersSame ==
  ASSUME Received, usart'.arrived >= usart.arrived, usart'.arrived \in Nat,
         UNCHANGED <<reader, delivered, together>>
  PROVE  /\ \A r \in Threads : Within(r)'
         /\ ~together' => OneReads'
<1>1. /\ \A r \in Threads : reader[r] \in ReaderType
      /\ usart.arrived \in Nat
  BY ReceiveConstants DEF Received, ReceiveType, LineType
<1>2. ASSUME NEW r \in Threads PROVE Within(r)'
  <2>1. reader[r].newest <= usart.arrived /\ reader[r].newest \in Nat
    BY <1>1 DEF Received, Within, ReaderType
  <2>2. reader[r].newest <= usart'.arrived
    BY <1>1, <2>1
  <2> QED
    BY <2>2 DEF Received, Within
<1> QED
  BY <1>2 DEF Received, OneReads

LEMMA ArriveReceived == ASSUME Received, U!Arrive PROVE Received'
<1> DEFINE byte == usart.arrived + 1
<1>1. /\ usart \in LineType /\ usart.arrived \in Nat /\ byte <= MaxBytes
      /\ usart' = [usart EXCEPT !.arrived = byte, !.rxne = TRUE,
                                !.dr = IF usart.rxne THEN @ ELSE byte]
      /\ lost' = IF usart.rxne
                 THEN [lost EXCEPT !["overrun"] = @ \cup {byte}] ELSE lost
      /\ UNCHANGED <<uart_buff, buff_offset, reader, delivered, together>>
  BY ReceiveConstants DEF U!Arrive, Received, ReceiveType, LineType
<1>2. /\ usart'.arrived = byte /\ usart'.rxne = TRUE
      /\ usart'.dr = IF usart.rxne THEN usart.dr ELSE byte
      /\ usart' \in LineType
  <2>1. /\ usart.rxne \in BOOLEAN /\ usart.dr \in Nat /\ byte \in Nat
        /\ byte \in 0 .. MaxBytes
    BY <1>1, ReceiveConstants DEF LineType
  <2> HIDE DEF byte
  <2>2. usart'.dr = IF usart.rxne THEN usart.dr ELSE byte
    BY <1>1, <2>1 DEF LineType
  <2>3. usart'.arrived = byte /\ usart'.rxne = TRUE
    BY <1>1 DEF LineType
  <2> QED
    BY <1>1, <2>1, <2>2, <2>3 DEF LineType
<1>3. /\ usart.dr \in Nat /\ usart.dr <= usart.arrived
      /\ usart.rxne \in BOOLEAN
      /\ usart.rxne => usart.dr > 0
  BY DEF Received, ReceiveType, LineType
<1>4. ReceiveType'
  <2>1. byte \in Item /\ "overrun" \in U!Causes
    BY <1>1 DEF Item, U!Causes
  <2>2. lost' \in [U!Causes -> SUBSET Item]
    BY <1>1, <2>1 DEF Received, ReceiveType
  <2> QED
    BY <1>1, <1>2, <1>3, <2>2 DEF Received, ReceiveType
<1>5. Buffered'
  <2>1. \A m \in 0 .. buff_offset - 1 :
          /\ uart_buff[m] \in 1 .. usart.arrived
          /\ usart.rxne => uart_buff[m] < usart.dr
    BY DEF Received, Buffered
  <2> QED
    BY <1>1, <1>2, <1>3, <2>1 DEF Received, Buffered
<1>6. /\ \A r \in Threads : Within(r)'
      /\ ~together' => OneReads'
  BY <1>1, <1>2, ReadersSame
<1> SUFFICES ASSUME ~together
             PROVE  /\ Delivering' /\ Accounted'
                    /\ \A r \in Threads : Copying(r)'
  BY <1>1, <1>4, <1>5, <1>6 DEF Received
<1>7. /\ Delivering /\ Accounted /\ OneReads
      /\ \A r \in Threads : Copying(r)
  BY DEF Received
<1>8. Delivering'
  BY <1>1, <1>2, <1>3, <1>7 DEF Delivering
<1>9. ASSUME NEW r \in Threads PROVE Copying(r)'
  <2>1. reader[r].newest \in Nat /\ reader[r].newest <= usart.arrived
    BY DEF Received, ReceiveType, ReaderType, Within
  <2>2. usart'.dr > reader[r].newest \/ reader[r].size = reader[r].asked
          \/ reader[r].pc = "idle"
    BY <1>1, <1>2, <1>3, <1>7, <2>1 DEF Copying
  <2> QED
    BY <1>1, <1>2, <1>7, <2>2 DEF Copying
<1>10. Accounted'
  <2>1. /\ 1 .. usart'.arrived = (1 .. usart.arrived) \cup {byte}
        /\ byte \notin 1 .. usart.arrived
    BY <1>1, <1>2
  <2>2. InLine(usart)' = IF usart.rxne THEN InLine(usart) ELSE {byte}
    BY <1>2 DEF InLine
  <2>3. Here' = IF usart.rxne THEN Here ELSE Here \cup {byte}
    BY <1>1, <2>2 DEF Here, InLine
  <2>4. \A x : x \in AllLost(lost)'
               <=> x \in AllLost(lost) \/ (usart.rxne /\ x = byte)
    <3>1. \A x : x \in AllLost(lost') <=> \E c \in U!Causes : x \in lost'[c]
      BY LostView
    <3>2. \A x : x \in AllLost(lost) <=> \E c \in U!Causes : x \in lost[c]
      BY LostView
    <3>3. AllLost(lost)' = AllLost(lost')
      BY DEF AllLost, U!Causes
    <3>4. lost \in [U!Causes -> SUBSET Item] /\ "overrun" \in U!Causes
      BY DEF Received, ReceiveType, U!Causes
    <3> QED
      BY <1>1, <3>1, <3>2, <3>3, <3>4
  <2>5. \A c \in U!Causes \ {"full"} :
          lost'[c] \subseteq lost[c] \cup (IF usart.rxne THEN {byte} ELSE {})
    BY <1>1 DEF Received, ReceiveType
  <2>6. \A c \in U!Causes : lost[c] \subseteq AllLost(lost)
    BY DEF AllLost
  <2>7. U!Causes' = U!Causes
    BY DEF U!Causes
  <2>8. 1 .. usart'.arrived = Here' \cup AllLost(lost)'
    BY <1>7, <2>1, <2>3, <2>4 DEF Accounted
  <2>9. \A c \in U!Causes \ {"full"} : lost'[c] \cap Here' = {}
    BY <1>7, <2>1, <2>3, <2>5, <2>6 DEF Accounted
  <2> QED
    BY <2>7, <2>8, <2>9 DEF Accounted
<1> QED
  BY <1>8, <1>9, <1>10

LEMMA LineIdleReceived == ASSUME Received, U!LineIdle PROVE Received'
<1>1. /\ usart \in LineType
      /\ usart' = [usart EXCEPT !.idle = TRUE]
      /\ UNCHANGED <<uart_buff, buff_offset, reader, delivered, lost, together>>
  BY DEF U!LineIdle, Received, ReceiveType
<1>2. /\ usart' \in LineType /\ usart'.arrived = usart.arrived
      /\ usart'.rxne = usart.rxne /\ usart'.dr = usart.dr
  BY <1>1 DEF LineType
<1>3. ReceiveType' /\ Buffered' /\ \A r \in Threads : Within(r)'
  BY <1>1, <1>2 DEF Received, ReceiveType, Buffered, Within
<1>4. InLine(usart)' = InLine(usart)
  BY <1>2 DEF InLine
<1>5. ~together =>
        /\ OneReads' /\ Delivering' /\ \A r \in Threads : Copying(r)'
  BY <1>1, <1>2 DEF Received, OneReads, Delivering, Copying
<1>6. ~together => Accounted'
  BY <1>1, <1>2, <1>4 DEF Received, Accounted, Here
<1> QED
  BY <1>1, <1>3, <1>5, <1>6 DEF Received

\* What a READ has copied came before what is in DR, and is in order.
LEMMA CopiedFirst ==
  ASSUME Received, ~together, NEW r \in Threads,
         NEW j \in 1 .. Len(reader[r].got)
  PROVE  /\ reader[r].got[j] \in Nat \ {0}
         /\ usart.rxne => reader[r].got[j] < usart.dr
         /\ j - 1 \in 0 .. buff_offset - 1 /\ reader[r].pc # "idle"
<1>1. reader[r] \in ReaderType /\ reader[r].got \in Seq(Item)
      /\ reader[r].size \in Nat /\ buff_offset \in Nat
      /\ usart.arrived \in Nat /\ usart.dr \in Nat
  BY ReceiveConstants DEF Received, ReceiveType, ReaderType, LineType
<1>2. reader[r].pc # "idle"
  BY IdleReader DEF Received, Within
<1>3. Copying(r) /\ Within(r) /\ Buffered
  BY DEF Received
<1>4. Len(reader[r].got) <= reader[r].size /\ reader[r].size <= buff_offset
  BY <1>2, <1>3 DEF Copying, Within
<1>5. j \in Nat /\ j - 1 \in 0 .. buff_offset - 1
  BY <1>1, <1>4
<1>6. /\ reader[r].got[j] \in 1 .. usart.arrived
      /\ reader[r].got[j] <= uart_buff[j - 1]
  BY <1>2, <1>3 DEF Copying
<1>7. /\ uart_buff[j - 1] \in 1 .. usart.arrived
      /\ usart.rxne => uart_buff[j - 1] < usart.dr
  BY <1>3, <1>5 DEF Buffered
<1> QED
  BY <1>1, <1>2, <1>5, <1>6, <1>7

LEMMA IrqIdleReceived == ASSUME Received, U!IrqIdle PROVE Received'
<1>1. /\ usart \in LineType
      /\ usart' = [usart EXCEPT !.rxne = FALSE, !.dr = 0, !.idle = FALSE]
      /\ lost' = IF usart.rxne
                 THEN [lost EXCEPT !["idle"] = @ \cup {usart.dr}] ELSE lost
      /\ UNCHANGED <<uart_buff, buff_offset, reader, delivered, together>>
  BY DEF U!IrqIdle, U!Taken, Received, ReceiveType
<1>2. /\ usart' \in LineType /\ usart'.arrived = usart.arrived
      /\ usart'.rxne = FALSE /\ usart'.dr = 0
      /\ usart.arrived \in 0 .. MaxBytes /\ usart.rxne \in BOOLEAN
  BY <1>1 DEF LineType
<1>3. /\ usart.dr \in Nat /\ usart.dr <= usart.arrived
      /\ usart.rxne => usart.dr \in Item /\ usart.dr \in 1 .. usart.arrived
      /\ "idle" \in U!Causes /\ lost \in [U!Causes -> SUBSET Item]
  BY <1>2, ReceiveConstants
  DEF Received, ReceiveType, LineType, U!Causes, Item
<1>4. /\ lost' \in [U!Causes -> SUBSET Item]
      /\ AllLost(lost') = AllLost(lost) \cup InLine(usart)
      /\ \A c \in U!Causes :
           lost'[c] = lost[c] \cup (IF c = "idle" THEN InLine(usart) ELSE {})
  <2>1. CASE usart.rxne
    <3>1. InLine(usart) = {usart.dr} /\ {usart.dr} \in SUBSET Item
      BY <1>3, <2>1 DEF InLine
    <3>2. lost' = [lost EXCEPT !["idle"] = @ \cup {usart.dr}]
      BY <1>1, <2>1
    <3>3. /\ lost' \in [U!Causes -> SUBSET Item]
          /\ \A c \in U!Causes : lost'[c] =
               IF c = "idle" THEN lost[c] \cup {usart.dr} ELSE lost[c]
      BY <1>3, <3>1, <3>2
    <3>4. AllLost(lost') = AllLost(lost) \cup {usart.dr}
      <4>1. /\ lost'["idle"] = lost["idle"] \cup {usart.dr}
            /\ \A c \in U!Causes \ {"idle"} : lost'[c] = lost[c]
        BY <1>3, <3>3
      <4>2. \A x : x \in AllLost(lost') <=> \E c \in U!Causes : x \in lost'[c]
        BY LostView
      <4>3. \A x : x \in AllLost(lost) <=> \E c \in U!Causes : x \in lost[c]
        BY LostView
      <4>4. \A x : x \in AllLost(lost') <=> x \in AllLost(lost) \cup {usart.dr}
        BY <1>3, <4>1, <4>2, <4>3
      <4> QED
        BY <4>4
    <3> QED
      BY <3>1, <3>3, <3>4
  <2>2. CASE ~usart.rxne
    BY <1>1, <1>3, <2>2 DEF InLine
  <2> QED
    BY <2>1, <2>2
<1>5. ReceiveType'
  BY <1>1, <1>2, <1>4, ReceiveConstants DEF Received, ReceiveType
<1>6. Buffered'
  BY <1>1, <1>2 DEF Received, Buffered
<1>7. /\ \A r \in Threads : Within(r)'
      /\ ~together' => OneReads'
  BY <1>1, <1>2, ReadersSame
<1> SUFFICES ASSUME ~together
             PROVE  /\ Delivering' /\ Accounted'
                    /\ \A r \in Threads : Copying(r)'
  BY <1>1, <1>5, <1>6, <1>7 DEF Received
<1>8. Delivering' /\ \A r \in Threads : Copying(r)'
  BY <1>1, <1>2 DEF Received, Delivering, Copying
<1>9. InLine(usart)' = {}
  BY <1>2 DEF InLine
<1>10. \A x \in InLine(usart) :
         /\ x \notin InBuffer(uart_buff, buff_offset)
         /\ x \notin InReaders(reader) /\ x \notin InSequence(delivered)
  <2> SUFFICES ASSUME usart.rxne
               PROVE  /\ usart.dr \notin InBuffer(uart_buff, buff_offset)
                      /\ usart.dr \notin InReaders(reader)
                      /\ usart.dr \notin InSequence(delivered)
    BY DEF InLine
  <2>1. \A m \in 0 .. buff_offset - 1 :
          uart_buff[m] \in 1 .. usart.arrived /\ uart_buff[m] < usart.dr
    BY DEF Received, Buffered
  <2>2. \A j \in 1 .. Len(delivered) :
          delivered[j] \in 1 .. usart.arrived /\ delivered[j] < usart.dr
    BY DEF Received, Delivering
  <2>3. ASSUME NEW r \in Threads, NEW j \in 1 .. Len(reader[r].got)
        PROVE  reader[r].got[j] < usart.dr /\ reader[r].got[j] \in Nat
    BY CopiedFirst
  <2>5. usart.dr \notin InBuffer(uart_buff, buff_offset)
    BY <1>3, <2>1, BufferView
  <2>6. usart.dr \notin InSequence(delivered)
    BY <1>3, <2>2, SequenceView
  <2>7. usart.dr \notin InReaders(reader)
    BY <1>3, <2>3, ReadersView
  <2> QED
    BY <2>5, <2>6, <2>7
<1>11. Accounted'
  <2>1. Here' = InBuffer(uart_buff, buff_offset) \cup InReaders(reader)
                  \cup InSequence(delivered)
    BY <1>1, <1>9 DEF Here
  <2>2. Here = InLine(usart) \cup Here' /\ InLine(usart) \cap Here' = {}
    BY <1>10, <2>1 DEF Here
  <2>3. Accounted
    BY DEF Received
  <2>4. 1 .. usart'.arrived = Here' \cup AllLost(lost')
    BY <1>2, <1>4, <2>2, <2>3 DEF Accounted
  <2>5. \A c \in U!Causes \ {"full"} : lost'[c] \cap Here' = {}
    BY <1>4, <2>2, <2>3 DEF Accounted
  <2>6. U!Causes' = U!Causes /\ AllLost(lost)' = AllLost(lost')
    BY DEF U!Causes, AllLost
  <2> QED
    BY <2>4, <2>5, <2>6 DEF Accounted
<1> QED
  BY <1>8, <1>11

LEMMA LeastOfTwo ==
  ASSUME NEW a \in Nat, NEW b \in Nat
  PROVE  /\ U!Min({a, b}) \in {a, b}
         /\ U!Min({a, b}) <= a /\ U!Min({a, b}) <= b
<1>1. \E x \in {a, b} : \A y \in {a, b} : x <= y
  OBVIOUS
<1>2. /\ U!Min({a, b}) \in {a, b}
      /\ \A y \in {a, b} : U!Min({a, b}) <= y
  BY <1>1 DEF U!Min
<1> QED
  BY <1>2

LEMMA BeginReceived ==
  ASSUME Received, NEW r \in Threads, NEW asked \in Sizes, U!Begin(r, asked)
  PROVE  Received'
<1> DEFINE new == [U!Idle EXCEPT !.pc = "copy", !.size = U!Bounded(asked),
                                 !.newest = U!Newest, !.asked = asked]
<1>1. /\ reader[r].pc = "idle" /\ reader' = [reader EXCEPT ![r] = new]
      /\ together' = (together \/ U!Reading # {})
      /\ UNCHANGED <<uart_buff, buff_offset, usart, delivered, lost>>
  BY DEF U!Begin, U!Reading
<1>2. /\ asked \in Nat /\ buff_offset \in 0 .. BufferSize
      /\ BufferSize \in Nat /\ usart \in LineType
      /\ usart.dr \in Nat /\ usart.dr <= usart.arrived
      /\ usart.arrived \in Nat
      /\ usart.rxne => usart.dr > 0
  BY ReceiveConstants DEF Received, ReceiveType, LineType
<1>3. /\ U!Bounded(asked) \in {asked, buff_offset}
      /\ U!Bounded(asked) <= buff_offset
      /\ U!Bounded(asked) \in 0 .. BufferSize
  BY <1>2, LeastOfTwo DEF U!Bounded
<1>4. /\ U!Newest \in Nat /\ U!Newest <= usart.arrived
      /\ usart.rxne => U!Newest < usart.dr
  <2>1. usart.rxne \in BOOLEAN
    BY <1>2 DEF LineType
  <2> QED
    BY <1>2, <2>1 DEF U!Newest
<1>5. /\ new \in ReaderType /\ new.pc = "copy" /\ new.got = <<>>
      /\ new.size = U!Bounded(asked) /\ new.newest = U!Newest
      /\ new.asked = asked
  BY <1>2, <1>3, <1>4, IdleReader DEF ReaderType, U!Idle
<1> HIDE DEF new
<1>6. /\ reader' \in [Threads -> ReaderType] /\ reader'[r] = new
      /\ \A s \in Threads \ {r} : reader'[s] = reader[s]
  BY <1>1, <1>5 DEF Received, ReceiveType
<1>7. ReceiveType' /\ Buffered'
  BY <1>1, <1>6 DEF Received, ReceiveType, Buffered
<1>8. ASSUME NEW s \in Threads PROVE Within(s)'
  <2>1. CASE s = r
    BY <1>1, <1>3, <1>4, <1>5, <1>6, <2>1 DEF Within
  <2>2. CASE s # r
    BY <1>1, <1>6, <2>2 DEF Received, Within
  <2> QED
    BY <2>1, <2>2
<1> SUFFICES ASSUME ~together'
             PROVE  /\ OneReads' /\ Delivering' /\ Accounted'
                    /\ \A s \in Threads : Copying(s)'
  BY <1>7, <1>8 DEF Received
<1>9. /\ ~together /\ OneReads /\ Delivering /\ Accounted
      /\ \A s \in Threads : reader[s].pc = "idle"
  BY <1>1 DEF U!Reading, Received
<1>10. OneReads'
  BY <1>6, <1>9 DEF OneReads
<1>11. Delivering'
  BY <1>1, <1>5, <1>6, <1>9 DEF Delivering
<1>12. ASSUME NEW s \in Threads PROVE Copying(s)'
  <2>1. CASE s = r
    <3>1. \A m \in 0 .. buff_offset - 1 :
            \/ uart_buff[m] > U!Newest
            \/ m < U!Bounded(asked) \/ U!Bounded(asked) = asked
      BY <1>2, <1>3
    <3> QED
      BY <1>1, <1>2, <1>3, <1>4, <1>5, <1>6, <2>1, <3>1 DEF Copying
  <2>2. CASE s # r
    BY <1>6, <1>9, <2>2 DEF Copying
  <2> QED
    BY <2>1, <2>2
<1>13. Accounted'
  <2>1. Len(reader[r].got) = 0 /\ Len(new.got) = 0
    BY <1>5, <1>9, IdleReader DEF Received, Within
  <2>2. \A x : x \in InReaders(reader') <=> x \in InReaders(reader)
    BY <1>6, <2>1, ReadersView
  <2>3. InReaders(reader') = InReaders(reader)
    BY <2>2
  <2>4. InReaders(reader)' = InReaders(reader')
    BY DEF InReaders, InSequence
  <2>5. Here' = Here
    BY <1>1, <2>3, <2>4 DEF Here, InLine, InBuffer, InSequence
  <2> QED
    BY <1>1, <1>9, <2>5 DEF Accounted, U!Causes, AllLost
<1> QED
  BY <1>10, <1>11, <1>12, <1>13

LEMMA CopyReceived ==
  ASSUME Received, NEW r \in Threads, U!Copy(r)
  PROVE  Received'
<1> DEFINE n == Len(reader[r].got)
           got == reader[r].got
           new == IF n = reader[r].size
                  THEN [reader[r] EXCEPT !.pc = "restart"]
                  ELSE [reader[r] EXCEPT !.got = Append(@, uart_buff[n])]
<1>1. /\ reader[r].pc = "copy" /\ reader[r] \in ReaderType
      /\ reader' = [reader EXCEPT ![r] = new]
      /\ UNCHANGED <<uart_buff, buff_offset, usart, delivered, lost, together>>
  BY DEF U!Copy, Received, ReceiveType
<1>2. /\ got \in Seq(Item) /\ n \in Nat /\ n <= reader[r].size
      /\ reader[r].size \in 0 .. BufferSize /\ BufferSize \in Nat
      /\ reader[r].newest <= usart.arrived /\ buff_offset \in Nat
      /\ reader[r].newest \in Nat /\ usart.arrived \in Nat
  BY <1>1, ReceiveConstants
  DEF Received, ReceiveType, ReaderType, Within, LineType
<1>3. n # reader[r].size => n \in 0 .. BufferSize - 1 /\ uart_buff[n] \in Item
  BY <1>2 DEF Received, ReceiveType
<1>4. /\ new \in ReaderType
      /\ new.size = reader[r].size /\ new.newest = reader[r].newest
      /\ new.asked = reader[r].asked
      /\ new.pc = IF n = reader[r].size THEN "restart" ELSE "copy"
      /\ new.got = IF n = reader[r].size THEN got
                   ELSE Append(got, uart_buff[n])
  <2>1. n # reader[r].size => Append(got, uart_buff[n]) \in Seq(Item)
    BY <1>2, <1>3, AppendView
  <2> HIDE DEF n
  <2> QED
    BY <1>1, <2>1 DEF ReaderType
<1>5. /\ reader' \in [Threads -> ReaderType] /\ reader'[r] = new
      /\ \A s \in Threads \ {r} : reader'[s] = reader[s]
  BY <1>1, <1>4 DEF Received, ReceiveType
<1>6. /\ Len(new.got) = IF n = reader[r].size THEN n ELSE n + 1
      /\ \A j \in 1 .. n : new.got[j] = got[j]
      /\ n # reader[r].size => new.got[n + 1] = uart_buff[n]
      /\ got \in Seq(Item) /\ n \in Nat
  <2>1. CASE n = reader[r].size
    BY <1>2, <1>4, <2>1
  <2>2. CASE n # reader[r].size
    BY <1>2, <1>3, <1>4, <2>2, AppendView
  <2> QED
    BY <2>1, <2>2
<1> HIDE DEF new, n, got
<1>7. ReceiveType' /\ Buffered'
  BY <1>1, <1>5 DEF Received, ReceiveType, Buffered
<1>8. ASSUME NEW s \in Threads PROVE Within(s)'
  <2>1. CASE s = r
    <3>1. /\ new.pc # "idle" /\ new.newest <= usart.arrived
          /\ new.pc = "restart" => Len(new.got) = new.size
          /\ Len(new.got) <= new.size
      BY <1>2, <1>4, <1>6
    <3> QED
      BY <1>1, <1>5, <2>1, <3>1 DEF Within
  <2>2. CASE s # r
    BY <1>1, <1>5, <2>2 DEF Received, Within
  <2> QED
    BY <2>1, <2>2
<1> SUFFICES ASSUME ~together
             PROVE  /\ OneReads' /\ Delivering' /\ Accounted'
                    /\ \A s \in Threads : Copying(s)'
  BY <1>1, <1>7, <1>8 DEF Received
<1>9. /\ OneReads /\ Delivering /\ Accounted /\ Buffered
      /\ \A s \in Threads : Copying(s)
  BY DEF Received
<1>10. OneReads'
  BY <1>1, <1>4, <1>5, <1>9 DEF OneReads
<1>11. /\ reader[r].size <= buff_offset
       /\ n # reader[r].size => n \in 0 .. buff_offset - 1
                                  /\ uart_buff[n] \in 1 .. usart.arrived
  <2>1. reader[r].size <= buff_offset
    BY <1>1, <1>9 DEF Copying
  <2>2. n # reader[r].size => n \in 0 .. buff_offset - 1
    BY <1>2, <2>1
  <2> QED
    BY <1>9, <2>1, <2>2 DEF Buffered
<1>12. Delivering'
  <2>1. ASSUME NEW j \in 1 .. Len(delivered), NEW s \in Threads,
               NEW l \in 1 .. Len(reader'[s].got)
        PROVE  delivered[j] < reader'[s].got[l]
    <3>1. CASE s # r
      BY <1>5, <1>9, <3>1 DEF Delivering
    <3>2. CASE s = r /\ l \in 1 .. n
      BY <1>5, <1>6, <1>9, <3>2 DEF Delivering, got, n
    <3>3. CASE s = r /\ l \notin 1 .. n
      <4>1. n # reader[r].size /\ l = n + 1
        BY <1>5, <1>6, <3>3
      <4> QED
        BY <1>5, <1>6, <1>9, <1>11, <3>3, <4>1 DEF Delivering
    <3> QED
      BY <3>1, <3>2, <3>3
  <2> QED
    BY <1>1, <1>9, <2>1 DEF Delivering
<1>13. ASSUME NEW s \in Threads PROVE Copying(s)'
  <2>1. CASE s # r
    BY <1>1, <1>5, <1>9, <2>1 DEF Copying
  <2>2. CASE s = r
    <3>1. \A j \in 1 .. n :
            /\ got[j] \in 1 .. usart.arrived /\ got[j] <= uart_buff[j - 1]
            /\ j < BufferSize => got[j] = uart_buff[j - 1]
      BY <1>1, <1>9 DEF Copying, got, n
    <3>2. \A l, j \in 1 .. n : l < j => got[l] < got[j]
      BY <1>1, <1>9 DEF Copying, got, n
    <3>3. reader[r].size # reader[r].asked =>
            /\ usart.rxne => usart.dr > reader[r].newest
            /\ \A m \in 0 .. buff_offset - 1 :
                 \/ uart_buff[m] > reader[r].newest
                 \/ /\ m < reader[r].size
                    /\ m < n => got[m + 1] = uart_buff[m]
      BY <1>1, <1>9 DEF Copying, got, n
    <3>4. \A j \in 1 .. Len(new.got) :
            /\ new.got[j] \in 1 .. usart.arrived
            /\ new.got[j] <= uart_buff[j - 1]
            /\ j < BufferSize => new.got[j] = uart_buff[j - 1]
      <4>1. n # reader[r].size =>
              /\ new.got[n + 1] \in 1 .. usart.arrived
              /\ new.got[n + 1] <= uart_buff[n]
              /\ new.got[n + 1] = uart_buff[n]
        BY <1>6, <1>11
      <4>2. (n + 1) - 1 = n
        BY <1>6
      <4>3. \A j \in 1 .. Len(new.got) :
              j \in 1 .. n \/ (j = n + 1 /\ n # reader[r].size)
        BY <1>6
      <4> QED
        BY <1>6, <3>1, <4>1, <4>2, <4>3
    <3>5. \A l, j \in 1 .. Len(new.got) : l < j => new.got[l] < new.got[j]
      <4>1. n # reader[r].size =>
              \A l \in 1 .. n : uart_buff[l - 1] < uart_buff[n]
        <5> SUFFICES ASSUME n # reader[r].size, NEW l \in 1 .. n
                     PROVE  uart_buff[l - 1] < uart_buff[n]
          OBVIOUS
        <5>1. l - 1 \in 0 .. buff_offset - 1 /\ l - 1 < n
          BY <1>2, <1>6, <1>11
        <5> QED
          BY <1>9, <1>11, <5>1 DEF Buffered
      <4>2. n # reader[r].size => \A l \in 1 .. n : got[l] < uart_buff[n]
        <5> SUFFICES ASSUME n # reader[r].size, NEW l \in 1 .. n
                     PROVE  got[l] < uart_buff[n]
          OBVIOUS
        <5>0. l - 1 \in 0 .. buff_offset - 1
          BY <1>2, <1>6, <1>11
        <5>1. uart_buff[l - 1] \in Nat /\ uart_buff[n] \in Nat
          BY <1>9, <1>11, <5>0 DEF Buffered
        <5> QED
          BY <3>1, <4>1, <5>1
      <4> QED
        BY <1>6, <3>2, <4>2
    <3>6. \A m \in 0 .. buff_offset - 1 :
            (m < n => got[m + 1] = uart_buff[m])
              => (m < Len(new.got) => new.got[m + 1] = uart_buff[m])
      BY <1>6, <1>11
    <3> QED
      BY <1>1, <1>4, <1>5, <1>11, <2>2, <3>3, <3>4, <3>5, <3>6 DEF Copying
  <2> QED
    BY <2>1, <2>2
<1>14. Accounted'
  <2>1. \A x : x \in InReaders(reader) => x \in InReaders(reader')
    <3> SUFFICES ASSUME NEW s \in Threads, NEW j \in 1 .. Len(reader[s].got)
                 PROVE  reader[s].got[j] \in InReaders(reader')
      BY ReadersView
    <3>1. j \in 1 .. Len(reader'[s].got) /\ reader'[s].got[j] = reader[s].got[j]
      BY <1>5, <1>6 DEF got, n
    <3> QED
      BY <3>1, ReadersView
  <2>2. \A x : x \in InReaders(reader') =>
          x \in InReaders(reader) \cup InBuffer(uart_buff, buff_offset)
    <3> SUFFICES ASSUME NEW s \in Threads, NEW j \in 1 .. Len(reader'[s].got)
                 PROVE  \/ reader'[s].got[j] \in InReaders(reader)
                        \/ reader'[s].got[j] \in InBuffer(uart_buff, buff_offset)
      BY ReadersView
    <3>1. CASE s # r
      BY <1>5, <3>1, ReadersView
    <3>2. CASE s = r /\ j \in 1 .. n
      BY <1>5, <1>6, <3>2, ReadersView DEF got, n
    <3>3. CASE s = r /\ j \notin 1 .. n
      <4>1. n # reader[r].size /\ j = n + 1
        BY <1>5, <1>6, <3>3
      <4> QED
        BY <1>5, <1>6, <1>11, <3>3, <4>1, BufferView
    <3> QED
      BY <3>1, <3>2, <3>3
  <2>3. InReaders(reader)' = InReaders(reader')
    BY DEF InReaders, InSequence
  <2>4. InReaders(reader)' \cup InBuffer(uart_buff, buff_offset)
          = InReaders(reader) \cup InBuffer(uart_buff, buff_offset)
    BY <2>1, <2>2, <2>3
  <2>5. /\ InLine(usart)' = InLine(usart)
        /\ InBuffer(uart_buff, buff_offset)' = InBuffer(uart_buff, buff_offset)
        /\ InSequence(delivered)' = InSequence(delivered)
    BY <1>1 DEF InLine, InBuffer, InSequence
  <2>6. Here' = Here
    BY <2>4, <2>5 DEF Here
  <2> QED
    BY <1>1, <1>9, <2>6 DEF Accounted, U!Causes, AllLost
<1> QED
  BY <1>10, <1>12, <1>13, <1>14

LEMMA IrqReceiveReceived == ASSUME Received, U!IrqReceive PROVE Received'
<1> DEFINE c == U!Clamp
           byte == usart.dr
<1>1. /\ usart \in LineType /\ usart.rxne
      /\ uart_buff' = [m \in DOMAIN uart_buff \cup {c} |->
                         IF m = c THEN byte ELSE uart_buff[m]]
      /\ buff_offset' = c + 1
      /\ usart' = [usart EXCEPT !.rxne = FALSE, !.dr = 0, !.idle = FALSE]
      /\ lost' = IF buff_offset >= BufferSize
                 THEN [lost EXCEPT !["full"] = @ \cup {uart_buff[BufferSize - 1]}]
                 ELSE lost
      /\ UNCHANGED <<reader, delivered, together>>
  BY DEF U!IrqReceive, U!Taken, Received, ReceiveType
<1>2. /\ usart' \in LineType /\ usart'.arrived = usart.arrived
      /\ usart'.rxne = FALSE /\ usart'.dr = 0
      /\ usart.arrived \in 0 .. MaxBytes
  BY <1>1 DEF LineType
<1>3. /\ byte \in Item /\ byte \in 1 .. usart.arrived /\ byte \in Nat
      /\ buff_offset \in 0 .. BufferSize /\ BufferSize \in Nat \ {0}
      /\ uart_buff \in [0 .. BufferSize - 1 -> Item]
      /\ lost \in [U!Causes -> SUBSET Item] /\ "full" \in U!Causes
  BY <1>1, <1>2, ReceiveConstants
  DEF Received, ReceiveType, LineType, U!Causes, Item
<1>4. /\ c = IF buff_offset = BufferSize THEN BufferSize - 1 ELSE buff_offset
      /\ c \in 0 .. BufferSize - 1 /\ buff_offset' \in 1 .. BufferSize
      /\ buff_offset >= BufferSize <=> buff_offset = BufferSize
      /\ buff_offset' = c + 1 /\ c \in Nat
  BY <1>1, <1>3 DEF U!Clamp
<1> HIDE DEF c, byte
<1>5. /\ uart_buff' \in [0 .. BufferSize - 1 -> Item]
      /\ uart_buff'[c] = byte
      /\ \A m \in 0 .. BufferSize - 1 : m # c => uart_buff'[m] = uart_buff[m]
  <2>1. DOMAIN uart_buff \cup {c} = 0 .. BufferSize - 1
    BY <1>3, <1>4
  <2> QED
    BY <1>1, <1>3, <1>4, <2>1
<1>6. \A m \in 0 .. c - 1 :
        /\ m \in 0 .. buff_offset - 1 /\ m \in 0 .. BufferSize - 1 /\ m # c
        /\ uart_buff'[m] = uart_buff[m]
  BY <1>3, <1>4, <1>5
<1>7. /\ \A m \in 0 .. buff_offset' - 1 : m \in 0 .. c - 1 \/ m = c
      /\ \A m \in 0 .. c - 1 : m \in 0 .. buff_offset' - 1
      /\ \A l, m \in 0 .. buff_offset' - 1 :
           l < m => l \in 0 .. c - 1 /\ (m \in 0 .. c - 1 \/ m = c)
  <2>1. buff_offset' = c + 1 /\ c \in Nat
    BY <1>4
  <2> QED
    BY <2>1
<1>8. Buffered /\ \A r \in Threads : Within(r)
  BY DEF Received
<1>9. \A m \in 0 .. buff_offset - 1 :
        uart_buff[m] \in 1 .. usart.arrived /\ uart_buff[m] < byte
  BY <1>1, <1>8 DEF Buffered, byte
<1>10. Buffered'
  <2>1. \A l, m \in 0 .. c - 1 : l < m => uart_buff'[l] < uart_buff'[m]
    BY <1>6, <1>8 DEF Buffered
  <2>2. \A l \in 0 .. c - 1 : uart_buff'[l] < uart_buff'[c]
    BY <1>5, <1>6, <1>9
  <2>3. \A m \in 0 .. buff_offset' - 1 : uart_buff'[m] \in 1 .. usart.arrived
    BY <1>3, <1>5, <1>6, <1>7, <1>9
  <2>4. \A l, m \in 0 .. buff_offset' - 1 :
          l < m => l \in 0 .. c - 1 /\ (m \in 0 .. c - 1 \/ m = c)
    BY <1>7
  <2>5. \A l, m \in 0 .. buff_offset' - 1 :
          l < m => uart_buff'[l] < uart_buff'[m]
    BY <2>1, <2>2, <2>4
  <2> QED
    BY <1>2, <2>3, <2>5 DEF Buffered
<1>11. /\ lost' \in [U!Causes -> SUBSET Item]
       /\ \A d \in U!Causes \ {"full"} : lost'[d] = lost[d]
       /\ lost'["full"] = lost["full"] \cup
            (IF buff_offset = BufferSize THEN {uart_buff[BufferSize - 1]} ELSE {})
  <2>1. CASE buff_offset = BufferSize
    <3>1. uart_buff[BufferSize - 1] \in Item
      BY <1>3
    <3>2. lost' = [lost EXCEPT !["full"] =
                                 @ \cup {uart_buff[BufferSize - 1]}]
      BY <1>1, <1>4, <2>1
    <3> QED
      BY <1>3, <2>1, <3>1, <3>2
  <2>2. CASE buff_offset # BufferSize
    BY <1>1, <1>3, <1>4, <2>2
  <2> QED
    BY <2>1, <2>2
<1>12. ReceiveType'
  BY <1>1, <1>2, <1>3, <1>4, <1>5, <1>11 DEF Received, ReceiveType
<1>13. /\ \A r \in Threads : Within(r)'
       /\ ~together' => OneReads'
  BY <1>1, <1>2, ReadersSame
<1> SUFFICES ASSUME ~together
             PROVE  /\ Delivering' /\ Accounted'
                    /\ \A r \in Threads : Copying(r)'
  BY <1>1, <1>10, <1>12, <1>13 DEF Received
<1>14. /\ Delivering /\ Accounted /\ \A r \in Threads : Copying(r)
  BY DEF Received
<1>15. Delivering'
  <2>1. ASSUME NEW j \in 1 .. Len(delivered), NEW m \in 0 .. buff_offset' - 1
        PROVE  delivered[j] < uart_buff'[m]
    <3>1. CASE m = c
      BY <1>1, <1>5, <1>14, <3>1 DEF Delivering, byte
    <3>2. CASE m \in 0 .. c - 1
      BY <1>6, <1>14, <3>2 DEF Delivering
    <3> QED
      BY <1>7, <3>1, <3>2
  <2> QED
    BY <1>1, <1>2, <1>14, <2>1 DEF Delivering
<1>16. ASSUME NEW r \in Threads PROVE Copying(r)'
  <2> SUFFICES ASSUME reader[r].pc # "idle" PROVE Copying(r)'
    BY <1>1 DEF Copying
  <2>1. /\ reader[r].size \in 0 .. BufferSize /\ reader[r].size <= buff_offset
        /\ Len(reader[r].got) \in Nat /\ Len(reader[r].got) <= reader[r].size
        /\ reader[r].newest \in Nat /\ reader[r] \in ReaderType
    BY <1>14, <1>8 DEF Received, ReceiveType, ReaderType, Copying, Within
  <2>2. reader[r].size <= buff_offset'
    BY <1>1, <1>3, <1>4, <2>1
  <2>3. ASSUME NEW j \in 1 .. Len(reader[r].got)
        PROVE  /\ reader[r].got[j] \in 1 .. usart.arrived
               /\ reader[r].got[j] <= uart_buff'[j - 1]
               /\ j < BufferSize => reader[r].got[j] = uart_buff'[j - 1]
    <3>1. /\ reader[r].got[j] \in 1 .. usart.arrived
          /\ reader[r].got[j] <= uart_buff[j - 1]
          /\ j < BufferSize => reader[r].got[j] = uart_buff[j - 1]
      BY <1>14 DEF Copying
    <3>2. /\ j \in Nat /\ j - 1 \in 0 .. buff_offset - 1
          /\ j - 1 \in 0 .. BufferSize - 1
      BY <1>3, <2>1
    <3>3. CASE j - 1 # c
      BY <1>5, <3>1, <3>2, <3>3
    <3>4. CASE j - 1 = c
      <4>1. c = BufferSize - 1 /\ ~(j < BufferSize)
        BY <1>3, <1>4, <3>2, <3>4
      <4>2. uart_buff[j - 1] < byte /\ uart_buff[j - 1] \in Nat
        BY <1>9, <3>2
      <4> QED
        BY <1>2, <1>3, <1>5, <3>1, <3>4, <4>1, <4>2
    <3> QED
      BY <3>3, <3>4
  <2>4. \A m \in 0 .. buff_offset' - 1 :
          reader[r].size # reader[r].asked =>
            \/ uart_buff'[m] > reader[r].newest
            \/ /\ m < reader[r].size
               /\ m < Len(reader[r].got) =>
                    reader[r].got[m + 1] = uart_buff'[m]
    <3> SUFFICES ASSUME NEW m \in 0 .. buff_offset' - 1,
                        reader[r].size # reader[r].asked
                 PROVE  \/ uart_buff'[m] > reader[r].newest
                        \/ /\ m < reader[r].size
                           /\ m < Len(reader[r].got) =>
                                reader[r].got[m + 1] = uart_buff'[m]
      OBVIOUS
    <3>1. CASE m = c
      BY <1>1, <1>5, <1>14, <3>1 DEF Copying, byte
    <3>2. CASE m \in 0 .. c - 1
      <4>1. m \in 0 .. buff_offset - 1 /\ uart_buff'[m] = uart_buff[m]
        BY <1>6, <3>2
      <4> QED
        BY <1>14, <4>1 DEF Copying
    <3> QED
      BY <1>7, <3>1, <3>2
  <2> QED
    BY <1>1, <1>2, <1>14, <2>2, <2>3, <2>4 DEF Copying
<1>17. Accounted'
  <2>1. \A x : x \in InLine(usart) <=> x = byte
    BY <1>1 DEF InLine, byte
  <2>2. InLine(usart)' = {}
    BY <1>2 DEF InLine
  <2>3. \A x : x \in InBuffer(uart_buff', buff_offset')
                 => x \in InBuffer(uart_buff, buff_offset) \/ x = byte
    <3> SUFFICES ASSUME NEW m \in 0 .. buff_offset' - 1
                 PROVE  \/ uart_buff'[m] \in InBuffer(uart_buff, buff_offset)
                        \/ uart_buff'[m] = byte
      BY BufferView
    <3> QED
      BY <1>5, <1>6, <1>7, BufferView
  <2>4. \A x : x \in InBuffer(uart_buff, buff_offset) =>
                 \/ x \in InBuffer(uart_buff', buff_offset')
                 \/ buff_offset = BufferSize /\ x = uart_buff[BufferSize - 1]
    <3> SUFFICES ASSUME NEW m \in 0 .. buff_offset - 1
                 PROVE  \/ uart_buff[m] \in InBuffer(uart_buff', buff_offset')
                        \/ /\ buff_offset = BufferSize
                           /\ uart_buff[m] = uart_buff[BufferSize - 1]
      BY BufferView
    <3>1. \/ m \in 0 .. c - 1
          \/ buff_offset = BufferSize /\ m = BufferSize - 1
      BY <1>3, <1>4
    <3>2. m \in 0 .. c - 1 => m \in 0 .. buff_offset' - 1
      BY <1>7
    <3> QED
      BY <1>6, <3>1, <3>2, BufferView
  <2>5. byte \in InBuffer(uart_buff', buff_offset')
    <3>1. c \in 0 .. buff_offset' - 1
      BY <1>4
    <3> QED
      BY <1>5, <3>1, BufferView
  <2>6. buff_offset = BufferSize =>
          uart_buff[BufferSize - 1] \in InBuffer(uart_buff, buff_offset)
    <3>1. buff_offset = BufferSize => BufferSize - 1 \in 0 .. buff_offset - 1
      BY <1>3
    <3> QED
      BY <3>1, BufferView
  <2>7. \A x : x \in AllLost(lost') <=>
                 \/ x \in AllLost(lost)
                 \/ buff_offset = BufferSize /\ x = uart_buff[BufferSize - 1]
    <3>1. \A x : x \in AllLost(lost') <=> \E d \in U!Causes : x \in lost'[d]
      BY LostView
    <3>2. \A x : x \in AllLost(lost) <=> \E d \in U!Causes : x \in lost[d]
      BY LostView
    <3>3. \A d \in U!Causes : \A x : x \in lost'[d] <=>
            \/ x \in lost[d]
            \/ /\ d = "full" /\ buff_offset = BufferSize
               /\ x = uart_buff[BufferSize - 1]
      BY <1>11
    <3> QED
      BY <1>3, <3>1, <3>2, <3>3
  <2>8. InReaders(reader)' = InReaders(reader)
        /\ InSequence(delivered)' = InSequence(delivered)
    BY <1>1 DEF InReaders, InSequence
  <2>9. InBuffer(uart_buff, buff_offset)' = InBuffer(uart_buff', buff_offset')
        /\ AllLost(lost)' = AllLost(lost') /\ U!Causes' = U!Causes
    BY DEF InBuffer, AllLost, U!Causes
  <2>10. \A x : x \in Here' => x \in Here
    BY <2>1, <2>2, <2>3, <2>8, <2>9 DEF Here
  <2>11. \A x : x \in Here =>
           x \in Here' \/ (buff_offset = BufferSize
                            /\ x = uart_buff[BufferSize - 1])
    BY <2>1, <2>4, <2>5, <2>8, <2>9 DEF Here
  <2>12. buff_offset = BufferSize => uart_buff[BufferSize - 1] \in Here
    BY <2>6 DEF Here
  <2>13. 1 .. usart'.arrived = Here' \cup AllLost(lost')
    BY <1>2, <1>14, <2>7, <2>10, <2>11, <2>12 DEF Accounted
  <2>14. \A d \in U!Causes \ {"full"} : lost'[d] \cap Here' = {}
    BY <1>11, <1>14, <2>10 DEF Accounted
  <2> QED
    BY <2>9, <2>13, <2>14 DEF Accounted
<1> QED
  BY <1>15, <1>16, <1>17

LEMMA EndReceived ==
  ASSUME Received, NEW r \in Threads, U!End(r)
  PROVE  Received'
<1> DEFINE got == reader[r].got
           gone == InBuffer(uart_buff, buff_offset) \ InSequence(got)
           late == {b \in gone : b > reader[r].newest}
           short == IF reader[r].size = reader[r].asked
                    THEN gone \ late ELSE {}
<1>1. /\ reader[r].pc = "restart" /\ reader[r] \in ReaderType
      /\ got \in Seq(Item)
      /\ buff_offset' = 0 /\ delivered' = delivered \o got
      /\ reader' = [reader EXCEPT ![r] = U!Idle]
      /\ UNCHANGED <<uart_buff, usart, together>>
  BY DEF U!End, U!Restart, Received, ReceiveType, ReaderType
<1>2. lost' = [lost EXCEPT
                 !["late"] = @ \cup late,
                 !["short"] = IF reader[r].size = reader[r].asked
                              THEN @ \cup (gone \ late) ELSE @]
  <2>1. InSequence(got) = U!ToSet(got)
    BY <1>1, SequenceSet
  <2>2. InBuffer(uart_buff, buff_offset) = U!Stored
    BY DEF InBuffer, U!Stored
  <2> QED
    BY <2>1, <2>2 DEF U!End
<1>3. /\ Buffered /\ \A s \in Threads : Within(s)
      /\ lost \in [U!Causes -> SUBSET Item] /\ delivered \in Seq(Item)
      /\ reader \in [Threads -> ReaderType]
      /\ uart_buff \in [0 .. BufferSize - 1 -> Item]
      /\ buff_offset \in 0 .. BufferSize /\ BufferSize \in Nat
      /\ usart \in LineType /\ usart.arrived \in Nat /\ usart.dr \in Nat
  BY ReceiveConstants DEF Received, ReceiveType, LineType
<1>4. gone \in SUBSET Item
  <2>1. \A m \in 0 .. buff_offset - 1 : uart_buff[m] \in Item
    BY <1>3
  <2> QED
    BY <2>1 DEF InBuffer
<1>5. /\ U!Causes = {"overrun", "idle", "full", "late", "short"}
      /\ late \subseteq gone /\ short \subseteq gone
  BY DEF U!Causes
<1> HIDE DEF got, gone, late
<1>6. /\ lost' \in [U!Causes -> SUBSET Item]
      /\ lost'["late"] = lost["late"] \cup late
      /\ lost'["short"] = lost["short"] \cup short
      /\ \A c \in U!Causes \ {"late", "short"} : lost'[c] = lost[c]
  <2>1. late \in SUBSET Item /\ gone \ late \in SUBSET Item
    BY <1>4, <1>5
  <2>2. CASE reader[r].size = reader[r].asked
    BY <1>2, <1>3, <1>5, <2>1, <2>2
  <2>3. CASE reader[r].size # reader[r].asked
    BY <1>2, <1>3, <1>5, <2>1, <2>3
  <2> QED
    BY <2>2, <2>3
<1> HIDE DEF short
<1>7. /\ delivered' \in Seq(Item)
      /\ Len(delivered') = Len(delivered) + Len(got)
      /\ Len(delivered) \in Nat /\ Len(got) \in Nat
      /\ \A j \in 1 .. Len(delivered) : delivered'[j] = delivered[j]
      /\ \A j \in 1 .. Len(got) : delivered'[Len(delivered) + j] = got[j]
  BY <1>1, <1>3, ConcatView
<1>8. /\ reader' \in [Threads -> ReaderType] /\ reader'[r] = U!Idle
      /\ \A s \in Threads \ {r} : reader'[s] = reader[s]
  BY <1>1, <1>3, IdleReader
<1>9. ReceiveType'
  BY <1>1, <1>3, <1>6, <1>7, <1>8 DEF Received, ReceiveType
<1>10. Buffered'
  BY <1>1 DEF Buffered
<1>11. ASSUME NEW s \in Threads PROVE Within(s)'
  <2>1. CASE s = r
    BY <1>1, <1>3, <1>8, <2>1, IdleReader DEF Within
  <2>2. CASE s # r
    BY <1>1, <1>3, <1>8, <2>2 DEF Within
  <2> QED
    BY <2>1, <2>2
<1> SUFFICES ASSUME ~together
             PROVE  /\ OneReads' /\ Delivering' /\ Accounted'
                    /\ \A s \in Threads : Copying(s)'
  BY <1>1, <1>9, <1>10, <1>11 DEF Received
<1>12. /\ OneReads /\ Delivering /\ Accounted
       /\ \A s \in Threads : Copying(s)
  BY DEF Received
<1>13. /\ \A s \in Threads \ {r} : reader[s].pc = "idle"
       /\ \A s \in Threads : reader'[s].pc = "idle"
       /\ \A s \in Threads : Len(reader'[s].got) = 0
  <2>1. \A s \in Threads \ {r} : reader[s].pc = "idle"
    BY <1>1, <1>12 DEF OneReads
  <2> QED
    BY <1>3, <1>8, <2>1, IdleReader DEF Within
<1>14. OneReads' /\ \A s \in Threads : Copying(s)'
  BY <1>13 DEF OneReads, Copying
<1>15. Delivering'
  <2>1. \A j \in 1 .. Len(got) :
          /\ got[j] \in 1 .. usart.arrived
          /\ usart.rxne => got[j] < usart.dr
    BY <1>1, <1>12, CopiedFirst DEF Copying, got
  <2>2. \A l, j \in 1 .. Len(got) : l < j => got[l] < got[j]
    BY <1>1, <1>12 DEF Copying, got
  <2>3. \A l \in 1 .. Len(delivered), j \in 1 .. Len(got) :
          delivered[l] < got[j]
    BY <1>12 DEF Delivering, got
  <2>4. \A j \in 1 .. Len(delivered') :
          \/ j \in 1 .. Len(delivered)
          \/ /\ j - Len(delivered) \in 1 .. Len(got)
             /\ delivered'[j] = got[j - Len(delivered)]
    <3> SUFFICES ASSUME NEW j \in 1 .. Len(delivered'),
                        j \notin 1 .. Len(delivered)
                 PROVE  /\ j - Len(delivered) \in 1 .. Len(got)
                        /\ delivered'[j] = got[j - Len(delivered)]
      OBVIOUS
    <3>1. j - Len(delivered) \in 1 .. Len(got)
      BY <1>7
    <3>2. Len(delivered) + (j - Len(delivered)) = j
      BY <1>7
    <3> QED
      BY <1>7, <3>1, <3>2
  <2>5. \A j \in 1 .. Len(delivered') :
          /\ delivered'[j] \in 1 .. usart.arrived
          /\ usart.rxne => delivered'[j] < usart.dr
    BY <1>7, <1>12, <2>1, <2>4 DEF Delivering
  <2>6. \A l, j \in 1 .. Len(delivered') :
          l < j => delivered'[l] < delivered'[j]
    <3> SUFFICES ASSUME NEW l \in 1 .. Len(delivered'),
                        NEW j \in 1 .. Len(delivered'), l < j
                 PROVE  delivered'[l] < delivered'[j]
      OBVIOUS
    <3>1. CASE j \in 1 .. Len(delivered)
      <4>1. l \in 1 .. Len(delivered)
        BY <1>7, <3>1
      <4> QED
        BY <1>7, <1>12, <3>1, <4>1 DEF Delivering
    <3>2. CASE j \notin 1 .. Len(delivered)
      <4>1. CASE l \in 1 .. Len(delivered)
        BY <1>7, <2>3, <2>4, <3>2, <4>1
      <4>2. CASE l \notin 1 .. Len(delivered)
        <5>1. l - Len(delivered) < j - Len(delivered)
          BY <1>7
        <5> QED
          BY <2>2, <2>4, <3>2, <4>2, <5>1
      <4> QED
        BY <4>1, <4>2
    <3> QED
      BY <3>1, <3>2
  <2> QED
    BY <1>1, <1>13, <2>5, <2>6 DEF Delivering
<1>16. short = gone \ late
  <2> SUFFICES ASSUME reader[r].size # reader[r].asked
               PROVE  gone \subseteq late
    BY <1>5 DEF short
  <2> SUFFICES ASSUME NEW m \in 0 .. buff_offset - 1,
                      uart_buff[m] \notin InSequence(got)
               PROVE  uart_buff[m] > reader[r].newest
    BY BufferView DEF gone, late
  <2>1. Len(got) = reader[r].size
    BY <1>1, <1>3 DEF Within, got
  <2> SUFFICES ASSUME m < reader[r].size,
                      m < Len(got) => got[m + 1] = uart_buff[m]
               PROVE  FALSE
    BY <1>1, <1>12 DEF Copying, got
  <2>2. m + 1 \in 1 .. Len(got)
    BY <1>7, <2>1
  <2> QED
    BY <2>1, <2>2, SequenceView
<1>17. Accounted'
  <2>1. /\ InLine(usart)' = InLine(usart)
        /\ \A x : x \notin InBuffer(uart_buff', buff_offset')
    BY <1>1 DEF InLine, InBuffer
  <2>2. \A x : x \notin InReaders(reader')
    BY <1>13, ReadersView
  <2>3. \A x : x \in InReaders(reader) <=> x \in InSequence(got)
    <3>1. \A s \in Threads \ {r} : Len(reader[s].got) = 0
      BY <1>3, <1>13, IdleReader DEF Within
    <3>2. \A x : x \in InSequence(got) <=>
                   \E j \in 1 .. Len(reader[r].got) : reader[r].got[j] = x
      BY SequenceView DEF got
    <3> QED
      BY <3>1, <3>2, ReadersView
  <2>4. \A x : x \in InSequence(delivered') <=>
                 x \in InSequence(delivered) \/ x \in InSequence(got)
    <3>1. ASSUME NEW x, x \in InSequence(delivered)
          PROVE  x \in InSequence(delivered')
      <4>1. PICK j \in 1 .. Len(delivered) : delivered[j] = x
        BY <3>1, SequenceView
      <4>2. j \in 1 .. Len(delivered') /\ delivered'[j] = x
        BY <1>7, <4>1
      <4> QED
        BY <4>2, SequenceView
    <3>2. ASSUME NEW x, x \in InSequence(got)
          PROVE  x \in InSequence(delivered')
      <4>1. PICK j \in 1 .. Len(got) : got[j] = x
        BY <3>2, SequenceView
      <4>2. /\ Len(delivered) + j \in 1 .. Len(delivered')
            /\ delivered'[Len(delivered) + j] = x
        BY <1>7, <4>1
      <4> QED
        BY <4>2, SequenceView
    <3>3. ASSUME NEW x, x \in InSequence(delivered'),
                 x \notin InSequence(delivered)
          PROVE  x \in InSequence(got)
      <4>1. PICK j \in 1 .. Len(delivered') : delivered'[j] = x
        BY <3>3, SequenceView
      <4>2. j \notin 1 .. Len(delivered)
        BY <1>7, <3>3, <4>1, SequenceView
      <4>3. j - Len(delivered) \in 1 .. Len(got)
        BY <1>7, <4>2
      <4>4. Len(delivered) + (j - Len(delivered)) = j
        BY <1>7
      <4> QED
        BY <1>7, <4>1, <4>3, <4>4, SequenceView
    <3> QED
      BY <3>1, <3>2, <3>3
  <2>5. \A x : x \in AllLost(lost') <=> x \in AllLost(lost) \/ x \in gone
    <3>1. \A x : x \in AllLost(lost') <=> \E d \in U!Causes : x \in lost'[d]
      BY LostView
    <3>2. \A x : x \in AllLost(lost) <=> \E d \in U!Causes : x \in lost[d]
      BY LostView
    <3>3. \A x : \A d \in U!Causes : x \in lost'[d] <=>
            \/ x \in lost[d]
            \/ d = "late" /\ x \in late
            \/ d = "short" /\ x \in gone \ late
      BY <1>6, <1>16
    <3>4. "late" \in U!Causes /\ "short" \in U!Causes
      BY <1>5
    <3> QED
      BY <1>5, <3>1, <3>2, <3>3, <3>4
  <2>6. /\ InBuffer(uart_buff, buff_offset)' = InBuffer(uart_buff', buff_offset')
        /\ InReaders(reader)' = InReaders(reader')
        /\ InSequence(delivered)' = InSequence(delivered')
        /\ AllLost(lost)' = AllLost(lost') /\ U!Causes' = U!Causes
    BY DEF InBuffer, InReaders, InSequence, AllLost, U!Causes
  <2>7. \A x : x \in Here' <=> \/ x \in InLine(usart)
                               \/ x \in InSequence(delivered)
                               \/ x \in InSequence(got)
    BY <2>1, <2>2, <2>4, <2>6 DEF Here
  <2>8. \A x : x \in Here <=> x \in Here' \/ x \in gone
    BY <2>3, <2>7 DEF Here, gone
  <2>9. \A x \in gone : x \notin Here'
    <3> SUFFICES ASSUME NEW m \in 0 .. buff_offset - 1,
                        uart_buff[m] \notin InSequence(got)
                 PROVE  uart_buff[m] \notin Here'
      BY BufferView DEF gone
    <3>1. /\ uart_buff[m] \in 1 .. usart.arrived
          /\ usart.rxne => uart_buff[m] < usart.dr
      BY <1>3 DEF Buffered
    <3>2. uart_buff[m] \notin InLine(usart)
      BY <1>3, <3>1 DEF InLine
    <3>3. \A j \in 1 .. Len(delivered) :
            delivered[j] \in 1 .. usart.arrived /\ delivered[j] < uart_buff[m]
      BY <1>12 DEF Delivering
    <3>4. uart_buff[m] \notin InSequence(delivered)
      BY <1>3, <3>1, <3>3, SequenceView
    <3> QED
      BY <2>7, <3>2, <3>4
  <2>10. 1 .. usart'.arrived = Here' \cup AllLost(lost')
    BY <1>1, <1>12, <2>5, <2>8 DEF Accounted
  <2>11. \A d \in U!Causes \ {"full"} : lost'[d] \cap Here' = {}
    <3>1. \A d \in U!Causes \ {"full"} : lost[d] \cap Here = {}
      BY <1>12 DEF Accounted
    <3>2. \A d \in U!Causes : lost'[d] \subseteq lost[d] \cup gone
      BY <1>5, <1>6
    <3> QED
      BY <2>8, <2>9, <3>1, <3>2
  <2> QED
    BY <2>6, <2>10, <2>11 DEF Accounted
<1> QED
  BY <1>14, <1>15, <1>17

LEMMA InitReceived == ASSUME Init PROVE Received
<1>1. /\ uart_buff = [m \in 0 .. BufferSize - 1 |-> None]
      /\ buff_offset = 0
      /\ usart = [rxne |-> FALSE, dr |-> 0, idle |-> FALSE, arrived |-> 0]
      /\ reader = [r \in Threads |-> U!Idle]
      /\ delivered = <<>>
      /\ lost = [c \in U!Causes |-> {}]
      /\ together = FALSE
  BY DEF Init, U!Init
<1>2. /\ usart \in LineType /\ usart.rxne = FALSE /\ usart.dr = 0
      /\ usart.arrived = 0
  BY <1>1, ReceiveConstants DEF LineType
<1>3. /\ delivered \in Seq(Item) /\ Len(delivered) = 0
      /\ \A r \in Threads : reader[r] = U!Idle
  BY <1>1
<1>4. ReceiveType
  <2>1. uart_buff \in [0 .. BufferSize - 1 -> Item]
    BY <1>1 DEF Item
  <2>2. reader \in [Threads -> ReaderType]
    BY <1>1, IdleReader
  <2>3. lost \in [U!Causes -> SUBSET Item]
    BY <1>1
  <2>4. buff_offset \in 0 .. BufferSize
    BY <1>1, ReceiveConstants
  <2> QED
    <3>1. usart.dr <= usart.arrived
      BY <1>2
    <3> QED
      BY <1>1, <1>2, <1>3, <2>1, <2>2, <2>3, <2>4, <3>1, Zenon DEF ReceiveType
<1>5. Buffered /\ \A r \in Threads : Within(r)
  BY <1>1, <1>2, <1>3, IdleReader DEF Buffered, Within
<1>6. OneReads /\ Delivering /\ \A r \in Threads : Copying(r)
  BY <1>3, IdleReader DEF OneReads, Delivering, Copying
<1>7. Accounted
  <2>1. /\ \A x : x \notin InLine(usart)
        /\ \A x : x \notin InBuffer(uart_buff, buff_offset)
    BY <1>1, <1>2 DEF InLine, InBuffer
  <2>2. \A x : x \notin InReaders(reader) /\ x \notin InSequence(delivered)
    BY <1>3, IdleReader, ReadersView, SequenceView
  <2>3. \A x : x \notin AllLost(lost)
    BY <1>1, LostView
  <2>4. \A x : x \notin Here
    BY <2>1, <2>2 DEF Here
  <2>5. 1 .. usart.arrived = {}
    BY <1>2
  <2> QED
    BY <2>3, <2>4, <2>5 DEF Accounted
<1> QED
  BY <1>4, <1>5, <1>6, <1>7 DEF Received

LEMMA NextReceived == ASSUME Received, [Next]_vars PROVE Received'
<1>1. CASE UNCHANGED receiveVars
  BY <1>1, SameReceived
<1>2. CASE U!Next
  BY <1>2, ArriveReceived, LineIdleReceived, IrqIdleReceived,
     IrqReceiveReceived, BeginReceived, CopyReceived, EndReceived DEF U!Next
<1> QED
  BY <1>1, <1>2, ReceiveSteps

LEMMA ReceivedHasCause == ASSUME Received PROVE LossHasCause
<1> SUFFICES ASSUME ~together PROVE LossHasCause
  BY DEF LossHasCause, U!InOrderOnce, U!LossHasCause, U!LostIsNotDelivered
<1>1. /\ Delivering /\ Accounted /\ delivered \in Seq(Item)
      /\ \A r \in Threads : Copying(r) /\ Within(r)
      /\ \A r \in Threads : reader[r].got \in Seq(Item)
      /\ usart.arrived \in Nat
  BY ReceiveConstants DEF Received, ReceiveType, ReaderType, LineType
<1>2. U!ToSet(delivered) = InSequence(delivered)
  BY <1>1, SequenceSet
<1>3. \A r \in Threads : U!ToSet(reader[r].got) = InSequence(reader[r].got)
  BY <1>1, SequenceSet
<1>4. UNION {U!ToSet(reader[r].got) : r \in Threads} = InReaders(reader)
  BY <1>3 DEF InReaders
<1>5. U!LossHasCause
  <2>1. /\ U!Stored = InBuffer(uart_buff, buff_offset)
        /\ (IF usart.rxne THEN {usart.dr} ELSE {}) = InLine(usart)
        /\ UNION {lost[c] : c \in U!Causes} = AllLost(lost)
    BY DEF U!Stored, InBuffer, InLine, AllLost
  <2>2. 1 .. usart.arrived =
          InLine(usart) \cup InBuffer(uart_buff, buff_offset)
            \cup InSequence(delivered) \cup AllLost(lost)
            \cup InReaders(reader)
    BY <1>1 DEF Accounted, Here
  <2> QED
    BY <1>2, <1>4, <2>1, <2>2 DEF U!LossHasCause
<1>6. U!LostIsNotDelivered
  <2>1. \A c \in U!Causes \ {"full"} : lost[c] \cap InSequence(delivered) = {}
    BY <1>1 DEF Accounted, Here
  <2> QED
    BY <1>2, <2>1 DEF U!LostIsNotDelivered
<1>7. U!InOrderOnce
  <2> SUFFICES ASSUME NEW r \in Threads
               PROVE  LET all == delivered \o reader[r].got
                      IN \A j \in DOMAIN all :
                           /\ all[j] # None
                           /\ \A l \in 1 .. j - 1 : all[l] < all[j]
    BY DEF U!InOrderOnce
  <2> DEFINE got == reader[r].got
             all == delivered \o got
             n == Len(delivered)
  <2>1. /\ all \in Seq(Item) /\ Len(all) = n + Len(got)
        /\ n \in Nat /\ Len(got) \in Nat
        /\ \A j \in 1 .. n : all[j] = delivered[j]
        /\ \A j \in 1 .. Len(got) : all[n + j] = got[j]
    BY <1>1, ConcatView
  <2>2. /\ \A j \in 1 .. n : delivered[j] \in Nat
        /\ \A l, j \in 1 .. n : l < j => delivered[l] < delivered[j]
        /\ \A l \in 1 .. n, j \in 1 .. Len(got) : delivered[l] < got[j]
    <3>1. \A j \in 1 .. n : delivered[j] \in Nat
      BY <1>1 DEF Delivering
    <3>2. \A l, j \in 1 .. n : l < j => delivered[l] < delivered[j]
      BY <1>1 DEF Delivering
    <3>3. \A l \in 1 .. n, j \in 1 .. Len(got) : delivered[l] < got[j]
      BY <1>1 DEF Delivering
    <3> QED
      BY <3>1, <3>2, <3>3
  <2>3. /\ \A j \in 1 .. Len(got) : got[j] \in Nat
        /\ \A l, j \in 1 .. Len(got) : l < j => got[l] < got[j]
    <3>1. CASE reader[r].pc = "idle"
      BY <1>1, <3>1, IdleReader DEF Within
    <3>2. CASE reader[r].pc # "idle"
      BY <1>1, <3>2 DEF Copying
    <3> QED
      BY <3>1, <3>2
  <2>4. DOMAIN all = 1 .. n + Len(got)
    BY <2>1
  <2> HIDE DEF got, all, n
  <2> SUFFICES ASSUME NEW j \in 1 .. n + Len(got)
               PROVE  /\ all[j] # None
                      /\ \A l \in 1 .. j - 1 : all[l] < all[j]
    BY <2>4 DEF all, got
  <2>5. CASE j \in 1 .. n
    <3>1. \A l \in 1 .. j - 1 : l \in 1 .. n /\ l < j
      BY <2>1, <2>5
    <3> QED
      BY <2>1, <2>2, <2>5, <3>1, ReceiveConstants
  <2>6. CASE j \notin 1 .. n
    <3>1. /\ j - n \in 1 .. Len(got) /\ n + (j - n) = j
      BY <2>1, <2>6
    <3>2. all[j] = got[j - n]
      BY <2>1, <3>1
    <3>3. ASSUME NEW l \in 1 .. j - 1 PROVE all[l] < all[j]
      <4>1. CASE l \in 1 .. n
        BY <2>1, <2>2, <3>1, <3>2, <4>1
      <4>2. CASE l \notin 1 .. n
        <5>1. /\ l - n \in 1 .. Len(got) /\ n + (l - n) = l /\ l - n < j - n
          BY <2>1, <4>2
        <5>2. all[l] = got[l - n]
          BY <2>1, <5>1
        <5> QED
          BY <2>3, <3>1, <3>2, <5>1, <5>2
      <4> QED
        BY <4>1, <4>2
    <3> QED
      BY <2>3, <3>1, <3>2, <3>3, ReceiveConstants
  <2> QED
    BY <2>5, <2>6
<1> QED
  BY <1>5, <1>6, <1>7 DEF LossHasCause

\* READs return the bytes in the order of their arrival and once, and a byte
\* that is lost has one of five causes, unless two READs were under way
\* together (driver_UART.c:104-110, 206-216).
THEOREM LossAlwaysHasCause == Spec => []LossHasCause
<1>1. Init => Received
  BY InitReceived
<1>2. Received /\ [Next]_vars => Received'
  BY NextReceived
<1>3. Received => LossHasCause
  BY ReceivedHasCause
<1> QED
  BY <1>1, <1>2, <1>3, PTL DEF Spec

-----------------------------------------------------------------------------
\* UartPrint.  The inductive invariant follows a message that nothing
\* disturbs from the call that prints it, the only one there is, over the
\* stream and the data register to the line.

\* The characters of a message.
Chars == IF part = "echo" THEN EchoLength ELSE Length

PrintByte == {None} \cup (Nat \X Nat)
SentByte == [carrier : Nat, byte : PrintByte]
PrinterType == [pc : {"idle", "put", "load", "store", "test", "program",
                      "reset"},
                id : 0 .. MaxMessages, i : Nat, tmp : Nat, saw : Nat]

PrintTyped ==
  /\ print_buf \in [0 .. PrintSize - 1 -> PrintByte]
  /\ offset \in Nat
  /\ pr \in [T!Printers -> PrinterType]
  /\ uart \in [en : BOOLEAN, id : 0 .. MaxMessages, at : Nat, left : Int,
               tcif : BOOLEAN]
  /\ dr \in {None} \cup SentByte
  /\ line \in Seq(SentByte)
  /\ count \in [messages : 0 .. MaxMessages, starts : Nat, echoes : Nat]
  /\ seen \in [size : [T!Message -> Int], lost : [T!Message -> Nat],
               mixed : SUBSET Nat, raced : SUBSET Nat, early : SUBSET Nat]

\* A call that has not yet handed its message to the stream.
Makes(p) == p \in T!Printers /\ pr[p].pc \notin {"idle", "reset"}
Mixes(p) == pr[p].id \in seen.mixed

\* Calls print different messages.
Apiece ==
  /\ \A p \in T!Printing : pr[p].id \in 1 .. count.messages
  /\ \A p, q \in T!Printing : p # q => pr[p].id # pr[q].id

\* The call of a message that is not mixed is the only one until it has handed
\* its message to the stream.
Alone == \A p \in T!Printers : Makes(p) /\ ~Mixes(p) => T!Printing = {p}

Printed(p) == IF pr[p].pc \in {"load", "store"} THEN pr[p].i + 1 ELSE pr[p].i

\* The buffer belongs to it.
OwnBuffer ==
  /\ T!Printing = {} => offset = 0
  /\ \A p \in T!Printers : Makes(p) /\ ~Mixes(p) =>
       /\ offset = pr[p].i
       /\ \A n \in 1 .. Printed(p) : print_buf[n - 1] = <<pr[p].id, n>>
       /\ pr[p].pc \in {"put", "load", "store"} => pr[p].i < Chars
       /\ pr[p].pc = "store" => pr[p].tmp = pr[p].i
       /\ pr[p].pc \in {"test", "program"} => pr[p].i = Chars
       /\ pr[p].pc = "program" => pr[p].tmp = Chars

\* The stream has been idle since its test, or has been started.
Tested ==
  \A p \in T!Printers : pr[p].pc = "program" =>
    /\ pr[p].saw <= count.starts
    /\ pr[p].saw = count.starts => ~uart.en

InDr(m) == dr # None /\ dr.carrier = m

\* Nothing has been sent of a message that was not handed over.
Fresh ==
  \A m \in T!Message :
    m > count.messages \/ (\E p \in T!Printers : Makes(p) /\ pr[p].id = m)
      => /\ T!SentOf(m) = {} /\ ~InDr(m)
         /\ seen.lost[m] = 0 /\ uart.id # m

Sends(m) == uart.en /\ uart.id = m

\* What has been sent of a message, in this order.
InOrder(m) ==
  /\ \A j \in T!SentOf(m) : line[j].byte \in {m} \X (1 .. Chars)
  /\ \A j, l \in T!SentOf(m) : j < l => line[j].byte[2] < line[l].byte[2]

\* The byte in the data register comes behind it.
NextByte(m) ==
  InDr(m) => /\ dr.byte \in {m} \X (1 .. Chars)
             /\ \A j \in T!SentOf(m) : line[j].byte[2] < dr.byte[2]

\* The stream still has its message before it, from where it is.
Remains(m) ==
  Sends(m) => /\ uart.left >= 1 /\ uart.at + uart.left = Chars
              /\ \A n \in 1 .. Chars : print_buf[n - 1] = <<m, n>>
              /\ \A j \in T!SentOf(m) : line[j].byte[2] <= uart.at
              /\ InDr(m) => dr.byte[2] <= uart.at

\* No byte is sent twice.
Spent(m) ==
  LET here == IF InDr(m) THEN 1 ELSE 0
  IN Cardinality(T!SentOf(m)) + seen.lost[m] + here
       <= IF Sends(m) THEN uart.at ELSE Chars

Undisturbed == T!Message \ (seen.mixed \cup seen.raced)
Whole == \A m \in Undisturbed :
           InOrder(m) /\ NextByte(m) /\ Remains(m) /\ Spent(m)

Prints == /\ PrintTyped /\ Apiece /\ Alone /\ OwnBuffer /\ Tested /\ Fresh
          /\ Whole

LEMMA PrintConstants ==
  /\ PrintSize \in Nat /\ MaxMessages \in Nat
  /\ Chars \in 1 .. PrintSize
  /\ T!Message = 1 .. MaxMessages
  /\ Length \in Nat /\ EchoLength \in Nat
  BY UartAssumption DEF Chars, T!PrintAssumption, E!PrintAssumption,
     T!Message

LEMMA PrintSteps ==
  ASSUME [Next]_vars
  PROVE  /\ part' = part
         /\ \/ UNCHANGED printVars
            \/ part = "threads" /\ T!Next
            \/ part = "echo" /\ E!Next
  BY DEF Next, vars

\* Where a message is on the line.
LEMMA SentAre ==
  ASSUME line \in Seq(SentByte), NEW m
  PROVE  /\ IsFiniteSet(T!SentOf(m)) /\ Cardinality(T!SentOf(m)) \in Nat
         /\ \A j : j \in T!SentOf(m) <=>
                   j \in 1 .. Len(line) /\ line[j].carrier = m
<1>1. DOMAIN line = 1 .. Len(line) /\ Len(line) \in Nat
  OBVIOUS
<1>2. \A j : j \in T!SentOf(m) <=>
            j \in 1 .. Len(line) /\ line[j].carrier = m
  BY <1>1 DEF T!SentOf
<1>3. IsFiniteSet(1 .. Len(line))
  BY <1>1, FS_Interval
<1>4. T!SentOf(m) \subseteq 1 .. Len(line)
  BY <1>2
<1> QED
  BY <1>2, <1>3, <1>4, FS_Subset, FS_CardinalityType

\* The line gains a byte.
LEMMA SentGrows ==
  ASSUME line \in Seq(SentByte), dr \in SentByte, line' = Append(line, dr),
         NEW m
  PROVE  /\ line' \in Seq(SentByte)
         /\ \A j \in 1 .. Len(line) : line'[j] = line[j]
         /\ line'[Len(line) + 1] = dr /\ Len(line) + 1 \in Nat
         /\ dr.carrier # m => T!SentOf(m)' = T!SentOf(m)
         /\ dr.carrier = m =>
              /\ T!SentOf(m)' = T!SentOf(m) \cup {Len(line) + 1}
              /\ Cardinality(T!SentOf(m))' = Cardinality(T!SentOf(m)) + 1
<1>1. /\ line' \in Seq(SentByte) /\ Len(line') = Len(line) + 1
      /\ \A j \in 1 .. Len(line) : line'[j] = line[j]
      /\ line'[Len(line) + 1] = dr /\ Len(line) \in Nat
  OBVIOUS
<1>2. \A j : j \in T!SentOf(m)' <=>
            j \in 1 .. Len(line') /\ line'[j].carrier = m
  <2>1. DOMAIN line' = 1 .. Len(line')
    BY <1>1
  <2> QED
    BY <2>1 DEF T!SentOf
<1>3. \A j : j \in T!SentOf(m) <=>
            j \in 1 .. Len(line) /\ line[j].carrier = m
  BY SentAre
<1>4. \A j \in T!SentOf(m)' : j \in T!SentOf(m) \/ j = Len(line) + 1
  BY <1>1, <1>2, <1>3
<1>5. T!SentOf(m) \subseteq T!SentOf(m)'
  BY <1>1, <1>2, <1>3
<1>6. Len(line) + 1 \in T!SentOf(m)' <=> dr.carrier = m
  BY <1>1, <1>2
<1>7. Len(line) + 1 \notin T!SentOf(m)
  BY <1>1, <1>3
<1>8. CASE dr.carrier # m
  <2>1. T!SentOf(m)' = T!SentOf(m)
    BY <1>4, <1>5, <1>6, <1>8
  <2> QED
    BY <1>1, <1>8, <2>1
<1>9. CASE dr.carrier = m
  <2>1. T!SentOf(m)' = T!SentOf(m) \cup {Len(line) + 1}
    BY <1>4, <1>5, <1>6, <1>9, Zenon
  <2>2. Cardinality(T!SentOf(m) \cup {Len(line) + 1})
          = Cardinality(T!SentOf(m)) + 1
    BY <1>7, SentAre, FS_AddElement
  <2>3. Cardinality(T!SentOf(m))' = Cardinality(T!SentOf(m)') 
    OBVIOUS
  <2> QED
    BY <1>1, <1>9, <2>1, <2>2
<1> QED
  BY <1>8, <1>9

\* A call goes on with its message.
LEMMA PrinterView ==
  ASSUME PrintTyped, NEW p \in T!Printers, NEW r \in PrinterType,
         pr' = [pr EXCEPT ![p] = r]
  PROVE  /\ pr' \in [T!Printers -> PrinterType] /\ pr'[p] = r
         /\ \A q \in T!Printers : q # p => pr'[q] = pr[q]
  BY DEF PrintTyped

LEMMA PrinterGoesOn ==
  ASSUME PrintTyped, Apiece, Alone, NEW p \in T!Printers,
         NEW r \in PrinterType, pr' = [pr EXCEPT ![p] = r], Makes(p),
         r.pc # "idle", r.id = pr[p].id, count'.messages = count.messages,
         seen.mixed \subseteq seen'.mixed
  PROVE  /\ T!Printing' = T!Printing /\ Apiece' /\ Alone'
         /\ \A q \in T!Printers : /\ Makes(q)' => Makes(q)
                                  /\ pr'[q].id = pr[q].id
<1>1. /\ pr'[p] = r
      /\ \A q \in T!Printers : q # p => pr'[q] = pr[q]
  BY PrinterView
<1>2. \A q \in T!Printers : pr'[q].id = pr[q].id
  BY <1>1
<1>3. \A q \in T!Printers : pr'[q].pc # "idle" <=> pr[q].pc # "idle"
  BY <1>1 DEF Makes
<1>4. T!Printing' = T!Printing
  BY <1>3 DEF T!Printing
<1>5. \A q : Makes(q)' => Makes(q)
  BY <1>1 DEF Makes
<1>6. Apiece'
  <2>1. T!Printing \subseteq T!Printers
    BY DEF T!Printing
  <2> QED
    BY <1>2, <1>4, <2>1 DEF Apiece
<1>7. Alone'
  BY <1>2, <1>4, <1>5 DEF Alone, Mixes
<1> QED
  BY <1>2, <1>4, <1>5, <1>6, <1>7

\* What is not handed over stays untouched.
LEMMA QuietFresh ==
  ASSUME Fresh, UNCHANGED <<line, dr>>, seen'.lost = seen.lost,
         uart'.id = uart.id, count'.messages = count.messages,
         \A q \in T!Printers : Makes(q)' => Makes(q) /\ pr'[q].id = pr[q].id
  PROVE  Fresh'
<1>1. \A m : T!SentOf(m)' = T!SentOf(m) /\ (InDr(m)' <=> InDr(m))
  BY DEF T!SentOf, InDr
<1> QED
  BY <1>1 DEF Fresh

\* Nor does anything change of a message that is sent as before, or no more.
LEMMA QuietWhole ==
  ASSUME PrintTyped, Whole, UNCHANGED <<part, line, dr>>, seen'.lost = seen.lost,
         NEW m \in Undisturbed,
         Sends(m)' => /\ Sends(m) /\ print_buf' = print_buf
                      /\ uart'.at = uart.at /\ uart'.left = uart.left
  PROVE  (InOrder(m) /\ NextByte(m) /\ Remains(m) /\ Spent(m))'
<1>1. T!SentOf(m)' = T!SentOf(m) /\ (InDr(m)' <=> InDr(m))
      /\ Chars' = Chars
  BY DEF T!SentOf, InDr, Chars
<1>2. InOrder(m) /\ NextByte(m) /\ Remains(m) /\ Spent(m)
  BY DEF Whole
<1>3. InOrder(m)' /\ NextByte(m)'
  BY <1>1, <1>2 DEF InOrder, NextByte
<1>4. Remains(m)'
  BY <1>1, <1>2 DEF Remains
<1>5. Spent(m)'
  <2>1. Cardinality(T!SentOf(m))' = Cardinality(T!SentOf(m))
    BY <1>1
  <2>2. Cardinality(T!SentOf(m)) \in Nat /\ seen.lost[m] \in Nat
        /\ uart.at \in Nat /\ Chars \in Nat
    BY SentAre, PrintConstants DEF PrintTyped, Undisturbed
  <2>3. Sends(m) => uart.at <= Chars
    BY <1>2, <2>2, PrintConstants DEF Remains, PrintTyped
  <2> QED
    BY <1>1, <1>2, <2>1, <2>2, <2>3 DEF Spent
<1> QED
  BY <1>3, <1>4, <1>5

LEMMA PutPrints ==
  ASSUME Prints, UNCHANGED part, NEW p \in T!Printers, T!Put(p) \/ E!Put(p)
  PROVE  Prints'
<1> DEFINE r == [pr[p] EXCEPT !.pc = "load"]
<1>1. /\ pr[p].pc = "put" /\ pr' = [pr EXCEPT ![p].pc = "load"]
      /\ print_buf' = IF offset < PrintSize
                      THEN [print_buf EXCEPT
                              ![offset] = <<pr[p].id, pr[p].i + 1>>]
                      ELSE print_buf
      /\ seen' = [seen EXCEPT !.mixed = IF uart.en THEN @ \cup {uart.id}
                                                  ELSE @]
      /\ UNCHANGED <<offset, uart, dr, line, count>>
  BY DEF T!Put, E!Put
<1>2. PrintTyped /\ Apiece /\ Alone /\ OwnBuffer /\ Tested /\ Fresh /\ Whole
  BY DEF Prints
<1>3. pr[p] \in PrinterType /\ r \in PrinterType /\ pr' = [pr EXCEPT ![p] = r]
      /\ r.id = pr[p].id /\ r.i = pr[p].i /\ r.pc = "load"
  <2>1. pr[p] \in PrinterType
    BY <1>2 DEF PrintTyped
  <2>2. pr' = [pr EXCEPT ![p] = r]
    BY <1>1
  <2> QED
    BY <2>1, <2>2 DEF PrinterType
<1> HIDE DEF r
<1>4. pr' \in [T!Printers -> PrinterType] /\ pr'[p] = r
      /\ \A q \in T!Printers : q # p => pr'[q] = pr[q]
  BY <1>2, <1>3, PrinterView
<1>5. /\ seen.mixed \subseteq seen'.mixed /\ seen'.lost = seen.lost
      /\ seen'.raced = seen.raced
      /\ uart.en => uart.id \in seen'.mixed
  BY <1>1, <1>2 DEF PrintTyped
<1>6. Makes(p) /\ p \in T!Printing
  BY <1>1 DEF Makes, T!Printing
<1>7. /\ T!Printing' = T!Printing /\ Apiece' /\ Alone'
      /\ \A q \in T!Printers : /\ Makes(q)' => Makes(q)
                               /\ pr'[q].id = pr[q].id
  BY <1>1, <1>2, <1>3, <1>5, <1>6, PrinterGoesOn
<1>8. PrintTyped'
  <2>1. print_buf' \in [0 .. PrintSize - 1 -> PrintByte]
    <3>1. <<pr[p].id, pr[p].i + 1>> \in PrintByte
      BY <1>3, PrintConstants DEF PrinterType, PrintByte
    <3> QED
      BY <1>1, <1>2, <3>1 DEF PrintTyped
  <2>2. seen' \in [size : [T!Message -> Int], lost : [T!Message -> Nat],
                   mixed : SUBSET Nat, raced : SUBSET Nat,
                   early : SUBSET Nat]
    <3>1. uart.id \in Nat /\ MaxMessages \in Nat
      BY <1>2, PrintConstants DEF PrintTyped
    <3> QED
      BY <1>1, <1>2, <3>1 DEF PrintTyped
  <2> QED
    BY <1>1, <1>2, <1>4, <2>1, <2>2 DEF PrintTyped
<1>9. OwnBuffer'
  <2>1. T!Printing' = {} => offset' = 0
    BY <1>6, <1>7
  <2>2. ASSUME NEW q \in T!Printers, Makes(q)', ~Mixes(q)'
        PROVE  /\ q = p /\ offset = pr[p].i /\ pr[p].i < Chars
               /\ \A n \in 1 .. pr[p].i : print_buf[n - 1] = <<pr[p].id, n>>
    <3>1. Makes(q) /\ ~Mixes(q)
      BY <1>5, <1>7, <2>2 DEF Mixes
    <3>2. q = p
      BY <1>2, <1>6, <3>1 DEF Alone
    <3> QED
      BY <1>1, <1>2, <3>1, <3>2 DEF OwnBuffer, Printed
  <2>3. ASSUME offset = pr[p].i, pr[p].i < Chars,
               \A n \in 1 .. pr[p].i : print_buf[n - 1] = <<pr[p].id, n>>
        PROVE  \A n \in 1 .. pr[p].i + 1 :
                 print_buf'[n - 1] = <<pr[p].id, n>>
    <3>1. offset \in 0 .. PrintSize - 1 /\ offset < PrintSize
      BY <1>2, <2>3, PrintConstants DEF PrintTyped
    <3>2. print_buf' = [print_buf EXCEPT ![offset] =
                          <<pr[p].id, pr[p].i + 1>>]
      BY <1>1, <3>1
    <3>3. pr[p].i \in Nat
      BY <1>3 DEF PrinterType
    <3>4. \A n \in 1 .. pr[p].i + 1 :
            /\ n - 1 \in 0 .. PrintSize - 1
            /\ n \in 1 .. pr[p].i \/ n = offset + 1
            /\ n \in 1 .. pr[p].i => n - 1 # offset
      <4>1. \A x \in Nat : x < PrintSize => \A n \in 1 .. x + 1 :
              /\ n - 1 \in 0 .. PrintSize - 1
              /\ n \in 1 .. x \/ n = x + 1
              /\ n \in 1 .. x => n - 1 # x
        BY PrintConstants
      <4> QED
        BY <2>3, <3>1, <3>3, <4>1
    <3>5. print_buf \in [0 .. PrintSize - 1 -> PrintByte]
      BY <1>2 DEF PrintTyped
    <3>6. ASSUME NEW n \in 1 .. pr[p].i
          PROVE  print_buf'[n - 1] = <<pr[p].id, n>>
      <4>1. n \in 1 .. pr[p].i + 1
        BY <3>3
      <4> QED
        BY <2>3, <3>2, <3>4, <3>5, <4>1
    <3>7. print_buf'[offset] = <<pr[p].id, offset + 1>>
      BY <2>3, <3>1, <3>2, <3>5
    <3>8. (offset + 1) - 1 = offset
      BY <3>1
    <3> QED
      BY <3>4, <3>6, <3>7, <3>8
  <2>4. Chars' = Chars
    BY DEF Chars
  <2> QED
    BY <1>1, <1>3, <1>4, <2>1, <2>2, <2>3, <2>4 DEF OwnBuffer, Printed
<1>10. Tested'
  BY <1>1, <1>2, <1>3, <1>4 DEF Tested
<1>11. Fresh'
  BY <1>1, <1>2, <1>5, <1>7, QuietFresh
<1>12. Whole'
  <2>1. ASSUME NEW m \in Undisturbed'
        PROVE  m \in Undisturbed /\ ~Sends(m)'
    BY <1>1, <1>5, <2>1 DEF Undisturbed, Sends, T!Message
  <2> QED
    BY <1>1, <1>2, <1>5, <2>1, QuietWhole DEF Whole
<1> QED
  BY <1>7, <1>8, <1>9, <1>10, <1>11, <1>12 DEF Prints

\* A step of a call that leaves the stream and the buffer as they are.
LEMMA CallPrints ==
  ASSUME Prints, UNCHANGED part, NEW p \in T!Printers, Makes(p),
         NEW r \in PrinterType, pr' = [pr EXCEPT ![p] = r],
         r.id = pr[p].id, r.pc # "idle", offset' \in Nat,
         UNCHANGED <<print_buf, uart, dr, line, count, seen>>,
         ~Mixes(p) /\ r.pc # "reset" =>
           /\ offset' = r.i
           /\ r.i + (IF r.pc \in {"load", "store"} THEN 1 ELSE 0) <= Printed(p)
           /\ r.pc \in {"put", "load", "store"} => r.i < Chars
           /\ r.pc = "store" => r.tmp = r.i
           /\ r.pc \in {"test", "program"} => r.i = Chars
           /\ r.pc = "program" => r.tmp = Chars,
         r.pc = "program" => /\ r.saw <= count.starts
                             /\ r.saw = count.starts => ~uart.en
  PROVE  Prints'
<1>1. PrintTyped /\ Apiece /\ Alone /\ OwnBuffer /\ Tested /\ Fresh /\ Whole
  BY DEF Prints
<1>2. pr' \in [T!Printers -> PrinterType] /\ pr'[p] = r
      /\ \A q \in T!Printers : q # p => pr'[q] = pr[q]
  BY <1>1, PrinterView
<1>3. p \in T!Printing
  BY DEF Makes, T!Printing
<1>4. /\ T!Printing' = T!Printing /\ Apiece' /\ Alone'
      /\ \A q \in T!Printers : /\ Makes(q)' => Makes(q)
                               /\ pr'[q].id = pr[q].id
  BY <1>1, PrinterGoesOn
<1>5. PrintTyped'
  BY <1>1, <1>2 DEF PrintTyped
<1>6. OwnBuffer'
  <2>1. T!Printing' = {} => offset' = 0
    BY <1>3, <1>4
  <2>2. ASSUME NEW q \in T!Printers, Makes(q)', ~Mixes(q)'
        PROVE  q = p /\ ~Mixes(p) /\ r.pc # "reset"
    <3>1. Makes(q) /\ ~Mixes(q)
      BY <1>4, <2>2 DEF Mixes
    <3>2. q = p
      BY <1>1, <1>3, <3>1 DEF Alone
    <3> QED
      BY <1>2, <2>2, <3>1, <3>2 DEF Makes
  <2>3. ~Mixes(p) => \A n \in 1 .. Printed(p) :
                       print_buf[n - 1] = <<pr[p].id, n>>
    BY <1>1 DEF OwnBuffer
  <2>4. Printed(p) \in Nat /\ r.i \in Nat
    BY <1>1 DEF Printed, PrintTyped, PrinterType
  <2>5. Printed(p)' = r.i + (IF r.pc \in {"load", "store"} THEN 1 ELSE 0)
    BY <1>2, <2>4 DEF Printed
  <2>6. ~Mixes(p) /\ r.pc # "reset" => \A n \in 1 .. Printed(p)' :
          print_buf'[n - 1] = <<r.id, n>>
    BY <2>3, <2>4, <2>5
  <2>7. Chars' = Chars
    BY DEF Chars
  <2> QED
    BY <1>2, <2>1, <2>2, <2>6, <2>7 DEF OwnBuffer
<1>7. Tested'
  BY <1>1, <1>2 DEF Tested
<1>8. Fresh'
  BY <1>1, <1>4, QuietFresh
<1>9. Whole'
  BY <1>1, QuietWhole DEF Whole, Undisturbed, Sends, T!Message
<1> QED
  BY <1>4, <1>5, <1>6, <1>7, <1>8, <1>9 DEF Prints

LEMMA LoadPrints ==
  ASSUME Prints, UNCHANGED part, NEW p \in T!Printers, T!Load(p) \/ E!Load(p)
  PROVE  Prints'
<1> DEFINE r == [pr[p] EXCEPT !.pc = "store", !.tmp = offset]
<1>1. /\ pr[p].pc = "load"
      /\ pr' = [pr EXCEPT ![p] = r]
      /\ UNCHANGED <<print_buf, offset, uart, dr, line, count, seen>>
  BY DEF T!Load, E!Load
<1>2. pr[p] \in PrinterType /\ offset \in Nat
  BY DEF Prints, PrintTyped
<1>3. /\ r \in PrinterType /\ r.id = pr[p].id /\ r.i = pr[p].i
      /\ r.tmp = offset /\ r.pc = "store"
  BY <1>2 DEF PrinterType
<1> HIDE DEF r
<1>4. ~Mixes(p) => offset = pr[p].i /\ pr[p].i < Chars
  BY <1>1 DEF Prints, OwnBuffer, Makes
<1>5. Makes(p) /\ Printed(p) = pr[p].i + 1
  BY <1>1 DEF Makes, Printed
<1>6. pr[p].i \in Nat
  BY <1>2 DEF PrinterType
<1>7. ~Mixes(p) => /\ offset' = r.i /\ r.i + 1 <= Printed(p)
                   /\ r.i < Chars /\ r.tmp = r.i
  BY <1>1, <1>3, <1>4, <1>5, <1>6
<1>8. offset' \in Nat
  BY <1>1, <1>2
<1> QED
  BY <1>1, <1>3, <1>5, <1>7, <1>8, CallPrints

LEMMA StorePrints ==
  ASSUME Prints, UNCHANGED part, NEW p \in T!Printers,
         \/ part = "threads" /\ T!Store(p)
         \/ part = "echo" /\ E!Store(p)
  PROVE  Prints'
<1> DEFINE pc == IF pr[p].i + 1 = Chars THEN "test" ELSE "put"
           n == pr[p].i + 1
           r == [pr[p] EXCEPT !.i = n, !.tmp = 0, !.pc = pc]
<1>1. /\ pr[p].pc = "store" /\ offset' = pr[p].tmp + 1
      /\ pr' = [pr EXCEPT ![p] = r]
      /\ UNCHANGED <<print_buf, uart, dr, line, count, seen>>
  BY DEF T!Store, E!Store, Chars
<1>2. pr[p] \in PrinterType
  BY DEF Prints, PrintTyped
<1>3. /\ r \in PrinterType /\ r.id = pr[p].id /\ r.i = pr[p].i + 1
      /\ r.pc = IF pr[p].i + 1 = Chars THEN "test" ELSE "put"
  <2>1. pc \in {"test", "put"} /\ n \in Nat
    BY <1>2 DEF PrinterType
  <2> HIDE DEF pc, n
  <2>2. r \in PrinterType /\ r.id = pr[p].id /\ r.i = n /\ r.pc = pc
    BY <1>2, <2>1 DEF PrinterType
  <2> QED
    BY <2>2 DEF pc, n
<1> HIDE DEF r
<1>4. ~Mixes(p) => pr[p].tmp = pr[p].i /\ pr[p].i < Chars
  BY <1>1 DEF Prints, OwnBuffer, Makes
<1>5. Makes(p) /\ Printed(p) = pr[p].i + 1
  BY <1>1 DEF Makes, Printed
<1>6. pr[p].i \in Nat /\ pr[p].tmp \in Nat /\ Chars \in Nat
  BY <1>2, PrintConstants DEF PrinterType
<1>7. offset' \in Nat
  BY <1>1, <1>6
<1>8. ~Mixes(p) => /\ offset' = r.i /\ r.i + 0 <= Printed(p)
                   /\ r.pc = "put" => r.i < Chars
                   /\ r.pc = "test" => r.i = Chars
  BY <1>1, <1>3, <1>4, <1>5, <1>6
<1>9. r.pc \in {"put", "test"}
  BY <1>3
<1> QED
  BY <1>1, <1>2, <1>3, <1>5, <1>7, <1>8, <1>9, CallPrints

LEMMA TestPrints ==
  ASSUME Prints, UNCHANGED part, NEW p \in T!Printers, T!Test(p) \/ E!Test(p)
  PROVE  Prints'
<1> DEFINE pc == IF uart.en \/ offset = 0 THEN "reset" ELSE "program"
           r == [pr[p] EXCEPT !.pc = pc, !.tmp = offset, !.saw = count.starts]
<1>1. /\ pr[p].pc = "test"
      /\ pr' = [pr EXCEPT ![p] = r]
      /\ UNCHANGED <<print_buf, offset, uart, dr, line, count, seen>>
  BY DEF T!Test, E!Test, T!Refused, E!Refused
<1>2. pr[p] \in PrinterType /\ offset \in Nat /\ count.starts \in Nat
  BY DEF Prints, PrintTyped
<1>3. /\ r \in PrinterType /\ r.id = pr[p].id /\ r.i = pr[p].i
      /\ r.tmp = offset /\ r.saw = count.starts
      /\ r.pc = "reset" \/ (r.pc = "program" /\ ~uart.en)
  BY <1>2 DEF PrinterType
<1> HIDE DEF r
<1>4. ~Mixes(p) => offset = pr[p].i /\ pr[p].i = Chars
  BY <1>1 DEF Prints, OwnBuffer, Makes
<1>5. Makes(p) /\ Printed(p) = pr[p].i
  BY <1>1 DEF Makes, Printed
<1>6. pr[p].i \in Nat
  BY <1>2 DEF PrinterType
<1>7. r.pc = "program" => r.saw <= count.starts /\ ~uart.en
  BY <1>2, <1>3
<1>8. ~Mixes(p) => /\ offset' = r.i /\ r.i + 0 <= Printed(p)
                   /\ r.i = Chars /\ r.tmp = Chars
  BY <1>1, <1>3, <1>4, <1>5, <1>6
<1>9. r.pc \in {"reset", "program"} /\ offset' \in Nat
  BY <1>1, <1>2, <1>3
<1> QED
  BY <1>1, <1>3, <1>5, <1>7, <1>8, <1>9, CallPrints

LEMMA ProgramPrints ==
  ASSUME Prints, UNCHANGED part, NEW p \in T!Printers,
         T!Program(p) \/ E!Program(p)
  PROVE  Prints'
<1> DEFINE r == [pr[p] EXCEPT !.pc = "reset"]
           left == IF uart.en THEN uart.left ELSE pr[p].tmp
<1>1. /\ pr[p].pc = "program" /\ pr' = [pr EXCEPT ![p] = r]
      /\ uart'.id = pr[p].id /\ uart'.at = 0 /\ uart'.left = left
      /\ \E en \in BOOLEAN : uart' = [en |-> en, id |-> pr[p].id, at |-> 0,
                                     left |-> left,
                                     tcif |-> uart.tcif \/ uart.en]
      /\ count' = [count EXCEPT !.starts = @ + 1]
      /\ seen' = [seen EXCEPT
            !.size[pr[p].id] = uart'.left,
            !.raced = IF count.starts # pr[p].saw
                      THEN @ \cup {pr[p].id, uart.id} ELSE @,
            !.early = IF uart.tcif THEN @ \cup {pr[p].id} ELSE @]
      /\ UNCHANGED <<print_buf, offset, dr, line>>
  BY DEF T!Program, E!Program, T!Programmed, E!Programmed
<1>2. PrintTyped /\ Apiece /\ Alone /\ OwnBuffer /\ Tested /\ Fresh /\ Whole
  BY DEF Prints
<1>3. pr[p] \in PrinterType /\ r \in PrinterType
      /\ r.id = pr[p].id /\ r.pc = "reset"
  BY <1>2 DEF PrintTyped, PrinterType
<1> HIDE DEF r
<1>4. pr' \in [T!Printers -> PrinterType] /\ pr'[p] = r
      /\ \A q \in T!Printers : q # p => pr'[q] = pr[q]
  BY <1>1, <1>2, <1>3, PrinterView
<1>5. /\ seen'.mixed = seen.mixed /\ seen'.lost = seen.lost
      /\ seen.raced \subseteq seen'.raced
      /\ count.starts # pr[p].saw =>
           pr[p].id \in seen'.raced /\ uart.id \in seen'.raced
  BY <1>1, <1>2 DEF PrintTyped
<1>6. Makes(p) /\ p \in T!Printing
  BY <1>1 DEF Makes, T!Printing
<1>7. count'.messages = count.messages /\ count'.starts = count.starts + 1
      /\ count.starts \in Nat
  BY <1>1, <1>2 DEF PrintTyped
<1>8. /\ T!Printing' = T!Printing /\ Apiece' /\ Alone'
      /\ \A q \in T!Printers : /\ Makes(q)' => Makes(q)
                               /\ pr'[q].id = pr[q].id
  BY <1>1, <1>2, <1>3, <1>5, <1>6, <1>7, PrinterGoesOn
<1>9. left \in Int /\ pr[p].id \in 0 .. MaxMessages
  BY <1>2, <1>3 DEF PrintTyped, PrinterType
<1>10. PrintTyped'
  <2>1. uart' \in [en : BOOLEAN, id : 0 .. MaxMessages, at : Nat, left : Int,
                   tcif : BOOLEAN]
    BY <1>1, <1>2, <1>9 DEF PrintTyped
  <2>2. seen' \in [size : [T!Message -> Int], lost : [T!Message -> Nat],
                   mixed : SUBSET Nat, raced : SUBSET Nat,
                   early : SUBSET Nat]
    <3>1. uart.id \in Nat /\ pr[p].id \in Nat /\ uart'.left \in Int
      BY <1>1, <1>2, <1>9, PrintConstants DEF PrintTyped
    <3> QED
      BY <1>1, <1>2, <3>1 DEF PrintTyped
  <2>3. count' \in [messages : 0 .. MaxMessages, starts : Nat, echoes : Nat]
    <3>1. count' = [count EXCEPT !.starts = @ + 1]
      BY <1>1
    <3>2. count \in [messages : 0 .. MaxMessages, starts : Nat, echoes : Nat]
      BY <1>2 DEF PrintTyped
    <3> QED
      BY <3>1, <3>2
  <2> QED
    BY <1>1, <1>2, <1>4, <2>1, <2>2, <2>3 DEF PrintTyped
<1>11. \A q \in T!Printers : Makes(q)' => Makes(q) /\ q # p
  BY <1>3, <1>4, <1>8 DEF Makes
<1>12. OwnBuffer'
  <2>1. T!Printing' = {} => offset' = 0
    BY <1>6, <1>8
  <2>2. \A q \in T!Printers : ~(Makes(q)' /\ ~Mixes(q)')
    BY <1>2, <1>5, <1>6, <1>8, <1>11 DEF Alone, Mixes
  <2> QED
    BY <2>1, <2>2 DEF OwnBuffer
<1>13. Tested'
  <2>1. \A q \in T!Printers : pr'[q].pc = "program" => pr[q] = pr'[q]
    BY <1>3, <1>4
  <2>2. \A q \in T!Printers : pr[q].saw \in Nat
    BY <1>2 DEF PrintTyped, PrinterType
  <2> QED
    BY <1>2, <1>7, <2>1, <2>2 DEF Tested
<1>14. Fresh'
  <2>1. \A m : T!SentOf(m)' = T!SentOf(m) /\ (InDr(m)' <=> InDr(m))
    BY <1>1 DEF T!SentOf, InDr
  <2>2. pr[p].id \in 1 .. count.messages
    BY <1>2, <1>6 DEF Apiece
  <2>3. ASSUME NEW m \in T!Message,
               m > count.messages
                 \/ \E q \in T!Printers : Makes(q)' /\ pr'[q].id = m
        PROVE  /\ m # pr[p].id
               /\ m > count.messages
                    \/ \E q \in T!Printers : Makes(q) /\ pr[q].id = m
    <3>1. CASE m > count.messages
      <4>1. count.messages \in Nat /\ m \in Nat
        BY <1>2, PrintConstants DEF PrintTyped
      <4> QED
        BY <2>2, <3>1, <4>1
    <3>2. CASE \E q \in T!Printers : Makes(q)' /\ pr'[q].id = m
      <4>1. PICK q \in T!Printers : Makes(q)' /\ pr'[q].id = m
        BY <3>2
      <4>2. Makes(q) /\ q # p /\ pr[q].id = m
        BY <1>8, <1>11, <4>1
      <4>3. q \in T!Printing
        BY <4>2 DEF Makes, T!Printing
      <4> QED
        BY <1>2, <1>6, <4>2, <4>3 DEF Apiece
    <3> QED
      BY <2>3, <3>1, <3>2
  <2> QED
    BY <1>1, <1>2, <1>5, <1>7, <2>1, <2>3 DEF Fresh, T!Message
<1>15. Whole'
  <2>1. ASSUME NEW m \in Undisturbed', m # pr[p].id
        PROVE  (InOrder(m) /\ NextByte(m) /\ Remains(m) /\ Spent(m))'
    <3>1. m \in Undisturbed
      BY <1>5, <2>1 DEF Undisturbed, T!Message
    <3>2. ~Sends(m)'
      BY <1>1, <2>1 DEF Sends
    <3> QED
      BY <1>1, <1>2, <1>5, <3>1, <3>2, QuietWhole
  <2>2. ASSUME NEW m \in Undisturbed', m = pr[p].id
        PROVE  (InOrder(m) /\ NextByte(m) /\ Remains(m) /\ Spent(m))'
    <3>1. m \in Undisturbed /\ ~Mixes(p) /\ pr[p].saw = count.starts
          /\ m \in T!Message
      BY <1>5, <2>2 DEF Undisturbed, T!Message, Mixes
    <3>2. ~uart.en
      BY <1>1, <1>2, <3>1 DEF Tested
    <3>3. /\ T!SentOf(m) = {} /\ ~InDr(m) /\ seen.lost[m] = 0
      BY <1>2, <1>6, <2>2, <3>1 DEF Fresh
    <3>4. T!SentOf(m)' = {} /\ ~InDr(m)' /\ seen'.lost[m] = 0
      BY <1>1, <1>5, <3>3 DEF T!SentOf, InDr
    <3>5. /\ pr[p].tmp = Chars /\ pr[p].i = Chars /\ Printed(p) = Chars
          /\ \A n \in 1 .. Printed(p) : print_buf[n - 1] = <<pr[p].id, n>>
      BY <1>1, <1>2, <1>6, <3>1 DEF OwnBuffer, Printed
    <3>6. Chars' = Chars /\ Chars \in Nat /\ Chars >= 1
      BY PrintConstants DEF Chars
    <3>7. uart'.left = Chars /\ uart'.at + uart'.left = Chars
      BY <1>1, <3>2, <3>5, <3>6
    <3>8. Remains(m)'
      BY <1>1, <2>2, <3>4, <3>5, <3>6, <3>7 DEF Remains
    <3>9. Spent(m)'
      <4>1. Cardinality(T!SentOf(m))' = 0
        BY <3>4, FS_EmptySet
      <4> QED
        BY <1>1, <3>4, <3>6, <4>1 DEF Spent
    <3> QED
      BY <3>4, <3>8, <3>9 DEF InOrder, NextByte
  <2> QED
    BY <2>1, <2>2 DEF Whole
<1> QED
  BY <1>8, <1>10, <1>12, <1>13, <1>14, <1>15 DEF Prints

LEMMA ResetPrints ==
  ASSUME Prints, UNCHANGED part, NEW p \in T!Printers,
         T!Reset(p) \/ E!Reset(p)
  PROVE  Prints'
<1>1. /\ pr[p].pc = "reset" /\ offset' = 0
      /\ pr' = [pr EXCEPT ![p] = T!Idle]
      /\ UNCHANGED <<print_buf, uart, dr, line, count, seen>>
  BY DEF T!Reset, E!Reset, T!CleanOffset, E!CleanOffset, T!Idle, E!Idle
<1>2. PrintTyped /\ Apiece /\ Alone /\ OwnBuffer /\ Tested /\ Fresh /\ Whole
  BY DEF Prints
<1>3. T!Idle \in PrinterType /\ T!Idle.pc = "idle"
  BY PrintConstants DEF T!Idle, PrinterType
<1>4. pr' \in [T!Printers -> PrinterType] /\ pr'[p] = T!Idle
      /\ \A q \in T!Printers : q # p => pr'[q] = pr[q]
  BY <1>1, <1>2, <1>3, PrinterView
<1>5. p \in T!Printing /\ ~Makes(p)
  BY <1>1 DEF Makes, T!Printing
<1>6. T!Printing' = T!Printing \ {p}
  <2>1. \A q \in T!Printers : pr'[q].pc # "idle" <=> pr[q].pc # "idle" /\ q # p
    BY <1>3, <1>4
  <2> QED
    BY <2>1 DEF T!Printing
<1>7. \A q \in T!Printers : Makes(q)' => /\ q # p /\ Makes(q)
                                       /\ pr'[q] = pr[q]
  BY <1>3, <1>4 DEF Makes
<1>8. \A q \in T!Printers : ~(Makes(q)' /\ ~Mixes(q)')
  BY <1>1, <1>2, <1>5, <1>7 DEF Alone, Mixes
<1>9. PrintTyped'
  BY <1>1, <1>2, <1>4 DEF PrintTyped
<1>10. Apiece'
  <2>1. \A q \in T!Printing' : q \in T!Printing /\ pr'[q] = pr[q]
    BY <1>4, <1>6 DEF T!Printing
  <2> QED
    BY <1>1, <1>2, <2>1 DEF Apiece
<1>11. Alone' /\ OwnBuffer'
  BY <1>1, <1>8 DEF Alone, OwnBuffer
<1>12. Tested'
  BY <1>1, <1>2, <1>3, <1>4 DEF Tested
<1>13. Fresh'
  BY <1>1, <1>2, <1>7, QuietFresh
<1>14. Whole'
  BY <1>1, <1>2, QuietWhole DEF Whole, Undisturbed, Sends, T!Message
<1> QED
  BY <1>9, <1>10, <1>11, <1>12, <1>13, <1>14 DEF Prints

LEMMA CallingPrints ==
  ASSUME Prints, UNCHANGED part, NEW p \in T!Printers, T!Call(p) \/ E!Call(p)
  PROVE  Prints'
<1> DEFINE new == count.messages + 1
           r == [T!Idle EXCEPT !.pc = "put", !.id = new]
           now == IF T!Printing = {} THEN {}
                  ELSE {new} \cup {pr[q].id : q \in {o \in T!Printing :
                                                     pr[o].pc # "reset"}}
<1>1. /\ p \notin T!Printing /\ count.messages < MaxMessages
      /\ count' = [count EXCEPT !.messages = new]
      /\ pr' = [pr EXCEPT ![p] = r]
      /\ seen' = [seen EXCEPT !.mixed = @ \cup now]
      /\ UNCHANGED <<print_buf, offset, uart, dr, line>>
  BY DEF T!Call, E!Call, T!Idle, E!Idle, T!Disturbed, E!Disturbed,
     T!Printing, E!Printing, T!Printers, E!Printers
<1>2. PrintTyped /\ Apiece /\ Alone /\ OwnBuffer /\ Tested /\ Fresh /\ Whole
  BY DEF Prints
<1>3. /\ count.messages \in Nat /\ new \in 1 .. MaxMessages
      /\ count'.messages = new /\ count'.starts = count.starts
  BY <1>1, <1>2, PrintConstants DEF PrintTyped
<1>4. r \in PrinterType /\ r.pc = "put" /\ r.id = new /\ r.i = 0
  <2>1. new \in 0 .. MaxMessages
    BY <1>3
  <2> HIDE DEF new
  <2> QED
    BY <2>1 DEF T!Idle, PrinterType
<1>5. T!Printing # {} =>
        new \in now /\ \A q \in T!Printers : Makes(q) => pr[q].id \in now
  BY DEF Makes, T!Printing
<1>6. now \subseteq Nat
  <2>1. \A q \in T!Printing : pr[q].id \in Nat
    BY <1>2, PrintConstants DEF T!Printing, PrintTyped, PrinterType
  <2> QED
    BY <1>3, <2>1, PrintConstants
<1> HIDE DEF r, now, new
<1>7. pr' \in [T!Printers -> PrinterType] /\ pr'[p] = r
      /\ \A q \in T!Printers : q # p => pr'[q] = pr[q]
  BY <1>1, <1>2, <1>4, PrinterView
<1>8. /\ seen'.mixed = seen.mixed \cup now /\ seen'.lost = seen.lost
      /\ seen'.raced = seen.raced
  BY <1>1, <1>2 DEF PrintTyped
<1>9. T!Printing' = T!Printing \cup {p}
  <2>1. \A q \in T!Printers : pr'[q].pc # "idle" <=> pr[q].pc # "idle" \/ q = p
    BY <1>4, <1>7
  <2> QED
    BY <2>1 DEF T!Printing
<1>10. \A q \in T!Printers : Makes(q)' /\ q # p => Makes(q) /\ pr'[q] = pr[q]
  BY <1>7 DEF Makes
<1>11. ASSUME NEW q \in T!Printers, Makes(q)', ~Mixes(q)'
       PROVE  q = p /\ T!Printing = {}
  <2>1. q = p
    <3> SUFFICES ASSUME q # p PROVE FALSE
      OBVIOUS
    <3>1. Makes(q) /\ pr[q].id \notin now /\ q \in T!Printing
      BY <1>8, <1>10, <1>11 DEF Mixes, Makes, T!Printing
    <3> QED
      BY <1>5, <3>1
  <2>2. new \notin now
    BY <1>4, <1>7, <1>8, <1>11, <2>1 DEF Mixes
  <2> QED
    BY <1>5, <2>1, <2>2
<1>12. PrintTyped'
  <2>1. count' \in [messages : 0 .. MaxMessages, starts : Nat, echoes : Nat]
    <3>1. new \in 0 .. MaxMessages
      BY <1>3
    <3>2. count' = [count EXCEPT !.messages = new]
      BY <1>1
    <3>3. count \in [messages : 0 .. MaxMessages, starts : Nat, echoes : Nat]
      BY <1>2 DEF PrintTyped
    <3> QED
      BY <3>1, <3>2, <3>3
  <2>2. seen' \in [size : [T!Message -> Int], lost : [T!Message -> Nat],
                   mixed : SUBSET Nat, raced : SUBSET Nat,
                   early : SUBSET Nat]
    BY <1>1, <1>2, <1>6 DEF PrintTyped
  <2> QED
    BY <1>1, <1>2, <1>7, <2>1, <2>2 DEF PrintTyped
<1>13. Apiece'
  <2>1. \A q \in T!Printing : /\ pr[q].id \in 1 .. count.messages
                             /\ pr[q].id # new /\ pr'[q] = pr[q] /\ q # p
                             /\ pr[q].id \in 1 .. new
    BY <1>1, <1>2, <1>3, <1>7 DEF Apiece, T!Printing, new
  <2>2. pr'[p].id = new /\ new \in 1 .. new
    BY <1>3, <1>4, <1>7
  <2> QED
    BY <1>2, <1>3, <1>9, <2>1, <2>2 DEF Apiece
<1>14. Alone'
  BY <1>9, <1>11 DEF Alone
<1>15. OwnBuffer'
  <2>1. T!Printing' # {}
    BY <1>9
  <2>2. T!Printing = {} => offset' = 0
    BY <1>1, <1>2 DEF OwnBuffer
  <2>3. Printed(p)' = 0
    BY <1>4, <1>7 DEF Printed
  <2>4. 0 < Chars' /\ \A n \in 1 .. 0 : FALSE
    BY PrintConstants DEF Chars
  <2> QED
    BY <1>4, <1>7, <1>11, <2>1, <2>2, <2>3, <2>4 DEF OwnBuffer
<1>16. Tested'
  BY <1>1, <1>2, <1>3, <1>4, <1>7 DEF Tested
<1>17. Fresh'
  <2>1. \A m : T!SentOf(m)' = T!SentOf(m) /\ (InDr(m)' <=> InDr(m))
    BY <1>1 DEF T!SentOf, InDr
  <2>2. ASSUME NEW m \in T!Message,
               m > count'.messages
                 \/ \E q \in T!Printers : Makes(q)' /\ pr'[q].id = m
        PROVE  m > count.messages
                 \/ \E q \in T!Printers : Makes(q) /\ pr[q].id = m
    <3>1. m \in Nat /\ new = count.messages + 1
      BY PrintConstants DEF new
    <3>2. CASE m > count'.messages
      BY <1>3, <3>1, <3>2
    <3>3. CASE \E q \in T!Printers : Makes(q)' /\ pr'[q].id = m
      <4>1. PICK q \in T!Printers : Makes(q)' /\ pr'[q].id = m
        BY <3>3
      <4>2. CASE q = p
        BY <1>3, <1>4, <1>7, <3>1, <4>1, <4>2
      <4>3. CASE q # p
        BY <1>10, <4>1, <4>3
      <4> QED
        BY <4>2, <4>3
    <3> QED
      BY <2>2, <3>2, <3>3
  <2> QED
    BY <1>1, <1>2, <1>8, <2>1, <2>2 DEF Fresh, T!Message
<1>18. Whole'
  <2>1. ASSUME NEW m \in Undisturbed' PROVE m \in Undisturbed
    BY <1>8, <2>1 DEF Undisturbed, T!Message
  <2> QED
    BY <1>1, <1>2, <1>8, <2>1, QuietWhole DEF Whole, Sends
<1> QED
  BY <1>12, <1>13, <1>14, <1>15, <1>16, <1>17, <1>18 DEF Prints

\* The hardware: the calls and the buffer stay as they are.
LEMMA HardwarePrints ==
  ASSUME Prints, UNCHANGED <<part, print_buf, offset, pr>>, PrintTyped',
         count'.messages = count.messages, count'.starts = count.starts,
         seen'.mixed = seen.mixed, seen'.raced = seen.raced,
         uart'.en => uart.en, Fresh',
         \A m \in Undisturbed :
           (InOrder(m) /\ NextByte(m) /\ Remains(m) /\ Spent(m))'
  PROVE  Prints'
<1>1. PrintTyped /\ Apiece /\ Alone /\ OwnBuffer /\ Tested /\ Fresh /\ Whole
  BY DEF Prints
<1>2. /\ T!Printing' = T!Printing
      /\ \A q : (Makes(q)' <=> Makes(q)) /\ (Mixes(q)' <=> Mixes(q))
      /\ \A q : Printed(q)' = Printed(q)
      /\ Chars' = Chars
  BY DEF T!Printing, Makes, Mixes, Printed, Chars
<1>3. Apiece' /\ Alone'
  BY <1>1, <1>2 DEF Apiece, Alone
<1>4. OwnBuffer'
  BY <1>1, <1>2 DEF OwnBuffer
<1>5. Tested'
  BY <1>1 DEF Tested
<1>6. Whole'
  BY DEF Whole, Undisturbed, T!Message
<1> QED
  BY <1>3, <1>4, <1>5, <1>6 DEF Prints

LEMMA IrqPrints ==
  ASSUME Prints, UNCHANGED part, T!Irq \/ E!Irq
  PROVE  Prints'
<1>1. /\ uart' = [uart EXCEPT !.en = FALSE, !.tcif = FALSE]
      /\ UNCHANGED <<print_buf, offset, pr, dr, line, count, seen>>
  BY DEF T!Irq, E!Irq
<1>2. PrintTyped /\ Fresh /\ Whole
  BY DEF Prints
<1>3. ~uart'.en /\ uart'.id = uart.id /\ PrintTyped'
  BY <1>1, <1>2 DEF PrintTyped
<1>4. Fresh'
  BY <1>1, <1>2, <1>3, QuietFresh DEF Makes
<1>5. \A m \in Undisturbed :
        (InOrder(m) /\ NextByte(m) /\ Remains(m) /\ Spent(m))'
  BY <1>1, <1>2, <1>3, QuietWhole DEF Sends
<1> QED
  BY <1>1, <1>3, <1>4, <1>5, HardwarePrints

LEMMA SendPrints ==
  ASSUME Prints, UNCHANGED part, T!Send \/ E!Send
  PROVE  Prints'
<1> DEFINE byte == IF uart.at < PrintSize THEN print_buf[uart.at] ELSE None
<1>1. /\ uart.en /\ dr = None
      /\ dr' = [carrier |-> uart.id, byte |-> byte]
      /\ uart' = [uart EXCEPT !.at = @ + 1, !.left = @ - 1,
                              !.en = uart.left > 1,
                              !.tcif = @ \/ uart.left = 1]
      /\ UNCHANGED <<print_buf, offset, pr, line, count, seen>>
  BY DEF T!Send, E!Send
<1>2. PrintTyped /\ Fresh /\ Whole
  BY DEF Prints
<1>3. /\ uart.at \in Nat /\ uart.left \in Int /\ uart.id \in 0 .. MaxMessages
      /\ PrintSize \in Nat /\ MaxMessages \in Nat
  BY <1>2, PrintConstants DEF PrintTyped
<1>4. /\ uart'.id = uart.id /\ uart'.at = uart.at + 1
      /\ uart'.left = uart.left - 1 /\ (uart'.en <=> uart.left > 1)
      /\ uart'.tcif \in BOOLEAN
  BY <1>1, <1>2 DEF PrintTyped
<1>5. byte \in PrintByte
  BY <1>2, <1>3 DEF PrintTyped, PrintByte
<1>6. dr' \in SentByte /\ dr'.carrier = uart.id /\ dr'.byte = byte
  BY <1>1, <1>3, <1>5 DEF SentByte
<1> HIDE DEF byte
<1>7. PrintTyped'
  <2>1. uart' \in [en : BOOLEAN, id : 0 .. MaxMessages, at : Nat, left : Int,
                   tcif : BOOLEAN]
    <3>1. uart.at + 1 \in Nat /\ uart.left - 1 \in Int
      BY <1>3
    <3>2. uart \in [en : BOOLEAN, id : 0 .. MaxMessages, at : Nat, left : Int,
                    tcif : BOOLEAN]
      BY <1>2 DEF PrintTyped
    <3> DEFINE at == uart.at + 1
               left == uart.left - 1
               en == uart.left > 1
               tcif == uart.tcif \/ uart.left = 1
    <3>3. en \in BOOLEAN /\ tcif \in BOOLEAN
      OBVIOUS
    <3>4. uart' = [uart EXCEPT !.at = at, !.left = left, !.en = en,
                               !.tcif = tcif]
      BY <1>1
    <3> HIDE DEF at, left, en, tcif
    <3>5. at \in Nat /\ left \in Int
      BY <3>1 DEF at, left
    <3> QED
      BY <3>2, <3>3, <3>4, <3>5
  <2> QED
    BY <1>1, <1>2, <1>6, <2>1 DEF PrintTyped
<1>8. \A m : T!SentOf(m)' = T!SentOf(m) /\ ~InDr(m)
  BY <1>1 DEF T!SentOf, InDr
<1>9. \A m : InDr(m)' => uart.id = m
  BY <1>6 DEF InDr
<1>10. Fresh'
  <2>1. \A q : Makes(q)' <=> Makes(q)
    BY <1>1 DEF Makes
  <2> QED
    BY <1>1, <1>2, <1>4, <1>8, <1>9, <2>1 DEF Fresh, T!Message
<1>11. ASSUME NEW m \in Undisturbed
       PROVE  (InOrder(m) /\ NextByte(m) /\ Remains(m) /\ Spent(m))'
  <2>1. InOrder(m) /\ NextByte(m) /\ Remains(m) /\ Spent(m)
    BY <1>2 DEF Whole
  <2>2. Chars' = Chars /\ Chars \in 1 .. PrintSize
    BY PrintConstants DEF Chars
  <2>3. InOrder(m)'
    BY <1>1, <1>8, <2>1, <2>2 DEF InOrder
  <2>4. /\ Cardinality(T!SentOf(m))' = Cardinality(T!SentOf(m))
        /\ Cardinality(T!SentOf(m)) \in Nat /\ seen.lost[m] \in Nat
    BY <1>2, <1>8, SentAre DEF PrintTyped, Undisturbed
  <2>5. \A j \in T!SentOf(m) : line[j].byte[2] \in Nat
    <3>1. \A x \in {m} \X (1 .. Chars) : x[2] \in Nat
      BY <2>2
    <3> QED
      BY <2>1, <3>1 DEF InOrder
  <2>6. CASE uart.id # m
    <3>1. ~InDr(m)' /\ ~Sends(m)' /\ ~Sends(m)
      BY <1>4, <1>9, <2>6 DEF Sends
    <3>2. NextByte(m)' /\ Remains(m)'
      BY <3>1 DEF NextByte, Remains
    <3> QED
      BY <1>1, <1>8, <2>1, <2>2, <2>3, <2>4, <3>1, <3>2 DEF Spent
  <2>7. CASE uart.id = m
    <3>1. /\ uart.left >= 1 /\ uart.at + uart.left = Chars
          /\ \A n \in 1 .. Chars : print_buf[n - 1] = <<m, n>>
          /\ \A j \in T!SentOf(m) : line[j].byte[2] <= uart.at
      BY <1>1, <2>1, <2>7 DEF Remains, Sends
    <3>2. /\ uart.at + 1 \in 1 .. Chars /\ (uart.at + 1) - 1 = uart.at
          /\ uart.at < PrintSize
      BY <1>3, <2>2, <3>1
    <3>3. dr'.byte = <<m, uart.at + 1>>
      BY <1>6, <3>1, <3>2 DEF byte
    <3>4. \A j \in T!SentOf(m) : line[j].byte[2] < uart.at + 1
      BY <1>3, <2>5, <3>1
    <3>5. dr'.byte \in {m} \X (1 .. Chars) /\ dr'.byte[2] = uart.at + 1
      BY <3>2, <3>3
    <3>6. NextByte(m)'
      BY <1>1, <1>8, <2>2, <3>4, <3>5 DEF NextByte
    <3>7. Remains(m)'
      <4>1. Sends(m)' => uart'.left >= 1
        BY <1>3, <1>4 DEF Sends
      <4>2. uart'.at + uart'.left = Chars
        BY <1>3, <1>4, <2>2, <3>1
      <4>3. \A j \in T!SentOf(m)' : line'[j].byte[2] <= uart'.at
        BY <1>1, <1>3, <1>4, <1>8, <2>5, <3>4
      <4>4. dr'.byte[2] <= uart'.at
        BY <1>3, <1>4, <3>5
      <4> QED
        BY <1>1, <2>2, <3>1, <4>1, <4>2, <4>3, <4>4 DEF Remains
    <3>8. Spent(m)'
      <4>1. Cardinality(T!SentOf(m)) + seen.lost[m] <= uart.at
        BY <1>1, <1>3, <1>8, <2>1, <2>4, <2>7 DEF Spent, Sends
      <4>2. uart'.at = uart.at + 1 /\ uart.at + 1 <= Chars
        BY <1>4, <3>2
      <4> QED
        BY <1>1, <1>3, <2>2, <2>4, <4>1, <4>2 DEF Spent
    <3> QED
      BY <2>3, <3>6, <3>7, <3>8
  <2> QED
    BY <2>6, <2>7
<1>12. uart'.en => uart.en
  BY <1>1
<1> QED
  BY <1>1, <1>7, <1>10, <1>11, <1>12, HardwarePrints

LEMMA ShiftPrints ==
  ASSUME Prints, UNCHANGED part, T!Shift \/ E!Shift
  PROVE  Prints'
<1>1. /\ dr # None /\ dr' = None
      /\ line' = IF dr.carrier # 0 THEN Append(line, dr) ELSE line
      /\ UNCHANGED <<print_buf, offset, pr, uart, count, seen>>
  BY DEF T!Shift, E!Shift
<1>2. PrintTyped /\ Fresh /\ Whole
  BY DEF Prints
<1>3. dr \in SentByte /\ line \in Seq(SentByte)
  BY <1>1, <1>2 DEF PrintTyped
<1>4. line' \in Seq(SentByte)
  BY <1>1, <1>3, SentGrows
<1>5. PrintTyped'
  BY <1>1, <1>2, <1>4 DEF PrintTyped
<1>6. \A m : ~InDr(m)'
  BY <1>1 DEF InDr
<1>7. ASSUME NEW m \in T!Message, ~InDr(m)
      PROVE  /\ T!SentOf(m)' = T!SentOf(m)
             /\ \A j \in T!SentOf(m) : line'[j] = line[j]
  <2>1. dr.carrier # m
    BY <1>1, <1>7 DEF InDr
  <2>2. CASE dr.carrier = 0
    BY <1>1, <2>2 DEF T!SentOf
  <2>3. CASE dr.carrier # 0
    BY <1>1, <1>3, <2>1, <2>3, SentGrows, SentAre
  <2> QED
    BY <2>2, <2>3
<1>8. Fresh'
  <2>1. \A q : Makes(q)' <=> Makes(q)
    BY <1>1 DEF Makes
  <2> QED
    BY <1>1, <1>2, <1>6, <1>7, <2>1 DEF Fresh, T!Message
<1>9. ASSUME NEW m \in Undisturbed
      PROVE  (InOrder(m) /\ NextByte(m) /\ Remains(m) /\ Spent(m))'
  <2>1. InOrder(m) /\ NextByte(m) /\ Remains(m) /\ Spent(m)
    BY <1>2 DEF Whole
  <2>2. Chars' = Chars /\ m \in T!Message
    BY DEF Chars, Undisturbed
  <2>3. Sends(m)' <=> Sends(m)
    BY <1>1 DEF Sends
  <2>4. NextByte(m)'
    BY <1>6 DEF NextByte
  <2>5. CASE ~InDr(m)
    <3>1. /\ T!SentOf(m)' = T!SentOf(m)
          /\ \A j \in T!SentOf(m) : line'[j] = line[j]
      BY <1>7, <2>2, <2>5
    <3>2. InOrder(m)'
      BY <2>1, <2>2, <3>1 DEF InOrder
    <3>3. Remains(m)'
      BY <1>1, <1>6, <2>1, <2>2, <2>3, <3>1 DEF Remains
    <3>4. Spent(m)'
      <4>1. Cardinality(T!SentOf(m))' = Cardinality(T!SentOf(m))
        BY <3>1
      <4> QED
        BY <1>1, <1>6, <2>1, <2>2, <2>3, <2>5, <4>1 DEF Spent
    <3> QED
      BY <2>4, <3>2, <3>3, <3>4
  <2>6. CASE InDr(m)
    <3> DEFINE last == Len(line) + 1
    <3>1. dr.carrier = m /\ m # 0
      BY <2>2, <2>6, PrintConstants DEF InDr
    <3>2. /\ T!SentOf(m)' = T!SentOf(m) \cup {last}
          /\ Cardinality(T!SentOf(m))' = Cardinality(T!SentOf(m)) + 1
          /\ \A j \in 1 .. Len(line) : line'[j] = line[j]
          /\ line'[last] = dr /\ last \in Nat
      BY <1>1, <1>3, <3>1, SentGrows
    <3>3. \A j \in T!SentOf(m) : j \in Nat /\ j < last /\ line'[j] = line[j]
      BY <1>3, <3>2, SentAre
    <3>4. /\ dr.byte \in {m} \X (1 .. Chars)
          /\ \A j \in T!SentOf(m) : line[j].byte[2] < dr.byte[2]
      BY <2>1, <2>6 DEF NextByte
    <3> HIDE DEF last
    <3>5. InOrder(m)'
      <4>1. \A j \in T!SentOf(m)' : line'[j].byte \in {m} \X (1 .. Chars)
        BY <2>1, <3>2, <3>3, <3>4 DEF InOrder
      <4>2. ASSUME NEW j \in T!SentOf(m)', NEW l \in T!SentOf(m)', j < l
            PROVE  line'[j].byte[2] < line'[l].byte[2]
        <5>1. j \in T!SentOf(m)
          BY <3>2, <3>3, <4>2
        <5>2. CASE l \in T!SentOf(m)
          BY <2>1, <3>3, <4>2, <5>1, <5>2 DEF InOrder
        <5>3. CASE l = last
          BY <3>2, <3>3, <3>4, <5>1, <5>3
        <5> QED
          BY <3>2, <5>2, <5>3
      <4> QED
        BY <2>2, <4>1, <4>2 DEF InOrder
    <3>6. Remains(m)'
      <4>1. Sends(m) => \A j \in T!SentOf(m)' : line'[j].byte[2] <= uart.at
        BY <2>1, <2>6, <3>2, <3>3 DEF Remains
      <4> QED
        BY <1>1, <1>6, <2>1, <2>2, <2>3, <4>1 DEF Remains
    <3>7. Spent(m)'
      <4>1. /\ Cardinality(T!SentOf(m)) \in Nat /\ seen.lost[m] \in Nat
            /\ uart.at \in Nat /\ Chars \in Nat
        BY <1>2, <2>2, SentAre, PrintConstants DEF PrintTyped
      <4> QED
        BY <1>1, <1>6, <2>1, <2>2, <2>3, <2>6, <3>2, <4>1 DEF Spent
    <3> QED
      BY <2>4, <3>5, <3>6, <3>7
  <2> QED
    BY <2>5, <2>6
<1> QED
  BY <1>1, <1>5, <1>8, <1>9, HardwarePrints

LEMMA EchoPrints ==
  ASSUME Prints, UNCHANGED part, T!Echo \/ E!Echo
  PROVE  Prints'
<1> DEFINE lostByte == IF dr # None /\ dr.carrier # 0
                       THEN [seen EXCEPT !.lost[dr.carrier] = @ + 1] ELSE seen
<1>1. /\ dr' = [carrier |-> 0, byte |-> None]
      /\ seen' = lostByte
      /\ count' = [count EXCEPT !.echoes = @ + 1]
      /\ UNCHANGED <<print_buf, offset, pr, uart, line>>
  BY DEF T!Echo, E!Echo, T!LostByte, E!LostByte
<1>2. PrintTyped /\ Fresh /\ Whole
  BY DEF Prints
<1>3. /\ seen'.lost \in [T!Message -> Nat] /\ seen'.size = seen.size
      /\ seen'.mixed = seen.mixed /\ seen'.raced = seen.raced
      /\ seen'.early = seen.early
      /\ seen' \in [size : [T!Message -> Int], lost : [T!Message -> Nat],
                   mixed : SUBSET Nat, raced : SUBSET Nat,
                   early : SUBSET Nat]
      /\ \A m \in T!Message :
           seen'.lost[m] = IF InDr(m) THEN seen.lost[m] + 1 ELSE seen.lost[m]
  <2>1. seen \in [size : [T!Message -> Int], lost : [T!Message -> Nat],
                  mixed : SUBSET Nat, raced : SUBSET Nat,
                  early : SUBSET Nat]
    BY <1>2 DEF PrintTyped
  <2>2. \A m \in T!Message : m # 0
    BY PrintConstants
  <2>3. CASE dr # None /\ dr.carrier # 0
    <3>1. seen' = [seen EXCEPT !.lost[dr.carrier] = @ + 1]
      BY <1>1, <2>3
    <3> DEFINE now == [seen.lost EXCEPT ![dr.carrier] = @ + 1]
    <3>2. seen' = [seen EXCEPT !.lost = now]
      BY <3>1
    <3>3. seen.lost \in [T!Message -> Nat]
      BY <2>1
    <3>4. \A m \in T!Message :
            now[m] = IF m = dr.carrier THEN seen.lost[m] + 1 ELSE seen.lost[m]
      BY <3>3
    <3>5. now \in [T!Message -> Nat]
      <4>1. now = [m \in T!Message |-> now[m]]
        BY <3>3
      <4>2. \A m \in T!Message : now[m] \in Nat
        BY <3>3, <3>4
      <4> HIDE DEF now
      <4> QED
        BY <4>1, <4>2
    <3> HIDE DEF now
    <3> QED
      BY <2>1, <2>3, <3>2, <3>4, <3>5 DEF InDr
  <2>4. CASE dr = None \/ dr.carrier = 0
    <3>1. seen' = seen
      BY <1>1, <2>4
    <3> QED
      BY <2>1, <2>2, <2>4, <3>1 DEF InDr
  <2> QED
    BY <2>3, <2>4
<1> HIDE DEF lostByte
<1>4. /\ count' \in [messages : 0 .. MaxMessages, starts : Nat, echoes : Nat]
      /\ count'.messages = count.messages /\ count'.starts = count.starts
  <2>1. count' = [count EXCEPT !.echoes = @ + 1]
    BY <1>1
  <2>2. count \in [messages : 0 .. MaxMessages, starts : Nat, echoes : Nat]
    BY <1>2 DEF PrintTyped
  <2> QED
    BY <2>1, <2>2
<1>5. PrintTyped'
  <2>1. dr' \in SentByte
    BY <1>1 DEF SentByte, PrintByte
  <2> QED
    BY <1>1, <1>2, <1>3, <1>4, <2>1 DEF PrintTyped
<1>6. \A m \in T!Message : T!SentOf(m)' = T!SentOf(m) /\ ~InDr(m)'
  BY <1>1, PrintConstants DEF T!SentOf, InDr
<1>7. Fresh'
  <2>1. \A q : Makes(q)' <=> Makes(q)
    BY <1>1 DEF Makes
  <2> QED
    BY <1>1, <1>2, <1>3, <1>4, <1>6, <2>1 DEF Fresh, T!Message
<1>8. ASSUME NEW m \in Undisturbed
      PROVE  (InOrder(m) /\ NextByte(m) /\ Remains(m) /\ Spent(m))'
  <2>1. InOrder(m) /\ NextByte(m) /\ Remains(m) /\ Spent(m)
    BY <1>2 DEF Whole
  <2>2. Chars' = Chars /\ m \in T!Message /\ (Sends(m)' <=> Sends(m))
    BY <1>1 DEF Chars, Undisturbed, Sends
  <2>3. InOrder(m)' /\ NextByte(m)'
    BY <1>1, <1>6, <2>1, <2>2 DEF InOrder, NextByte
  <2>4. Remains(m)'
    BY <1>1, <1>6, <2>1, <2>2 DEF Remains
  <2>5. Spent(m)'
    <3>1. /\ Cardinality(T!SentOf(m)) \in Nat /\ seen.lost[m] \in Nat
          /\ uart.at \in Nat /\ Chars \in Nat
      BY <1>2, <2>2, SentAre, PrintConstants DEF PrintTyped
    <3>2. Cardinality(T!SentOf(m))' = Cardinality(T!SentOf(m))
      BY <1>6, <2>2
    <3> QED
      BY <1>1, <1>3, <1>6, <2>1, <2>2, <3>1, <3>2 DEF Spent
  <2> QED
    BY <2>3, <2>4, <2>5
<1> QED
  BY <1>1, <1>3, <1>4, <1>5, <1>7, <1>8, HardwarePrints

LEMMA InitPrints == ASSUME Init PROVE Prints
<1>1. /\ print_buf = [a \in 0 .. PrintSize - 1 |-> None] /\ offset = 0
      /\ pr = [p \in T!Printers |-> T!Idle]
      /\ uart = [en |-> FALSE, id |-> 0, at |-> 0, left |-> 0,
                 tcif |-> FALSE]
      /\ dr = None /\ line = <<>>
      /\ count = [messages |-> 0, starts |-> 0, echoes |-> 0]
      /\ seen = [size |-> [m \in T!Message |-> 0],
                 lost |-> [m \in T!Message |-> 0],
                 mixed |-> {}, raced |-> {}, early |-> {}]
  BY DEF Init, T!Init
<1>2. T!Idle \in PrinterType /\ T!Idle.pc = "idle"
  BY PrintConstants DEF T!Idle, PrinterType
<1>3. \A p \in T!Printers : pr[p].pc = "idle"
  BY <1>1, <1>2
<1>4. T!Printing = {} /\ \A p : ~Makes(p)
  BY <1>3 DEF T!Printing, Makes
<1>5. \A m : T!SentOf(m) = {} /\ ~InDr(m) /\ ~Sends(m)
  <2>1. DOMAIN line = {}
    BY <1>1
  <2> QED
    BY <1>1, <2>1 DEF T!SentOf, InDr, Sends
<1>6. \A m \in T!Message : seen.lost[m] = 0 /\ m # 0
  BY <1>1, PrintConstants
<1>7. PrintTyped
  <2>1. print_buf \in [0 .. PrintSize - 1 -> PrintByte]
    BY <1>1 DEF PrintByte
  <2>2. uart \in [en : BOOLEAN, id : 0 .. MaxMessages, at : Nat, left : Int,
                  tcif : BOOLEAN]
    BY <1>1, PrintConstants
  <2>3. count \in [messages : 0 .. MaxMessages, starts : Nat, echoes : Nat]
    BY <1>1, PrintConstants
  <2>4. seen \in [size : [T!Message -> Int], lost : [T!Message -> Nat],
                  mixed : SUBSET Nat, raced : SUBSET Nat,
                  early : SUBSET Nat]
    BY <1>1
  <2> QED
    BY <1>1, <1>2, <2>1, <2>2, <2>3, <2>4 DEF PrintTyped
<1>8. Apiece /\ Alone /\ OwnBuffer
  BY <1>1, <1>4 DEF Apiece, Alone, OwnBuffer
<1>9. Tested
  BY <1>3 DEF Tested
<1>10. Fresh
  BY <1>1, <1>5, <1>6 DEF Fresh
<1>11. Whole
  <2>1. ASSUME NEW m \in T!Message PROVE Spent(m)
    <3>1. Cardinality(T!SentOf(m)) = 0
      BY <1>5, FS_EmptySet
    <3>2. Chars \in Nat
      BY PrintConstants
    <3> QED
      BY <1>5, <1>6, <3>1, <3>2 DEF Spent
  <2> QED
    BY <1>5, <2>1 DEF Whole, Undisturbed, InOrder, NextByte, Remains
<1> QED
  BY <1>7, <1>8, <1>9, <1>10, <1>11 DEF Prints

LEMMA NextPrints == ASSUME Prints, [Next]_vars PROVE Prints'
<1>1. CASE UNCHANGED printVars
  <2>1. UNCHANGED <<print_buf, offset, pr, uart, dr, line, count, seen, part>>
    BY <1>1, PrintSteps DEF printVars
  <2>2. PrintTyped' /\ Apiece' /\ Alone' /\ Tested'
    BY <2>1 DEF Prints, PrintTyped, Apiece, Alone, Tested, T!Printing, Makes,
       Mixes
  <2>3. OwnBuffer'
    BY <2>1 DEF Prints, OwnBuffer, T!Printing, Makes, Mixes, Printed, Chars
  <2>4. Fresh'
    BY <2>1, QuietFresh DEF Prints, Makes
  <2>5. Whole'
    BY <2>1, QuietWhole DEF Prints, Whole, Undisturbed, Sends, T!Message
  <2> QED
    BY <2>2, <2>3, <2>4, <2>5 DEF Prints
<1>2. CASE part = "threads" /\ T!Next
  <2>1. CASE \E p \in T!Printers : T!Call(p) \/ T!Step(p)
    BY <1>2, <2>1, PrintSteps, CallingPrints, PutPrints, LoadPrints,
       StorePrints, TestPrints, ProgramPrints, ResetPrints DEF T!Step
  <2>2. CASE T!Irq \/ T!Send \/ T!Shift \/ T!Echo
    BY <2>2, PrintSteps, IrqPrints, SendPrints, ShiftPrints, EchoPrints
  <2> QED
    BY <1>2, <2>1, <2>2 DEF T!Next
<1>3. CASE part = "echo" /\ E!Next
  <2>1. CASE \E p \in T!Printers : E!Call(p) \/ E!Step(p)
    BY <1>3, <2>1, PrintSteps, CallingPrints, PutPrints, LoadPrints,
       StorePrints, TestPrints, ProgramPrints, ResetPrints DEF E!Step
  <2>2. CASE E!Irq \/ E!Send \/ E!Shift \/ E!Echo
    BY <2>2, PrintSteps, IrqPrints, SendPrints, ShiftPrints, EchoPrints
  <2>3. E!Printers = T!Printers
    BY DEF T!Printers, E!Printers
  <2> QED
    BY <1>3, <2>1, <2>2, <2>3 DEF E!Next
<1> QED
  BY <1>1, <1>2, <1>3, PrintSteps

LEMMA SameCardinality ==
  \A X : T!Cardinality(X) = Cardinality(X) /\ E!Cardinality(X) = Cardinality(X)
  BY Zenon DEF Cardinality, T!Cardinality, E!Cardinality

LEMMA PrintsWhole == ASSUME Prints PROVE WholeUnlessMixed
<1>1. PrintTyped /\ OwnBuffer /\ Whole
  BY DEF Prints
<1>2. T!AloneIsExact
  <2>1. ASSUME NEW p \in T!Printing, pr[p].id \notin seen.mixed,
               pr[p].pc \in {"put", "test", "program"}
        PROVE  /\ offset = pr[p].i
               /\ \A n \in 1 .. pr[p].i : print_buf[n - 1] = <<pr[p].id, n>>
    <3>1. p \in T!Printers /\ Makes(p) /\ ~Mixes(p) /\ Printed(p) = pr[p].i
      BY <2>1 DEF T!Printing, Makes, Mixes, Printed
    <3> QED
      BY <1>1, <3>1 DEF OwnBuffer
  <2> QED
    BY <1>1, <2>1 DEF T!AloneIsExact, OwnBuffer
<1>3. E!AloneIsExact
  <2>1. E!Printing = T!Printing
    BY DEF T!Printing, E!Printing, T!Printers, E!Printers
  <2> QED
    BY <1>2, <2>1 DEF T!AloneIsExact, E!AloneIsExact
<1>4. ASSUME NEW m \in T!Message \ (seen.mixed \cup seen.raced)
      PROVE  /\ \A j \in T!SentOf(m) :
                  line[j].byte # None /\ line[j].byte[1] = m
             /\ \A j, l \in T!SentOf(m) :
                  j < l => line[j].byte[2] < line[l].byte[2]
             /\ Cardinality(T!SentOf(m)) + seen.lost[m] <= Chars
  <2>1. InOrder(m) /\ Remains(m) /\ Spent(m)
    BY <1>1 DEF Whole, Undisturbed
  <2>2. None \notin {m} \X (1 .. Chars)
    BY UartAssumption DEF T!PrintAssumption, E!PrintAssumption, T!Message,
       Chars
  <2>3. \A x \in {m} \X (1 .. Chars) : x # None /\ x[1] = m
    BY <2>2
  <2>4. Cardinality(T!SentOf(m)) + seen.lost[m] <= Chars
    <3>1. /\ Cardinality(T!SentOf(m)) \in Nat /\ seen.lost[m] \in Nat
          /\ uart.at \in Nat /\ uart.left \in Int /\ Chars \in Nat
      BY <1>1, SentAre, PrintConstants DEF PrintTyped
    <3> QED
      BY <2>1, <3>1 DEF Spent, Remains
  <2> QED
    BY <2>1, <2>3, <2>4 DEF InOrder
<1>5. part = "threads" => T!WholeUnlessMixed
  <2>1. part = "threads" => Chars = Length
    BY DEF Chars
  <2> SUFFICES ASSUME part = "threads" PROVE T!WholeUnlessMixed
    OBVIOUS
  <2>2. ASSUME NEW m \in T!Message \ (seen.mixed \cup seen.raced)
        PROVE  /\ \A j \in T!SentOf(m) :
                    line[j].byte # None /\ line[j].byte[1] = m
               /\ \A j, l \in T!SentOf(m) :
                    j < l => line[j].byte[2] < line[l].byte[2]
               /\ Cardinality(T!SentOf(m)) + seen.lost[m] <= Length
    BY <1>4, <2>1
  <2> QED
    BY <2>2, SameCardinality DEF T!WholeUnlessMixed
<1>6. part = "echo" => E!WholeUnlessMixed
  <2>1. \A m : E!SentOf(m) = T!SentOf(m)
    BY DEF E!SentOf, T!SentOf
  <2>2. E!Message = T!Message
    BY DEF E!Message, T!Message
  <2>3. part = "echo" => Chars = EchoLength
    BY DEF Chars
  <2> SUFFICES ASSUME part = "echo" PROVE E!WholeUnlessMixed
    OBVIOUS
  <2>4. ASSUME NEW m \in E!Message \ (seen.mixed \cup seen.raced)
        PROVE  /\ \A j \in E!SentOf(m) :
                    line[j].byte # None /\ line[j].byte[1] = m
               /\ \A j, l \in E!SentOf(m) :
                    j < l => line[j].byte[2] < line[l].byte[2]
               /\ Cardinality(E!SentOf(m)) + seen.lost[m] <= EchoLength
    BY <1>4, <2>1, <2>2, <2>3
  <2> QED
    BY <2>4, SameCardinality DEF E!WholeUnlessMixed
<1> QED
  BY <1>2, <1>3, <1>5, <1>6 DEF WholeUnlessMixed

\* What arrives of a message of printf_ is whole and in its order, unless
\* another printf_ ran while it was printed or sent, or started the stream
\* between its test and its start; and the next message starts in a clean
\* buffer, whatever was mixed before (driver_UART.c:81, driver_DMA.c:143).
THEOREM WholeAlwaysUnlessMixed == Spec => []WholeUnlessMixed
<1>1. Init => Prints
  BY InitPrints
<1>2. Prints /\ [Next]_vars => Prints'
  BY NextPrints
<1>3. Prints => WholeUnlessMixed
  BY PrintsWhole
<1> QED
  BY <1>1, <1>2, <1>3, PTL DEF Spec
=============================================================================
