----------------------------- MODULE DmaStreams -----------------------------
(***************************************************************************)
(* The streams of DMA2 on the F4 (F4/driver_DMA.c): threads copy and fill  *)
(* memory through any free stream, DMA_memory_driver, and send through the *)
(* stream of their peripheral, DMA_peripheral_driver.  Between the test of *)
(* EN and the write that sets it a thread can be switched.                 *)
(*                                                                         *)
(*   req      the requests so far: kind, size, align (see Units) and       *)
(*            whether an address is NULL                                   *)
(*   call     of each thread: the request, the stream, the statements that *)
(*            are left, CR as loaded for CR |= 1; and as bookkeeping the   *)
(*            streams free all the time, and whether the scan found one    *)
(*   stream   mode (CR but for EN), EN, NDTR, and the requests that wrote  *)
(*            PAR and M0AR, 0 for NULL; by: the request that set EN        *)
(*   done     the transfers done with the source of a request              *)
(*   raced    requests that had a stream tested and not started when       *)
(*            another one tested it as well                                *)
(*                                                                         *)
(* The interrupt of a stream comes before threads go on, so DMA_IRQHandler *)
(* is part of the step that raises it.  A message of printf_ in the        *)
(* handler of a timer is the subject of UartPrint.                         *)
(***************************************************************************)
EXTENDS Integers, Sequences

CONSTANTS Threads,
          StreamCount,  \* DMA_STREAM_NUMBER
          Width,        \* bits of NDTR
          Requests,     \* what may be asked for
          MaxCalls      \* bound of the models

StreamAssumption ==
  /\ StreamCount \in Nat \ {0} /\ Width \in Nat \ {0}
  /\ \A r \in Requests : /\ r.kind \in {"copy", "set", "send"}
                         /\ r.size \in Nat /\ r.align \in 0 .. 2
                         /\ r.null \in BOOLEAN

VARIABLES req, call, stream, done, raced

vars == <<req, call, stream, done, raced>>

Stream == 0 .. StreamCount - 1
Id == 1 .. MaxCalls

\* The last stream is that of the peripheral, as stream 7 is of UART1.
Last == StreamCount - 1

\* Mutant: NDTR is taken for as wide as size.
UnitsWide(r) == req[r].size \div (2 ^ req[r].align)

\* size >>= align, and NDTR keeps Width bits of it.
Units(r) == (req[r].size \div (2 ^ req[r].align)) % (2 ^ Width)

Free == [mode |-> "none", en |-> FALSE, n |-> 0, par |-> 0, m0 |-> 0, by |-> 0]
Idle == [id |-> 0, s |-> 0, left |-> <<>>, cr |-> "none", free |-> {},
         found |-> FALSE]

Busy(s) == stream[s].en

\* The statements of the two drivers.
Memory == <<"scan", "test", "cr", "ndtr", "par", "m0ar", "load", "store">>
Peripheral == <<"test", "m0ar", "par", "ndtr", "cr", "load", "store">>

At(t, statement) == call[t].left # <<>> /\ Head(call[t].left) = statement
Goes(t) == [call EXCEPT ![t].left = Tail(@)]

Init == /\ req = <<>>
        /\ call = [t \in Threads |-> Idle]
        /\ stream = [s \in Stream |-> Free]
        /\ done = [r \in {0} \cup Id |-> <<>>]
        /\ raced = {}

\* Mutant: a size of 0 is not refused.
RejectedLess(r) == r.kind = "send" /\ r.null

Rejected(r) == r.size = 0 \/ (r.kind = "send" /\ r.null)

Call(t) ==
  /\ call[t] = Idle /\ Len(req) < MaxCalls
  /\ \E r \in Requests :
       /\ req' = Append(req, r)
       /\ call' = IF Rejected(r) THEN call
                  ELSE [call EXCEPT ![t] =
                         [Idle EXCEPT
                           !.id = Len(req) + 1,
                           !.s = IF r.kind = "send" THEN Last ELSE 0,
                           !.left = IF r.kind = "send" THEN Peripheral
                                    ELSE Memory,
                           !.free = {s \in Stream : ~Busy(s)}]]
  /\ UNCHANGED <<stream, done, raced>>

\* A turn of the for loop.
Scan(t) ==
  /\ At(t, "scan")
  /\ LET s == call[t].s
     IN call' = IF Busy(s) /\ s < Last THEN [call EXCEPT ![t].s = s + 1]
                ELSE [Goes(t) EXCEPT ![t].found = ~Busy(s)]
  /\ UNCHANGED <<req, stream, done, raced>>

\* Mutant: the stream is taken as it is.
TestedNever(t) == FALSE

Tested(t) == Busy(call[t].s)

\* The requests with a stream of their own that is not started yet.
Claims(s) == {call[t].id : t \in {u \in Threads :
                /\ call[u].left # <<>> /\ call[u].s = s
                /\ Head(call[u].left) \notin {"scan", "test"}}}

\* The test of EN, a second one for a copy: NULL or busy, or the stream.
Test(t) ==
  /\ At(t, "test")
  /\ call' = IF Tested(t) THEN [call EXCEPT ![t] = Idle] ELSE Goes(t)
  /\ raced' = IF Tested(t) \/ Claims(call[t].s) = {} THEN raced
              ELSE raced \cup Claims(call[t].s) \cup {call[t].id}
  /\ UNCHANGED <<req, stream, done>>

\* A write to a register of the stream.  NDTR and the addresses cannot be
\* written while EN is set; CR clears EN, which raises the interrupt, and the
\* handler sets CR to 0.
Written(s, statement, r) ==
  LET address == IF req[r].null THEN 0 ELSE r
  IN IF statement = "cr"
     THEN [stream EXCEPT ![s].en = FALSE,
                         ![s].mode = IF Busy(s) THEN "none" ELSE req[r].kind]
     ELSE IF Busy(s) THEN stream
     ELSE CASE statement = "ndtr" -> [stream EXCEPT ![s].n = Units(r)]
            [] statement = "par" -> [stream EXCEPT ![s].par = address]
            [] statement = "m0ar" -> [stream EXCEPT ![s].m0 = address]

Write(t) ==
  /\ \E statement \in {"cr", "ndtr", "par", "m0ar"} :
       /\ At(t, statement)
       /\ stream' = Written(call[t].s, statement, call[t].id)
  /\ call' = Goes(t)
  /\ UNCHANGED <<req, done, raced>>

\* Both addresses are read back; CR |= 1 loads CR.
Load(t) ==
  /\ At(t, "load")
  /\ LET s == call[t].s
     IN call' = IF stream[s].m0 # 0 /\ stream[s].par # 0
                THEN [Goes(t) EXCEPT ![t].cr = stream[s].mode]
                ELSE [call EXCEPT ![t] = Idle]
  /\ UNCHANGED <<req, stream, done, raced>>

\* CR |= 1 stores CR, which cannot be changed while EN is set.
Store(t) ==
  /\ At(t, "store")
  /\ LET s == call[t].s
     IN /\ stream' = IF Busy(s) THEN stream
                     ELSE [stream EXCEPT ![s].en = TRUE, ![s].mode = call[t].cr,
                                         ![s].by = call[t].id]
        /\ call' = [u \in Threads |->
                     IF u = t THEN Idle
                     ELSE [call[u] EXCEPT !.free = @ \ {s}]]
  /\ UNCHANGED <<req, done, raced>>

AfterEnd(s) == [stream[s] EXCEPT !.en = FALSE, !.mode = "none", !.n = 0]

\* The hardware moves what NDTR says, and the handler sets CR to 0.  A stream
\* with NDTR 0, or with nothing but EN in CR, moves nothing.
End(s) ==
  /\ Busy(s) /\ stream[s].mode # "none" /\ stream[s].n > 0
  /\ done' = [done EXCEPT ![stream[s].par] =
               Append(@, [mode |-> stream[s].mode, n |-> stream[s].n,
                          m0 |-> stream[s].m0])]
  /\ stream' = [stream EXCEPT ![s] = AfterEnd(s)]
  /\ UNCHANGED <<req, call, raced>>

Next == \/ \E t \in Threads :
             Call(t) \/ Scan(t) \/ Test(t) \/ Write(t) \/ Load(t) \/ Store(t)
        \/ \E s \in Stream : End(s)

\* A stream that moves data goes on; threads need not.
Spec == Init /\ [][Next]_vars /\ \A s \in Stream : WF_vars(End(s))

-----------------------------------------------------------------------------
\* A request for less than one unit, or for a multiple of what NDTR counts.
Unmovable(r) == r \in DOMAIN req /\ req[r].size > 0 /\ Units(r) = 0

TypeOK == /\ raced \subseteq DOMAIN req
          /\ \A s \in Stream : /\ stream[s].n \in 0 .. 2 ^ Width - 1
                               /\ {stream[s].par, stream[s].m0, stream[s].by}
                                    \subseteq {0} \cup DOMAIN req
          /\ \A t \in Threads : call[t].s \in Stream

\* A request moves its own data, once, all units of it and in its own mode;
\* unless another one took its stream between its test and its start
\* (F4/driver_DMA.c:72-96, 143-157).
ExactUnlessRaced ==
  \A r \in DOMAIN req \ raced :
    done[r] \in {<<>>, <<[mode |-> req[r].kind, n |-> Units(r), m0 |-> r]>>}

\* A stream that is busy for good was started for less than one unit, for a
\* multiple of what NDTR counts, or by two requests (lines 54-67, 89, 97).
StuckHasCause ==
  \A s \in Stream :
    Busy(s) /\ (stream[s].mode = "none" \/ stream[s].n = 0) =>
      stream[s].by \in raced \/ Unmovable(stream[s].by)

\* A copy is refused only if every stream has been busy during the call, or
\* the one that it had found was taken: another free one is not tried then.  A
\* peripheral is refused only for its own stream (lines 69-76, 143).
RefusedHasCause ==
  [][\A t \in Threads :
       At(t, "test") /\ call'[t] = Idle =>
         IF req[call[t].id].kind = "send" THEN Last \notin call[t].free
         ELSE call[t].free = {} \/ call[t].found]_vars

\* What is started is done (lines 97, 305).
StartedIsDone ==
  \A r \in Id :
    (\E s \in Stream : Busy(s) /\ stream[s].by = r) ~>
      done[r] # <<>> \/ r \in raced \/ Unmovable(r)
=============================================================================
