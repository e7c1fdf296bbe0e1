------------------------- MODULE CameraSessionProofs -------------------------
(***************************************************************************)
(* The session implements CaptureService, flush() is complete and no freed *)
(* buffer is written, for any number of requests, streams, buffers and     *)
(* binder threads.                                                         *)
(***************************************************************************)
EXTENDS CameraSession, SequenceTheorems, TLAPS

\* One while the worker has a request that it has not answered.
Held == IF worker \in {"capture", "write", "answer", "fail"} THEN 1 ELSE 0

\* What is accepted is what was answered, the request the worker is at, and the
\* queue, in this order.
LineInv ==
    /\ Len(accepted) = Len(answered) + Held + Len(queue)
    /\ Held = 1 => accepted[Len(answered) + 1] = current.id
    /\ \A i \in 1 .. Len(queue) : accepted[Len(answered) + Held + i] = queue[i].id

\* Requests are numbered in the order they are made, and only the one between
\* Prepare() and the queue is pending.
NumberInv ==
    /\ \A i \in 1 .. Len(accepted) : accepted[i] <= next
    /\ submit # "idle" => next > 0 /\ \A i \in 1 .. Len(accepted) : accepted[i] < next
    /\ submit = "prepared" => pending.id = next
    /\ submit # "prepared" => pending = NoRequest

\* Buffers are only freed under a request once the worker is gone.
FreeInv ==
    /\ freed # {} => worker = "exited"
    /\ worker \in {"wait", "exited"} => current = NoRequest

LogInv ==
    /\ accepted \in Seq(Requests)
    /\ answered \in Seq([request : Requests, outcome : Outcomes])

SessionInv == TypeOK /\ LogInv /\ LineInv /\ NumberInv /\ FreeInv

\* Places in a line of a that are answered, h in progress and q queued.
LEMMA Places ==
    ASSUME NEW n \in Nat, NEW a \in Nat, NEW h \in {0, 1}, NEW q \in Nat, n = a + h + q
    PROVE  /\ n + 1 = a + h + (q + 1)
           /\ \A i \in 1 .. q : a + h + i \in 1 .. n
           /\ h = 1 => a + 1 \in 1 .. n
           /\ a + h + (q + 1) = n + 1
           /\ \A i \in 1 .. q + 1 : i \in 1 .. q \/ i = q + 1
           /\ n + 1 \notin 1 .. n
    OBVIOUS

\* Places once the worker has the first of q queued requests.
LEMMA PlacesTaken ==
    ASSUME NEW n \in Nat, NEW a \in Nat, NEW q \in Nat, n = a + 0 + q, q >= 1
    PROVE  /\ n = a + 1 + (q - 1)
           /\ 1 \in 1 .. q /\ a + 0 + 1 = a + 1
           /\ \A i \in 1 .. q - 1 : i + 1 \in 1 .. q /\ a + 0 + (i + 1) = a + 1 + i
    OBVIOUS

\* Places once it has answered it.
LEMMA PlacesAnswered ==
    ASSUME NEW n \in Nat, NEW a \in Nat, NEW q \in Nat, n = a + 1 + q
    PROVE  /\ n = (a + 1) + 0 + q
           /\ \A i \in 1 .. q : (a + 1) + 0 + i = a + 1 + i
    OBVIOUS

\* The empty request is a request of the record type.
LEMMA NoRequestType == NoRequest \in RequestType
    BY SessionAssumption DEF NoRequest, RequestType

\* Taking the first request leaves the others in their order.
LEMMA WithoutFirst ==
    ASSUME queue \in Seq(RequestType), queue # <<>>
    PROVE  /\ Without(1) \in Seq(RequestType)
           /\ Len(queue) \in Nat /\ Len(queue) >= 1
           /\ Len(Without(1)) = Len(queue) - 1
           /\ \A i \in 1 .. Len(queue) - 1 : Without(1)[i] = queue[i + 1]
           /\ queue[1] \in RequestType
<1> DEFINE n == Len(queue)
           rest == SubSeq(queue, 2, n)
<1>1. n \in Nat /\ n >= 1 /\ \A i \in 1 .. n : queue[i] \in RequestType
    BY EmptySeq, LenProperties, ElementOfSeq
<1>2. SubSeq(queue, 1, 0) = <<>>
    BY SubSeqEmpty
<1>3. /\ rest \in Seq(RequestType) /\ Len(rest) = IF 2 <= n THEN n - 2 + 1 ELSE 0
      /\ \A i \in 1 .. n - 2 + 1 : rest[i] = queue[2 + i - 1]
    <2>1. 2 \in Int /\ n \in Int /\ \A i \in 2 .. n : queue[i] \in RequestType
        BY <1>1
    <2> HIDE DEF n
    <2> QED
        BY <2>1, SubSeqProperties
<1>4. Without(1) = rest
    BY <1>2, <1>3, ConcatEmptySeq DEF Without
<1>5. Len(rest) = n - 1
    <2>1. Len(rest) = IF 2 <= n THEN n - 2 + 1 ELSE 0
        BY <1>3
    <2> HIDE DEF n, rest
    <2> QED
        BY <1>1, <2>1
<1>6. ASSUME NEW i \in 1 .. n - 1
      PROVE  rest[i] = queue[i + 1]
    <2>1. i \in 1 .. n - 2 + 1 /\ 2 + i - 1 = i + 1
        BY <1>1
    <2>2. rest[i] = queue[2 + i - 1]
        BY <1>3, <2>1
    <2> QED
        BY <2>1, <2>2
<1>7. 1 \in 1 .. n
    BY <1>1
<1> QED
    BY <1>1, <1>3, <1>4, <1>5, <1>6, <1>7

\* What the worker has not answered lies behind what it has, and in front of it
\* lies the request it is at.
LEMMA LineTypes ==
    ASSUME SessionInv
    PROVE  /\ Len(accepted) \in Nat /\ Len(answered) \in Nat /\ Len(queue) \in Nat
           /\ Held \in {0, 1}
           /\ Held = 1 => Len(answered) < Len(accepted) /\ current.id \in Requests
           /\ \A i \in 1 .. Len(queue) : queue[i].id \in Requests
<1>1. Len(accepted) \in Nat /\ Len(answered) \in Nat /\ Len(queue) \in Nat
    BY LenProperties DEF SessionInv, LogInv, TypeOK
<1>2. Held \in {0, 1}
    BY DEF Held
<1>3. \A i \in 1 .. Len(accepted) : accepted[i] \in Requests
    BY ElementOfSeq DEF SessionInv, LogInv
<1>4. Held = 1 => Len(answered) < Len(accepted) /\ current.id \in Requests
    <2> HAVE Held = 1
    <2>1. Len(answered) + 1 \in 1 .. Len(accepted)
        BY <1>1 DEF SessionInv, LineInv
    <2> QED
        BY <1>1, <1>3, <2>1 DEF SessionInv, LineInv
<1>5. ASSUME NEW i \in 1 .. Len(queue)
      PROVE  queue[i].id \in Requests
    <2>1. Len(answered) + Held + i \in 1 .. Len(accepted)
        BY <1>1, <1>2 DEF SessionInv, LineInv
    <2> QED
        BY <1>3, <2>1 DEF SessionInv, LineInv
<1> QED
    BY <1>1, <1>2, <1>4, <1>5

\* Buffers that no request in flight holds are freed under nobody.
LEMMA FreeNothing ==
    ASSUME NEW bs, Free(bs), \A r \in InFlight : r.outputs \cap bs = {}
    PROVE  freed' = freed
    BY DEF Free

\* Only close() frees buffers under requests, and by then the worker is gone.
LEMMA FreeStep ==
    ASSUME SessionInv, [Next]_vars
    PROVE  FreeInv' /\ freed' \subseteq Requests
<1> USE DEF SessionInv, FreeInv
<1>0. freed \subseteq Requests
    BY DEF TypeOK
<1>1. ASSUME NEW ss \in SUBSET Streams, ConfigureStreams(ss)
      PROVE  FreeInv' /\ freed' \subseteq Requests
    <2>1. worker \in {"wait", "exited"} /\ queue = <<>> /\ current = NoRequest
        BY <1>1 DEF ConfigureStreams, Idle, TypeOK
    <2>2. InFlight = {NoRequest}
        BY <1>1, <2>1 DEF InFlight, ConfigureStreams, NumberInv
    <2>3. freed' = freed
        BY <1>1, <2>2, FreeNothing DEF ConfigureStreams, NoRequest
    <2> QED
        BY <1>0, <1>1, <2>3 DEF ConfigureStreams
<1>2. ASSUME NEW dropped \in SUBSET cache, ProcessCaptureRequest(dropped)
      PROVE  FreeInv' /\ freed' \subseteq Requests
    <2>1. \A r \in InFlight : r.outputs \cap dropped = {}
        BY <1>2 DEF ProcessCaptureRequest, OutputsInFlight
    <2>2. freed' = freed
        BY <1>2, <2>1, FreeNothing DEF ProcessCaptureRequest
    <2> QED
        BY <1>0, <1>2, <2>2 DEF ProcessCaptureRequest
<1>3. CASE CloseReturns
    <2>1. worker = "exited" /\ current = NoRequest
        BY <1>3 DEF CloseReturns, WorkerGone
    <2>2. worker' = "exited" /\ current' = NoRequest
        BY <1>3, <2>1 DEF CloseReturns
    <2>3. ASSUME NEW r \in InFlight, r.outputs \cap cache # {}
          PROVE  r.id \in Requests
        <3>1. CASE \E i \in 1 .. Len(queue) : r = queue[i]
            BY <3>1, LineTypes
        <3>2. CASE r = pending
            <4>1. submit = "prepared"
                BY <2>3, <3>2 DEF NumberInv, NoRequest
            <4> QED
                BY <3>2, <4>1, SessionAssumption DEF NumberInv, TypeOK, Requests
        <3>3. r # current
            BY <2>1, <2>3 DEF NoRequest
        <3> QED
            BY <2>3, <3>1, <3>2, <3>3 DEF InFlight
    <2>4. freed' \subseteq Requests
        BY <1>0, <1>3, <2>3 DEF CloseReturns, Free
    <2> QED
        BY <2>2, <2>4
<1>4. CASE TakeRequest
    BY <1>0, <1>4 DEF TakeRequest
<1>5. CASE Exit
    BY <1>0, <1>5 DEF Exit
<1>6. ASSUME NEW flash, NEW result, CaptureFrame(flash, result)
      PROVE  FreeInv' /\ freed' \subseteq Requests
    BY <1>0, <1>6 DEF CaptureFrame
<1>7. CASE WriteOutputs
    BY <1>0, <1>7 DEF WriteOutputs
<1>8. CASE Answer
    BY <1>0, <1>8 DEF Answer
<1>9. CASE Unbusy
    BY <1>0, <1>9 DEF Unbusy
<1>10. CASE Submit
    BY <1>0, <1>10 DEF Submit, Prepare, RejectRequest, QueueRequest
<1>11. CASE Close \/ \E c \in Controllers : Flush(c) \/ FlushReturns(c)
    BY <1>0, <1>11 DEF Close, Flush, FlushReturns, capture
<1>12. CASE UNCHANGED vars
    BY <1>0, <1>12 DEF vars
<1> QED
    BY <1>1, <1>2, <1>3, <1>4, <1>5, <1>6, <1>7, <1>8, <1>9, <1>10, <1>11, <1>12
    DEF Next, Framework, Return, Worker

\* Types of what the session and its client keep.
LEMMA TypeStep ==
    ASSUME SessionInv, [Next]_vars
    PROVE  TypeOK'
<1> USE SessionAssumption, NoRequestType DEF SessionInv
<1>0. freed' \subseteq Requests
    BY FreeStep
<1>1. ASSUME NEW ss \in SUBSET Streams, ConfigureStreams(ss)
      PROVE  TypeOK'
    BY <1>0, <1>1 DEF ConfigureStreams, Free, TypeOK, framework
<1>2. ASSUME NEW dropped \in SUBSET cache, ProcessCaptureRequest(dropped)
      PROVE  TypeOK'
    BY <1>0, <1>2 DEF ProcessCaptureRequest, Free, TypeOK, capture
<1>3. ASSUME NEW outputs \in SUBSET (streams \X Buffers), Prepare(outputs)
      PROVE  TypeOK'
    <2>1. outputs \subseteq Streams \X Buffers
        BY DEF TypeOK
    <2>2. pending' \in RequestType
        BY <1>3, <2>1 DEF Prepare, TypeOK, RequestType
    <2> QED
        BY <1>0, <1>3, <2>1, <2>2 DEF Prepare, TypeOK, capture
<1>4. ASSUME NEW outputs \in SUBSET (streams \X Buffers), RejectRequest(outputs)
      PROVE  TypeOK'
    <2>1. outputs \subseteq Streams \X Buffers
        BY DEF TypeOK
    <2> QED
        BY <1>0, <1>4, <2>1 DEF RejectRequest, TypeOK, capture
<1>5. CASE QueueRequest
    <2>1. queue' \in Seq(RequestType)
        BY <1>5, AppendProperties DEF QueueRequest, TypeOK
    <2> QED
        BY <1>0, <1>5, <2>1 DEF QueueRequest, TypeOK, capture
<1>6. ASSUME NEW c \in Controllers, Flush(c) \/ FlushReturns(c)
      PROVE  TypeOK'
    <2>1. CASE Flush(c)
        BY <1>0, <2>1 DEF Flush, TypeOK, framework, capture
    <2>2. CASE FlushReturns(c)
        BY <1>0, <2>2 DEF FlushReturns, TypeOK, framework, capture
    <2> QED
        BY <1>6, <2>1, <2>2
<1>7. CASE Close
    BY <1>0, <1>7 DEF Close, TypeOK, framework, capture
<1>8. CASE CloseReturns
    BY <1>0, <1>8 DEF CloseReturns, StopAll, Free, TypeOK, framework
<1>9. CASE TakeRequest
    BY <1>0, <1>9, WithoutFirst DEF TakeRequest, Taken, MarkBusy, TypeOK, framework, capture
<1>10. CASE Exit
    BY <1>0, <1>10 DEF Exit, TypeOK, shared, framework, capture
<1>11. ASSUME NEW flash \in {"off", "frame", "keep"}, NEW result \in {"ok", "error", "lost"},
              CaptureFrame(flash, result)
       PROVE  TypeOK'
    BY <1>0, <1>11 DEF CaptureFrame, TypeOK, shared, framework
<1>12. CASE WriteOutputs
    BY <1>0, <1>12 DEF WriteOutputs, TypeOK, shared, framework, capture
<1>13. CASE Answer
    BY <1>0, <1>13 DEF Answer, TypeOK, shared, framework, capture
<1>14. CASE Unbusy
    BY <1>0, <1>14 DEF Unbusy, TypeOK, framework, capture
<1>15. CASE UNCHANGED vars
    BY <1>15 DEF vars, shared, framework, capture, TypeOK
<1> QED
    BY <1>1, <1>2, <1>3, <1>4, <1>5, <1>6, <1>7, <1>8, <1>9, <1>10, <1>11, <1>12, <1>13, <1>14,
       <1>15 DEF Next, Framework, Submit, Return, Worker

\* Nothing moves in the line but at its ends.
LEMMA SameLine ==
    ASSUME SessionInv, UNCHANGED <<queue, accepted, answered, current>>,
           (worker \in {"capture", "write", "answer", "fail"}) =
                (worker' \in {"capture", "write", "answer", "fail"})
    PROVE  LogInv' /\ LineInv'
<1>1. Held' = Held
    BY DEF Held
<1> QED
    BY <1>1 DEF SessionInv, LogInv, LineInv

\* Requests keep their numbers while neither the client nor the queue moves.
LEMMA SameNumbers ==
    ASSUME SessionInv, UNCHANGED <<submit, pending, next, accepted>>
    PROVE  NumberInv'
    BY DEF SessionInv, NumberInv

\* A number that has been given is below the next one.
LEMMA NextNumber ==
    ASSUME NEW k \in Nat, NEW n \in Nat, k <= n
    PROVE  k <= n + 1 /\ k < n + 1
    OBVIOUS

\* What is accepted is answered, in progress or queued, in its order.
LEMMA LineStep ==
    ASSUME SessionInv, [Next]_vars
    PROVE  LogInv' /\ LineInv' /\ NumberInv'
<1> USE DEF SessionInv
<1>1. CASE (\E ss \in SUBSET Streams : ConfigureStreams(ss)) \/ Close \/ CloseReturns
            \/ \E c \in Controllers : Flush(c) \/ FlushReturns(c)
    <2>1. UNCHANGED <<queue, accepted, answered, current, worker, submit, pending, next>>
        BY <1>1 DEF ConfigureStreams, Close, CloseReturns, Flush, FlushReturns, framework, log
    <2> QED
        BY <2>1, SameLine, SameNumbers
<1>2. ASSUME NEW dropped \in SUBSET cache, ProcessCaptureRequest(dropped)
      PROVE  LogInv' /\ LineInv' /\ NumberInv'
    <2>1. LogInv' /\ LineInv'
        BY <1>2, SameLine DEF ProcessCaptureRequest, log
    <2>2. ASSUME NEW i \in 1 .. Len(accepted)
          PROVE  accepted[i] <= next + 1 /\ accepted[i] < next + 1
        <3>1. accepted[i] \in Requests
            BY ElementOfSeq DEF LogInv
        <3>2. accepted[i] \in Nat /\ next \in Nat /\ accepted[i] <= next
            BY <3>1, SessionAssumption DEF Requests, NumberInv, TypeOK
        <3> QED
            BY <3>2, NextNumber
    <2>3. next \in Nat /\ next + 1 > 0
        <3>1. next \in Nat
            BY SessionAssumption DEF TypeOK
        <3> QED
            BY <3>1
    <2> QED
        BY <1>2, <2>1, <2>2, <2>3 DEF ProcessCaptureRequest, NumberInv, TypeOK, log
<1>3. ASSUME NEW outputs, Prepare(outputs)
      PROVE  LogInv' /\ LineInv' /\ NumberInv'
    BY <1>3, SameLine DEF Prepare, NumberInv, log
<1>4. ASSUME NEW outputs, RejectRequest(outputs)
      PROVE  LogInv' /\ LineInv' /\ NumberInv'
    BY <1>4, SameLine DEF RejectRequest, NumberInv, log
<1>5. CASE QueueRequest
    <2>1. pending.id \in Requests /\ pending.id = next /\ pending \in RequestType
        BY <1>5, SessionAssumption DEF QueueRequest, NumberInv, TypeOK, Requests
    <2>2. /\ accepted' \in Seq(Requests) /\ Len(accepted') = Len(accepted) + 1
          /\ accepted'[Len(accepted) + 1] = pending.id
          /\ \A i \in 1 .. Len(accepted) : accepted'[i] = accepted[i]
        BY <1>5, <2>1, AppendProperties DEF QueueRequest, LogInv
    <2>3. /\ Len(queue') = Len(queue) + 1
          /\ queue'[Len(queue) + 1] = pending
          /\ \A i \in 1 .. Len(queue) : queue'[i] = queue[i]
        BY <1>5, <2>1, AppendProperties DEF QueueRequest, TypeOK
    <2>4. Held' = Held /\ answered' = answered /\ current' = current /\ next' = next
        BY <1>5 DEF QueueRequest, Held
    <2>a. Len(accepted) = Len(answered) + Held + Len(queue)
        BY DEF LineInv
    <2>b. /\ Len(accepted) + 1 = Len(answered) + Held + (Len(queue) + 1)
          /\ \A i \in 1 .. Len(queue) : Len(answered) + Held + i \in 1 .. Len(accepted)
          /\ Held = 1 => Len(answered) + 1 \in 1 .. Len(accepted)
          /\ \A i \in 1 .. Len(queue) + 1 : i \in 1 .. Len(queue) \/ i = Len(queue) + 1
        BY <2>a, LineTypes, Places
    <2>5. Len(accepted') = Len(answered) + Held + Len(queue')
        BY <2>2, <2>3, <2>b
    <2>6. ASSUME NEW i \in 1 .. Len(queue')
          PROVE  accepted'[Len(answered) + Held + i] = queue'[i].id
        <3>1. CASE i \in 1 .. Len(queue)
            <4>1. Len(answered) + Held + i \in 1 .. Len(accepted)
                BY <3>1, <2>b
            <4> QED
                BY <2>2, <2>3, <3>1, <4>1 DEF LineInv
        <3>2. CASE i = Len(queue) + 1
            <4>1. Len(answered) + Held + i = Len(accepted) + 1
                BY <3>2, <2>b
            <4> QED
                BY <2>2, <2>3, <3>2, <4>1
        <3> QED
            BY <2>3, <2>b, <3>1, <3>2
    <2>7. Held = 1 => accepted'[Len(answered) + 1] = current.id
        <3> HAVE Held = 1
        <3>1. Len(answered) + 1 \in 1 .. Len(accepted)
            BY <2>b
        <3> QED
            BY <2>2, <3>1 DEF LineInv
    <2>8. NumberInv'
        <3>1. ASSUME NEW i \in 1 .. Len(accepted')
              PROVE  accepted'[i] <= next
            <4>1. i \in 1 .. Len(accepted) \/ i = Len(accepted) + 1
                <5>1. Len(accepted) \in Nat /\ i \in 1 .. Len(accepted) + 1
                    BY <2>2, LineTypes
                <5> QED
                    BY <5>1
            <4>2. CASE i \in 1 .. Len(accepted)
                BY <2>2, <4>2 DEF NumberInv
            <4>3. CASE i = Len(accepted) + 1
                <5>1. next \in Nat
                    BY SessionAssumption DEF TypeOK
                <5> QED
                    BY <2>1, <2>2, <4>3, <5>1
            <4> QED
                BY <4>1, <4>2, <4>3
        <3> QED
            BY <1>5, <2>4, <3>1 DEF QueueRequest, NumberInv
    <2> QED
        BY <2>2, <2>4, <2>5, <2>6, <2>7, <2>8 DEF LogInv, LineInv
<1>6. CASE TakeRequest
    <2>1. queue \in Seq(RequestType) /\ queue # <<>>
        BY <1>6 DEF TakeRequest, TypeOK
    <2>2. queue' = Without(1) /\ current' = queue[1] /\ Held = 0 /\ Held' = 1
            /\ UNCHANGED <<accepted, answered, submit, pending, next>>
        BY <1>6 DEF TakeRequest, Taken, Held, framework, log
    <2>a. Len(accepted) = Len(answered) + 0 + Len(queue)
        BY <2>2 DEF LineInv
    <2>b. /\ Len(accepted) = Len(answered) + 1 + (Len(queue) - 1)
          /\ 1 \in 1 .. Len(queue) /\ Len(answered) + 0 + 1 = Len(answered) + 1
          /\ \A i \in 1 .. Len(queue) - 1 :
                i + 1 \in 1 .. Len(queue)
                /\ Len(answered) + 0 + (i + 1) = Len(answered) + 1 + i
        BY <2>a, <2>1, WithoutFirst, LineTypes, PlacesTaken
    <2>3. Len(accepted) = Len(answered) + 1 + Len(queue')
        BY <2>1, <2>2, <2>b, WithoutFirst
    <2>4. accepted[Len(answered) + 1] = queue[1].id
        <3>1. 1 \in 1 .. Len(queue) /\ Len(answered) + 0 + 1 = Len(answered) + 1
            BY <2>b
        <3> QED
            BY <2>2, <3>1 DEF LineInv
    <2>5. ASSUME NEW i \in 1 .. Len(queue')
          PROVE  accepted[Len(answered) + 1 + i] = queue'[i].id
        <3>1. i \in 1 .. Len(queue) - 1 /\ i + 1 \in 1 .. Len(queue)
                /\ Len(answered) + 0 + (i + 1) = Len(answered) + 1 + i
            BY <2>1, <2>2, <2>b, WithoutFirst
        <3>2. queue'[i] = queue[i + 1]
            BY <2>1, <2>2, <3>1, WithoutFirst
        <3>3. accepted[Len(answered) + 0 + (i + 1)] = queue[i + 1].id
            BY <2>2, <3>1 DEF LineInv
        <3> QED
            BY <3>1, <3>2, <3>3
    <2> QED
        BY <2>2, <2>3, <2>4, <2>5, SameNumbers DEF LogInv, LineInv
<1>7. CASE Answer
    <2>1. Held = 1 /\ Held' = 0
        BY <1>7 DEF Answer, Held
    <2>2. current.id \in Requests
        BY <2>1, LineTypes
    <2>3. answered' \in Seq([request : Requests, outcome : Outcomes])
            /\ Len(answered') = Len(answered) + 1
        BY <1>7, <2>2, AppendProperties DEF Answer, Answered, LogInv, Outcomes
    <2>4. UNCHANGED <<queue, accepted, current, submit, pending, next>>
        BY <1>7 DEF Answer, Answered, shared, framework
    <2>a. Len(accepted) = Len(answered) + 1 + Len(queue)
        BY <2>1 DEF LineInv
    <2>b. /\ Len(accepted) = (Len(answered) + 1) + 0 + Len(queue)
          /\ \A i \in 1 .. Len(queue) :
                (Len(answered) + 1) + 0 + i = Len(answered) + 1 + i
        BY <2>a, LineTypes, PlacesAnswered
    <2>5. Len(accepted) = Len(answered') + 0 + Len(queue)
        BY <2>3, <2>b
    <2>6. ASSUME NEW i \in 1 .. Len(queue)
          PROVE  accepted[Len(answered') + 0 + i] = queue[i].id
        <3>1. Len(answered') + 0 + i = Len(answered) + 1 + i
            BY <2>3, <2>b
        <3> QED
            BY <2>1, <3>1 DEF LineInv
    <2> QED
        BY <2>1, <2>3, <2>4, <2>5, <2>6, SameNumbers DEF LogInv, LineInv
<1>8. CASE Exit \/ WriteOutputs \/ Unbusy
            \/ \E flash \in {"off", "frame", "keep"}, result \in {"ok", "error", "lost"} :
                  CaptureFrame(flash, result)
    <2>1. UNCHANGED <<queue, accepted, answered, submit, pending, next>>
        BY <1>8 DEF Exit, WriteOutputs, Unbusy, CaptureFrame, shared, framework, log
    <2>2. CASE Exit \/ Unbusy
        <3>1. Held = 0 /\ Held' = 0
            BY <2>2 DEF Exit, Unbusy, Held
        <3>2. Held' = Held /\ ~(Held' = 1)
            BY <3>1
        <3>3. LogInv'
            BY <2>1 DEF LogInv
        <3>4. LineInv'
            BY <2>1, <3>2 DEF LineInv
        <3> QED
            BY <2>1, <3>3, <3>4, SameNumbers
    <2>3. CASE ~(Exit \/ Unbusy)
        <3>1. current' = current /\ Held = 1 /\ Held' = 1
            BY <1>8, <2>3 DEF WriteOutputs, CaptureFrame, Held
        <3>2. Held' = Held
            BY <3>1
        <3>3. LogInv'
            BY <2>1 DEF LogInv
        <3>4. LineInv'
            BY <2>1, <3>1, <3>2 DEF LineInv
        <3> QED
            BY <2>1, <3>3, <3>4, SameNumbers
    <2> QED
        BY <2>2, <2>3
<1>9. CASE UNCHANGED vars
    BY <1>9, SameLine, SameNumbers DEF vars, shared, framework, log
<1> QED
    BY <1>1, <1>2, <1>3, <1>4, <1>5, <1>6, <1>7, <1>8, <1>9
    DEF Next, Framework, Submit, Return, Worker

\* The invariant holds from the start and is kept.
LEMMA SessionAlways == Spec => []SessionInv
<1>1. Init => SessionInv
    <2>1. Init => TypeOK
        <3> SUFFICES ASSUME Init
                     PROVE  TypeOK
            OBVIOUS
        <3>1. queue \in Seq(RequestType) /\ {current, pending} \subseteq RequestType
            BY NoRequestType, EmptySeq DEF Init
        <3>2. next \in 0 .. MaxRequests
            BY SessionAssumption DEF Init
        <3>3. busy = FALSE /\ worker = "wait"
            BY DEF Init
        <3>4. busy \in BOOLEAN /\ busy = (worker \notin {"wait", "exited"})
            BY <3>3
        <3>5. /\ closed \in BOOLEAN /\ stopping \in BOOLEAN /\ flushing \in BOOLEAN
              /\ streaming \in BOOLEAN /\ lost \in BOOLEAN /\ lit \in BOOLEAN
            BY DEF Init
        <3>6. /\ streams \subseteq Streams /\ cache \subseteq Streams \X Buffers
              /\ flushers \subseteq Controllers /\ freed \subseteq Requests
            BY DEF Init
        <3>7. /\ submit \in {"idle", "entered", "prepared"}
              /\ closer \in {"none", "joining", "done"}
              /\ worker \in {"wait", "fail", "capture", "write", "answer", "unbusy", "exited"}
            BY DEF Init
        <3> QED
            BY <3>1, <3>2, <3>4, <3>5, <3>6, <3>7 DEF TypeOK
    <2>2. Init => LogInv /\ LineInv
        BY EmptySeq DEF Init, LogInv, LineInv, Held
    <2>3. Init => NumberInv /\ FreeInv
        BY EmptySeq DEF Init, NumberInv, FreeInv
    <2> QED
        BY <2>1, <2>2, <2>3 DEF SessionInv
<1>2. SessionInv /\ [Next]_vars => SessionInv'
    BY TypeStep, LineStep, FreeStep DEF SessionInv
<1> QED
    BY <1>1, <1>2, PTL DEF Spec

\* CameraDeviceSession.h: requests are processed in order on the worker thread.
\* Every accepted request is answered at most once and in the order of
\* acceptance, whatever is flushed, reconfigured or closed.
THEOREM SessionImplementsService == Spec => InOrder
<1>1. Init => Service!Init
    BY DEF Init, Service!Init
<1>2. SessionInv /\ [Next]_vars => [Service!Next]_(Service!vars)
    <2> SUFFICES ASSUME SessionInv, [Next]_vars, ~UNCHANGED log
                 PROVE  Service!Next
        BY DEF Service!vars, log
    <2>1. QueueRequest \/ Answer
        BY DEF Next, Framework, Submit, Return, Worker, vars, log, ConfigureStreams,
               ProcessCaptureRequest, Flush, FlushReturns, Close, CloseReturns, Prepare,
               RejectRequest, TakeRequest, Exit, CaptureFrame, WriteOutputs, Unbusy
    <2>2. CASE QueueRequest
        <3>1. pending.id = next /\ next \in Requests
            BY <2>2, SessionAssumption
            DEF QueueRequest, SessionInv, NumberInv, TypeOK, Requests
        <3>2. \A i \in 1 .. Len(accepted) : accepted[i] # pending.id
            <4>1. \A i \in 1 .. Len(accepted) : accepted[i] \in Requests /\ accepted[i] < next
                BY <2>2, ElementOfSeq DEF QueueRequest, SessionInv, LogInv, NumberInv
            <4> QED
                BY <3>1, <4>1 DEF Requests
        <3>3. Service!Accept(pending.id)
            BY <2>2, <3>2 DEF QueueRequest, Service!Accept
        <3> QED
            BY <3>1, <3>3 DEF Service!Next
    <2>3. CASE Answer
        <3>1. Held = 1
            BY <2>3 DEF Answer, Held
        <3>2. Len(answered) < Len(accepted) /\ accepted[Len(answered) + 1] = current.id
            BY <3>1, LineTypes DEF SessionInv, LineInv
        <3>3. \E o \in Outcomes : Service!Answer(o)
            BY <2>3, <3>2 DEF Answer, Answered, Service!Answer, Outcomes
        <3> QED
            BY <3>3 DEF Service!Next
    <2> QED
        BY <2>1, <2>2, <2>3
<1> QED
    BY <1>1, <1>2, SessionAlways, PTL DEF Spec, InOrder, Service!Spec

\* The worker never writes to a buffer that was freed, neither by the client nor
\* by configureStreams() nor by close().
THEOREM NoFreedBufferWritten == Spec => []NoWriteAfterFree
<1>1. SessionInv => NoWriteAfterFree
    BY DEF SessionInv, FreeInv, NoWriteAfterFree
<1> QED
    BY <1>1, SessionAlways, PTL

\* flush() returns when everything accepted before was answered, also the
\* request the worker had taken.
THEOREM FlushIsComplete == Spec => FlushComplete
<1>1. SessionInv /\ [Next]_vars =>
        [\A c \in Controllers : FlushReturns(c) => Len(answered) = Len(accepted)]_vars
    <2> SUFFICES ASSUME SessionInv, NEW c \in Controllers, FlushReturns(c)
                 PROVE  Len(answered) = Len(accepted)
        OBVIOUS
    <2>1. queue = <<>> /\ Held = 0
        BY DEF FlushReturns, Drained, SessionInv, TypeOK, Held
    <2> QED
        BY <2>1, LineTypes, EmptySeq DEF SessionInv, LineInv
<1> QED
    BY <1>1, SessionAlways, PTL DEF Spec, FlushComplete
=============================================================================
