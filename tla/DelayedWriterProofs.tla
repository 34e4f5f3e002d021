------------------------- MODULE DelayedWriterProofs -------------------------
(* Theorems about DelayedWriter, for any number of producers, streams,       *)
(* workers and rows, and any size of queue and batch.                        *)
EXTENDS DelayedWriter, FiniteSetTheorems, SequenceTheorems, TLAPS

-----------------------------------------------------------------------------
(* Types. *)

(* A producer past its choice has a writer, one that writes has a row. *)
HasTarget ==
  \A p \in Producers :
    /\ pc[p] # "idle" => row[p] # 0
    /\ pc[p] = "putting" => target[p] # 0
    /\ pc[p] = "making" => stream[p] \in Shared

Typed == VariableTypes /\ HasTarget

(* A new writer is a writer. *)
LEMMA NewWriterType ==
  ASSUME NEW s \in Streams
  PROVE  NewWriter(s) \in WriterType
<1>1. << >> \in Seq(Rows)
  OBVIOUS
<1>2. QED BY <1>1 DEF NewWriter, WriterType

(* Writing some of the fields of a writer leaves a writer. *)
LEMMA QueueType ==
  ASSUME NEW W \in WriterType, NEW q \in Seq(Rows), NEW n \in Int
  PROVE  [W EXCEPT !.queue = q, !.unfinished = n] \in WriterType
BY DEF WriterType

(* Writing those of one of its workers does too. *)
LEMMA FieldsType ==
  ASSUME NEW W \in WriterType, NEW i \in Workers, NEW q \in Seq(Rows), NEW b \in Seq(Rows),
         NEW f \in {"idle", "filling", "posting"}, NEW n \in Int
  PROVE  /\ [W EXCEPT !.phase[i] = f, !.batch[i] = b, !.queue = q] \in WriterType
         /\ [W EXCEPT !.phase[i] = f, !.batch[i] = b, !.unfinished = n] \in WriterType
         /\ [W EXCEPT !.batch[i] = b, !.queue = q] \in WriterType
         /\ [W EXCEPT !.phase[i] = f] \in WriterType
BY DEF WriterType

(* Rows are written and never unwritten, so what holds rows goes on to. *)
LEMMA RowsGrow ==
  ASSUME written \in Nat, written' = written + 1, writers \in Seq(WriterType)
  PROVE  Rows \subseteq Rows' /\ writers \in Seq(WriterType')
<1>1. Rows \subseteq Rows'
  BY DEF Rows
<1>2. \A q \in Seq(Rows) : q \in Seq(Rows')
  BY <1>1
<1>3. WriterType \subseteq WriterType'
  <2> SUFFICES ASSUME NEW w \in WriterType PROVE w \in WriterType'
    OBVIOUS
  <2>1. w.queue \in Seq(Rows') /\ w.batch \in [Workers -> Seq(Rows')]
    BY <1>2 DEF WriterType
  <2>2. QED BY <2>1 DEF WriterType, Workers
<1>4. QED BY <1>1, <1>3

(* Changing one writer within its type keeps the type of all. *)
LEMMA OneWriterChanges ==
  ASSUME writers \in Seq(WriterType), NEW w \in Ids, NEW v \in WriterType,
         writers' = [writers EXCEPT ![w] = v]
  PROVE  /\ writers' \in Seq(WriterType) /\ Len(writers') = Len(writers)
         /\ \A x \in Ids : writers'[x] = IF x = w THEN v ELSE writers[x]
BY DEF Ids

(* What a worker's turn makes of its writer W: v, the rest of the workers as *)
(* they were.                                                                *)
Took(W, v, i) ==
  /\ W.phase[i] = "idle" /\ W.queue # << >> /\ v.queue = Tail(W.queue)
  /\ v.batch[i] = <<Head(W.queue)>> /\ v.phase[i] = "filling"
  /\ v.unfinished = W.unfinished
Filled(W, v, i) ==
  /\ W.phase[i] = "filling" /\ W.queue # << >> /\ v.queue = Tail(W.queue)
  /\ v.batch[i] = Append(W.batch[i], Head(W.queue)) /\ v.phase[i] = "filling"
  /\ v.unfinished = W.unfinished
Full(W, v, i) ==
  /\ v.queue = W.queue /\ v.batch[i] = W.batch[i] /\ v.phase[i] = "posting"
  /\ v.unfinished = W.unfinished
Finished(W, v, i) ==
  /\ v.queue = W.queue /\ v.batch[i] = << >> /\ v.phase[i] = "idle"
  /\ v.unfinished = W.unfinished - Len(W.batch[i])

Turn(W, v, i) ==
  /\ v \in WriterType /\ v.stream = W.stream
  /\ \A j \in Workers \ {i} : v.batch[j] = W.batch[j] /\ v.phase[j] = W.phase[j]
  /\ \/ (Took(W, v, i) \/ Filled(W, v, i) \/ Full(W, v, i)) /\ UNCHANGED Fates
     \/ /\ Finished(W, v, i) /\ dropped' = dropped
        /\ \/ sent' = sent \cup ToSet(W.batch[i]) /\ lost' = lost
           \/ lost' = lost \cup ToSet(W.batch[i]) /\ sent' = sent

LEMMA WorkerTurn ==
  ASSUME VariableTypes, NEW w \in Ids, NEW i \in Workers, Worker(w, i)
  PROVE  \E v : writers' = [writers EXCEPT ![w] = v] /\ Turn(writers[w], v, i)
<1> DEFINE W == writers[w]
           q == W.queue
           b == W.batch[i]
<1>1. W \in WriterType
  BY DEF VariableTypes, Ids
<1>2. /\ q \in Seq(Rows) /\ b \in Seq(Rows)
      /\ W.batch \in [Workers -> Seq(Rows)] /\ W.unfinished \in Int
      /\ W.phase \in [Workers -> {"idle", "filling", "posting"}]
      /\ q # << >> => /\ Tail(q) \in Seq(Rows) /\ <<Head(q)>> \in Seq(Rows)
                      /\ Append(b, Head(q)) \in Seq(Rows)
  <2>1. q \in Seq(Rows) /\ b \in Seq(Rows)
    BY <1>1 DEF WriterType
  <2>2. q # << >> => Head(q) \in Rows /\ Tail(q) \in Seq(Rows)
    BY <2>1
  <2>3. q # << >> => <<Head(q)>> \in Seq(Rows) /\ Append(b, Head(q)) \in Seq(Rows)
    BY <2>1, <2>2
  <2>4. QED BY <1>1, <2>1, <2>2, <2>3 DEF WriterType
<1>3. CASE Take(w, i) /\ UNCHANGED Fates
  <2> DEFINE v == [W EXCEPT !.phase[i] = "filling", !.batch[i] = <<Head(q)>>, !.queue = Tail(q)]
  <2>1. writers' = [writers EXCEPT ![w] = v] /\ q # << >> /\ W.phase[i] = "idle"
    BY <1>3 DEF Take
  <2>2. v \in WriterType
    BY <1>1, <1>2, <2>1, FieldsType
  <2>3. /\ v.stream = W.stream /\ v.queue = Tail(q) /\ v.unfinished = W.unfinished
        /\ v.batch = [W.batch EXCEPT ![i] = <<Head(q)>>]
        /\ v.phase = [W.phase EXCEPT ![i] = "filling"]
    BY <1>1 DEF WriterType
  <2> HIDE DEF v
  <2>4. Turn(W, v, i)
    BY <1>2, <1>3, <2>1, <2>2, <2>3 DEF Turn, Took
  <2>5. QED BY <2>1, <2>4
<1>4. CASE Fill(w, i) /\ UNCHANGED Fates
  <2>1. CASE Len(b) < BatchSize /\ q # << >>
    <3> DEFINE v == [W EXCEPT !.batch[i] = Append(b, Head(q)), !.queue = Tail(q)]
    <3>1. writers' = [writers EXCEPT ![w] = v] /\ W.phase[i] = "filling"
      BY <1>4, <2>1 DEF Fill
    <3>2. v \in WriterType
      BY <1>1, <1>2, <2>1, FieldsType
    <3>3. /\ v.stream = W.stream /\ v.queue = Tail(q) /\ v.unfinished = W.unfinished
          /\ v.batch = [W.batch EXCEPT ![i] = Append(b, Head(q))] /\ v.phase = W.phase
      BY <1>1 DEF WriterType
    <3> HIDE DEF v
    <3>4. Turn(W, v, i)
      BY <1>2, <1>4, <2>1, <3>1, <3>2, <3>3 DEF Turn, Filled
    <3>5. QED BY <3>1, <3>4
  <2>2. CASE ~(Len(b) < BatchSize /\ q # << >>)
    <3> DEFINE v == [W EXCEPT !.phase[i] = "posting"]
    <3>1. writers' = [writers EXCEPT ![w] = v]
      BY <1>4, <2>2 DEF Fill
    <3>2. v \in WriterType
      BY <1>1 DEF WriterType
    <3>3. /\ v.stream = W.stream /\ v.queue = q /\ v.unfinished = W.unfinished
          /\ v.batch = W.batch /\ v.phase = [W.phase EXCEPT ![i] = "posting"]
      BY <1>1 DEF WriterType
    <3> HIDE DEF v
    <3>4. Turn(W, v, i)
      BY <1>2, <1>4, <3>2, <3>3 DEF Turn, Full
    <3>5. QED BY <3>1, <3>4
  <2>3. QED BY <2>1, <2>2
<1>5. CASE Flush(w, i) \/ FlushFails(w, i)
  <2> DEFINE v == [W EXCEPT !.phase[i] = "idle", !.batch[i] = << >>,
                            !.unfinished = W.unfinished - Len(b)]
  <2>1. writers' = [writers EXCEPT ![w] = v]
    BY <1>5 DEF Flush, FlushFails, Done
  <2>2. v \in WriterType
    <3>1. << >> \in Seq(Rows) /\ W.unfinished - Len(b) \in Int
      BY <1>2
    <3>2. QED BY <1>1, <1>2, <3>1, FieldsType
  <2>3. /\ v.stream = W.stream /\ v.queue = q /\ v.unfinished = W.unfinished - Len(b)
        /\ v.batch = [W.batch EXCEPT ![i] = << >>] /\ v.phase = [W.phase EXCEPT ![i] = "idle"]
    BY <1>1 DEF WriterType
  <2>4. /\ dropped' = dropped
        /\ \/ sent' = sent \cup ToSet(b) /\ lost' = lost
           \/ lost' = lost \cup ToSet(b) /\ sent' = sent
    BY <1>5 DEF Flush, FlushFails
  <2> HIDE DEF v
  <2>5. Turn(W, v, i)
    BY <1>2, <2>2, <2>3, <2>4 DEF Turn, Finished
  <2>6. QED BY <2>1, <2>5
<1>6. QED BY <1>3, <1>4, <1>5 DEF Worker

(* A turn leaves every writer its stream and adds nothing to any queue. *)
LEMMA WorkerType ==
  ASSUME VariableTypes, NEW w \in Ids, NEW i \in Workers, Worker(w, i)
  PROVE  /\ writers' \in Seq(WriterType) /\ Len(writers') = Len(writers)
         /\ UNCHANGED <<shared, delayed, written, pc, row, stream, target, dropped>>
         /\ sent' \subseteq Rows /\ lost' \subseteq Rows
         /\ \A x \in Ids : /\ writers'[x].stream = writers[x].stream
                           /\ Len(writers'[x].queue) <= Len(writers[x].queue)
<1> DEFINE W == writers[w]
<1>1. PICK v : writers' = [writers EXCEPT ![w] = v] /\ Turn(W, v, i)
  BY WorkerTurn
<1>2. writers \in Seq(WriterType) /\ \A x \in Ids : writers[x] \in WriterType
  BY DEF VariableTypes, Ids
<1>3. /\ writers' \in Seq(WriterType) /\ Len(writers') = Len(writers)
      /\ \A x \in Ids : writers'[x] = IF x = w THEN v ELSE writers[x]
  BY <1>1, <1>2, OneWriterChanges DEF Turn
<1>4. W.queue \in Seq(Rows) /\ W.batch[i] \in Seq(Rows)
  BY <1>2 DEF WriterType
<1>5. v.stream = W.stream /\ Len(v.queue) <= Len(W.queue)
  <2>1. W.queue # << >> => Len(Tail(W.queue)) <= Len(W.queue)
    BY <1>4
  <2>2. v.queue = W.queue \/ (W.queue # << >> /\ v.queue = Tail(W.queue))
    BY <1>1 DEF Turn, Took, Filled, Full, Finished
  <2>3. v.stream = W.stream
    BY <1>1 DEF Turn
  <2>4. Len(W.queue) <= Len(W.queue)
    BY <1>4
  <2> HIDE DEF W
  <2>5. QED BY <2>1, <2>2, <2>3, <2>4
<1>6. \A x \in Ids : Len(writers[x].queue) <= Len(writers[x].queue)
  BY <1>2 DEF WriterType
<1>7. ToSet(W.batch[i]) \subseteq Rows
  BY <1>4 DEF ToSet
<1>8. sent' \subseteq Rows /\ lost' \subseteq Rows /\ dropped' = dropped
  BY <1>1, <1>7 DEF Turn, Fates, VariableTypes
<1>9. QED BY <1>3, <1>5, <1>6, <1>8 DEF Worker

(* Types, and that a producer has what it works on, are inductive. *)
LEMMA TypedInvariant == Spec => []Typed
<1>1. Init => Typed
  BY StreamAssumption, LimitAssumption DEF Init, Typed, VariableTypes, HasTarget, Rows
<1>2. Typed /\ [Next]_vars => Typed'
  <2> SUFFICES ASSUME Typed, [Next]_vars PROVE Typed'
    OBVIOUS
  <2> USE DEF Goto, Fates
  <2>1. ASSUME NEW p \in Producers, NEW s \in Streams, Write(p, s) PROVE Typed'
    <3>1. Rows \subseteq Rows' /\ writers' \in Seq(WriterType')
      BY <2>1, RowsGrow, LimitAssumption DEF Write, Typed, VariableTypes
    <3>2. written' = written + 1 /\ written' \in 0..MaxWrites /\ written \in Nat
      BY <2>1, LimitAssumption DEF Write, Typed, VariableTypes
    <3>3. row' \in [Producers -> 0..written'] /\ row'[p] # 0
      BY <2>1, <3>2 DEF Write, Typed, VariableTypes
    <3>4. QED BY <2>1, <3>1, <3>2, <3>3 DEF Write, Typed, VariableTypes, HasTarget
  <2>2. ASSUME NEW p \in Producers, WriteDirect(p) PROVE Typed'
    <3>1. row[p] \in Rows
      BY <2>2 DEF WriteDirect, Typed, VariableTypes, HasTarget, Rows
    <3>2. QED BY <2>2, <3>1 DEF WriteDirect, Typed, VariableTypes, HasTarget, Rows, WriterType
  <2>3. ASSUME NEW p \in Producers, MakeOwn(p) PROVE Typed'
    <3>1. stream[p] \in Streams /\ writers \in Seq(WriterType)
      BY DEF Typed, VariableTypes
    <3>2. writers' \in Seq(WriterType) /\ Len(writers') = Len(writers) + 1
      BY <2>3, <3>1, NewWriterType DEF MakeOwn
    <3>3. Rows' = Rows /\ WriterType' = WriterType
      BY <2>3 DEF MakeOwn, Rows, WriterType
    <3>4. QED BY <2>3, <3>1, <3>2, <3>3 DEF MakeOwn, Typed, VariableTypes, HasTarget
  <2>4. ASSUME NEW p \in Producers, FindShared(p) PROVE Typed'
    BY <2>4 DEF FindShared, Typed, VariableTypes, HasTarget, Rows, WriterType
  <2>5. ASSUME NEW p \in Producers, MakeShared(p) PROVE Typed'
    <3>1. /\ stream[p] \in Streams /\ stream[p] \in Shared /\ writers \in Seq(WriterType)
          /\ shared \in [Shared -> 0..Len(writers)]
      BY <2>5 DEF MakeShared, Typed, VariableTypes, HasTarget
    <3>2. Rows' = Rows /\ WriterType' = WriterType
      BY <2>5 DEF MakeShared, Rows, WriterType
    <3>3. CASE shared[stream[p]] # 0
      BY <2>5, <3>1, <3>2, <3>3 DEF MakeShared, Typed, VariableTypes, HasTarget
    <3>4. CASE shared[stream[p]] = 0
      <4>a. writers' = Append(writers, NewWriter(stream[p])) /\ NewWriter(stream[p]) \in WriterType
        BY <2>5, <3>1, <3>4, NewWriterType DEF MakeShared
      <4>1. writers' \in Seq(WriterType) /\ Len(writers') = Len(writers) + 1
        BY <3>1, <4>a
      <4>2. Len(writers') \in Nat \ {0} /\ 0..Len(writers) \subseteq 0..Len(writers')
        BY <3>1, <4>1
      <4>3. /\ shared' = [shared EXCEPT ![stream[p]] = Len(writers')]
            /\ target' = [target EXCEPT ![p] = Len(writers')]
        BY <2>5, <3>1, <3>4 DEF MakeShared
      <4>4. /\ shared' \in [Shared -> 0..Len(writers')]
            /\ target' \in [Producers -> 0..Len(writers')] /\ target'[p] # 0
        BY <3>1, <4>2, <4>3 DEF Typed, VariableTypes
      <4>5. VariableTypes'
        BY <2>5, <3>2, <4>1, <4>4 DEF MakeShared, Typed, VariableTypes
      <4>6. HasTarget'
        BY <2>5, <4>4 DEF MakeShared, Typed, VariableTypes, HasTarget
      <4>7. QED BY <4>5, <4>6 DEF Typed
    <3>5. QED BY <3>3, <3>4
  <2>6. ASSUME NEW p \in Producers, Put(p) PROVE Typed'
    <3> DEFINE w == target[p]
    <3>1. w \in Ids /\ row[p] \in Rows /\ writers \in Seq(WriterType) /\ writers[w] \in WriterType
      BY <2>6 DEF Put, Typed, VariableTypes, HasTarget, Rows, Ids
    <3>2. Rows' = Rows /\ WriterType' = WriterType
      BY <2>6 DEF Put, Rows, WriterType
    <3>3. CASE Len(writers[w].queue) < QueueSize
      <4> DEFINE v == [writers[w] EXCEPT !.queue = Append(writers[w].queue, row[p]),
                                         !.unfinished = writers[w].unfinished + 1]
      <4>1. writers' = [writers EXCEPT ![w] = v]
        BY <2>6, <3>3 DEF Put
      <4>2. v \in WriterType
        <5>1. /\ Append(writers[w].queue, row[p]) \in Seq(Rows)
              /\ writers[w].unfinished + 1 \in Int
          <6>1. writers[w].queue \in Seq(Rows) /\ writers[w].unfinished \in Int
            BY <3>1 DEF WriterType
          <6>2. QED BY <3>1, <6>1
        <5>2. QED BY <3>1, <5>1, QueueType
      <4>3. writers' \in Seq(WriterType) /\ Len(writers') = Len(writers)
        BY <3>1, <4>1, <4>2, OneWriterChanges
      <4>4. QED BY <2>6, <3>2, <3>3, <4>3 DEF Put, Typed, VariableTypes, HasTarget
    <3>4. CASE ~(Len(writers[w].queue) < QueueSize)
      BY <2>6, <3>1, <3>2, <3>4 DEF Put, Typed, VariableTypes, HasTarget
    <3>5. QED BY <3>3, <3>4
  <2>7. ASSUME NEW w \in Ids, NEW i \in Workers, Worker(w, i) PROVE Typed'
    <3>1. /\ writers' \in Seq(WriterType) /\ Len(writers') = Len(writers)
          /\ UNCHANGED <<shared, delayed, written, pc, row, stream, target, dropped>>
          /\ sent' \subseteq Rows /\ lost' \subseteq Rows
      BY <2>7, WorkerType DEF Typed
    <3>2. Rows' = Rows /\ WriterType' = WriterType
      BY <3>1 DEF Rows, WriterType
    <3>3. QED BY <3>1, <3>2 DEF Typed, VariableTypes, HasTarget
  <2>8. CASE SetMode
    BY <2>8 DEF SetMode, Typed, VariableTypes, HasTarget, Rows, WriterType
  <2>9. CASE UNCHANGED vars
    BY <2>9 DEF vars, Typed, VariableTypes, HasTarget, Rows, WriterType
  <2>10. QED
    BY <2>1, <2>2, <2>3, <2>4, <2>5, <2>6, <2>7, <2>8, <2>9 DEF Next, Producer
<1>3. QED BY <1>1, <1>2, PTL DEF Spec

-----------------------------------------------------------------------------
(* The bound on the queues. *)

(* A put leaves every writer its stream, and adds to no full queue. *)
LEMMA PutWithinBound ==
  ASSUME Typed, NEW p \in Producers, Put(p), NEW x \in Ids
  PROVE  /\ writers'[x].stream = writers[x].stream
         /\ Len(writers[x].queue) <= QueueSize => Len(writers'[x].queue) <= QueueSize
<1>1. writers \in Seq(WriterType) /\ writers[x] \in WriterType /\ DOMAIN writers = Ids
  BY DEF Typed, VariableTypes, Ids
<1>2. writers[x].queue \in Seq(Rows) /\ Len(writers[x].queue) \in Nat
  BY <1>1 DEF WriterType
<1>3. row[p] \in Rows
  BY DEF Put, Goto, Typed, VariableTypes, HasTarget, Rows
<1>4. Len(Append(writers[x].queue, row[p])) = Len(writers[x].queue) + 1
  BY <1>2, <1>3
<1>5. CASE x = target[p] /\ Len(writers[x].queue) < QueueSize
  <2>1. /\ writers' = [writers EXCEPT ![x].queue = Append(@, row[p]), ![x].unfinished = @ + 1]
        /\ x \in DOMAIN writers
    BY <1>1, <1>5 DEF Put
  <2>2. /\ writers'[x].queue = Append(writers[x].queue, row[p])
        /\ writers'[x].stream = writers[x].stream
    BY <1>1, <2>1 DEF WriterType
  <2>3. QED BY <1>2, <1>4, <1>5, <2>2, LimitAssumption
<1>6. CASE ~(x = target[p] /\ Len(writers[x].queue) < QueueSize)
  BY <1>1, <1>6 DEF Put
<1>7. QED BY <1>5, <1>6

(* No queue outgrows its maxsize, however many producers put at once and
   however slow the workers are. *)
LEMMA QueuesStayBounded == Spec => []QueueBounded
<1>1. Init => QueueBounded
  BY DEF Init, QueueBounded, Ids
<1>2. Typed /\ QueueBounded /\ [Next]_vars => QueueBounded'
  <2> SUFFICES ASSUME Typed, QueueBounded, [Next]_vars PROVE QueueBounded'
    OBVIOUS
  <2>1. writers \in Seq(WriterType) /\ \A p \in Producers : stream[p] \in Streams
    BY DEF Typed, VariableTypes
  <2>2. ASSUME NEW s \in Streams, writers' = Append(writers, NewWriter(s))
        PROVE  QueueBounded'
    <3>1. NewWriter(s).queue = << >> /\ NewWriter(s) \in WriterType
      BY NewWriterType DEF NewWriter
    <3>2. \A w \in Ids' : \/ w \in Ids /\ writers'[w] = writers[w]
                          \/ writers'[w] = NewWriter(s)
      BY <2>1, <2>2, <3>1 DEF Ids
    <3>3. QED BY <3>1, <3>2, LimitAssumption DEF QueueBounded
  <2>3. ASSUME NEW p \in Producers, Put(p) PROVE QueueBounded'
    <3>1. Ids' = Ids
      BY <2>1, <2>3 DEF Put, Ids
    <3>2. QED BY <2>3, <3>1, PutWithinBound DEF QueueBounded
  <2>4. ASSUME NEW w \in Ids, NEW i \in Workers, Worker(w, i) PROVE QueueBounded'
    <3> SUFFICES ASSUME NEW x \in Ids' PROVE Len(writers'[x].queue) <= QueueSize
      BY DEF QueueBounded
    <3>1. writers' \in Seq(WriterType) /\ Len(writers') = Len(writers)
      BY <2>4, WorkerType DEF Typed
    <3>2. x \in Ids /\ writers'[x] \in WriterType /\ writers[x] \in WriterType
      BY <2>1, <3>1 DEF Ids
    <3>3. Len(writers'[x].queue) \in Nat /\ Len(writers[x].queue) \in Nat
      BY <3>2 DEF WriterType
    <3>4. Len(writers'[x].queue) <= Len(writers[x].queue)
      BY <2>4, <3>2, WorkerType DEF Typed
    <3>5. QED BY <3>2, <3>3, <3>4, LimitAssumption DEF QueueBounded
  <2>5. CASE writers' = writers
    BY <2>5 DEF QueueBounded, Ids
  <2>6. \/ \E s \in Streams : writers' = Append(writers, NewWriter(s))
        \/ \E p \in Producers : Put(p)
        \/ \E w \in Ids, i \in Workers : Worker(w, i)
        \/ writers' = writers
    BY <2>1 DEF Next, Producer, Write, WriteDirect, MakeOwn, FindShared, MakeShared, SetMode, vars
  <2>7. QED BY <2>2, <2>3, <2>4, <2>5, <2>6
<1>3. QED BY <1>1, <1>2, TypedInvariant, PTL DEF Spec

(* Every variable keeps its type, and every queue its bound. *)
THEOREM TypeCorrect == Spec => []TypeOK
BY TypedInvariant, QueuesStayBounded, PTL DEF Typed, TypeOK

-----------------------------------------------------------------------------
(* One writer for a shared stream: what shared records of a stream is all    *)
(* the writers it has, so the second look under the lock cannot miss one.    *)
Registered ==
  /\ \A w \in Ids : writers[w].stream \in Shared => shared[writers[w].stream] = w
  /\ \A s \in Shared : shared[s] # 0 => writers[shared[s]].stream = s
  /\ \A p \in Producers : pc[p] = "putting" => writers[target[p]].stream = stream[p]

(* Steps that keep the streams of the writers and bring nobody to a put. *)
LEMMA RegisteredFrame ==
  ASSUME Typed, Registered, Len(writers') = Len(writers), shared' = shared,
         \A w \in Ids : writers'[w].stream = writers[w].stream,
         \A p \in Producers : pc'[p] = "putting" =>
           pc[p] = "putting" /\ target'[p] = target[p] /\ stream'[p] = stream[p]
  PROVE  Registered'
<1>1. Ids' = Ids
  BY DEF Ids
<1>2. \A s \in Shared : shared[s] # 0 => shared[s] \in Ids
  BY DEF Typed, VariableTypes, Ids
<1>3. \A p \in Producers : pc[p] = "putting" => target[p] \in Ids
  BY DEF Typed, VariableTypes, HasTarget, Ids
<1>4. QED BY <1>1, <1>2, <1>3 DEF Registered

(* A new writer changes no old one. *)
LEMMA AppendKeeps ==
  ASSUME writers \in Seq(WriterType), NEW s \in Streams, writers' = Append(writers, NewWriter(s))
  PROVE  /\ Len(writers') = Len(writers) + 1 /\ Len(writers) \in Nat
         /\ Ids' = Ids \cup {Len(writers')}
         /\ \A w \in Ids : w # Len(writers') /\ writers'[w] = writers[w]
         /\ writers'[Len(writers')].stream = s
<1>1. NewWriter(s) \in WriterType /\ NewWriter(s).stream = s
  BY NewWriterType DEF NewWriter
<1>2. Len(writers') = Len(writers) + 1 /\ Len(writers) \in Nat
  BY <1>1
<1>3. writers'[Len(writers')] = NewWriter(s)
  BY <1>1, <1>2
<1>4. \A w \in Ids : writers'[w] = writers[w]
  BY <1>1 DEF Ids
<1>5. QED BY <1>1, <1>2, <1>3, <1>4 DEF Ids

(* All rows of a shared stream go through one writer of that stream, however
   many first writes race to make it; every row reaches a writer of its own. *)
THEOREM SharedStreamsHaveOneWriter == Spec => []OneSharedWriter
<1>1. Init => Registered
  BY DEF Init, Registered, Ids
<1>2. Typed /\ Registered /\ [Next]_vars => Registered'
  <2> SUFFICES ASSUME Typed, Registered, [Next]_vars PROVE Registered'
    OBVIOUS
  <2> USE DEF Goto
  <2>0. /\ writers \in Seq(WriterType) /\ Len(writers) \in Nat
        /\ \A p \in Producers : stream[p] \in Streams
        /\ \A s \in Shared : shared[s] \in Ids \cup {0}
        /\ \A p \in Producers : pc[p] = "putting" => target[p] \in Ids
    BY DEF Typed, VariableTypes, HasTarget, Ids
  <2>1. ASSUME NEW p \in Producers, NEW s \in Streams, Write(p, s) PROVE Registered'
    BY <2>1, RegisteredFrame DEF Write, Typed, VariableTypes
  <2>2. ASSUME NEW p \in Producers, WriteDirect(p) PROVE Registered'
    BY <2>2, RegisteredFrame DEF WriteDirect, Typed, VariableTypes
  <2>3. ASSUME NEW p \in Producers, MakeOwn(p) PROVE Registered'
    <3>1. /\ writers' = Append(writers, NewWriter(stream[p])) /\ stream[p] \notin Shared
          /\ shared' = shared /\ stream' = stream
      BY <2>3 DEF MakeOwn
    <3>2. /\ Ids' = Ids \cup {Len(writers')}
          /\ \A w \in Ids : w # Len(writers') /\ writers'[w] = writers[w]
          /\ writers'[Len(writers')].stream = stream[p]
      BY <2>0, <3>1, AppendKeeps
    <3>3. target'[p] = Len(writers') /\ \A q \in Producers \ {p} : target'[q] = target[q] /\ pc'[q] = pc[q]
      BY <2>3 DEF MakeOwn, Typed, VariableTypes
    <3>4. 0 \notin Ids
      BY DEF Ids
    <3>5. \A w \in Ids' : writers'[w].stream \in Shared => shared'[writers'[w].stream] = w
      BY <3>1, <3>2 DEF Registered
    <3>6. \A s \in Shared : shared'[s] # 0 => writers'[shared'[s]].stream = s
      BY <2>0, <3>1, <3>2, <3>4 DEF Registered
    <3>7. \A q \in Producers : pc'[q] = "putting" => writers'[target'[q]].stream = stream'[q]
      <4> SUFFICES ASSUME NEW q \in Producers, pc'[q] = "putting"
                   PROVE  writers'[target'[q]].stream = stream[q]
        BY <3>1
      <4>1. CASE q = p
        BY <3>2, <3>3, <4>1
      <4>2. CASE q # p
        BY <2>0, <3>2, <3>3, <4>2 DEF Registered
      <4>3. QED BY <4>1, <4>2
    <3>8. QED BY <3>5, <3>6, <3>7 DEF Registered
  <2>4. ASSUME NEW p \in Producers, FindShared(p) PROVE Registered'
    <3>1. /\ UNCHANGED <<writers, shared, stream>> /\ stream[p] \in Shared
          /\ target'[p] = shared[stream[p]]
          /\ pc'[p] = "putting" => shared[stream[p]] # 0
          /\ \A q \in Producers \ {p} : target'[q] = target[q] /\ pc'[q] = pc[q]
      BY <2>4 DEF FindShared, Typed, VariableTypes
    <3>2. QED BY <3>1 DEF Registered, Ids
  <2>5. ASSUME NEW p \in Producers, MakeShared(p) PROVE Registered'
    <3> DEFINE s == stream[p]
    <3>1. /\ s \in Shared /\ stream' = stream /\ target'[p] = shared'[s]
          /\ \A q \in Producers \ {p} : target'[q] = target[q] /\ pc'[q] = pc[q]
      BY <2>5 DEF MakeShared, Typed, VariableTypes, HasTarget
    <3>2. CASE shared[s] # 0
      <4>1. UNCHANGED <<writers, shared>>
        BY <2>5, <3>2 DEF MakeShared
      <4>2. QED BY <3>1, <3>2, <4>1 DEF Registered, Ids
    <3>3. CASE shared[s] = 0
      <4>1. /\ writers' = Append(writers, NewWriter(s))
            /\ shared'[s] = Len(writers')
            /\ \A r \in Shared \ {s} : shared'[r] = shared[r]
        BY <2>5, <3>1, <3>3 DEF MakeShared, Typed, VariableTypes
      <4>2. /\ Ids' = Ids \cup {Len(writers')}
            /\ \A w \in Ids : w # Len(writers') /\ writers'[w] = writers[w]
            /\ writers'[Len(writers')].stream = s
        BY <2>0, <4>1, AppendKeeps
      <4>3. \A w \in Ids : writers[w].stream # s
        BY <3>1, <3>3 DEF Registered, Ids
      <4>4. 0 \notin Ids
        BY DEF Ids
      <4> HIDE DEF s
      <4>5. \A w \in Ids' : writers'[w].stream \in Shared => shared'[writers'[w].stream] = w
        <5> SUFFICES ASSUME NEW w \in Ids', writers'[w].stream \in Shared
                     PROVE  shared'[writers'[w].stream] = w
          OBVIOUS
        <5>1. CASE w = Len(writers')
          BY <4>1, <4>2, <5>1
        <5>2. CASE w # Len(writers')
          <6>1. w \in Ids /\ writers'[w] = writers[w] /\ writers[w].stream \in Shared \ {s}
            BY <4>2, <4>3, <5>2
          <6>2. QED BY <4>1, <6>1 DEF Registered
        <5>3. QED BY <5>1, <5>2
      <4>6. \A r \in Shared : shared'[r] # 0 => writers'[shared'[r]].stream = r
        <5> SUFFICES ASSUME NEW r \in Shared, shared'[r] # 0
                     PROVE  writers'[shared'[r]].stream = r
          OBVIOUS
        <5>1. CASE r = s
          BY <4>1, <4>2, <5>1
        <5>2. CASE r # s
          <6>1. shared'[r] = shared[r]
            BY <4>1, <5>2
          <6>2. shared[r] \in Ids /\ writers[shared[r]].stream = r
            BY <2>0, <6>1 DEF Registered
          <6>3. QED BY <4>2, <6>1, <6>2
        <5>3. QED BY <5>1, <5>2
      <4>7. \A q \in Producers : pc'[q] = "putting" => writers'[target'[q]].stream = stream'[q]
        <5> SUFFICES ASSUME NEW q \in Producers, pc'[q] = "putting"
                     PROVE  writers'[target'[q]].stream = stream[q]
          BY <3>1
        <5>1. CASE q = p
          BY <3>1, <4>1, <4>2, <5>1 DEF s
        <5>2. CASE q # p
          BY <2>0, <3>1, <4>2, <5>2 DEF Registered
        <5>3. QED BY <5>1, <5>2
      <4>8. QED BY <4>5, <4>6, <4>7 DEF Registered
    <3>4. QED BY <3>2, <3>3
  <2>6. ASSUME NEW p \in Producers, Put(p) PROVE Registered'
    <3>1. \A x \in Ids : writers'[x].stream = writers[x].stream
      BY <2>6, PutWithinBound
    <3>2. Len(writers') = Len(writers)
      BY <2>0, <2>6 DEF Put
    <3>3. QED BY <2>6, <3>1, <3>2, RegisteredFrame DEF Put, Typed, VariableTypes
  <2>7. ASSUME NEW w \in Ids, NEW i \in Workers, Worker(w, i) PROVE Registered'
    BY <2>7, WorkerType, RegisteredFrame DEF Typed
  <2>8. CASE SetMode \/ UNCHANGED vars
    BY <2>8, RegisteredFrame DEF SetMode, vars
  <2>9. QED
    BY <2>1, <2>2, <2>3, <2>4, <2>5, <2>6, <2>7, <2>8 DEF Next, Producer
<1>3. Typed /\ Registered => OneSharedWriter
  <2> SUFFICES ASSUME Typed, Registered PROVE OneSharedWriter
    OBVIOUS
  <2>1. ASSUME NEW s \in Shared PROVE Cardinality({w \in Ids : writers[w].stream = s}) <= 1
    <3>1. {w \in Ids : writers[w].stream = s} \subseteq {shared[s]}
      BY DEF Registered
    <3>2. IsFiniteSet({shared[s]}) /\ Cardinality({shared[s]}) = 1
      BY FS_Singleton
    <3> DEFINE W == {w \in Ids : writers[w].stream = s}
    <3> HIDE DEF W
    <3>3. IsFiniteSet(W) /\ Cardinality(W) <= Cardinality({shared[s]})
      BY <3>1, <3>2, FS_Subset DEF W
    <3>4. QED BY <3>2, <3>3 DEF W
  <2>2. QED BY <2>1 DEF OneSharedWriter, Registered
<1>4. QED BY <1>1, <1>2, <1>3, TypedInvariant, PTL DEF Spec

-----------------------------------------------------------------------------
(* Each row in one place. *)

(* What a sequence holds as it grows and shrinks. *)
LEMMA AppendRow ==
  ASSUME NEW S, NEW q \in Seq(S), NEW r \in S
  PROVE  /\ ToSet(Append(q, r)) = ToSet(q) \cup {r}
         /\ IsInjective(q) /\ r \notin ToSet(q) => IsInjective(Append(q, r))
<1>1. DOMAIN q = 1..Len(q) /\ Len(q) \in Nat /\ DOMAIN Append(q, r) = 1..(Len(q) + 1)
  OBVIOUS
<1>2. \A n \in DOMAIN Append(q, r) : Append(q, r)[n] = IF n = Len(q) + 1 THEN r ELSE q[n]
  OBVIOUS
<1> DEFINE a == Append(q, r)
<1> HIDE DEF a
<1>3. DOMAIN q \subseteq DOMAIN a /\ Len(q) + 1 \in DOMAIN a
  BY <1>1 DEF a
<1>4. \A n \in DOMAIN a : n \in DOMAIN q \/ n = Len(q) + 1
  BY <1>1 DEF a
<1>5. \A n \in DOMAIN q : a[n] = q[n]
  BY <1>1, <1>2, <1>3 DEF a
<1>6. a[Len(q) + 1] = r
  BY <1>2, <1>3 DEF a
<1>7. ToSet(a) = ToSet(q) \cup {r}
  BY <1>3, <1>4, <1>5, <1>6 DEF ToSet
<1>8. ASSUME IsInjective(q), r \notin ToSet(q) PROVE IsInjective(a)
  BY <1>4, <1>5, <1>6, <1>8 DEF IsInjective, ToSet
<1>9. QED BY <1>7, <1>8 DEF a

LEMMA TailRows ==
  ASSUME NEW S, NEW q \in Seq(S), q # << >>
  PROVE  /\ ToSet(q) = ToSet(Tail(q)) \cup {Head(q)}
         /\ IsInjective(q) => IsInjective(Tail(q)) /\ Head(q) \notin ToSet(Tail(q))
<1> DEFINE t == Tail(q)
<1>1. /\ DOMAIN q = 1..Len(q) /\ Len(q) \in Nat /\ Len(q) >= 1 /\ Head(q) = q[1]
      /\ DOMAIN t = 1..(Len(q) - 1) /\ \A n \in DOMAIN t : t[n] = q[n + 1]
  OBVIOUS
<1> HIDE DEF t
<1>2. \A n \in DOMAIN t : n + 1 \in DOMAIN q /\ n + 1 # 1
  BY <1>1
<1>3. \A n \in DOMAIN q : n = 1 \/ \E m \in DOMAIN t : n = m + 1
  <2> SUFFICES ASSUME NEW n \in DOMAIN q, n # 1 PROVE n - 1 \in DOMAIN t /\ n = (n - 1) + 1
    OBVIOUS
  <2>1. QED BY <1>1
<1>4. ToSet(q) = ToSet(t) \cup {Head(q)}
  <2>1. \A n \in DOMAIN q : q[n] \in ToSet(t) \cup {Head(q)}
    BY <1>1, <1>3 DEF ToSet
  <2>2. \A n \in DOMAIN t : t[n] \in ToSet(q)
    BY <1>1, <1>2 DEF ToSet
  <2>3. Head(q) \in ToSet(q)
    BY <1>1 DEF ToSet
  <2>4. QED BY <2>1, <2>2, <2>3 DEF ToSet
<1>5. ASSUME IsInjective(q) PROVE IsInjective(t) /\ Head(q) \notin ToSet(t)
  <2>1. \A m, n \in DOMAIN t : t[m] = t[n] => m = n
    <3> SUFFICES ASSUME NEW m \in DOMAIN t, NEW n \in DOMAIN t, t[m] = t[n] PROVE m = n
      OBVIOUS
    <3>1. m + 1 = n + 1
      BY <1>1, <1>2, <1>5 DEF IsInjective
    <3>2. m \in Int /\ n \in Int
      BY <1>1
    <3>3. QED BY <3>1, <3>2
  <2>2. \A n \in DOMAIN t : t[n] # Head(q)
    <3> SUFFICES ASSUME NEW n \in DOMAIN t, t[n] = Head(q) PROVE FALSE
      OBVIOUS
    <3>1. q[n + 1] = q[1] /\ n + 1 \in DOMAIN q /\ 1 \in DOMAIN q
      BY <1>1, <1>2
    <3>2. n + 1 = 1
      BY <3>1, <1>5 DEF IsInjective
    <3>3. QED BY <1>2, <3>2
  <2>3. QED BY <2>1, <2>2 DEF IsInjective, ToSet
<1>6. QED BY <1>4, <1>5 DEF t

(* A sequence without repetitions has as many members as places. *)
LEMMA CountRows ==
  ASSUME NEW S, NEW q \in Seq(S), IsInjective(q)
  PROVE  IsFiniteSet(ToSet(q)) /\ Cardinality(ToSet(q)) = Len(q)
<1>1. Len(q) \in Nat /\ q \in [1..Len(q) -> ToSet(q)]
  BY DEF ToSet
<1>2. q \in Bijection(1..Len(q), ToSet(q))
  BY <1>1 DEF Bijection, Injection, Surjection, IsInjective, ToSet
<1>3. IsFiniteSet(1..Len(q)) /\ Cardinality(1..Len(q)) = Len(q)
  BY <1>1, FS_Interval
<1>4. ExistsBijection(1..Len(q), ToSet(q))
  BY <1>2 DEF ExistsBijection
<1>5. QED BY <1>3, <1>4, FS_Bijection

(* A worker between batches holds none. *)
Settled(W) == \A i \in Workers : W.phase[i] = "idle" => W.batch[i] = << >>

Tidy(W) == W \in WriterType /\ PendingOnce(W) /\ Settled(W)

(* A new writer holds no row. *)
LEMMA NewIsTidy ==
  ASSUME NEW s \in Streams
  PROVE  Tidy(NewWriter(s)) /\ Pending(NewWriter(s)) = {}
<1>1. ToSet(<< >>) = {} /\ IsInjective(<< >>)
  BY DEF ToSet, IsInjective
<1>2. NewWriter(s) \in WriterType
  BY NewWriterType
<1>3. NewWriter(s).queue = << >> /\ \A i \in Workers : NewWriter(s).batch[i] = << >>
  BY DEF NewWriter
<1>4. QED BY <1>1, <1>2, <1>3 DEF Tidy, Settled, PendingOnce, Pending, InQueue, InBatch

(* A row put on the queue is one more. *)
LEMMA PutIsTidy ==
  ASSUME NEW W, Tidy(W), NEW r \in Rows \ Pending(W), NEW n \in Int,
         NEW v, v = [W EXCEPT !.queue = Append(W.queue, r), !.unfinished = n]
  PROVE  Tidy(v) /\ Pending(v) = Pending(W) \cup {r}
<1>1. W \in WriterType /\ W.queue \in Seq(Rows) /\ r \notin ToSet(W.queue)
  BY DEF Tidy, WriterType, Pending, InQueue
<1>2. Append(W.queue, r) \in Seq(Rows)
  BY <1>1
<1>3. v \in WriterType
  BY <1>1, <1>2, QueueType
<1>4. v.queue = Append(W.queue, r) /\ v.batch = W.batch /\ v.phase = W.phase
  BY <1>1 DEF WriterType
<1>5. InQueue(v) = InQueue(W) \cup {r} /\ IsInjective(v.queue)
  BY <1>1, <1>4, AppendRow DEF InQueue, Tidy, PendingOnce
<1>6. InBatch(v) = InBatch(W) /\ r \notin InBatch(W)
  BY <1>4 DEF InBatch, Pending
<1>7. QED BY <1>3, <1>4, <1>5, <1>6 DEF Tidy, Settled, PendingOnce, Pending

(* The rows the other workers of a writer hold. *)
OthersHold(W, i) == UNION {ToSet(W.batch[j]) : j \in Workers \ {i}}

(* Replacing the batch of one worker replaces its rows among those of the    *)
(* writer.                                                                   *)
LEMMA BatchReplaced ==
  ASSUME NEW W, Tidy(W), NEW i \in Workers, NEW v \in WriterType,
         \A j \in Workers \ {i} : v.batch[j] = W.batch[j] /\ v.phase[j] = W.phase[j],
         v.phase[i] = "idle" => v.batch[i] = << >>,
         IsInjective(v.queue), IsInjective(v.batch[i]),
         InQueue(v) \subseteq InQueue(W), ToSet(v.batch[i]) \cap InQueue(v) = {},
         ToSet(v.batch[i]) \subseteq InQueue(W) \cup ToSet(W.batch[i])
  PROVE  /\ Tidy(v)
         /\ Pending(v) = InQueue(v) \cup ToSet(v.batch[i]) \cup OthersHold(W, i)
<1> DEFINE others == OthersHold(W, i)
<1>1. InBatch(v) = ToSet(v.batch[i]) \cup others /\ InBatch(W) = ToSet(W.batch[i]) \cup others
  BY DEF InBatch, OthersHold
<1>2. others \cap InQueue(W) = {} /\ others \cap ToSet(W.batch[i]) = {}
  BY DEF Tidy, PendingOnce, InBatch, OthersHold
<1>3. InQueue(v) \cap InBatch(v) = {}
  BY <1>1, <1>2
<1>4. \A j \in Workers \ {i} : ToSet(v.batch[i]) \cap ToSet(v.batch[j]) = {}
  BY <1>2 DEF OthersHold
<1>5. \A j, k \in Workers : j # k => ToSet(v.batch[j]) \cap ToSet(v.batch[k]) = {}
  <2> SUFFICES ASSUME NEW j \in Workers, NEW k \in Workers, j # k
               PROVE  ToSet(v.batch[j]) \cap ToSet(v.batch[k]) = {}
    OBVIOUS
  <2>1. CASE j = i \/ k = i
    BY <1>4, <2>1
  <2>2. CASE j # i /\ k # i
    BY <2>2 DEF Tidy, PendingOnce
  <2>3. QED BY <2>1, <2>2
<1>6. \A j \in Workers : IsInjective(v.batch[j]) /\ (v.phase[j] = "idle" => v.batch[j] = << >>)
  BY DEF Tidy, Settled, PendingOnce
<1>7. Tidy(v)
  BY <1>3, <1>5, <1>6 DEF Tidy, Settled, PendingOnce
<1>8. QED BY <1>1, <1>7 DEF Pending

(* A worker takes rows over from the queue: the writer holds the same. *)
LEMMA TakeIsTidy ==
  ASSUME NEW W, Tidy(W), NEW i \in Workers, W.phase[i] = "idle", W.queue # << >>,
         NEW v \in WriterType, v.queue = Tail(W.queue),
         v.batch[i] = <<Head(W.queue)>>, v.phase[i] = "filling",
         \A j \in Workers \ {i} : v.batch[j] = W.batch[j] /\ v.phase[j] = W.phase[j]
  PROVE  Tidy(v) /\ Pending(v) = Pending(W)
<1> DEFINE q == W.queue
           h == Head(q)
<1>1. /\ W \in WriterType /\ q \in Seq(Rows) /\ IsInjective(q) /\ W.batch[i] = << >>
      /\ W.batch \in [Workers -> Seq(Rows)] /\ W.phase \in [Workers -> {"idle", "filling", "posting"}]
  BY DEF Tidy, Settled, PendingOnce, WriterType
<1>2. InQueue(W) = InQueue(v) \cup {h} /\ IsInjective(v.queue) /\ h \notin InQueue(v)
  BY <1>1, TailRows DEF InQueue
<1>3. v.batch[i] = <<h>>
  OBVIOUS
<1>4. ToSet(<<h>>) = {h} /\ IsInjective(<<h>>) /\ ToSet(<< >>) = {}
  BY DEF ToSet, IsInjective
<1> HIDE DEF q, h
<1>5. Tidy(v) /\ Pending(v) = InQueue(v) \cup {h} \cup OthersHold(W, i)
  <2>1. ToSet(v.batch[i]) = {h} /\ IsInjective(v.batch[i]) /\ v.phase[i] # "idle"
    BY <1>3, <1>4
  <2>2. /\ InQueue(v) \subseteq InQueue(W) /\ ToSet(v.batch[i]) \cap InQueue(v) = {}
        /\ ToSet(v.batch[i]) \subseteq InQueue(W) \cup ToSet(W.batch[i])
    BY <1>2, <2>1
  <2>3. Tidy(v) /\ Pending(v) = InQueue(v) \cup ToSet(v.batch[i]) \cup OthersHold(W, i)
    BY <1>2, <2>1, <2>2, BatchReplaced
  <2>4. QED BY <2>1, <2>3
<1>6. Pending(W) = InQueue(W) \cup OthersHold(W, i)
  BY <1>1, <1>4 DEF Pending, InBatch, OthersHold
<1>7. QED BY <1>2, <1>5, <1>6

LEMMA FillIsTidy ==
  ASSUME NEW W, Tidy(W), NEW i \in Workers, W.phase[i] = "filling", W.queue # << >>,
         NEW v \in WriterType, v.queue = Tail(W.queue),
         v.batch[i] = Append(W.batch[i], Head(W.queue)), v.phase[i] = "filling",
         \A j \in Workers \ {i} : v.batch[j] = W.batch[j] /\ v.phase[j] = W.phase[j]
  PROVE  Tidy(v) /\ Pending(v) = Pending(W)
<1> DEFINE q == W.queue
           b == W.batch[i]
           h == Head(q)
<1>1. /\ W \in WriterType /\ q \in Seq(Rows) /\ IsInjective(q) /\ b \in Seq(Rows) /\ IsInjective(b)
      /\ W.batch \in [Workers -> Seq(Rows)] /\ W.phase \in [Workers -> {"idle", "filling", "posting"}]
  BY DEF Tidy, PendingOnce, WriterType
<1>2. Pending(W) = InQueue(W) \cup ToSet(b) \cup OthersHold(W, i) /\ InQueue(W) \cap ToSet(b) = {}
  BY DEF Pending, InBatch, Tidy, PendingOnce, OthersHold
<1>3. h \in Rows
  BY <1>1
<1>4. InQueue(W) = InQueue(v) \cup {h} /\ IsInjective(v.queue) /\ h \notin InQueue(v)
  BY <1>1, TailRows DEF InQueue
<1>5. v.batch[i] = Append(b, h)
  OBVIOUS
<1>6. ToSet(v.batch[i]) = ToSet(b) \cup {h} /\ IsInjective(v.batch[i])
  BY <1>1, <1>2, <1>3, <1>4, <1>5, AppendRow
<1> HIDE DEF q, h
<1>7. /\ ToSet(v.batch[i]) \cap InQueue(v) = {} /\ InQueue(v) \subseteq InQueue(W)
      /\ ToSet(v.batch[i]) \subseteq InQueue(W) \cup ToSet(W.batch[i])
  BY <1>2, <1>4, <1>6
<1>8. Tidy(v) /\ Pending(v) = InQueue(v) \cup ToSet(v.batch[i]) \cup OthersHold(W, i)
  BY <1>4, <1>6, <1>7, BatchReplaced
<1>9. QED BY <1>2, <1>4, <1>6, <1>8

(* A full batch, or one with nothing to add, is posted as it is. *)
LEMMA PostIsTidy ==
  ASSUME NEW W, Tidy(W), NEW i \in Workers, NEW v \in WriterType, v.queue = W.queue,
         v.batch[i] = W.batch[i], v.phase[i] = "posting",
         \A j \in Workers \ {i} : v.batch[j] = W.batch[j] /\ v.phase[j] = W.phase[j]
  PROVE  Tidy(v) /\ Pending(v) = Pending(W)
<1>1. \A j \in Workers : v.batch[j] = W.batch[j]
  OBVIOUS
<1>2. InQueue(v) = InQueue(W) /\ InBatch(v) = InBatch(W)
  BY <1>1 DEF InQueue, InBatch
<1>3. Pending(v) = Pending(W) /\ PendingOnce(v)
  BY <1>1, <1>2 DEF Pending, PendingOnce, Tidy
<1>4. QED BY <1>1, <1>3 DEF Tidy, Settled

(* A flush, whatever comes of it, lets go of the rows of one batch. *)
LEMMA DoneIsTidy ==
  ASSUME NEW W, Tidy(W), NEW i \in Workers, NEW v \in WriterType, v.queue = W.queue,
         v.batch[i] = << >>, v.phase[i] = "idle",
         \A j \in Workers \ {i} : v.batch[j] = W.batch[j] /\ v.phase[j] = W.phase[j]
  PROVE  /\ Tidy(v) /\ ToSet(W.batch[i]) \subseteq Pending(W)
         /\ Pending(v) = Pending(W) \ ToSet(W.batch[i])
         /\ Len(W.batch[i]) = Cardinality(ToSet(W.batch[i]))
<1> DEFINE b == W.batch[i]
           others == OthersHold(W, i)
<1>1. b \in Seq(Rows) /\ IsInjective(b) /\ IsInjective(W.queue)
  BY DEF Tidy, PendingOnce, WriterType
<1>2. ToSet(<< >>) = {} /\ IsInjective(<< >>)
  BY DEF ToSet, IsInjective
<1>3. InQueue(v) = InQueue(W)
  BY DEF InQueue
<1>4. Pending(W) = InQueue(W) \cup ToSet(b) \cup others
      /\ InQueue(W) \cap ToSet(b) = {} /\ others \cap ToSet(b) = {}
  <2>1. InBatch(W) = ToSet(b) \cup others
    BY DEF InBatch, OthersHold
  <2>2. InQueue(W) \cap InBatch(W) = {}
    BY DEF Tidy, PendingOnce
  <2>3. \A j \in Workers \ {i} : ToSet(W.batch[j]) \cap ToSet(b) = {}
    BY DEF Tidy, PendingOnce
  <2> HIDE DEF b
  <2>4. QED BY <2>1, <2>2, <2>3 DEF Pending, OthersHold
<1>5. Tidy(v) /\ Pending(v) = InQueue(v) \cup others
  <2>1. /\ IsInjective(v.queue) /\ IsInjective(v.batch[i]) /\ ToSet(v.batch[i]) = {}
        /\ InQueue(v) \subseteq InQueue(W)
    BY <1>1, <1>2, <1>3
  <2>2. /\ ToSet(v.batch[i]) \cap InQueue(v) = {}
        /\ ToSet(v.batch[i]) \subseteq InQueue(W) \cup ToSet(W.batch[i])
    BY <2>1
  <2>3. Tidy(v) /\ Pending(v) = InQueue(v) \cup ToSet(v.batch[i]) \cup others
    BY <2>1, <2>2, BatchReplaced
  <2>4. QED BY <2>1, <2>3
<1> HIDE DEF b
<1>6. Len(b) = Cardinality(ToSet(b))
  BY <1>1, CountRows
<1>7. QED BY <1>3, <1>4, <1>5, <1>6 DEF b

(* A turn keeps the writer tidy; the rows it lets go of are those that meet  *)
(* their fate, and the count of unfinished tasks drops by as many.           *)
LEMMA TurnIsTidy ==
  ASSUME NEW W, Tidy(W), NEW i \in Workers, NEW v, Turn(W, v, i)
  PROVE  /\ Tidy(v) /\ dropped' = dropped
         /\ \E gone \in SUBSET Pending(W) :
              /\ Pending(v) = Pending(W) \ gone
              /\ v.unfinished = W.unfinished - Cardinality(gone)
              /\ \/ sent' = sent \cup gone /\ lost' = lost
                 \/ lost' = lost \cup gone /\ sent' = sent
<1>0. v \in WriterType /\ \A j \in Workers \ {i} : v.batch[j] = W.batch[j] /\ v.phase[j] = W.phase[j]
  BY DEF Turn
<1>1. ASSUME Pending(v) = Pending(W), v.unfinished = W.unfinished, UNCHANGED Fates
      PROVE  \E gone \in SUBSET Pending(W) :
              /\ Pending(v) = Pending(W) \ gone
              /\ v.unfinished = W.unfinished - Cardinality(gone)
              /\ \/ sent' = sent \cup gone /\ lost' = lost
                 \/ lost' = lost \cup gone /\ sent' = sent
  <2>1. Cardinality({}) = 0 /\ W.unfinished \in Int
    BY FS_EmptySet DEF Tidy, WriterType
  <2>2. W.unfinished = W.unfinished - Cardinality({})
    BY <2>1
  <2>3. Pending(v) = Pending(W) \ {} /\ sent' = sent \cup {} /\ lost' = lost /\ {} \in SUBSET Pending(W)
    BY <1>1 DEF Fates
  <2>4. QED BY <1>1, <2>2, <2>3
<1>2. CASE Took(W, v, i) /\ UNCHANGED Fates
  <2>1. Tidy(v) /\ Pending(v) = Pending(W)
    BY <1>0, <1>2, TakeIsTidy DEF Took
  <2>2. QED BY <1>1, <1>2, <2>1 DEF Took, Fates
<1>3. CASE Filled(W, v, i) /\ UNCHANGED Fates
  <2>1. Tidy(v) /\ Pending(v) = Pending(W)
    BY <1>0, <1>3, FillIsTidy DEF Filled
  <2>2. QED BY <1>1, <1>3, <2>1 DEF Filled, Fates
<1>4. CASE Full(W, v, i) /\ UNCHANGED Fates
  <2>1. Tidy(v) /\ Pending(v) = Pending(W)
    BY <1>0, <1>4, PostIsTidy DEF Full
  <2>2. QED BY <1>1, <1>4, <2>1 DEF Full, Fates
<1>5. CASE Finished(W, v, i) /\ dropped' = dropped
           /\ \/ sent' = sent \cup ToSet(W.batch[i]) /\ lost' = lost
              \/ lost' = lost \cup ToSet(W.batch[i]) /\ sent' = sent
  <2>1. /\ Tidy(v) /\ ToSet(W.batch[i]) \in SUBSET Pending(W)
        /\ Pending(v) = Pending(W) \ ToSet(W.batch[i])
        /\ Len(W.batch[i]) = Cardinality(ToSet(W.batch[i]))
    BY <1>0, <1>5, DoneIsTidy DEF Finished
  <2>2. QED BY <1>5, <2>1 DEF Finished
<1>6. QED BY <1>2, <1>3, <1>4, <1>5 DEF Turn
-----------------------------------------------------------------------------
(* The rows of all writers, and those in producers' hands. *)
WritersApart ==
  /\ \A w \in Ids : PendingOnce(writers[w]) /\ Settled(writers[w])
  /\ \A w, x \in Ids : w # x => Pending(writers[w]) \cap Pending(writers[x]) = {}

HandsApart == \A p, q \in Busy : row[p] = row[q] => p = q

(* Types and one place for each row: the invariant that is inductive. *)
OnePlace == EachRowOnce /\ \A w \in Ids : Settled(writers[w])

LEMMA WritersTidy ==
  ASSUME Typed, OnePlace
  PROVE  WritersApart /\ HandsApart /\ \A w \in Ids : Tidy(writers[w])
<1>1. \A w \in Ids : writers[w] \in WriterType
  BY DEF Typed, VariableTypes, Ids
<1>2. QED BY <1>1 DEF OnePlace, EachRowOnce, WritersApart, HandsApart, Tidy

(* A new writer adds nothing to what waits. *)
LEMMA NewWriterWaits ==
  ASSUME Typed, WritersApart, NEW s \in Streams, writers' = Append(writers, NewWriter(s))
  PROVE  WritersApart' /\ Waiting' = Waiting
<1> DEFINE n == Len(writers')
<1>1. /\ Ids' = Ids \cup {n} /\ n \notin Ids
      /\ \A w \in Ids : writers'[w] = writers[w]
  BY AppendKeeps DEF Typed, VariableTypes
<1>2. writers'[n] = NewWriter(s)
  BY NewWriterType DEF Typed, VariableTypes
<1>3. PendingOnce(writers'[n]) /\ Settled(writers'[n]) /\ Pending(writers'[n]) = {}
  BY <1>2, NewIsTidy DEF Tidy
<1> HIDE DEF n
<1>4. WritersApart'
  <2>1. \A w \in Ids' : PendingOnce(writers'[w]) /\ Settled(writers'[w])
    BY <1>1, <1>3 DEF WritersApart
  <2>2. \A w, x \in Ids' : w # x => Pending(writers'[w]) \cap Pending(writers'[x]) = {}
    BY <1>1, <1>3 DEF WritersApart
  <2>3. QED BY <2>1, <2>2 DEF WritersApart
<1>5. Waiting' = Waiting
  BY <1>1, <1>3 DEF Waiting
<1>6. QED BY <1>4, <1>5

(* One writer that changes, to rows of its own and rows that wait nowhere,   *)
(* changes what waits by those.                                              *)
LEMMA OneWriterWaits ==
  ASSUME Typed, WritersApart, NEW w \in Ids, NEW v, Tidy(v), writers' = [writers EXCEPT ![w] = v],
         NEW fresh, fresh \cap Waiting = {}, Pending(v) \subseteq Pending(writers[w]) \cup fresh
  PROVE  WritersApart' /\ Waiting' = (Waiting \ Pending(writers[w])) \cup Pending(v)
<1>1. /\ Ids' = Ids /\ writers'[w] = v
      /\ \A x \in Ids \ {w} : writers'[x] = writers[x]
  BY DEF Typed, VariableTypes, Ids
<1>2. \A x \in Ids : Pending(writers[x]) \subseteq Waiting
  BY DEF Waiting
<1>3. \A x \in Ids \ {w} : Pending(v) \cap Pending(writers[x]) = {}
  BY <1>2 DEF WritersApart
<1>4. WritersApart'
  <2>1. \A x \in Ids' : PendingOnce(writers'[x]) /\ Settled(writers'[x])
    BY <1>1 DEF WritersApart, Tidy
  <2>2. \A x, y \in Ids' : x # y => Pending(writers'[x]) \cap Pending(writers'[y]) = {}
    <3> SUFFICES ASSUME NEW x \in Ids, NEW y \in Ids, x # y
                 PROVE  Pending(writers'[x]) \cap Pending(writers'[y]) = {}
      BY <1>1
    <3>1. CASE x = w
      BY <1>1, <1>3, <3>1
    <3>2. CASE y = w
      BY <1>1, <1>3, <3>2
    <3>3. CASE x # w /\ y # w
      BY <1>1, <3>3 DEF WritersApart
    <3>4. QED BY <3>1, <3>2, <3>3
  <2>3. QED BY <2>1, <2>2 DEF WritersApart
<1>5. Waiting' = (Waiting \ Pending(writers[w])) \cup Pending(v)
  <2> DEFINE rest == UNION {Pending(writers[x]) : x \in Ids \ {w}}
  <2>1. Waiting = rest \cup Pending(writers[w])
    BY DEF Waiting
  <2>2. rest \cap Pending(writers[w]) = {}
    BY DEF WritersApart
  <2>3. Waiting' = rest \cup Pending(v)
    BY <1>1 DEF Waiting
  <2> HIDE DEF rest
  <2>4. QED BY <2>1, <2>2, <2>3
<1>6. QED BY <1>4, <1>5

(* A producer that goes back to idle lets go of its row and of no other. *)
LEMMA HandEmptied ==
  ASSUME Typed, HandsApart, NEW p \in Busy, row' = row, pc' = [pc EXCEPT ![p] = "idle"]
  PROVE  /\ HandsApart' /\ row[p] \in InHand /\ InHand' = InHand \ {row[p]}
<1>1. Busy' = Busy \ {p}
  BY DEF Busy, Typed, VariableTypes
<1>2. HandsApart'
  BY <1>1 DEF HandsApart
<1>3. InHand' = {row[q] : q \in Busy \ {p}}
  BY <1>1 DEF InHand
<1>4. \A q \in Busy \ {p} : row[q] # row[p]
  BY DEF HandsApart
<1>5. InHand = {row[q] : q \in Busy \ {p}} \cup {row[p]}
  BY DEF InHand
<1>6. QED BY <1>2, <1>3, <1>4, <1>5

(* What the parts make of the whole. *)
Accounted ==
  /\ Rows = InHand \cup Waiting \cup sent \cup lost \cup dropped
  /\ InHand \cap Waiting = {}
  /\ (InHand \cup Waiting) \cap (sent \cup lost \cup dropped) = {}
  /\ sent \cap lost = {} /\ dropped \cap (sent \cup lost) = {}

LEMMA Parts == OnePlace <=> WritersApart /\ HandsApart /\ Accounted
BY DEF OnePlace, EachRowOnce, WritersApart, HandsApart, Accounted

(* A put leaves the row with the writer, which has one more to finish, or    *)
(* drops it.                                                                 *)
LEMMA PutTurn ==
  ASSUME Typed, OnePlace, NEW p \in Producers, Put(p)
  PROVE  /\ target[p] \in Ids /\ row[p] \in InHand
         /\ \/ dropped' = dropped \cup {row[p]} /\ writers' = writers
            \/ /\ dropped' = dropped
               /\ \E v : /\ writers' = [writers EXCEPT ![target[p]] = v] /\ Tidy(v)
                         /\ Pending(v) = Pending(writers[target[p]]) \cup {row[p]}
                         /\ v.unfinished = writers[target[p]].unfinished + 1
<1> DEFINE w == target[p]
           r == row[p]
           W == writers[w]
           v == [W EXCEPT !.queue = Append(W.queue, r), !.unfinished = W.unfinished + 1]
<1>1. w \in Ids /\ r \in Rows /\ p \in Busy
  BY DEF Put, Goto, Busy, Typed, VariableTypes, HasTarget, Ids, Rows
<1>2. r \in InHand /\ Tidy(W)
  BY <1>1, WritersTidy DEF InHand
<1>3. r \notin Pending(W)
  BY <1>1, <1>2 DEF OnePlace, EachRowOnce, Waiting
<1>4. W \in WriterType /\ W.unfinished + 1 \in Int /\ v.unfinished = W.unfinished + 1
  BY <1>2 DEF Tidy, WriterType
<1>5. Tidy(v) /\ Pending(v) = Pending(W) \cup {r}
  <2>1. r \in Rows \ Pending(W)
    BY <1>1, <1>3
  <2> HIDE DEF W, r
  <2>2. QED BY <1>2, <1>4, <2>1, PutIsTidy
<1>6. \/ dropped' = dropped \cup {r} /\ writers' = writers
      \/ dropped' = dropped /\ writers' = [writers EXCEPT ![w] = v]
  BY DEF Put
<1> HIDE DEF v
<1>7. QED BY <1>1, <1>2, <1>4, <1>5, <1>6

LEMMA OnePlaceInvariant == Spec => []OnePlace
<1>1. Init => OnePlace
  BY DEF Init, OnePlace, EachRowOnce, Rows, InHand, Busy, Waiting, Ids
<1>2. Typed /\ OnePlace /\ [Next]_vars => OnePlace'
  <2> SUFFICES ASSUME Typed, OnePlace, [Next]_vars PROVE WritersApart' /\ HandsApart' /\ Accounted'
    BY DEF OnePlace, EachRowOnce, WritersApart, HandsApart, Accounted
  <2> USE DEF Goto, Fates
  <2>0. /\ WritersApart /\ HandsApart /\ Accounted /\ \A w \in Ids : Tidy(writers[w])
        /\ \A p \in Producers : stream[p] \in Streams
    BY WritersTidy, Parts DEF Typed, VariableTypes
  <2>w. writers' = writers => WritersApart' /\ Waiting' = Waiting
    BY <2>0 DEF WritersApart, Waiting, Ids
  <2>h. Busy' = Busy /\ row' = row => HandsApart' /\ InHand' = InHand
    BY <2>0 DEF HandsApart, InHand
  <2>1. ASSUME NEW p \in Producers, NEW s \in Streams, Write(p, s)
        PROVE  WritersApart' /\ HandsApart' /\ Accounted'
    <3> DEFINE r == written + 1
    <3>1. /\ Rows' = Rows \cup {r} /\ r \notin Rows
      BY <2>1 DEF Write, Rows, Typed, VariableTypes
    <3>2. Busy' = Busy \cup {p} /\ p \notin Busy
      BY <2>1 DEF Write, Busy, Typed, VariableTypes
    <3>3. row'[p] = r /\ \A q \in Producers \ {p} : row'[q] = row[q]
      BY <2>1 DEF Write, Typed, VariableTypes
    <3> HIDE DEF r
    <3>4. r \notin InHand
      BY <2>0, <3>1 DEF Accounted
    <3>5. InHand' = InHand \cup {r} /\ HandsApart'
      <4>1. \A q \in Busy : q \in Producers \ {p} /\ row'[q] = row[q] /\ row[q] \in InHand
        BY <3>2, <3>3 DEF Busy, InHand
      <4>2. HandsApart'
        BY <2>0, <3>2, <3>3, <3>4, <4>1 DEF HandsApart
      <4>3. InHand' = InHand \cup {r}
        BY <3>2, <3>3, <4>1 DEF InHand
      <4>4. QED BY <4>2, <4>3
    <3>6. UNCHANGED <<writers, sent, lost, dropped>>
      BY <2>1 DEF Write
    <3>7. QED BY <2>0, <2>w, <3>1, <3>4, <3>5, <3>6 DEF Accounted
  <2>2. ASSUME NEW p \in Producers, WriteDirect(p)
        PROVE  WritersApart' /\ HandsApart' /\ Accounted'
    <3>1. p \in Busy /\ row' = row /\ pc' = [pc EXCEPT ![p] = "idle"] /\ Rows' = Rows
      BY <2>2 DEF WriteDirect, Busy, Rows
    <3>2. HandsApart' /\ row[p] \in InHand /\ InHand' = InHand \ {row[p]}
      BY <2>0, <3>1, HandEmptied
    <3>3. /\ writers' = writers /\ dropped' = dropped
          /\ \/ sent' = sent \cup {row[p]} /\ lost' = lost
             \/ lost' = lost \cup {row[p]} /\ sent' = sent
      BY <2>2 DEF WriteDirect
    <3>4. QED BY <2>0, <2>w, <3>1, <3>2, <3>3 DEF Accounted
  <2>3. ASSUME NEW p \in Producers, MakeOwn(p) \/ FindShared(p) \/ MakeShared(p)
        PROVE  WritersApart' /\ HandsApart' /\ Accounted'
    <3>1. Busy' = Busy /\ row' = row
      BY <2>3 DEF MakeOwn, FindShared, MakeShared, Busy, Typed, VariableTypes
    <3>2. writers' = writers \/ writers' = Append(writers, NewWriter(stream[p]))
      BY <2>3 DEF MakeOwn, FindShared, MakeShared
    <3>3. WritersApart' /\ Waiting' = Waiting
      BY <2>0, <2>w, <3>2, NewWriterWaits
    <3>4. Rows' = Rows /\ UNCHANGED <<sent, lost, dropped>>
      BY <2>3 DEF MakeOwn, FindShared, MakeShared, Rows
    <3>5. QED BY <2>0, <2>h, <3>1, <3>3, <3>4 DEF Accounted
  <2>4. ASSUME NEW p \in Producers, Put(p)
        PROVE  WritersApart' /\ HandsApart' /\ Accounted'
    <3> DEFINE w == target[p]
               r == row[p]
    <3>1. p \in Busy /\ row' = row /\ pc' = [pc EXCEPT ![p] = "idle"] /\ Rows' = Rows
      BY <2>4 DEF Put, Busy, Rows
    <3>2. HandsApart' /\ r \in InHand /\ InHand' = InHand \ {r}
      BY <2>0, <3>1, HandEmptied
    <3>3. w \in Ids /\ UNCHANGED <<sent, lost>>
      BY <2>4, PutTurn DEF Put
    <3>4. CASE dropped' = dropped \cup {r} /\ writers' = writers
      BY <2>0, <2>w, <3>1, <3>2, <3>3, <3>4 DEF Accounted
    <3>5. ASSUME dropped' = dropped,
                 NEW v, writers' = [writers EXCEPT ![w] = v], Tidy(v),
                 Pending(v) = Pending(writers[w]) \cup {r}
          PROVE  WritersApart' /\ HandsApart' /\ Accounted'
      <4>1. {r} \cap Waiting = {} /\ Pending(writers[w]) \subseteq Waiting
        BY <2>0, <3>2, <3>3 DEF Accounted, Waiting
      <4>2. WritersApart' /\ Waiting' = (Waiting \ Pending(writers[w])) \cup Pending(v)
        BY <2>0, <3>3, <3>5, <4>1, OneWriterWaits
      <4>3. Waiting' = Waiting \cup {r}
        BY <3>5, <4>1, <4>2
      <4>4. QED BY <2>0, <3>1, <3>2, <3>3, <3>5, <4>2, <4>3 DEF Accounted
    <3>6. QED BY <2>4, <3>4, <3>5, PutTurn
  <2>5. ASSUME NEW w \in Ids, NEW i \in Workers, Worker(w, i)
        PROVE  WritersApart' /\ HandsApart' /\ Accounted'
    <3> DEFINE W == writers[w]
    <3>1. PICK v : writers' = [writers EXCEPT ![w] = v] /\ Turn(W, v, i)
      BY <2>5, WorkerTurn DEF Typed
    <3>2. Tidy(W)
      BY <2>0
    <3>3. PICK gone \in SUBSET Pending(W) :
              /\ Pending(v) = Pending(W) \ gone
              /\ \/ sent' = sent \cup gone /\ lost' = lost
                 \/ lost' = lost \cup gone /\ sent' = sent
      BY <3>1, <3>2, TurnIsTidy
    <3>4. Tidy(v) /\ dropped' = dropped
      BY <3>1, <3>2, TurnIsTidy
    <3>5. Pending(W) \subseteq Waiting
      BY DEF Waiting
    <3>6. {} \cap Waiting = {} /\ Pending(v) \subseteq Pending(W) \cup {}
      BY <3>3
    <3>7. WritersApart' /\ Waiting' = (Waiting \ Pending(W)) \cup Pending(v)
      BY <2>0, <3>1, <3>4, <3>6, OneWriterWaits
    <3>8. Waiting' = Waiting \ gone
      BY <3>3, <3>5, <3>7
    <3>9. Busy' = Busy /\ row' = row /\ Rows' = Rows
      BY <2>5 DEF Worker, Busy, Rows
    <3>10. QED BY <2>0, <2>h, <3>3, <3>4, <3>5, <3>7, <3>8, <3>9 DEF Accounted
  <2>6. CASE SetMode \/ UNCHANGED vars
    <3>1. UNCHANGED <<writers, written, pc, row, sent, lost, dropped>>
      BY <2>6 DEF SetMode, vars
    <3>2. Busy' = Busy /\ Rows' = Rows
      BY <3>1 DEF Busy, Rows
    <3>3. QED BY <2>0, <2>w, <2>h, <3>1, <3>2 DEF Accounted
  <2>7. QED
    BY <2>1, <2>2, <2>3, <2>4, <2>5, <2>6 DEF Next, Producer
<1>3. QED BY <1>1, <1>2, TypedInvariant, PTL DEF Spec

(* No row is lost track of and none is in two places, whatever the threads   *)
(* do and however flushes fail.                                              *)
THEOREM EveryRowHasOnePlace == Spec => []EachRowOnce
BY OnePlaceInvariant, PTL DEF OnePlace

(* The count of unfinished tasks is that of the rows queued or in flight: a  *)
(* join that returns leaves no row behind, and no worker's task_done raises. *)
THEOREM JoinWaitsForEveryRow == Spec => []JoinMeansFlushed
<1>1. Init => JoinMeansFlushed
  BY DEF Init, JoinMeansFlushed, Ids
<1>2. Typed /\ OnePlace /\ JoinMeansFlushed /\ [Next]_vars => JoinMeansFlushed'
  <2> SUFFICES ASSUME Typed, OnePlace, JoinMeansFlushed, [Next]_vars PROVE JoinMeansFlushed'
    OBVIOUS
  <2>1. /\ writers \in Seq(WriterType)
        /\ \A p \in Producers : stream[p] \in Streams
        /\ \A w \in Ids : Tidy(writers[w]) /\ Pending(writers[w]) \subseteq Waiting
    BY WritersTidy DEF Typed, VariableTypes, Waiting
  <2>2. \A w \in Ids : /\ IsFiniteSet(Pending(writers[w]))
                       /\ Cardinality(Pending(writers[w])) \in Nat
    <3>1. IsFiniteSet(Rows) /\ Waiting \subseteq Rows
      BY FS_Interval DEF OnePlace, EachRowOnce, Rows, Typed, VariableTypes
    <3>2. \A w \in Ids : IsFiniteSet(Pending(writers[w]))
      BY <2>1, <3>1, FS_Subset
    <3>3. QED BY <3>2, FS_CardinalityType
  <2>3. ASSUME NEW w \in Ids, NEW v, writers' = [writers EXCEPT ![w] = v],
               v.unfinished = Cardinality(Pending(v))
        PROVE  JoinMeansFlushed'
    <3>1. /\ Ids' = Ids /\ writers'[w] = v
          /\ \A x \in Ids \ {w} : writers'[x] = writers[x]
      BY <2>1, <2>3 DEF Ids
    <3>2. QED BY <2>3, <3>1 DEF JoinMeansFlushed
  <2>4. ASSUME NEW s \in Streams, writers' = Append(writers, NewWriter(s))
        PROVE  JoinMeansFlushed'
    <3> DEFINE n == Len(writers')
    <3>1. Ids' = Ids \cup {n} /\ \A w \in Ids : writers'[w] = writers[w]
      BY <2>1, <2>4, AppendKeeps
    <3>2. writers'[n] = NewWriter(s)
      BY <2>1, <2>4, NewWriterType
    <3>3. Pending(NewWriter(s)) = {} /\ NewWriter(s).unfinished = 0 /\ Cardinality({}) = 0
      BY NewIsTidy, FS_EmptySet DEF NewWriter
    <3> HIDE DEF n
    <3>4. QED BY <3>1, <3>2, <3>3 DEF JoinMeansFlushed
  <2>5. ASSUME NEW p \in Producers, Put(p) PROVE JoinMeansFlushed'
    <3> DEFINE w == target[p]
    <3>1. w \in Ids /\ row[p] \in InHand
      BY <2>5, PutTurn
    <3>2. row[p] \notin Pending(writers[w])
      BY <2>1, <3>1 DEF OnePlace, EachRowOnce
    <3>3. ASSUME NEW v, writers' = [writers EXCEPT ![w] = v],
                 Pending(v) = Pending(writers[w]) \cup {row[p]},
                 v.unfinished = writers[w].unfinished + 1
          PROVE  JoinMeansFlushed'
      <4>1. Cardinality(Pending(v)) = Cardinality(Pending(writers[w])) + 1
        BY <2>2, <3>1, <3>2, <3>3, FS_AddElement
      <4>2. QED BY <2>3, <3>1, <3>3, <4>1 DEF JoinMeansFlushed
    <3>4. CASE writers' = writers
      BY <3>4 DEF JoinMeansFlushed, Ids
    <3>5. QED BY <2>5, <3>3, <3>4, PutTurn
  <2>6. ASSUME NEW w \in Ids, NEW i \in Workers, Worker(w, i) PROVE JoinMeansFlushed'
    <3> DEFINE W == writers[w]
    <3>1. PICK v : writers' = [writers EXCEPT ![w] = v] /\ Turn(W, v, i)
      BY <2>6, WorkerTurn DEF Typed
    <3>2. PICK gone \in SUBSET Pending(W) :
              /\ Pending(v) = Pending(W) \ gone
              /\ v.unfinished = W.unfinished - Cardinality(gone)
      BY <2>1, <3>1, TurnIsTidy
    <3>3. Cardinality(Pending(W) \ gone) = Cardinality(Pending(W)) - Cardinality(gone)
      <4>1. Pending(W) \cap gone = gone
        BY <3>2
      <4>2. QED BY <2>2, <4>1, FS_Difference
    <3>4. v.unfinished = Cardinality(Pending(v))
      BY <3>2, <3>3 DEF JoinMeansFlushed
    <3>5. QED BY <2>3, <3>1, <3>4
  <2>7. CASE writers' = writers
    BY <2>7 DEF JoinMeansFlushed, Ids
  <2>8. QED
    BY <2>1, <2>4, <2>5, <2>6, <2>7 DEF Next, Producer, Write, WriteDirect, MakeOwn, FindShared,
       MakeShared, SetMode, vars
<1>3. QED BY <1>1, <1>2, TypedInvariant, OnePlaceInvariant, PTL DEF Spec
=============================================================================
