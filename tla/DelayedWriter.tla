--------------------------- MODULE DelayedWriter ---------------------------
(***************************************************************************)
(* The writers (writers/*.py): application threads report rows, at once    *)
(* (LogMode.DIRECT) or through a DelayedWriter, whose worker threads take  *)
(* them off a bounded queue in batches.  The request and response writers  *)
(* share one DelayedWriter each, made by the first write under a lock; the *)
(* log and exception writers make one per write.  A row is the number of   *)
(* its write.                                                              *)
(***************************************************************************)
EXTENDS Integers, Sequences, SequencesExt, FiniteSets

CONSTANTS
  Producers,    \* application threads
  Streams,      \* the writers: "request", "response", "log", "exception"
  Shared,       \* those with one DelayedWriter for the process
  WorkerCount,  \* Configuration().worker_count
  QueueSize,    \* maxsize of the queue
  BatchSize,    \* _BATCH_SIZE
  MaxWrites     \* bound: rows written in the whole behaviour

ASSUME StreamAssumption == Shared \subseteq Streams /\ Streams # {}
ASSUME LimitAssumption ==
  /\ WorkerCount \in Nat \ {0}
  /\ QueueSize \in Nat \ {0}
  /\ BatchSize \in Nat \ {0}
  /\ MaxWrites \in Nat

VARIABLES
  writers,  \* the DelayedWriters made so far, with their queues and workers
  shared,   \* _delayed_writer of each shared stream: its number, 0 for None
  delayed,  \* Configuration().log_mode is DELAYED
  written,  \* rows written so far
  pc,       \* where each producer is in write
  row,      \* the row it writes
  stream,   \* the stream it writes to
  target,   \* the DelayedWriter it writes to
  sent,     \* rows intake accepted
  lost,     \* rows of a post that failed or was refused
  dropped   \* rows a full queue turned away

vars == <<writers, shared, delayed, written, pc, row, stream, target, sent, lost, dropped>>

Workers == 1..WorkerCount
Ids     == 1..Len(writers)

NewWriter(s) == [stream |-> s, queue |-> << >>, unfinished |-> 0,
                 batch |-> [i \in Workers |-> << >>],
                 phase |-> [i \in Workers |-> "idle"]]

Init ==
  /\ writers = << >>
  /\ shared = [s \in Shared |-> 0]
  /\ delayed \in BOOLEAN
  /\ written = 0
  /\ pc = [p \in Producers |-> "idle"]
  /\ row = [p \in Producers |-> 0]
  /\ stream = [p \in Producers |-> CHOOSE s \in Streams : TRUE]
  /\ target = [p \in Producers |-> 0]
  /\ sent = {} /\ lost = {} /\ dropped = {}

Goto(p, from, to) == pc[p] = from /\ pc' = [pc EXCEPT ![p] = to]
Fates == <<sent, lost, dropped>>

(* A row is reported: the payload is built and the writer is chosen under   *)
(* the log mode of the moment.  A write whose payload cannot be built (a mask *)
(* hook raised) is logged and changes nothing.                               *)
Write(p, s) ==
  /\ written < MaxWrites
  /\ written' = written + 1
  /\ row' = [row EXCEPT ![p] = written']
  /\ stream' = [stream EXCEPT ![p] = s]
  /\ Goto(p, "idle", IF delayed THEN "choosing" ELSE "direct")
  /\ UNCHANGED <<writers, shared, delayed, target, Fates>>

(* DirectWriter.write: what is refused or cannot be sent is lost. *)
WriteDirect(p) ==
  /\ Goto(p, "direct", "idle")
  /\ \/ sent' = sent \cup {row[p]} /\ UNCHANGED lost
     \/ lost' = lost \cup {row[p]} /\ UNCHANGED sent
  /\ UNCHANGED <<writers, shared, delayed, written, row, stream, target, dropped>>

(* The log and exception writers: a DelayedWriter, with its queue and its   *)
(* worker threads, for this write.                                           *)
MakeOwn(p) ==
  /\ Goto(p, "choosing", "putting")
  /\ stream[p] \notin Shared
  /\ writers' = Append(writers, NewWriter(stream[p]))
  /\ target' = [target EXCEPT ![p] = Len(writers')]
  /\ UNCHANGED <<shared, delayed, written, row, stream, Fates>>

(* The request and response writers: _get_delayed_writer looks without the  *)
(* lock, and again under it before it makes one.                             *)
FindShared(p) ==
  /\ stream[p] \in Shared
  /\ Goto(p, "choosing", IF shared[stream[p]] # 0 THEN "putting" ELSE "making")
  /\ target' = [target EXCEPT ![p] = shared[stream[p]]]
  /\ UNCHANGED <<writers, shared, delayed, written, row, stream, Fates>>

MakeSharedMutant(p) ==
  /\ Goto(p, "making", "putting")
  /\ writers' = Append(writers, NewWriter(stream[p]))
  /\ shared' = [shared EXCEPT ![stream[p]] = Len(writers')]
  /\ target' = [target EXCEPT ![p] = shared'[stream[p]]]
  /\ UNCHANGED <<delayed, written, row, stream, Fates>>

MakeShared(p) ==
  /\ Goto(p, "making", "putting")
  /\ IF shared[stream[p]] # 0 THEN UNCHANGED <<writers, shared>>
     ELSE /\ writers' = Append(writers, NewWriter(stream[p]))
          /\ shared' = [shared EXCEPT ![stream[p]] = Len(writers')]
  /\ target' = [target EXCEPT ![p] = shared'[stream[p]]]
  /\ UNCHANGED <<delayed, written, row, stream, Fates>>

(* DelayedWriter.write: put_nowait, or the row is dropped. *)
PutMutant(p) ==
  LET w == target[p]
  IN /\ Goto(p, "putting", "idle")
     /\ writers' = [writers EXCEPT ![w].queue = Append(@, row[p]), ![w].unfinished = @ + 1]
     /\ UNCHANGED <<shared, delayed, written, row, stream, target, sent, lost, dropped>>

Put(p) ==
  LET w == target[p]
  IN /\ Goto(p, "putting", "idle")
     /\ IF Len(writers[w].queue) < QueueSize
        THEN /\ writers' = [writers EXCEPT ![w].queue = Append(@, row[p]),
                                           ![w].unfinished = @ + 1]
             /\ UNCHANGED dropped
        ELSE dropped' = dropped \cup {row[p]} /\ UNCHANGED writers
     /\ UNCHANGED <<shared, delayed, written, row, stream, target, sent, lost>>

(* _process: a worker waits for a first row, takes what is there up to a    *)
(* batch, and flushes it.                                                    *)
Take(w, i) ==
  /\ writers[w].phase[i] = "idle"
  /\ writers[w].queue # << >>
  /\ writers' = [writers EXCEPT ![w].phase[i] = "filling",
                                ![w].batch[i] = <<Head(writers[w].queue)>>,
                                ![w].queue = Tail(@)]

FillMutant(w, i) ==
  /\ writers[w].phase[i] = "filling"
  /\ IF writers[w].queue = << >> THEN writers' = [writers EXCEPT ![w].phase[i] = "posting"]
     ELSE IF Len(writers[w].batch[i]) < BatchSize
     THEN writers' = [writers EXCEPT ![w].batch[i] = Append(@, Head(writers[w].queue)),
                                     ![w].queue = Tail(@)]
     ELSE writers' = [writers EXCEPT ![w].phase[i] = "posting", ![w].queue = Tail(@)]

Fill(w, i) ==
  /\ writers[w].phase[i] = "filling"
  /\ IF Len(writers[w].batch[i]) < BatchSize /\ writers[w].queue # << >>
     THEN writers' = [writers EXCEPT ![w].batch[i] = Append(@, Head(writers[w].queue)),
                                     ![w].queue = Tail(@)]
     ELSE writers' = [writers EXCEPT ![w].phase[i] = "posting"]

(* The flush ends, in success or any failure; task_done once per row. *)
DoneMutant(w, i) ==
  writers' = [writers EXCEPT ![w].phase[i] = "idle", ![w].batch[i] = << >>,
                             ![w].unfinished = @ - 1]
Done(w, i) ==
  writers' = [writers EXCEPT ![w].phase[i] = "idle", ![w].batch[i] = << >>,
                             ![w].unfinished = @ - Len(writers[w].batch[i])]

Flush(w, i) ==
  /\ writers[w].phase[i] = "posting"
  /\ Done(w, i)
  /\ sent' = sent \cup ToSet(writers[w].batch[i])
  /\ UNCHANGED <<lost, dropped>>

FlushFailsMutant(w, i) ==
  /\ writers[w].phase[i] = "posting"
  /\ writers' = [writers EXCEPT ![w].phase[i] = "dead"]
  /\ UNCHANGED <<sent, lost, dropped>>

FlushFails(w, i) ==
  /\ writers[w].phase[i] = "posting"
  /\ Done(w, i)
  /\ lost' = lost \cup ToSet(writers[w].batch[i])
  /\ UNCHANGED <<sent, dropped>>

SetMode ==
  /\ delayed' = ~delayed
  /\ UNCHANGED <<writers, shared, written, pc, row, stream, target, Fates>>

Worker(w, i) ==
  /\ \/ (Take(w, i) \/ Fill(w, i)) /\ UNCHANGED Fates
     \/ Flush(w, i) \/ FlushFails(w, i)
  /\ UNCHANGED <<shared, delayed, written, pc, row, stream, target>>

Producer(p) ==
  \/ WriteDirect(p) \/ MakeOwn(p) \/ FindShared(p) \/ MakeShared(p) \/ Put(p)

Next ==
  \/ \E p \in Producers : (\E s \in Streams : Write(p, s)) \/ Producer(p)
  \/ \E w \in Ids, i \in Workers : Worker(w, i)
  \/ SetMode

Spec == Init /\ [][Next]_vars

(* Threads that can run are run; a worker runs as long as the process.  No  *)
(* write has to happen.                                                      *)
FairSpec ==
  /\ Spec
  /\ \A p \in Producers : WF_vars(Producer(p))
  /\ \A w \in 1..MaxWrites, i \in Workers : WF_vars(w \in Ids /\ Worker(w, i))

-----------------------------------------------------------------------------
Rows == 1..written
(* The rows of a writer that wait in its queue or in a worker's batch. *)
InQueue(W) == ToSet(W.queue)
InBatch(W) == UNION {ToSet(W.batch[i]) : i \in Workers}
Pending(W) == InQueue(W) \cup InBatch(W)
Waiting    == UNION {Pending(writers[w]) : w \in Ids}
Busy       == {p \in Producers : pc[p] # "idle"}
InHand     == {row[p] : p \in Busy}

WriterType ==
  [stream : Streams, queue : Seq(Rows), unfinished : Int, batch : [Workers -> Seq(Rows)],
   phase : [Workers -> {"idle", "filling", "posting"}]]

(* Every queue, worker and producer stays in one of its states, and handles
   rows that were written; a worker in particular is idle, filling or posting,
   never gone. *)
VariableTypes ==
  /\ writers \in Seq(WriterType)
  /\ shared \in [Shared -> 0..Len(writers)]
  /\ delayed \in BOOLEAN /\ written \in 0..MaxWrites
  /\ pc \in [Producers -> {"idle", "choosing", "direct", "making", "putting"}]
  /\ row \in [Producers -> 0..written]
  /\ stream \in [Producers -> Streams]
  /\ target \in [Producers -> 0..Len(writers)]
  /\ sent \subseteq Rows /\ lost \subseteq Rows /\ dropped \subseteq Rows

QueueBounded == \A w \in Ids : Len(writers[w].queue) <= QueueSize

(* The variables keep their types, and memory held for intake stays bounded  *)
(* while it is slow or down.                                                  *)
TypeOK == VariableTypes /\ QueueBounded

(* No row is twice in the queue or in the batches of a writer. *)
PendingOnce(W) ==
  /\ IsInjective(W.queue) /\ \A i \in Workers : IsInjective(W.batch[i])
  /\ InQueue(W) \cap InBatch(W) = {}
  /\ \A i, j \in Workers : i # j => ToSet(W.batch[i]) \cap ToSet(W.batch[j]) = {}

(* A row is never lost track of or reported twice: what was written is in   *)
(* one producer's hand, in one place of one queue or batch, or has met one   *)
(* fate.                                                                     *)
EachRowOnce ==
  /\ Rows = InHand \cup Waiting \cup sent \cup lost \cup dropped
  /\ \A p, q \in Busy : row[p] = row[q] => p = q
  /\ \A w \in Ids : PendingOnce(writers[w])
  /\ \A w, x \in Ids : w # x => Pending(writers[w]) \cap Pending(writers[x]) = {}
  /\ InHand \cap Waiting = {}
  /\ (InHand \cup Waiting) \cap (sent \cup lost \cup dropped) = {}
  /\ sent \cap lost = {} /\ dropped \cap (sent \cup lost) = {}

(* The queue's count of unfinished tasks is the rows queued or in flight:   *)
(* joining the queue waits for every row and task_done never raises, which   *)
(* would end the worker.                                                     *)
JoinMeansFlushed ==
  \A w \in Ids : writers[w].unfinished = Cardinality(Pending(writers[w]))

(* The first writes of a stream race to make its writer and still share one, *)
(* and every row reaches the writer of its own stream.                       *)
OneSharedWriter ==
  /\ \A s \in Shared : Cardinality({w \in Ids : writers[w].stream = s}) <= 1
  /\ \A p \in Producers : pc[p] = "putting" => writers[target[p]].stream = stream[p]

(* Every row put on a queue is flushed or lost in a failed flush: no failure *)
(* of one flush stops the worker.                                            *)
EveryRowLeaves ==
  \A r \in 1..MaxWrites : (r \in Waiting) ~> (r \in sent \cup lost)
=============================================================================
