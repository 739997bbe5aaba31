------------------------ MODULE PrunePipelineProofs ------------------------
(* Proofs about PrunePipeline, for any number of posts, workers and panics *)
(* and any capacity.                                                       *)
EXTENDS PrunePipeline, TLAPS

-----------------------------------------------------------------------------
(* Who is joined to whom.                                                   *)

LEMMA Joints ==
  /\ Outbox(Source) = "firehose"
  /\ \A t \in MetaWorker  : Outbox(t) = "meta"  /\ Inbox(t) = "firehose"
  /\ \A t \in ImageWorker : Outbox(t) = "image" /\ Inbox(t) = "meta"
  /\ Outbox(Saver) = "stats" /\ Inbox(Saver) = "image"
  /\ Outbox(Tally) = None /\ Inbox(Tally) = "stats" /\ Inbox(Source) = None
  <1> USE PipelineAssumption DEF Outbox, Inbox, Source, Saver, Tally
  <1>1. ASSUME NEW t \in MetaWorker PROVE Outbox(t) = "meta" /\ Inbox(t) = "firehose"
    BY <1>1
  <1>2. ASSUME NEW t \in ImageWorker PROVE Outbox(t) = "image" /\ Inbox(t) = "meta"
    BY <1>2
  <1>3. QED
    BY <1>1, <1>2

-----------------------------------------------------------------------------
(* Type correctness, which needs to know who holds a message.               *)

Busy == {"working", "forwarding"}

HandInv ==
    /\ \A t \in Task : at[t] \in Busy => hand[t] \in Message
    /\ at[Tally] # "forwarding"
    /\ \A t \in Task : at[t] \in {"starting", "panicked"} => t \in ImageWorker

TypeInv == TypeOK /\ HandInv

LEMMA InitTypeInv == Init => TypeInv
  <1> SUFFICES ASSUME Init PROVE TypeInv
    OBVIOUS
  <1>1. HandInv
    BY PipelineAssumption DEF Init, HandInv, Busy, Task, Worker, Source, Saver, Tally
  <1>2. \A c \in Channel : Len(queue[c]) <= Capacity
    BY PipelineAssumption DEF Init
  <1>3. at \in [Task -> {"starting", "receiving", "working", "forwarding"} \cup Over]
    BY DEF Init
  <1>4. queue \in [Channel -> Seq(Message)]
    <2>1. <<>> \in Seq(Message)
      OBVIOUS
    <2>2. QED
      BY <2>1 DEF Init
  <1>5. hand \in [Task -> Message \cup {None}] /\ stored \in [Post -> Nat]
    BY DEF Init
  <1>6. TypeOK
    <2>1. online \in BOOLEAN /\ abort \in BOOLEAN
      BY Zenon DEF Init
    <2>2. signals \in 0 .. 2 /\ exited \in {"no", "complete", "deadline"}
      BY DEF Init
    <2>3. /\ since \in SUBSET Post /\ buffer \in SUBSET Post
          /\ pulled \in SUBSET Post /\ victims \in SUBSET Post
      BY DEF Init
    <2>4. QED
      BY <1>2, <1>3, <1>4, <1>5, <2>1, <2>2, <2>3 DEF TypeOK
  <1>7. QED
    BY <1>1, <1>6 DEF TypeInv

\* One task moves; every other is as it was.
LEMMA BecomeType ==
  ASSUME TypeInv, NEW t \in Task, NEW m \in Message \cup {None},
         NEW where \in {"receiving", "working", "forwarding"} \cup Over, Become(t, where, m),
         where \in Busy => m \in Message,
         t = Tally => where # "forwarding",
         where = "panicked" => t \in ImageWorker
  PROVE  /\ at' \in [Task -> {"starting", "receiving", "working", "forwarding"} \cup Over]
         /\ hand' \in [Task -> Message \cup {None}]
         /\ HandInv'
  <1>1. /\ at' \in [Task -> {"starting", "receiving", "working", "forwarding"} \cup Over]
        /\ hand' \in [Task -> Message \cup {None}]
        /\ at'[t] = where /\ hand'[t] = m
        /\ \A s \in Task \ {t} : at'[s] = at[s] /\ hand'[s] = hand[s]
    BY DEF Become, TypeInv, TypeOK
  <1>2. Tally \in Task
    BY DEF Task, Worker
  <1>3. \A s \in Task : at'[s] \in Busy => hand'[s] \in Message
    BY <1>1 DEF TypeInv, HandInv
  <1>4. at'[Tally] # "forwarding"
    BY <1>1, <1>2 DEF TypeInv, HandInv
  <1>5. \A s \in Task : at'[s] \in {"starting", "panicked"} => s \in ImageWorker
    BY <1>1 DEF TypeInv, HandInv, Over
  <1>6. QED
    BY <1>1, <1>3, <1>4, <1>5 DEF HandInv

LEMMA QueueType ==
  ASSUME TypeInv, NEW c \in Channel, NEW q \in Seq(Message), Len(q) <= Capacity,
         queue' = [queue EXCEPT ![c] = q]
  PROVE  /\ queue' \in [Channel -> Seq(Message)]
         /\ \A d \in Channel : Len(queue'[d]) <= Capacity
  <1>1. \A d \in Channel : queue'[d] = IF d = c THEN q ELSE queue[d]
    BY DEF TypeInv, TypeOK
  <1>2. QED
    BY <1>1 DEF TypeInv, TypeOK

LEMMA FlushType ==
  ASSUME TypeInv, NEW records \in SUBSET Post, Flush(records)
  PROVE  buffer' \in SUBSET Post /\ stored' \in [Post -> Nat]
  BY DEF Flush, Kept, TypeInv, TypeOK

\* Channels, by the task that moves a message.
LEMMA TakeType ==
  ASSUME TypeInv, NEW t \in Task, Take(t) PROVE TypeInv'
  <1> DEFINE c == Inbox(t)
  <1>1. c \in Channel
    BY Joints DEF Take, Worker, Channel
  <1>2. /\ queue[c] \in Seq(Message) /\ queue[c] # <<>> /\ Len(queue[c]) <= Capacity
        /\ Capacity \in Nat
    BY <1>1, PipelineAssumption DEF Take, TypeInv, TypeOK
  <1>3. /\ Head(queue[c]) \in Message
        /\ Tail(queue[c]) \in Seq(Message) /\ Len(Tail(queue[c])) <= Capacity
    BY <1>2
  <1>4. queue' = [queue EXCEPT ![c] = Tail(queue[c])]
    BY DEF Take
  <1>5. /\ queue' \in [Channel -> Seq(Message)]
        /\ \A d \in Channel : Len(queue'[d]) <= Capacity
    BY <1>1, <1>3, <1>4, QueueType
  <1>6. /\ at' \in [Task -> {"starting", "receiving", "working", "forwarding"} \cup Over]
        /\ hand' \in [Task -> Message \cup {None}]
        /\ HandInv'
    BY <1>3, BecomeType DEF Take, Busy
  <1>7. QED
    BY <1>5, <1>6 DEF Take, TypeInv, TypeOK, stopVars, statsVars

LEMMA ForwardType ==
  ASSUME TypeInv, NEW t \in Task, Forward(t) PROVE TypeInv'
  <1> DEFINE c == Outbox(t)
  <1>1. c \in Channel
    BY Joints DEF Forward, TypeInv, HandInv, Task, Worker, Channel
  <1>2. /\ queue[c] \in Seq(Message) /\ Len(queue[c]) < Capacity
        /\ Capacity \in Nat /\ hand[t] \in Message
    BY <1>1, PipelineAssumption DEF Forward, HasRoom, TypeInv, TypeOK, HandInv, Busy
  <1>3. Append(queue[c], hand[t]) \in Seq(Message)
        /\ Len(Append(queue[c], hand[t])) <= Capacity
    BY <1>2
  <1>4. queue' = [queue EXCEPT ![c] = Append(queue[c], hand[t])]
    BY DEF Forward
  <1>5. /\ queue' \in [Channel -> Seq(Message)]
        /\ \A d \in Channel : Len(queue'[d]) <= Capacity
    BY <1>1, <1>3, <1>4, QueueType
  <1>6. /\ at' \in [Task -> {"starting", "receiving", "working", "forwarding"} \cup Over]
        /\ hand' \in [Task -> Message \cup {None}]
        /\ HandInv'
    BY BecomeType DEF Forward, Busy
  <1>7. QED
    BY <1>5, <1>6 DEF Forward, TypeInv, TypeOK, stopVars, statsVars

LEMMA FinishType ==
  ASSUME TypeInv, NEW t \in Task \ {Tally}, NEW work \in Work, Finish(t, work)
  PROVE  TypeInv'
  <1>1. [hand[t] EXCEPT !.work = work] \in Message
    BY DEF Finish, TypeInv, HandInv, Busy, Message
  <1>2. /\ at' \in [Task -> {"starting", "receiving", "working", "forwarding"} \cup Over]
        /\ hand' \in [Task -> Message \cup {None}]
        /\ HandInv'
    BY <1>1, BecomeType DEF Finish, Busy
  <1>3. QED
    BY <1>2 DEF Finish, TypeInv, TypeOK, stopVars, statsVars

LEMMA StepType ==
  ASSUME TypeInv, NEW t \in Task, StepOf(t) \/ Panic(t) PROVE TypeInv'
  <1>1. ASSUME NEW where \in {"receiving"} \cup Over, Become(t, where, None),
               where = "panicked" => t \in ImageWorker
        PROVE  /\ at' \in [Task -> {"starting", "receiving", "working", "forwarding"} \cup Over]
               /\ hand' \in [Task -> Message \cup {None}]
               /\ HandInv'
    BY <1>1, BecomeType DEF Busy, Over
  <1>2. ASSUME GiveUp(t) \/ Stop(t) \/ Load(t) PROVE TypeInv'
    BY <1>1, <1>2 DEF GiveUp, Stop, Load, Over, TypeInv, TypeOK, stopVars, statsVars
  <1>3. ASSUME Panic(t) PROVE TypeInv'
    <2>1. t \in ImageWorker
      BY <1>3 DEF Panic, TypeInv, HandInv
    <2>2. victims' \in SUBSET Post
      BY <1>3 DEF Panic, TypeInv, TypeOK, HandInv, Busy, Message
    <2>3. QED
      BY <1>1, <1>3, <2>1, <2>2 DEF Panic, Over, TypeInv, TypeOK, stopVars, statsVars
  <1>4. ASSUME CheckMeta(t) \/ ClassifyImages(t) \/ (t = Saver /\ SaveRecords) PROVE TypeInv'
    <2>1. t # Tally
      BY <1>4, PipelineAssumption DEF CheckMeta, ClassifyImages, Saver, Tally
    <2>2. PICK work \in Work : Finish(t, work)
      BY <1>4 DEF CheckMeta, ClassifyImages, SaveRecords, Work
    <2>3. QED
      BY <2>1, <2>2, FinishType
  <1>5. ASSUME t = Tally, RecordCounts PROVE TypeInv'
    <2>1. since \cup {hand[t].post} \in SUBSET Post
      BY <1>5 DEF RecordCounts, TypeInv, TypeOK, HandInv, Busy, Message
    <2>2. since' \in SUBSET Post /\ buffer' \in SUBSET Post /\ stored' \in [Post -> Nat]
      <3> DEFINE counted == since \cup {hand[t].post}
      <3>1. PICK due \in BOOLEAN :
              LET records == IF due THEN buffer \cup counted ELSE buffer
              IN  /\ since' = IF due THEN {} ELSE counted
                  /\ Flush(records) \/ (buffer' = records /\ UNCHANGED stored)
        BY <1>5 DEF RecordCounts
      <3> DEFINE records == IF due THEN buffer \cup counted ELSE buffer
      <3>2. records \in SUBSET Post
        BY <2>1 DEF TypeInv, TypeOK
      <3>3. CASE Flush(records)
        BY <2>1, <3>1, <3>2, <3>3, FlushType
      <3>4. CASE buffer' = records /\ UNCHANGED stored
        BY <2>1, <3>1, <3>2, <3>4 DEF TypeInv, TypeOK
      <3>5. QED
        BY <3>1, <3>3, <3>4
    <2>3. QED
      BY <1>1, <1>5, <2>2 DEF RecordCounts, TypeInv, TypeOK, stopVars
  <1>6. ASSUME t = Tally, StopTally PROVE TypeInv'
    <2>1. buffer' \in SUBSET Post /\ stored' \in [Post -> Nat]
      BY <1>6, FlushType DEF StopTally, TypeInv, TypeOK
    <2>2. QED
      BY <1>1, <1>6, <2>1 DEF StopTally, Over, TypeInv, TypeOK, stopVars
  <1>7. ASSUME t = Source, StopSource PROVE TypeInv'
    BY <1>1, <1>7 DEF StopSource, Over, TypeInv, TypeOK, stopVars, statsVars
  <1>8. QED
    BY <1>2, <1>3, <1>4, <1>5, <1>6, <1>7, TakeType, ForwardType DEF StepOf

LEMMA TypeStep == TypeInv /\ [Next]_vars => TypeInv'
  <1> SUFFICES ASSUME TypeInv, [Next]_vars PROVE TypeInv'
    OBVIOUS
  <1>1. CASE UNCHANGED vars
    BY <1>1 DEF vars, taskVars, stopVars, statsVars, TypeInv, TypeOK, HandInv
  <1>2. ASSUME NEW p \in Post, Pull(p) PROVE TypeInv'
    <2>1. Source \in Task /\ Source # Tally
      BY DEF Task, Source, Tally
    <2>2. [post |-> p, work |-> "candidate"] \in Message
      BY DEF Message, Work
    <2>3. /\ at' \in [Task -> {"starting", "receiving", "working", "forwarding"} \cup Over]
          /\ hand' \in [Task -> Message \cup {None}]
          /\ HandInv'
      BY <1>2, <2>1, <2>2, BecomeType DEF Pull
    <2>4. QED
      BY <1>2, <2>3 DEF Pull, TypeInv, TypeOK, stopVars, statsVars
  <1>3. CASE Connect \/ EndSession
    BY <1>3 DEF Connect, EndSession, taskVars, stopVars, statsVars, TypeInv, TypeOK, HandInv
  <1>4. CASE Complete \/ Deadline
    BY <1>4 DEF Complete, Deadline, taskVars, statsVars, TypeInv, TypeOK, HandInv
  <1>5. CASE Signal
    <2>1. abort' \in BOOLEAN
      BY <1>5 DEF Signal
    <2>2. signals' \in 0 .. 2
      BY <1>5 DEF Signal, TypeInv, TypeOK
    <2>3. QED
      BY <1>5, <2>1, <2>2 DEF Signal, taskVars, statsVars, TypeInv, TypeOK, HandInv
  <1>6. QED
    BY <1>1, <1>2, <1>3, <1>4, <1>5, StepType DEF Next, Exited

LEMMA TypeInvariant == Spec => []TypeInv
  BY InitTypeInv, TypeStep, PTL DEF Spec

\* Every reachable state of the pipeline is well typed, no channel ever holds more
\* than its capacity, and only image workers panic.
THEOREM TypeCorrect == Spec => []TypeOK
  <1>1. TypeInv => TypeOK
    BY DEF TypeInv
  <1>2. QED
    BY <1>1, TypeInvariant, PTL

-----------------------------------------------------------------------------
(* The close cascade.  As long as nothing has aborted, a worker ends only    *)
(* behind a channel that is empty and that nobody will send to again.        *)

CascadeInv ==
    /\ ~abort => \A t \in Worker : at[t] = "ended" => Drained(Inbox(t))
    /\ abort => signals = 2 \/ PoolIsDead

LEMMA InitCascade == Init => CascadeInv
  BY DEF Init, CascadeInv, Task, Worker

\* A channel that is drained stays drained: its senders are over, and so is any
\* task that could still put a message into it.
LEMMA DrainedStays ==
  ASSUME TypeInv, NEW c \in Channel, Drained(c),
         \A t \in Task : at[t] \in Over => at'[t] = at[t],
         queue'[c] = queue[c]
  PROVE  Drained(c)'
  BY DEF Drained, SendersGone, Over

\* A task that finds nobody behind its channel has a dead image pool behind it.
LEMMA OnlyADeadPool ==
  ASSUME TypeInv, CascadeInv, ~abort, NEW t \in Task, at[t] = "forwarding",
         ReceiversGone(Outbox(t))
  PROVE  PoolIsDead
  <1> DEFINE c == Outbox(t)
  <1>1. \A r \in Task : Inbox(r) = c => at[r] = "panicked"
    <2> SUFFICES ASSUME NEW r \in Task, Inbox(r) = c, at[r] # "panicked" PROVE FALSE
      OBVIOUS
    <2>1. at[r] = "ended"
      BY DEF ReceiversGone, Over
    <2>2. c \in Channel
      BY Joints DEF TypeInv, HandInv, Task, Worker, Channel
    <2>3. r \in Worker
      BY <2>2, Joints, PipelineAssumption DEF Channel, Task, Worker
    <2>4. SendersGone(c)
      BY <2>1, <2>3 DEF CascadeInv, Drained
    <2>5. QED
      BY <2>4 DEF SendersGone, Over
  <1>2. \A r \in Task : Inbox(r) = c => r \in ImageWorker
    BY <1>1 DEF TypeInv, HandInv
  <1>3. t \in MetaWorker
    <2>1. t # Source
      <3>1. PICK m \in MetaWorker : TRUE
        BY PipelineAssumption
      <3>2. m \in Task /\ Inbox(m) = "firehose" /\ m \notin ImageWorker
        BY <3>1, Joints, PipelineAssumption DEF Task, Worker
      <3>3. QED
        BY <1>2, <3>2, Joints
    <2>2. t \notin ImageWorker
      <3>1. Saver \in Task /\ Inbox(Saver) = "image" /\ Saver \notin ImageWorker
        BY Joints, PipelineAssumption DEF Task, Worker
      <3>2. QED
        BY <1>2, <3>1, Joints
    <2>3. t # Saver
      <3>1. Tally \in Task /\ Inbox(Tally) = "stats" /\ Tally \notin ImageWorker
        BY Joints, PipelineAssumption DEF Task, Worker
      <3>2. QED
        BY <1>2, <3>1, Joints
    <2>4. t # Tally
      BY DEF TypeInv, HandInv
    <2>5. QED
      BY <2>1, <2>2, <2>3, <2>4 DEF Task, Worker
  <1>4. \A w \in ImageWorker : w \in Task /\ Inbox(w) = c
    BY <1>3, Joints DEF Task, Worker
  <1>5. QED
    BY <1>1, <1>4 DEF PoolIsDead

\* A dead pool stays dead.
LEMMA DeadStaysDead ==
  ASSUME PoolIsDead, \A t \in Task : at[t] \in Over => at'[t] = at[t]
  PROVE  PoolIsDead'
  BY DEF PoolIsDead, Over, Task, Worker

LEMMA OverIsFinal ==
  ASSUME TypeInv, [Next]_vars, NEW t \in Task, at[t] \in Over
  PROVE  at'[t] = at[t]
  <1> USE DEF TypeInv, TypeOK, Over
  <1>1. CASE UNCHANGED at
    BY <1>1
  <1>2. ASSUME NEW s \in Task, NEW where, NEW m, at[s] \notin Over, Become(s, where, m)
        PROVE  at'[t] = at[t]
    BY <1>2 DEF Become
  <1>3. ASSUME NEW s \in Task, StepOf(s) \/ Panic(s) PROVE at'[t] = at[t]
    BY <1>2, <1>3 DEF StepOf, Take, Forward, GiveUp, Stop, CheckMeta, Load, ClassifyImages,
                      Finish, SaveRecords, RecordCounts, StopTally, StopSource, Panic
  <1>4. ASSUME NEW p \in Post, Pull(p) PROVE at'[t] = at[t]
    BY <1>2, <1>4 DEF Pull, Task
  <1>5. QED
    BY <1>1, <1>3, <1>4 DEF Next, Connect, EndSession, Signal, Complete, Deadline, Exited,
                            vars, taskVars

LEMMA DrainedIsFinal ==
  ASSUME TypeInv, [Next]_vars, NEW c \in Channel, Drained(c)
  PROVE  Drained(c)'
  <1> USE DEF TypeInv, TypeOK
  <1>1. queue'[c] = queue[c]
    <2>1. CASE UNCHANGED queue
      BY <2>1
    <2>2. ASSUME NEW t \in Task, Take(t) PROVE queue'[c] = queue[c]
      BY <2>2 DEF Take, Drained
    <2>3. ASSUME NEW t \in Task, Forward(t) PROVE queue'[c] = queue[c]
      <3>1. Outbox(t) # c
        BY <2>3 DEF Forward, Drained, SendersGone, Over
      <3>2. QED
        BY <2>3, <3>1 DEF Forward
    <2>4. ASSUME NEW t \in Task, StepOf(t) \/ Panic(t) PROVE queue'[c] = queue[c]
      BY <2>1, <2>2, <2>3, <2>4
         DEF StepOf, GiveUp, Stop, CheckMeta, Load, ClassifyImages, Finish, SaveRecords,
             RecordCounts, StopTally, StopSource, Panic
    <2>5. QED
      BY <2>1, <2>4 DEF Next, Pull, Connect, EndSession, Signal, Complete, Deadline, Exited,
                        vars
  <1>2. QED
    BY <1>1, OverIsFinal, DrainedStays

LEMMA CascadeStep ==
  ASSUME TypeInv, CascadeInv, [Next]_vars
  PROVE  CascadeInv'
  <1>1. ASSUME NEW t \in Worker, at'[t] = "ended", ~abort' PROVE Drained(Inbox(t))
    <2>1. t \in Task /\ t # Source
      BY PipelineAssumption DEF Task, Worker, Source, Saver, Tally
    <2>2. ~abort
      BY <1>1 DEF Next, StepOf, Take, Forward, GiveUp, Stop, CheckMeta, Load, ClassifyImages,
                  Finish, SaveRecords, RecordCounts, StopTally, StopSource, Panic, Pull,
                  Connect, EndSession, Signal, Complete, Deadline, Exited, vars, stopVars
    <2>3. CASE at[t] = "ended"
      BY <2>2, <2>3 DEF CascadeInv
    <2>4. CASE at[t] # "ended"
      <3>1. ASSUME NEW s \in Task, NEW where, NEW m, Become(s, where, m), where # "ended"
            PROVE  FALSE
        BY <1>1, <2>1, <2>4, <3>1 DEF Become, TypeInv, TypeOK
      <3>2. ASSUME NEW s \in Task, NEW m, Become(s, "ended", m) PROVE s = t
        BY <1>1, <2>1, <2>4, <3>2 DEF Become, TypeInv, TypeOK
      <3>3. at' # at
        BY <1>1, <2>4
      <3>4. PICK s \in Task : StepOf(s) \/ Panic(s)
        BY <3>1, <3>3 DEF Next, Pull, Connect, EndSession, Signal, Complete, Deadline, Exited,
                          vars, taskVars, Task
      <3>5. GiveUp(s) \/ Stop(s) \/ (s = Tally /\ StopTally) \/ (s = Source /\ StopSource)
        BY <3>1, <3>4 DEF StepOf, Take, Forward, CheckMeta, Load, ClassifyImages, Finish,
                          SaveRecords, RecordCounts, Panic
      <3>6. CASE GiveUp(s)
        BY <1>1, <3>6 DEF GiveUp
      <3>7. CASE Stop(s)
        BY <2>2, <3>2, <3>7 DEF Stop, Cancelled
      <3>8. CASE s = Tally /\ StopTally
        BY <2>2, <3>2, <3>8, Joints DEF StopTally, Cancelled
      <3>9. CASE s = Source /\ StopSource
        BY <2>1, <3>2, <3>9 DEF StopSource
      <3>10. QED
        BY <3>5, <3>6, <3>7, <3>8, <3>9
    <2>5. QED
      BY <2>3, <2>4
  <1>2. ~abort' => \A t \in Worker : at'[t] = "ended" => Drained(Inbox(t))'
    <2> SUFFICES ASSUME ~abort', NEW t \in Worker, at'[t] = "ended"
                 PROVE  Drained(Inbox(t))'
      OBVIOUS
    <2>1. Inbox(t) \in Channel /\ Drained(Inbox(t))
      BY <1>1, Joints DEF Worker, Channel
    <2>2. PICK c \in Channel : c = Inbox(t) /\ Drained(c)'
      BY <2>1, DrainedIsFinal
    <2>3. Inbox(t)' = Inbox(t)
      BY DEF Inbox
    <2>4. QED
      BY <2>2, <2>3
  <1>3. abort' => (signals = 2 \/ PoolIsDead)'
    <2>1. CASE abort /\ PoolIsDead
      BY <2>1, OverIsFinal, DeadStaysDead
    <2>2. CASE abort /\ signals = 2
      <3>1. ~Signal
        BY <2>2 DEF Signal
      <3>2. signals' = signals
        BY <3>1 DEF Next, StepOf, Take, Forward, GiveUp, Stop, CheckMeta, Load,
                    ClassifyImages, Finish, SaveRecords, RecordCounts, StopTally,
                    StopSource, Panic, Pull, Connect, EndSession, Complete, Deadline,
                    Exited, vars, stopVars
      <3>3. QED
        BY <2>2, <3>2
    <2>3. ASSUME ~abort, NEW t \in Task, GiveUp(t) PROVE PoolIsDead'
      <3>1. PoolIsDead
        BY <2>3, OnlyADeadPool DEF GiveUp, Cancelled
      <3>2. QED
        BY <3>1, OverIsFinal, DeadStaysDead
    <2>4. ASSUME ~abort, Signal PROVE abort' => signals' = 2
      BY <2>4 DEF Signal
    <2>5. CASE ~abort
      BY <2>3, <2>4, <2>5
         DEF Next, StepOf, Take, Forward, Stop, CheckMeta, Load, ClassifyImages,
             Finish, SaveRecords, RecordCounts, StopTally, StopSource, Panic, Pull,
             Connect, EndSession, Complete, Deadline, Exited, vars, stopVars
    <2>6. QED
      BY <2>1, <2>2, <2>5 DEF CascadeInv
  <1>4. QED
    BY <1>2, <1>3 DEF CascadeInv

LEMMA CascadeInvariant == Spec => []CascadeInv
  BY InitCascade, CascadeStep, TypeInvariant, PTL DEF Spec

\* No stage ever finds its downstream gone while an image worker lives: neither a
\* drain nor the death of some workers turns into an abort by itself.
THEOREM AbortsAreEarned == Spec => []AbortIsEarned
  <1>1. CascadeInv => AbortIsEarned
    BY DEF CascadeInv, AbortIsEarned
  <1>2. QED
    BY <1>1, CascadeInvariant, PTL

-----------------------------------------------------------------------------
(* Nothing is lost.  Until something aborts, a post that was pulled and did  *)
(* not panic is in a hand, in a channel, or tallied; and when every task is  *)
(* over, hands and channels are empty.                                      *)

InHand(p)  == \E t \in Task : at[t] \in Busy /\ hand[t].post = p
InQueue(p) == \E c \in Channel : \E k \in 1 .. Len(queue[c]) : queue[c][k].post = p
Present(p) == InHand(p) \/ InQueue(p) \/ p \in Tallied

FlowInv ==
    /\ ~abort => \A p \in pulled \ victims : Present(p)
    /\ exited = "complete" => \A t \in Task : at[t] \in Over

LEMMA InitFlow == Init => FlowInv
  BY DEF Init, FlowInv

\* A flush moves records or keeps them.
LEMMA FlushKeeps ==
  ASSUME TypeInv, NEW records \in SUBSET Post, Flush(records), NEW p \in Post
  PROVE  /\ p \in records => p \in buffer' \/ stored'[p] > 0
         /\ stored[p] > 0 => stored'[p] > 0
  BY DEF Flush, Kept, TypeInv, TypeOK

LEMMA TallyKeeps ==
  ASSUME TypeInv, NEW p \in Post,
         RecordCounts \/ StopTally \/ UNCHANGED statsVars,
         p \in Tallied \/ (RecordCounts /\ p = hand[Tally].post)
  PROVE  p \in Tallied'
  <1> USE DEF Tallied, TypeInv, TypeOK
  <1>1. CASE UNCHANGED statsVars
    <2>1. p \in Tallied \/ RecordCounts
      OBVIOUS
    <2>2. CASE p \in Tallied
      BY <1>1, <2>2 DEF statsVars
    <2>3. CASE RecordCounts /\ p = hand[Tally].post
      BY <1>1, <2>3 DEF RecordCounts, statsVars, Flush
    <2>4. QED
      BY <2>2, <2>3
  <1>2. CASE StopTally /\ p \in Tallied
    BY <1>2, FlushKeeps DEF StopTally
  <1>3. CASE RecordCounts
    <2> DEFINE counted == since \cup {hand[Tally].post}
    <2>1. hand[Tally].post \in Post
      BY <1>3 DEF RecordCounts, HandInv, Busy, Task, Worker, Message
    <2>2. PICK due \in BOOLEAN :
            LET records == IF due THEN buffer \cup counted ELSE buffer
            IN  /\ since' = IF due THEN {} ELSE counted
                /\ Flush(records) \/ (buffer' = records /\ UNCHANGED stored)
      BY <1>3 DEF RecordCounts
    <2> DEFINE records == IF due THEN buffer \cup counted ELSE buffer
    <2>3. records \in SUBSET Post
      BY <2>1
    <2>4. p \in counted \cup buffer \/ stored[p] > 0
      OBVIOUS
    <2>5. p \in records \cup since' \/ stored[p] > 0
      BY <2>2, <2>4
    <2>6. CASE Flush(records)
      BY <2>3, <2>5, <2>6, FlushKeeps
    <2>7. CASE buffer' = records /\ UNCHANGED stored
      BY <2>5, <2>7
    <2>8. QED
      BY <2>2, <2>6, <2>7
  <1>4. QED
    BY <1>1, <1>2, <1>3

\* What one task lets go of leaves what the others hold where it is.
LEMMA HandsKeep ==
  ASSUME TypeInv, NEW t \in Task, NEW where, NEW m, Become(t, where, m), NEW p, InHand(p)
  PROVE  InHand(p)' \/ (at[t] \in Busy /\ hand[t].post = p)
  <1>1. PICK s \in Task : at[s] \in Busy /\ hand[s].post = p
    BY DEF InHand
  <1>2. CASE s = t
    BY <1>1, <1>2
  <1>3. CASE s # t
    <2>1. at'[s] = at[s] /\ hand'[s] = hand[s]
      BY <1>3 DEF Become, TypeInv, TypeOK
    <2>2. QED
      BY <1>1, <2>1 DEF InHand
  <1>4. QED
    BY <1>2, <1>3

LEMMA TakeKeeps ==
  ASSUME TypeInv, NEW t \in Task, Take(t), NEW p, InHand(p) \/ InQueue(p)
  PROVE  InHand(p)' \/ InQueue(p)'
  <1> DEFINE c == Inbox(t)
  <1>1. /\ queue \in [Channel -> Seq(Message)] /\ queue[c] # <<>>
        /\ queue' = [queue EXCEPT ![c] = Tail(queue[c])]
        /\ at[t] = "receiving"
        /\ at'[t] = "working" /\ hand'[t] = Head(queue[c])
    BY DEF Take, Become, TypeInv, TypeOK
  <1>2. CASE InHand(p)
    BY <1>1, <1>2, HandsKeep DEF Take, Busy
  <1>3. ASSUME NEW d \in Channel, NEW k \in 1 .. Len(queue[d]), queue[d][k].post = p
        PROVE  InHand(p)' \/ InQueue(p)'
    <2>1. CASE d # c
      BY <1>1, <1>3, <2>1 DEF InQueue
    <2>2. CASE d = c /\ k = 1
      BY <1>1, <1>3, <2>2 DEF InHand, Busy
    <2>3. CASE d = c /\ k # 1
      <3>1. queue[d] \in Seq(Message) /\ queue'[d] = Tail(queue[d])
        BY <1>1, <2>3
      <3>2. k - 1 \in 1 .. Len(queue'[d]) /\ queue'[d][k - 1] = queue[d][k]
        BY <1>3, <2>3, <3>1
      <3>3. QED
        BY <1>3, <3>2 DEF InQueue
    <2>4. QED
      BY <2>1, <2>2, <2>3
  <1>4. QED
    BY <1>2, <1>3 DEF InQueue

LEMMA ForwardKeeps ==
  ASSUME TypeInv, NEW t \in Task, Forward(t), NEW p, InHand(p) \/ InQueue(p)
  PROVE  InHand(p)' \/ InQueue(p)'
  <1> DEFINE c == Outbox(t)
  <1>1. /\ c \in Channel
        /\ queue \in [Channel -> Seq(Message)]
        /\ hand[t] \in Message
        /\ queue' = [queue EXCEPT ![c] = Append(queue[c], hand[t])]
    BY Joints DEF Forward, TypeInv, TypeOK, HandInv, Busy, Task, Worker, Channel
  <1>2. /\ Len(queue[c]) \in Nat
        /\ Len(queue'[c]) = Len(queue[c]) + 1
        /\ queue'[c][Len(queue[c]) + 1] = hand[t]
        /\ \A k \in 1 .. Len(queue[c]) : queue'[c][k] = queue[c][k]
    BY <1>1
  <1>3. ASSUME hand[t].post = p PROVE InQueue(p)'
    <2>1. Len(queue[c]) + 1 \in 1 .. Len(queue'[c])
      BY <1>2
    <2>2. QED
      BY <1>1, <1>2, <1>3, <2>1 DEF InQueue
  <1>4. ASSUME NEW d \in Channel, NEW k \in 1 .. Len(queue[d]), queue[d][k].post = p
        PROVE  InQueue(p)'
    <2>1. CASE d # c
      BY <1>1, <1>4, <2>1 DEF InQueue
    <2>2. CASE d = c
      <3>1. k \in 1 .. Len(queue'[d]) /\ queue'[d][k] = queue[d][k]
        BY <1>2, <1>4, <2>2
      <3>2. QED
        BY <1>4, <3>1 DEF InQueue
    <2>3. QED
      BY <2>1, <2>2
  <1>5. QED
    BY <1>3, <1>4, HandsKeep DEF Forward, InQueue

LEMMA FlowStep ==
  ASSUME TypeInv, FlowInv, [Next]_vars
  PROVE  FlowInv'
  <1>1. exited' = "complete" => \A t \in Task : at'[t] \in Over
    <2>1. CASE exited = "complete"
      BY <2>1, OverIsFinal DEF FlowInv
    <2>2. CASE UNCHANGED exited
      BY <2>1, <2>2
    <2>3. CASE Complete
      BY <2>3 DEF Complete, taskVars
    <2>4. CASE Deadline
      BY <2>4 DEF Deadline
    <2>5. QED
      BY <2>2, <2>3, <2>4
         DEF Next, StepOf, Take, Forward, GiveUp, Stop, CheckMeta, Load, ClassifyImages,
             Finish, SaveRecords, RecordCounts, StopTally, StopSource, Panic, Pull,
             Connect, EndSession, Signal, Exited, vars, stopVars
  <1>2. ASSUME ~abort', NEW p \in pulled', p \notin victims' PROVE Present(p)'
    <2>1. ~abort
      BY <1>2 DEF Next, StepOf, Take, Forward, GiveUp, Stop, CheckMeta, Load, ClassifyImages,
                  Finish, SaveRecords, RecordCounts, StopTally, StopSource, Panic, Pull,
                  Connect, EndSession, Signal, Complete, Deadline, Exited, vars, stopVars
    <2>2. p \in Post /\ victims \subseteq victims'
      <3>1. victims \subseteq victims'
        BY DEF Next, StepOf, Take, Forward, GiveUp, Stop, CheckMeta, Load, ClassifyImages,
               Finish, SaveRecords, RecordCounts, StopTally, StopSource, Panic, Pull,
               Connect, EndSession, Signal, Complete, Deadline, Exited, vars
      <3>2. pulled' \subseteq Post
        BY TypeStep DEF TypeInv, TypeOK
      <3>3. QED
        BY <1>2, <3>1, <3>2
    <2>3. p \in pulled => Present(p)
      BY <1>2, <2>1, <2>2 DEF FlowInv
    <2>4. ASSUME UNCHANGED <<at, hand, queue, statsVars>>, p \in pulled PROVE Present(p)'
      BY <2>3, <2>4 DEF Present, InHand, InQueue, Tallied, statsVars
    <2>5. ASSUME NEW q \in Post, Pull(q) PROVE Present(p)'
      <3>1. /\ at[Source] = "receiving" /\ Source \in Task
            /\ at'[Source] = "forwarding" /\ hand'[Source].post = q
            /\ UNCHANGED <<queue, statsVars>>
        BY <2>5 DEF Pull, Become, TypeInv, TypeOK, Task
      <3>2. CASE p = q
        BY <3>1, <3>2 DEF Present, InHand, Busy
      <3>3. CASE p # q
        <4>1. Present(p)
          BY <1>2, <2>3, <2>5, <3>3 DEF Pull
        <4>2. InHand(p) => InHand(p)'
          BY <2>5, <3>1, HandsKeep DEF Pull, Busy
        <4>3. QED
          BY <3>1, <4>1, <4>2 DEF Present, InQueue, Tallied, statsVars
      <3>4. QED
        BY <3>2, <3>3
    <2>6. ASSUME NEW t \in Task, StepOf(t) \/ Panic(t) PROVE Present(p)'
      <3>1. Present(p)
        BY <1>2, <2>3, <2>6
           DEF StepOf, Take, Forward, GiveUp, Stop, CheckMeta, Load, ClassifyImages, Finish,
               SaveRecords, RecordCounts, StopTally, StopSource, Panic
      <3>2. CASE Take(t)
        BY <2>2, <3>1, <3>2, TakeKeeps, TallyKeeps DEF Present, Take
      <3>3. CASE Forward(t)
        BY <2>2, <3>1, <3>3, ForwardKeeps, TallyKeeps DEF Present, Forward
      <3>4. CASE GiveUp(t)
        BY <1>2, <3>4 DEF GiveUp
      <3>5. CASE Stop(t) \/ Load(t) \/ (t = Source /\ StopSource)
        <4>1. /\ at[t] \notin Busy
              /\ UNCHANGED <<queue, statsVars>>
              /\ \E where : Become(t, where, None)
          BY <3>5 DEF Stop, Load, StopSource, Busy
        <4>2. InHand(p) => InHand(p)'
          BY <4>1, HandsKeep
        <4>3. QED
          BY <3>1, <4>1, <4>2 DEF Present, InQueue, Tallied, statsVars
      <3>6. ASSUME NEW work, Finish(t, work) PROVE Present(p)'
        <4>1. /\ UNCHANGED <<queue, statsVars>>
              /\ at'[t] \in Busy /\ hand'[t].post = hand[t].post
              /\ Become(t, "forwarding", [hand[t] EXCEPT !.work = work])
          BY <3>6 DEF Finish, Become, Busy, TypeInv, TypeOK, HandInv, Message
        <4>2. InHand(p) => InHand(p)'
          BY <4>1, HandsKeep DEF InHand
        <4>3. QED
          BY <3>1, <4>1, <4>2 DEF Present, InQueue, Tallied, statsVars
      <3>7. CASE Panic(t)
        <4>1. /\ UNCHANGED <<queue, statsVars>>
              /\ at[t] \in Busy => hand[t].post \in victims'
              /\ Become(t, "panicked", None)
          BY <3>7 DEF Panic, Busy
        <4>2. InHand(p) => InHand(p)'
          BY <1>2, <4>1, HandsKeep
        <4>3. QED
          BY <3>1, <4>1, <4>2 DEF Present, InQueue, Tallied, statsVars
      <3>8. CASE t = Tally /\ RecordCounts
        <4>1. UNCHANGED queue /\ Become(t, "receiving", None)
          BY <3>8 DEF RecordCounts
        <4>2. InHand(p) => InHand(p)' \/ p = hand[Tally].post
          BY <3>8, <4>1, HandsKeep
        <4>3. QED
          BY <2>2, <3>1, <3>8, <4>1, <4>2, TallyKeeps DEF Present, InQueue
      <3>9. CASE t = Tally /\ StopTally
        <4>1. UNCHANGED queue /\ Become(t, "ended", None) /\ at[t] \notin Busy
          BY <3>9 DEF StopTally, Busy
        <4>2. InHand(p) => InHand(p)'
          BY <4>1, HandsKeep
        <4>3. QED
          BY <2>2, <3>1, <3>9, <4>1, <4>2, TallyKeeps DEF Present, InQueue
      <3>10. QED
        BY <2>6, <3>2, <3>3, <3>4, <3>5, <3>6, <3>7, <3>8, <3>9
           DEF StepOf, CheckMeta, ClassifyImages, SaveRecords
    <2>7. CASE \/ Connect \/ EndSession \/ Signal \/ Complete \/ Deadline \/ Exited
               \/ UNCHANGED vars
      BY <1>2, <2>4, <2>7 DEF Connect, EndSession, Signal, Complete, Deadline, Exited, vars,
                              taskVars
    <2>8. QED
      BY <2>5, <2>6, <2>7 DEF Next
  <1>3. QED
    BY <1>1, <1>2 DEF FlowInv

LEMMA FlowInvariant == Spec => []FlowInv
  BY InitFlow, FlowStep, TypeInvariant, PTL DEF Spec

\* A drain that ends by itself has tallied every post that was pulled, except those
\* lost to a panic of their own, as long as one image worker lives.
THEOREM DrainsLoseNothing == Spec => []DrainLosesNothing
  <1>1. ASSUME TypeInv, CascadeInv, FlowInv,
               exited = "complete", ~abort, ~PoolIsDead, NEW p \in pulled \ victims
        PROVE  p \in Tallied
    <2>1. \A t \in Task : at[t] \in Over
      BY <1>1 DEF FlowInv
    <2>2. ~InHand(p)
      BY <2>1 DEF InHand, Busy, Over
    <2>3. \A t \in Worker : t \notin ImageWorker => at[t] = "ended"
      BY <1>1, <2>1 DEF Over, TypeInv, HandInv, Task
    <2>4. \A t \in Worker : at[t] = "ended" => queue[Inbox(t)] = <<>>
      BY <1>1 DEF CascadeInv, Drained
    <2>5. queue["firehose"] = <<>>
      <3>1. PICK t \in MetaWorker : TRUE
        BY PipelineAssumption
      <3>2. t \in Worker /\ t \notin ImageWorker
        BY <3>1, PipelineAssumption DEF Worker
      <3>3. QED
        BY <2>3, <2>4, <3>2, Joints
    <2>6. queue["meta"] = <<>>
      <3>1. PICK t \in ImageWorker : at[t] # "panicked"
        BY <1>1 DEF PoolIsDead
      <3>2. t \in Worker /\ at[t] = "ended"
        BY <2>1, <3>1 DEF Worker, Task, Over
      <3>3. QED
        BY <2>4, <3>2, Joints
    <2>7. queue["image"] = <<>> /\ queue["stats"] = <<>>
      <3>1. Saver \in Worker \ ImageWorker /\ Tally \in Worker \ ImageWorker
        BY PipelineAssumption DEF Worker
      <3>2. QED
        BY <2>3, <2>4, <3>1, Joints
    <2>8. ~InQueue(p)
      BY <2>5, <2>6, <2>7 DEF InQueue, Channel
    <2>9. QED
      BY <1>1, <2>2, <2>8 DEF FlowInv, Present
  <1>2. TypeInv /\ CascadeInv /\ FlowInv => DrainLosesNothing
    BY <1>1 DEF DrainLosesNothing
  <1>3. QED
    BY <1>2, TypeInvariant, CascadeInvariant, FlowInvariant, PTL
=============================================================================
