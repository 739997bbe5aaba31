--------------------------- MODULE PrunePipeline ---------------------------
(***************************************************************************)
(* The pruner (crates/skeet-prune): five stages joined by bounded channels *)
(*                                                                         *)
(*    firehose -> meta workers -> image workers -> save -> statistics      *)
(*                                                                         *)
(* and two ways to stop.  A drain, on the first signal, stops the firehose *)
(* only: its sender is dropped, so its channel closes once it is empty,    *)
(* and closure cascades stage by stage.  An abort, on a second signal or   *)
(* when a stage finds its downstream gone, makes every task give up what   *)
(* it holds.  A deadline after the drain ends the process in any case.     *)
(*                                                                         *)
(* A post stands for the message made of it, with the counts it carries.   *)
(***************************************************************************)
EXTENDS Integers, Sequences, FiniteSets

CONSTANTS
    Post,           \* candidate skeets of the firehose, each delivered once
    MetaWorker,     \* the worker pool of prune_meta_stage
    ImageWorker,    \* the worker pool of prune_image_stage
    None,           \* Rust's Option::None
    Capacity,       \* of each channel: 16, 16, 100, 100 in the code
    MaxPanics       \* bound: image workers that panic

Source == "firehose"
Saver  == "saver"
Tally  == "tally"
Worker == MetaWorker \cup ImageWorker \cup {Saver, Tally}
Task   == Worker \cup {Source}

ASSUME PipelineAssumption ==
    /\ Capacity \in Nat \ {0}
    /\ MaxPanics \in Nat
    /\ MetaWorker # {} /\ ImageWorker # {}
    /\ IsFiniteSet(MetaWorker) /\ IsFiniteSet(ImageWorker) /\ IsFiniteSet(Post)
    /\ MetaWorker \cap ImageWorker = {}
    /\ {Source, Saver, Tally} \cap (MetaWorker \cup ImageWorker) = {}
    /\ None \notin Post
    /\ None \notin {"firehose", "meta", "image", "stats"}

VARIABLES
    at,             \* where each task stands
    hand,           \* the message a task holds
    queue,          \* the channels, named after the stage that sends
    online,         \* whether the firehose stage has a session
    signals,        \* termination signals received
    abort,          \* the abort token
    exited,         \* whether, and how, Pipeline::run returned
    \* StatisticsPersister
    since,          \* posts counted since the last record
    buffer,         \* posts in records not yet flushed
    stored,         \* how often each post is in the statistics table
    \* history
    pulled,         \* posts taken from the firehose
    victims         \* posts whose classification panicked

taskVars  == <<at, hand>>
stopVars  == <<signals, abort, exited>>
statsVars == <<since, buffer, stored>>
vars == <<taskVars, queue, online, stopVars, statsVars, pulled, victims>>

Channel == {"firehose", "meta", "image", "stats"}
Work    == {"candidate", "rejected", "records", "none"}
Message == [post : Post, work : Work]
Over    == {"ended", "panicked"}

\* The channel a task sends to, and the channel it receives from.
Outbox(t) ==
    CASE t = Source           -> "firehose"
      [] t \in MetaWorker     -> "meta"
      [] t \in ImageWorker    -> "image"
      [] t = Saver            -> "stats"
      [] t = Tally            -> None

Inbox(t) ==
    CASE t = Source           -> None
      [] t \in MetaWorker     -> "firehose"
      [] t \in ImageWorker    -> "meta"
      [] t = Saver            -> "image"
      [] t = Tally            -> "stats"

TypeOK ==
    /\ at \in [Task -> {"starting", "receiving", "working", "forwarding"} \cup Over]
    /\ hand \in [Task -> Message \cup {None}]
    /\ queue \in [Channel -> Seq(Message)]
    /\ \A c \in Channel : Len(queue[c]) <= Capacity
    /\ online \in BOOLEAN
    /\ signals \in 0 .. 2
    /\ abort \in BOOLEAN
    /\ exited \in {"no", "complete", "deadline"}
    /\ since \in SUBSET Post
    /\ buffer \in SUBSET Post
    /\ stored \in [Post -> Nat]
    /\ pulled \in SUBSET Post
    /\ victims \in SUBSET Post

Init ==
    /\ at = [t \in Task |-> IF t \in ImageWorker THEN "starting" ELSE "receiving"]
    /\ hand = [t \in Task |-> None]
    /\ queue = [c \in Channel |-> <<>>]
    /\ online = FALSE
    /\ signals = 0
    /\ abort = FALSE
    /\ exited = "no"
    /\ since = {}
    /\ buffer = {}
    /\ stored = [p \in Post |-> 0]
    /\ pulled = {}
    /\ victims = {}

Running == exited = "no"
Drain   == signals > 0

-----------------------------------------------------------------------------
(* Channels.  A stage drops its ends of them when all its workers are over. *)

\* Definitions named Bad... are faulty variants of the one that follows them; no
\* specification uses them.  They record which slip each property would expose.

BadSendersGone(c) == \E t \in Task : Outbox(t) = c /\ at[t] \in Over
SendersGone(c) == \A t \in Task : Outbox(t) = c => at[t] \in Over

ReceiversGone(c) == \A t \in Task : Inbox(t) = c => at[t] \in Over

BadHasRoom(c) == Len(queue[c]) + 1 < Capacity
HasRoom(c) == Len(queue[c]) < Capacity

\* All stages share one abort token.
BadCancelled == signals = 2
Cancelled == abort

\* recv has nothing more to give: closed, and the buffered items taken.
BadDrained(c) == SendersGone(c)
Drained(c) == SendersGone(c) /\ queue[c] = <<>>

Become(t, where, message) ==
    /\ at' = [at EXCEPT ![t] = where]
    /\ hand' = [hand EXCEPT ![t] = message]

\* pipeline::recv returns an item, whether or not the token is cancelled by now.
Take(t) ==
    LET c == Inbox(t)
    IN  /\ Running
        /\ t \in Worker /\ at[t] = "receiving"
        /\ queue[c] # <<>>
        /\ Become(t, "working", Head(queue[c]))
        /\ queue' = [queue EXCEPT ![c] = Tail(@)]
        /\ UNCHANGED <<online, stopVars, statsVars, pulled, victims>>

\* pipeline::forward delivers, whether or not the token is cancelled by now.
Forward(t) ==
    LET c == Outbox(t)
    IN  /\ Running
        /\ at[t] = "forwarding"
        /\ HasRoom(c) /\ ~ReceiversGone(c)
        /\ queue' = [queue EXCEPT ![c] = Append(@, hand[t])]
        /\ Become(t, "receiving", None)
        /\ UNCHANGED <<online, stopVars, statsVars, pulled, victims>>

\* forward finds the token cancelled, or the downstream gone and cancels it: the
\* item is dropped and the task returns.
GiveUp(t) ==
    /\ Running
    /\ at[t] = "forwarding"
    /\ Cancelled \/ ReceiversGone(Outbox(t))
    /\ abort' = TRUE
    /\ Become(t, "ended", None)
    /\ UNCHANGED <<queue, online, signals, exited, statsVars, pulled, victims>>

\* recv returns None: the token is cancelled, or the channel closed and empty.
Stop(t) ==
    /\ Running
    /\ t \in Worker \ {Tally} /\ at[t] = "receiving"
    /\ Cancelled \/ Drained(Inbox(t))
    /\ Become(t, "ended", None)
    /\ UNCHANGED <<queue, online, stopVars, statsVars, pulled, victims>>

-----------------------------------------------------------------------------
(* The work of each stage, none of which looks at a token.                 *)

Finish(t, work) ==
    /\ Running
    /\ at[t] = "working"
    /\ Become(t, "forwarding", [hand[t] EXCEPT !.work = work])
    /\ UNCHANGED <<queue, online, stopVars, statsVars, pulled, victims>>

\* The metadata check passes a candidate, or rejects it, or fails and rejects it.
CheckMeta(w) ==
    /\ w \in MetaWorker
    /\ \E verdict \in {"candidate", "rejected"} : Finish(w, verdict)

\* A candidate's images are downloaded and classified; a rejection passes through.
ClassifyImages(w) ==
    /\ w \in ImageWorker
    /\ \E result \in {"records", "none"} :
          /\ at[w] = "working" /\ hand[w].work = "rejected" => result = "none"
          /\ Finish(w, result)

\* An image worker loads its detectors before it looks at the channel.
Load(w) ==
    /\ Running
    /\ at[w] = "starting"
    /\ Become(w, "receiving", None)
    /\ UNCHANGED <<queue, online, stopVars, statsVars, pulled, victims>>

\* A panic ends the worker alone: while it loads, or while it classifies, and then
\* the candidate and its counts are gone too.
Panic(w) ==
    /\ Running
    /\ Cardinality({v \in ImageWorker : at[v] = "panicked"}) < MaxPanics
    /\ \/ at[w] = "starting" /\ UNCHANGED victims
       \/ /\ w \in ImageWorker /\ at[w] = "working"
          /\ hand[w].work = "candidate"
          /\ victims' = victims \cup {hand[w].post}
    /\ Become(w, "panicked", None)
    /\ UNCHANGED <<queue, online, stopVars, statsVars, pulled>>

\* Records are saved or skipped one by one; the counts go on in either case.
SaveRecords == Finish(Saver, "none")

\* flush: one append of all buffered records, kept for a retry if it fails.
Kept == {}

Flush(records) ==
    \/ /\ buffer' = IF records = {} THEN records ELSE Kept
       /\ stored' = [p \in Post |-> stored[p] + IF p \in records THEN 1 ELSE 0]
    \/ /\ records # {}
       /\ buffer' = records
       /\ UNCHANGED stored

\* record_counts: the counts join the open interval, which is closed into a record
\* if it is due, and the records are flushed if that is due.
RecordCounts ==
    /\ Running
    /\ at[Tally] = "working"
    /\ LET counted == since \cup {hand[Tally].post}
       IN  \E due \in BOOLEAN :
              LET records == IF due THEN buffer \cup counted ELSE buffer
              IN  /\ since' = IF due THEN {} ELSE counted
                  /\ \/ Flush(records)
                     \/ buffer' = records /\ UNCHANGED stored
    /\ Become(Tally, "receiving", None)
    /\ UNCHANGED <<queue, online, stopVars, pulled, victims>>

\* The statistics stage ends with a last flush; the open interval is not closed.
StopTally ==
    /\ Running
    /\ at[Tally] = "receiving"
    /\ Cancelled \/ Drained("stats")
    /\ Flush(buffer)
    /\ Become(Tally, "ended", None)
    /\ UNCHANGED <<queue, online, stopVars, since, pulled, victims>>

-----------------------------------------------------------------------------
(* The firehose stage.                                                     *)

\* An attempt to connect succeeds.  Attempts that fail and the backoffs between
\* them, up to a minute long, look at no token: the stage stays offline.
Connect ==
    /\ Running
    /\ at[Source] = "receiving"
    /\ ~online
    /\ online' = TRUE
    /\ UNCHANGED <<taskVars, queue, stopVars, statsVars, pulled, victims>>

\* The session breaks, or has been silent for too long.
EndSession ==
    /\ Running
    /\ at[Source] = "receiving"
    /\ online
    /\ online' = FALSE
    /\ UNCHANGED <<taskVars, queue, stopVars, statsVars, pulled, victims>>

Pull(p) ==
    /\ Running
    /\ at[Source] = "receiving"
    /\ online
    /\ p \notin pulled
    /\ pulled' = pulled \cup {p}
    /\ Become(Source, "forwarding", [post |-> p, work |-> "candidate"])
    /\ UNCHANGED <<queue, online, stopVars, statsVars, victims>>

\* Only the wait for an event of a connected session looks at drain and abort.
StopSource ==
    /\ Running
    /\ at[Source] = "receiving"
    /\ online
    /\ Drain \/ Cancelled
    /\ Become(Source, "ended", None)
    /\ UNCHANGED <<queue, online, stopVars, statsVars, pulled, victims>>

-----------------------------------------------------------------------------
(* Pipeline::run and its signals.                                          *)

\* The first signal drains, the second aborts.
Signal ==
    /\ Running
    /\ signals < 2
    /\ signals' = signals + 1
    /\ abort' = (abort \/ signals' = 2)
    /\ UNCHANGED <<taskVars, queue, online, exited, statsVars, pulled, victims>>

\* await_stages: every supervised task has been joined.
Complete ==
    /\ Running
    /\ \A t \in Task : at[t] \in Over
    /\ exited' = "complete"
    /\ UNCHANGED <<taskVars, queue, online, signals, abort, statsVars, pulled, victims>>

\* drain_deadline: armed by the drain alone.
BadOverdue == Drain /\ at[Source] = "ended"
Overdue == Drain

Deadline ==
    /\ Running
    /\ Overdue
    /\ exited' = "deadline"
    /\ UNCHANGED <<taskVars, queue, online, signals, abort, statsVars, pulled, victims>>

\* Nothing happens after the return.
Exited == ~Running /\ UNCHANGED vars

StepOf(t) ==
    \/ Take(t) \/ Forward(t) \/ GiveUp(t) \/ Stop(t)
    \/ CheckMeta(t) \/ Load(t)
    \/ ClassifyImages(t)
    \/ t = Saver /\ SaveRecords
    \/ t = Tally /\ (RecordCounts \/ StopTally)
    \/ t = Source /\ StopSource

Next ==
    \/ \E t \in Task : StepOf(t) \/ Panic(t)
    \/ \E p \in Post : Pull(p)
    \/ Connect \/ EndSession
    \/ Signal
    \/ Complete
    \/ Deadline
    \/ Exited

Spec == Init /\ [][Next]_vars

\* The runtime polls the firehose stage and, while one of them can go on, some worker;
\* timers fire.  Nothing is assumed of connections, posts, panics and signals.
FairSpec ==
    /\ Spec
    /\ WF_vars(StepOf(Source))
    /\ WF_vars(\E t \in Worker : StepOf(t))
    /\ WF_vars(Complete)
    /\ WF_vars(Deadline)

-----------------------------------------------------------------------------
(* Properties.                                                             *)

Tallied == {p \in Post : p \in since \cup buffer \/ stored[p] > 0}

PoolIsDead == \A w \in ImageWorker : at[w] = "panicked"

\* A drain that ends by itself has carried every post that was pulled through all
\* stages, except those lost to a panic of their own, as long as one image worker
\* lives (the close cascade of Pipeline::run).
DrainLosesNothing ==
    exited = "complete" /\ ~abort /\ ~PoolIsDead => pulled \ victims \subseteq Tallied

\* A stage finds its downstream gone only if the whole image pool has died: neither
\* the drain nor the death of some workers ever turns into an abort (forward).
AbortIsEarned == abort => signals = 2 \/ PoolIsDead

\* Bounded channels and shared pools never starve or deadlock: a pulled post is
\* counted, unless the pipeline is going down or its worker panicked.
EveryPostIsTallied ==
    \A p \in Post :
        p \in pulled ~> p \in Tallied \cup victims \/ abort \/ PoolIsDead \/ ~Running

\* Once a stage finds its downstream gone, or the drain is aborted, every worker
\* returns, also one that waits for an item that will never come (forward, recv).
AbortUnwinds == abort ~> (\A t \in Worker : at[t] \in Over) \/ ~Running

\* A signal ends the process, in an outage of the firehose too (drain_deadline).
DrainEnds == Drain ~> ~Running
=============================================================================
