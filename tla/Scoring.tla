-------------------------------- MODULE Scoring --------------------------------
(***************************************************************************)
(* One batch of live-refine from the inside: the calls to the model with   *)
(* their retries (skeet-refine/src/refining.rs), what a tick makes of the  *)
(* answers (tick.rs, bin/live_refine.rs) and the counters it exports       *)
(* (metrics.rs, llm_metrics.rs).  Which images a batch holds, and when, is *)
(* Refiner's; here a batch is any set of images without a score.           *)
(***************************************************************************)
EXTENDS Integers, FiniteSets

CONSTANTS
    Image,
    MaxScore,       \* scores are 0 .. MaxScore
    Concurrency,    \* --concurrency
    MaxBatches,     \* bound: batches a process takes on
    MaxRestarts     \* bound: processes that end

ScoringConstants ==
    /\ IsFiniteSet(Image)
    /\ MaxScore \in Nat /\ {Concurrency, MaxBatches, MaxRestarts} \subseteq Nat

VARIABLES
    phase,      \* "idle", "scoring" or "saved"
    open,       \* images of the batch without an answer
    calls,      \* those a call is out for, and how many failed before
    tick,       \* TickAccumulator: the images scored, how many failed; and the size
    totals,     \* RunningTotals
    meters,     \* what the process has exported
    written,    \* the images with a score in the table
    metered,    \* answers whose tokens were metered
    ended, batches

vars == <<phase, open, calls, tick, totals, meters, written, metered, ended, batches>>

MaxRetries == 3     \* default_retry_policy

NoTotals == [unscored |-> 0, scored |-> 0, errors |-> 0]
NoTick == [scored |-> {}, failed |-> 0, size |-> 0]

--------------------------------------------------------------------------------
(* What a completion may come to.                                          *)

\* The text of an answer: a number, alone or as {"score": X}, or neither.
Number == -1 .. MaxScore + 1
Text == [kind : {"object", "bare"}, value : Number] \cup {[kind |-> "prose"], [kind |-> "none"]}

\* parse_score, with the range check of Score::new.
ParseScore(text) == text.kind \in {"object", "bare"} /\ text.value \in 0 .. MaxScore

\* What refine_image comes to for an answer, without text or with it.
RefineImage(text) ==
    IF text.kind = "none" THEN "Completion" ELSE IF ParseScore(text) THEN "score" ELSE "ParseScore"

Completion == {"Completion", "ImageEncoding"} \cup {RefineImage(text) : text \in Text}

\* is_transient: only a failed completion is worth another call.
Retried(i, answer) == answer = "Completion" /\ calls[i] < MaxRetries

--------------------------------------------------------------------------------
(* A tick.                                                                 *)

Take ==
    /\ phase = "idle" /\ batches < MaxBatches
    /\ \E batch \in SUBSET (Image \ written) :
        /\ batch # {}
        /\ open' = batch
        /\ tick' = [NoTick EXCEPT !.size = Cardinality(batch)]
    /\ phase' = "scoring" /\ batches' = batches + 1
    /\ UNCHANGED <<calls, totals, meters, written, metered, ended>>

\* buffer_unordered: so many calls are out at once.
Call(i) ==
    /\ phase = "scoring" /\ i \in open \ DOMAIN calls
    /\ Cardinality(DOMAIN calls) < Concurrency
    /\ calls' = [k \in DOMAIN calls \cup {i} |-> IF k = i THEN 0 ELSE calls[k]]
    /\ UNCHANGED <<phase, open, tick, totals, meters, written, metered, ended, batches>>

Retry(i, answer) ==
    /\ i \in DOMAIN calls /\ Retried(i, answer)
    /\ calls' = [calls EXCEPT ![i] = @ + 1]
    /\ UNCHANGED <<phase, open, tick, totals, meters, written, metered, ended, batches>>

\* A score, or a fallback after the last call that was worth it; only a score
\* meters its tokens.
Outcome(i, answer) ==
    /\ i \in DOMAIN calls /\ ~Retried(i, answer)
    /\ calls' = [k \in DOMAIN calls \ {i} |-> calls[k]]
    /\ open' = open \ {i}
    /\ IF answer = "score"
       THEN tick' = [tick EXCEPT !.scored = @ \cup {i}] /\ metered' = metered + 1
       ELSE tick' = [tick EXCEPT !.failed = @ + 1] /\ UNCHANGED metered
    /\ UNCHANGED <<phase, totals, meters, written, ended, batches>>

\* absorb_tick, then the upsert.
Save ==
    /\ phase = "scoring" /\ open = {}
    /\ totals' = [unscored |-> totals.unscored + tick.size,
                  scored   |-> totals.scored + Cardinality(tick.scored),
                  errors   |-> totals.errors + tick.failed]
    /\ written' = written \cup tick.scored
    /\ phase' = "saved"
    /\ UNCHANGED <<open, calls, tick, meters, metered, ended, batches>>

\* The counters receive the difference to what was exported before, which is
\* all they ever received.
Advanced(total, exported) == IF total > exported THEN total ELSE exported

Emit ==
    /\ phase = "saved"
    /\ meters' = [unscored |-> Advanced(totals.unscored, meters.unscored),
                  scored   |-> Advanced(totals.scored, meters.scored),
                  errors   |-> Advanced(totals.errors, meters.errors)]
    /\ tick' = NoTick
    /\ phase' = "idle"
    /\ UNCHANGED <<open, calls, totals, written, metered, ended, batches>>

\* The upsert fails, perhaps after its commit, an answer has its braces the
\* wrong way round, or the process is killed: its counters go with it.
Restart ==
    /\ ended < MaxRestarts
    /\ phase' = "idle" /\ open' = {} /\ calls' = << >> /\ tick' = NoTick
    /\ totals' = NoTotals /\ meters' = NoTotals /\ metered' = 0
    /\ ended' = ended + 1 /\ batches' = 0
    /\ \/ UNCHANGED written
       \/ phase = "scoring" /\ open = {} /\ written' = written \cup tick.scored

Init ==
    /\ phase = "idle" /\ open = {} /\ calls = << >> /\ tick = NoTick
    /\ totals = NoTotals /\ meters = NoTotals
    /\ written = {} /\ metered = 0
    /\ ended = 0 /\ batches = 0

Next ==
    \/ Take \/ Save \/ Emit \/ Restart
    \/ \E i \in Image : Call(i) \/ \E answer \in Completion : Retry(i, answer) \/ Outcome(i, answer)

Spec == Init /\ [][Next]_vars
--------------------------------------------------------------------------------
(* Properties                                                              *)

\* Between ticks everything is exported, each image of a batch is counted as
\* scored or as an error, exactly once, and the tokens of each scored one are
\* metered (tick.rs:51-55, metrics.rs:52-53).
TotalsBalance ==
    phase = "idle" =>
        /\ meters = totals
        /\ totals.unscored = totals.scored + totals.errors
        /\ metered = totals.scored

\* What is exported as scored is in the table ("successfully scored",
\* metrics.rs:33), although it is absorbed before it is saved.
ScoredIsWritten == meters.scored <= Cardinality(written)
================================================================================
