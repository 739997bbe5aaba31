---------------------------- MODULE ModelRegistry ----------------------------
(***************************************************************************)
(* The life of a refine model: the registry of config/refine.toml and its  *)
(* production label (shared/refine_model.rs), the tools that read a whole  *)
(* file, change the copy and write it back (train, promote, refine-eval,   *)
(* capture-appraisals), the training run itself, and the two services that *)
(* bake the registry into their image: live-refine, which writes scores    *)
(* under production's version, and skeet-publish, which reads the scores   *)
(* of every version it knows (docs/versioning.md).                         *)
(***************************************************************************)
EXTENDS Evaluation

CONSTANTS
    Items,           \* the appraised images: a function from image to band
    VisibleBands,    \* Band::is_visible_in_feed
    TrainRatio,      \* capture-appraisals --train-ratio, a fraction
    Prompt,          \* the prompts the refinement model may answer with
    SeedPrompt,      \* SEED_PROMPT, the prompt a training starts from
    LegacyPrompt,    \* the prompt of the V1 entry in config/refine.toml
    MaxScore,        \* scores and thresholds are 0 .. MaxScore
    LoopThreshold,   \* TRAINING_LOOP_THRESHOLD_F64
    Tolerance,       \* GATE_RECALL_TOLERANCE, a fraction
    PerImageCost,    \* what the baseline says one image costs
    Budget,          \* --budget-usd
    MaxIterations,   \* --max-iterations
    MaxRuns,         \* bound: no tool starts once so many runs are recorded
    MaxSplits        \* bound: splits ever captured

ASSUME RegistryConstants ==
    /\ SeedPrompt \in Prompt /\ LegacyPrompt \notin Prompt
    /\ IsFiniteSet(DOMAIN Items) /\ MaxScore \in Nat /\ LoopThreshold \in 0 .. MaxScore
    /\ Tolerance \in [num : Nat, den : Nat \ {0}]
    /\ {PerImageCost, Budget, MaxIterations, MaxRuns, MaxSplits} \subseteq Nat \ {0}

VARIABLES
    registry,  \* config/refine.toml: entries by version, the production label
    log,       \* config/eval-results.toml: the runs, oldest first
    splits,    \* config/eval-splits.toml: the captures, the last one is "default"
    train,     \* the training process
    reader,    \* skeet-publish: the versions it knows
    scores,    \* the versions live-refine has written scores under
    recorded,  \* history: every run whose record reached the file
    damaged    \* history: the registry was saved from a stale copy, or cut by a crash

vars == <<registry, log, splits, train, reader, scores, recorded, damaged>>

----------------------------------------------------------------------------
(* Models and their versions.  Hashes are taken as injective.              *)

None == [scheme |-> "none"]

\* RefineModel::version_under.  V1 leaves the threshold out.
VersionUnder(scheme, model) ==
    [scheme |-> scheme, prompt |-> model.prompt,
     threshold |-> IF scheme = "V2" THEN model.threshold ELSE 0]

Version(model) == VersionUnder("V2", model)

Models == [prompt : Prompt \cup {LegacyPrompt}, threshold : 0 .. MaxScore]
Versions == {VersionUnder(s, m) : s \in {"V1", "V2"}, m \in Models}

\* from_persisted: entries must hash to their key, the label must resolve.
\* A truncated file parses as the empty registry.
EmptyRegistry == [models |-> <<>>, production |-> None]
Loads(file) ==
    /\ \A v \in DOMAIN file.models : VersionUnder(v.scheme, file.models[v]) = v
    /\ file.production # None => file.production \in DOMAIN file.models

ByLabel(file) == file.models[file.production]

\* Faulty: the entry in production is overwritten in place.
InsertInPlace(file, model) ==
    IF file.production = None THEN file
    ELSE [file EXCEPT !.models[file.production] = model]

Insert(file, model) ==
    [file EXCEPT !.models = [v \in DOMAIN @ \cup {Version(model)} |->
                                IF v = Version(model) THEN model ELSE @[v]]]

SetLabel(file, version) == [file EXCEPT !.production = version]

IsPositive(image) == Items[image] \in VisibleBands

\* Scores given to a set of images, as labelled scores.
Labelled(images, given) ==
    [image \in images |-> [score |-> given[image], is_positive |-> IsPositive(image)]]

MatrixAt(images, given, threshold) == ConfusionAt(Labelled(images, given), threshold)

\* What scoring one image may come to: any score, and 0 after all retries.
Scored == 0 .. MaxScore
Scorings(images) == [images -> Scored]

----------------------------------------------------------------------------
(* Whole-file writes.  fs::write truncates and then writes: a crash in     *)
(* between leaves an empty file.  Tools are taken not to read a file in    *)
(* that short window; they do overlap in the minutes before it.            *)

\* old is the content the tool read: a save over anything newer loses it.

\* Faulty: a log that changed since it was read is left alone.
SaveLogUnlessNewer(old, run) ==
    IF log # old THEN log' = log /\ UNCHANGED <<recorded, damaged>>
    ELSE log' = Append(old, run) /\ recorded' = recorded \cup {run} /\ UNCHANGED damaged

SaveLog(old, run) ==
    /\ \/ log' = Append(old, run) /\ recorded' = recorded \cup {run}
       \/ log' = <<>> /\ UNCHANGED recorded
    /\ UNCHANGED damaged

SaveSplits(new) == splits' = new \/ splits' = <<>>

SaveRegistry(old, new) ==
    \/ registry' = new /\ damaged' = (damaged \/ registry # old)
    \/ registry' = EmptyRegistry /\ damaged' = TRUE

----------------------------------------------------------------------------
(* train                                                                   *)

Run(id, version, split, matrix) ==
    [run_id |-> id, model_version |-> version, split_id |-> split, matrix |-> matrix]

Precise(run) == Precision(run.matrix)
NextRunId == Cardinality(recorded) + 1

\* The capture that holds the label; its id is its content.
Default == splits[Len(splits)]

\* The first of the runs of production on this split with the best F1.
Candidates(runs, version, split) ==
    {i \in DOMAIN runs : runs[i].model_version = version /\ runs[i].split_id = split}
PickBaseline(runs, version, split) ==
    runs[CHOOSE i \in Candidates(runs, version, split) :
            \A j \in Candidates(runs, version, split) :
                \/ Exceeds(F1(runs[i].matrix), F1(runs[j].matrix))
                \/ AtLeast(F1(runs[i].matrix), F1(runs[j].matrix)) /\ i <= j]

IsDefaultBaseline(run) ==
    /\ registry.production # None
    /\ LET version == Version(ByLabel(registry))
       IN  /\ Candidates(log, version, Default) # {}
           /\ run = PickBaseline(log, version, Default)

PerIteration(split) ==
    PerIterationSampleSize(PerImageCost, Cardinality(split.test), Budget, MaxIterations)

TrainStart ==
    /\ train.phase = "idle" /\ splits # <<>> /\ Cardinality(recorded) < MaxRuns
    /\ PerIteration(Default) > 0
    /\ \E explicit \in BOOLEAN, baseline \in Range(log) :
            /\ explicit \/ IsDefaultBaseline(baseline)
            /\ Total(baseline.matrix) # 0
            /\ train' = [phase |-> "loop", models |-> registry, log |-> log,
                         split |-> Default, baseline |-> baseline.matrix,
                         iteration |-> 1, prompt |-> SeedPrompt, best |-> SeedPrompt,
                         best_f1 |-> Undefined, paid |-> 0, tested |-> <<>>]
    /\ UNCHANGED <<registry, log, splits, reader, scores, recorded, damaged>>

\* The prompts that the model may answer when it is shown what went wrong.
Refinements == Prompt

\* Faulty: one round more than asked for.
OneRoundMore == train.iteration <= MaxIterations + 1

Iterating == train.iteration <= MaxIterations

\* One round of the loop: sample, score, keep the best prompt, ask for another.
TrainIterate ==
    /\ train.phase = "loop" /\ Iterating
    /\ LET split == train.split
           pool == [image \in split.train |-> Items[image]]
           bands == {Items[image] : image \in DOMAIN Items}
       IN  /\ ~SamplePanics(pool, PerIteration(split), bands)
           /\ \E sample \in StratifiedSample(pool, PerIteration(split), bands) :
              \E given \in Scorings(sample), answer \in Refinements :
                LET f1 == F1(MatrixAt(sample, given, LoopThreshold))
                    better == Defined(f1) /\ (Defined(train.best_f1) => Exceeds(f1, train.best_f1))
                IN  train' = [train EXCEPT
                        !.iteration = @ + 1,
                        !.paid = @ + Cardinality(sample),
                        !.best = IF better THEN train.prompt ELSE @,
                        !.best_f1 = IF better THEN f1 ELSE @,
                        !.prompt = IF train.iteration < MaxIterations THEN answer ELSE @]
    /\ UNCHANGED <<registry, log, splits, reader, scores, recorded, damaged>>

Baseline == [precision |-> Precision(train.baseline), recall |-> Recall(train.baseline)]

\* Faulty: the candidate keeps the threshold the loop scored with.
UnpinnedCandidate(labelled) == [prompt |-> train.best, threshold |-> LoopThreshold]

\* The threshold deployed with the candidate: the pinned one, else the loop's.
Candidate(labelled) ==
    [prompt |-> train.best,
     threshold |-> IF Qualifying(labelled, Baseline.precision) # {}
                   THEN PinAtPrecision(labelled, Baseline.precision) ELSE LoopThreshold]

\* The final evaluation on the whole test side; the run is always appended,
\* to the copy of the log read at the start.
TrainEvaluate ==
    /\ train.phase = "loop" /\ ~Iterating
    /\ LET test == train.split.test
       IN  \E given \in Scorings(test) :
            LET matrix == MatrixAt(test, given, LoopThreshold)
                run == Run(NextRunId, Version(Candidate(Labelled(test, given))), train.split, matrix)
            IN  /\ Defined(Precision(matrix)) /\ Defined(Recall(matrix))
                /\ SaveLog(train.log, run)
                /\ train' = IF log' = <<>> THEN [phase |-> "idle"]
                            ELSE [train EXCEPT !.phase = "logged", !.paid = @ + Cardinality(test),
                                               !.tested = Labelled(test, given)]
    /\ UNCHANGED <<registry, splits, reader, scores>>

Accepted == EvaluateGate(train.tested, Baseline, Tolerance)

\* Accepted: insert the candidate into the copy read at the start, move the
\* label and save; rejected: leave refine.toml alone.
TrainAccept ==
    /\ train.phase = "logged" /\ Accepted
    /\ LET candidate == Candidate(train.tested)
       IN  SaveRegistry(train.models, SetLabel(Insert(train.models, candidate), Version(candidate)))
    /\ train' = [phase |-> "idle"]
    /\ UNCHANGED <<log, splits, reader, scores, recorded>>

TrainReject ==
    /\ train.phase = "logged" /\ ~Accepted
    /\ train' = [phase |-> "idle"]
    /\ UNCHANGED <<registry, log, splits, reader, scores, recorded, damaged>>

\* A failed refinement call, a missing image or appraisal, a test side with
\* no positive prediction, a panic, a kill: nothing has been written yet.
TrainFails ==
    /\ train.phase = "loop"
    /\ train' = [phase |-> "idle"]
    /\ UNCHANGED <<registry, log, splits, reader, scores, recorded, damaged>>

----------------------------------------------------------------------------
(* promote, capture-appraisals, refine-eval                                *)

Promote ==
    /\ Loads(registry)
    /\ \E version \in DOMAIN registry.models \ {registry.production} :
        SaveRegistry(registry, SetLabel(registry, version))
    /\ UNCHANGED <<log, splits, train, reader, scores, recorded>>

\* Every split the seed may give; the label "default" moves to the new one.
CaptureAppraisals ==
    /\ Len(splits) < MaxSplits
    /\ \E s \in StratifiedSplit(Items, TrainRatio, {Items[i] : i \in DOMAIN Items}) :
        SaveSplits(Append(splits, s))
    /\ UNCHANGED <<registry, log, train, reader, scores, recorded, damaged>>

\* The entry and the split it loads at its start never change once written,
\* and the log is read, unlike in train, when the result is there: one step.
RefineEval ==
    /\ splits # <<>> /\ registry.production # None
    /\ Cardinality(recorded) < MaxRuns
    /\ LET model == ByLabel(registry)
           test == Default.test
       IN  \E given \in Scorings(test) :
            LET matrix == MatrixAt(test, given, model.threshold)
            IN  /\ Defined(Precision(matrix)) /\ Defined(Recall(matrix))
                /\ SaveLog(log, Run(NextRunId, Version(model), Default, matrix))
    /\ UNCHANGED <<registry, splits, train, reader, scores>>

----------------------------------------------------------------------------
(* The services.  An image bakes refine.toml in; the checklist of          *)
(* docs/versioning.md rolls the reader first or together with the writer.  *)

\* Faulty: the publisher looks for scores of production's version only.
RollReaderToProduction ==
    /\ Loads(registry)
    /\ reader' = {registry.production} \ {None}
    /\ UNCHANGED <<registry, log, splits, train, scores, recorded, damaged>>

RollReader ==
    /\ Loads(registry)
    /\ reader' = DOMAIN registry.models
    /\ UNCHANGED <<registry, log, splits, train, scores, recorded, damaged>>

\* A live-refine of this image, and the scores it writes from now on.
RollWriter ==
    /\ registry.production # None
    /\ registry.production \in reader
    /\ scores' = scores \cup {Version(ByLabel(registry))}
    /\ UNCHANGED <<registry, log, splits, train, reader, recorded, damaged>>

\* The publisher's filter: model_version in the versions of its registry.
Shown == scores \cap reader

----------------------------------------------------------------------------
(* The repository's own start: a V1 entry beside the V2 one in production. *)

SeedModel == [prompt |-> SeedPrompt, threshold |-> LoopThreshold]
LegacyModel == [prompt |-> LegacyPrompt, threshold |-> LoopThreshold]
Shipped ==
    [models |-> [v \in {VersionUnder("V1", LegacyModel), Version(SeedModel)} |->
                    IF v.scheme = "V1" THEN LegacyModel ELSE SeedModel],
     production |-> Version(SeedModel)]

Init ==
    /\ registry = Shipped /\ log = <<>> /\ splits = <<>>
    /\ train = [phase |-> "idle"]
    /\ reader = {} /\ scores = {}
    /\ recorded = {} /\ damaged = FALSE

Next ==
    \/ TrainStart \/ TrainIterate \/ TrainEvaluate \/ TrainAccept \/ TrainReject \/ TrainFails
    \/ Promote \/ CaptureAppraisals \/ RefineEval
    \/ RollReader \/ RollWriter

Spec == Init /\ [][Next]_vars
----------------------------------------------------------------------------
(* Properties                                                              *)

\* The gate keeps its promise at the threshold that is deployed, not only at
\* the one the loop scores with: an accepted candidate meets the baseline's
\* precision there and gives up at most the tolerated recall (gate.rs:25-27).
AcceptedClearsFloor ==
    (train.phase = "logged" /\ Accepted) =>
        LET m == ConfusionAt(train.tested, Candidate(train.tested).threshold)
            r == Recall(m)
            b == Baseline.recall
        IN  /\ Defined(Precision(m)) /\ AtLeast(Precision(m), Baseline.precision)
            /\ (b.num * r.den - r.num * b.den) * Tolerance.den <= Tolerance.num * r.den * b.den

\* A trained model reaches production only after the run that justifies it is
\* in the results log, whatever crashes or overlaps (train.rs:153-165), and the
\* registry file always passes the load-time validation
\* (refine_model.rs:265-291).
AcceptedIsOnRecord ==
    /\ Loads(registry)
    /\ registry.production \in DOMAIN Shipped.models \cup {None}
                                \cup {r.model_version : r \in recorded}

\* With the reader rolled first or together, the publisher shows every score
\* live-refine ever wrote, across promotions; the exception is a promoted V1
\* entry, whose scores are written under a V2 version nobody registered
\* (live_refine.rs:95, refine_model.rs:119-124, docs/versioning.md:152-160).
WrittenScoresAreShown ==
    ~damaged =>
        scores \ Shown \subseteq {Version(LegacyModel)}

\* If images cost what the baseline's cost on average, training spends what
\* --budget-usd allows, up to the one image per further
\* band by which a stratified sample may exceed its size (budget.rs:5-6).
SpendWithinBudget ==
    train.phase # "idle" =>
        PerImageCost * train.paid <=
            Budget + PerImageCost * MaxIterations * (Cardinality({Items[i] : i \in DOMAIN Items}) - 1)
=============================================================================
