-------------------------------- MODULE Prices --------------------------------
(***************************************************************************)
(* The registry of model prices, eval/prices.toml: update-prices appends a *)
(* snapshot of what models.dev asks, a build bakes the file into the       *)
(* tools, and the tools turn tokens into dollars by a snapshot's id.  A    *)
(* dollar amount is exact (usd.rs), so prices are whole numbers of some    *)
(* small unit.  Snapshot ids are the stamps of a clock.                    *)
(***************************************************************************)
EXTENDS Integers, FiniteSetsExt

CONSTANTS
    Model, Label,
    Price,          \* [input, output] per million tokens
    Usage,          \* [input, output] tokens of one scored image
    Image,
    MaxClock        \* bound: stamps

PricesConstants ==
    /\ Price \cup Usage \subseteq [input : Nat, output : Nat]
    /\ MaxClock \in Nat

VARIABLES
    file,       \* eval/prices.toml
    baked,      \* the copy in the built tools
    clock,
    fetched,    \* every quote models.dev ever gave, by snapshot
    quoted,     \* those the tools ever reported a cost by
    rows        \* the last table of sample-costs

vars == <<file, baked, clock, fetched, quoted, rows>>

--------------------------------------------------------------------------------
(* The registry: the quotes [id, model, price] of its snapshots, their ids, *)
(* and the snapshot of each label, if it has one.                           *)

Unset == 0
Empty == [parses |-> TRUE, labels |-> [l \in Label |-> Unset], ids |-> {}, quotes |-> {}]

\* from_toml_str and from_persisted: no label without its snapshot.
Loads(registry) ==
    registry.parses /\ \A l \in Label : registry.labels[l] \in registry.ids \cup {Unset}

\* insert, which refuses an id that is there.
Insert(registry, id, prices, label) ==
    [parses |-> TRUE,
     labels |-> [registry.labels EXCEPT ![label] = id],
     ids    |-> registry.ids \cup {id},
     quotes |-> registry.quotes \cup
                    {[id |-> id, model |-> m, price |-> prices[m]] : m \in DOMAIN prices}]

\* What a write that fails part of the way leaves of the text, labels first,
\* then the snapshots by id: nothing, something that is no TOML, or a file
\* whose last snapshots, or models, are missing.
CutAfter(registry, last, models) ==
    [parses |-> TRUE,
     labels |-> registry.labels,
     ids    |-> {i \in registry.ids : i <= last},
     quotes |-> {q \in registry.quotes : q.id < last \/ (q.id = last /\ q.model \in models)}]

CutShort(registry) ==
    {Empty, [registry EXCEPT !.parses = FALSE]} \cup
    {CutAfter(registry, last, models) : last \in registry.ids, models \in SUBSET Model \ {{}}}

\* by_id_or_label.
Resolve(registry, given) ==
    IF given # Unset THEN given ELSE registry.labels["current"]
Resolves(registry, given) == Resolve(registry, given) \in registry.ids

Snapshot(registry, id) == {q \in registry.quotes : q.id = id}

\* cost_for, in millionths.
CostFor(quote, usage) ==
    quote.price.input * usage.input + quote.price.output * usage.output

--------------------------------------------------------------------------------
(* update-prices.                                                           *)

NoCost == [input |-> -1, output |-> -1]

\* extract_prices: every requested model must be listed with its cost.
Extractable(response, requested) ==
    requested \subseteq DOMAIN response /\ \A m \in requested : response[m] # NoCost
ExtractPrices(response, requested) == [m \in requested |-> response[m]]

UpdatePrices ==
    \E requested, listed \in SUBSET Model, label \in Label :
        \E response \in [listed -> Price \cup {NoCost}] :
            LET new == Insert(file, clock, ExtractPrices(response, requested), label) IN
            /\ Extractable(response, requested)
            /\ Loads(file) /\ clock \notin file.ids
            /\ fetched' = fetched \cup Snapshot(new, clock)
            /\ \/ file' = new /\ UNCHANGED clock
               \/ clock < MaxClock /\ file' \in CutShort(new) /\ clock' = clock + 1
            /\ UNCHANGED <<baked, quoted, rows>>

Tick == clock < MaxClock /\ clock' = clock + 1 /\ UNCHANGED <<file, baked, fetched, quoted, rows>>

\* include_str takes the file as it is.
Build == baked' = file /\ UNCHANGED <<file, clock, fetched, quoted, rows>>

--------------------------------------------------------------------------------
(* sample-costs: the sampled images of the train side, scored with every   *)
(* model of the snapshot.  An image that got no score used no tokens.      *)

NoUsage == [input |-> 0, output |-> 0]

Row(quote, usage) ==
    LET costs == {CostFor(quote, usage[i]) : i \in DOMAIN usage}
    IN  [model |-> quote.model, price |-> quote.price, min |-> Min(costs), max |-> Max(costs),
         total |-> MapThenSumSet(LAMBDA i : CostFor(quote, usage[i]), DOMAIN usage)]

SampleCosts ==
    \E given \in baked.ids \cup {Unset}, images \in SUBSET Image :
        LET id == Resolve(baked, given) IN
        /\ Loads(baked) /\ Resolves(baked, given)
        /\ quoted' = quoted \cup Snapshot(baked, id)
        /\ \E usages \in [{q.model : q \in Snapshot(baked, id)} -> [images -> Usage \cup {NoUsage}]] :
            rows' = IF images = {} THEN {} ELSE {Row(q, usages[q.model]) : q \in Snapshot(baked, id)}
        /\ UNCHANGED <<file, baked, clock, fetched>>

Init ==
    /\ file = Empty /\ baked = Empty
    /\ clock = 1
    /\ fetched = {} /\ quoted = {} /\ rows = {}

Next == UpdatePrices \/ Tick \/ Build \/ SampleCosts

Spec == Init /\ [][Next]_vars
--------------------------------------------------------------------------------
(* Properties                                                              *)

\* What was ever reported under a snapshot's id was computed by the same
\* prices, over all builds and torn files ("existing snapshots are immutable",
\* pricing.rs:258).
PricesNeverChange ==
    \A p, q \in quoted : p.id = q.id /\ p.model = q.model => p.price = q.price
================================================================================
