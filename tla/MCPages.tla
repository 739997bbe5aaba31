-------------------------------- MODULE MCPages --------------------------------
(* What a reader is shown, one part in a behaviour: of several windows, the  *)
(* one that answers, as Publisher has it; of one window the numbers on its   *)
(* page, with a busy pruner or with a reader and two publications; or the    *)
(* layout of the preview picture.                                            *)
EXTENDS MCPublisher

CONSTANTS Message, RecordInterval, FlushInterval, LogEvery, Window, Lists, Columns,
          MaxEntries, Traffic,
          Offered, Canvas

VARIABLES
    machine,
    ticks, tally, meters, rows, shown, stamp, stats, turn, visit, answer, left, started,
    told, lost, twice, whole,
    tiles, row, y, placed, done

Numbers == INSTANCE Statistics WITH clock <- ticks, stage <- tally, list <- shown, cycle <- turn
Picture == INSTANCE Montage

ASSUME PagesConstants == Numbers!StatisticsConstants /\ Picture!MontageConstants

Passed == [posts |-> 1, images |-> 2, rejected |-> 1]
MetaRejected == [posts |-> 0, images |-> 0, rejected |-> 1]
SomeMessages == {Passed, MetaRejected}
Entry(p, l) == [post |-> p, live |-> l]
SomeLists == {<<Entry("p", TRUE), Entry("p", TRUE), Entry("q", TRUE)>>,
              <<Entry("q", TRUE), Entry("p", FALSE)>>}
BusyPruner == [ticks |-> 3, messages |-> 2, cycles |-> 1, visits |-> 0, faults |-> 1]
Reading    == [ticks |-> 2, messages |-> 0, cycles |-> 2, visits |-> 1, faults |-> 1]
SomeTraffic == {BusyPruner, Reading}

\* Up to three rows of flat, high and wide tiles.
Tile(w, h) == [width |-> w, height |-> h]
SomeOffers == UNION {[1..n -> {Tile(1, 0), Tile(1, 40), Tile(4, 3)}] : n \in {0, 1, 5}} \cup
              {[i \in 1..9 |-> IF i \in high THEN Tile(1, 40) ELSE Tile(1, 1)] : high \in SUBSET {2, 6, 9}}
SomeCanvas == Tile(41, 31)

numberVars == <<ticks, tally, meters, rows, shown, stamp, stats, turn, visit, answer, left,
                started, told, lost, twice, whole>>
pictureVars == <<tiles, row, y, placed, done>>

PagesInit ==
    /\ machine \in {"windows", "numbers", "picture"}
    /\ Init /\ Numbers!Init /\ Picture!Init
    /\ machine = "numbers" \/ left = Reading
    /\ machine = "picture" \/ tiles = <<>>

PagesNext ==
    /\ UNCHANGED machine
    /\ \/ machine = "windows" /\ Next         /\ UNCHANGED <<numberVars, pictureVars>>
       \/ machine = "numbers" /\ Numbers!Next /\ UNCHANGED <<vars, pictureVars>>
       \/ machine = "picture" /\ Picture!Next /\ UNCHANGED <<vars, numberVars>>

PagesSpec == PagesInit /\ [][PagesNext]_<<machine, vars, numberVars, pictureVars>>

----------------------------------------------------------------------------
\* No image is lost or counted twice on its way to the table, but
\* for a crash and an append that fails after its commit
\* (statistics_persister.rs:73-74).
CountsAreKept == Numbers!CountsAreKept

\* A published count is of images seen since the window began
\* (list_statistics.rs:13-18).
ExaminedWasSeen == Numbers!ExaminedWasSeen

\* A page's numbers are not behind what was complete when its list
\* was read, nor its countdown expired (handlers.rs:356-360).
NumbersAreFresh == Numbers!NumbersAreFresh

\* The match count always agrees with the grid
\* (handlers.rs:379-380).
BannerAgreesWithGrid == Numbers!BannerAgreesWithGrid
================================================================================
