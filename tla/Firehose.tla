------------------------------- MODULE Firehose -------------------------------
(***************************************************************************)
(* The firehose stage of skeet-prune (pipeline/firehose_stage.rs,          *)
(* firehose.rs) against a Jetstream server (bluesky/firehose.rs): the      *)
(* resume cursor kept in memory, its rewind and the cap on replays, the    *)
(* sessions and what ends them, and the backoff between attempts.          *)
(*                                                                         *)
(* Time is relative: every stamp is kept as an age and every timer as what *)
(* it has run, so that the state is finite although time is not.           *)
(***************************************************************************)
EXTENDS Integers, Sequences, SequencesExt, FiniteSets

CONSTANTS
    Rewind,        \* RECONNECT_REWIND
    ReplayMaxAge,  \* REPLAY_MAX_AGE
    RecvTimeout,   \* recv_timeout
    ConnectTime,   \* a pass over ALL_ENDPOINTS at CONNECT_TIMEOUT each
    StableAfter,   \* STABLE_AFTER
    MinDelay,      \* RECONNECT_MIN_DELAY
    MaxDelay,      \* RECONNECT_MAX_DELAY
    Skew,          \* by how much an endpoint may stamp events late: a set
    MaxStream,     \* bound: events of the stream that are kept in view
    None

Horizon == ReplayMaxAge + ConnectTime + Rewind + 2

ASSUME FirehoseConstants ==
    /\ {Rewind, ReplayMaxAge, RecvTimeout, ConnectTime, StableAfter} \subseteq Nat
    /\ MinDelay \in Nat \ {0} /\ MaxDelay \in Nat /\ MinDelay <= MaxDelay
    /\ MinDelay <= StableAfter /\ Rewind <= ReplayMaxAge
    /\ Skew \subseteq 0 .. Rewind /\ Skew # {}
    /\ MaxStream \in Nat \ {0} /\ None \notin Int

VARIABLES
    stream,  \* what the network emitted, oldest first
    link,    \* the connection: waiting, connecting or live
    last,    \* last_time_us: the age of the last observed event's stamp
    delay,   \* the last delay of this backoff schedule, 0 for a fresh one
    rest,    \* history: how long ago an attempt began (up to MinDelay)
    silent   \* history: a post was skipped that no rule gives up

vars == <<stream, link, last, delay, rest, silent>>

Kind == {"post", "other", "poison"}
Older(age) == IF age < Horizon THEN age + 1 ELSE Horizon
Waiting(left) == [phase |-> "waiting", left |-> left]

----------------------------------------------------------------------------
(* The network and the clock.                                              *)

\* "post" yields a candidate, "other" none (another collection or operation,
\* no images, an excluded label), "poison" cannot be decoded by the client.
Emit(kind) ==
    /\ Len(stream) < MaxStream
    /\ kind = "poison" => \A i \in DOMAIN stream : stream[i].kind # "poison"
    /\ stream' = Append(stream, [kind |-> kind, age |-> 0, taken |-> kind # "post"])
    /\ UNCHANGED <<link, last, delay, rest, silent>>

\* An event leaves the view when the live session is past it, or nobody owes
\* it any more, and no replay can ask for it.
OutOfView(i) ==
    /\ stream[i].age = Horizon
    /\ IF link.phase = "live" THEN i < link.next ELSE stream[i].taken /\ stream[i].kind # "poison"

\* A sleep or a timeout that has run out is acted on before time goes on.
Tick ==
    LET gone == Cardinality({i \in DOMAIN stream : \A j \in 1 .. i : OutOfView(j)})
    IN  /\ CASE link.phase = "waiting"    -> link.left > 0 /\ link' = [link EXCEPT !.left = @ - 1]
             [] link.phase = "connecting" ->
                    /\ link.spent < ConnectTime
                    /\ link' = [link EXCEPT !.spent = @ + 1,
                                            !.cursor = IF @ = None THEN None ELSE @ + 1]
             [] link.phase = "live"       ->
                    /\ link.idle < RecvTimeout
                    /\ link' = [link EXCEPT !.idle = @ + 1, !.next = @ - gone,
                                            !.up = IF @ < StableAfter THEN @ + 1 ELSE @]
        /\ stream' = [i \in 1 .. Len(stream) - gone |->
                        [stream[i + gone] EXCEPT !.age = Older(@)]]
        /\ last' = IF last = None THEN None ELSE Older(last)
        /\ rest' = IF rest < MinDelay THEN rest + 1 ELSE rest
        /\ UNCHANGED <<delay, silent>>

----------------------------------------------------------------------------
(* The resume cursor.                                                      *)

CursorFrom(age) == age + Rewind

\* Faulty: whatever is missing is asked for again.
ReplayAlways(age) == CursorFrom(age)

\* Faulty: resume exactly at the last event.
ReplayWithoutRewind(age) == IF age > ReplayMaxAge THEN None ELSE age

ReplayCursor(age) ==
    IF CursorFrom(age) > ReplayMaxAge THEN None ELSE CursorFrom(age)

----------------------------------------------------------------------------
(* Sessions.                                                               *)

\* run_session reads clock and cursor before it connects.
StartSession ==
    /\ link.phase = "waiting" /\ link.left = 0
    /\ link' = [phase |-> "connecting", spent |-> 0,
                cursor |-> IF last = None THEN None ELSE ReplayCursor(last)]
    /\ rest' = 0
    /\ UNCHANGED <<stream, last, delay, silent>>

\* The first event an endpoint sends: of the replay, or of what is still to
\* come through it.
FirstSent(cursor, skew) ==
    LET sent == {i \in DOMAIN stream :
                    IF cursor = None THEN stream[i].age < skew
                    ELSE stream[i].age - skew <= cursor}
    IN  IF sent = {} THEN Len(stream) + 1 ELSE CHOOSE i \in sent : \A j \in sent : i <= j

\* Posts before the first event sent are given up, which the stage means to
\* do when it live-tails.
Connected(skew) ==
    /\ link.phase = "connecting"
    /\ LET first == FirstSent(link.cursor, skew)
           skipped == {i \in 1 .. first - 1 : ~stream[i].taken}
       IN  /\ link' = [phase |-> "live", skew |-> skew, next |-> first, up |-> 0, idle |-> 0]
           /\ silent' = (silent \/ (skipped # {} /\ link.cursor # None))
           /\ stream' = [i \in DOMAIN stream |->
                            [stream[i] EXCEPT !.taken = @ \/ i < first]]
    /\ UNCHANGED <<last, delay, rest>>

\* Faulty: every session counts as a healthy one.
AnySessionWasStable(up) == up >= 0

SessionWasStable(up) == up >= StableAfter

\* backon: doubles up to the maximum and adds a jitter of up to the delay.
BackOff ==
    LET d == IF delay = 0 THEN MinDelay ELSE IF 2 * delay < MaxDelay THEN 2 * delay ELSE MaxDelay
    IN  /\ delay' = d
        /\ \E left \in d .. 2 * d : link' = Waiting(left)

\* No endpoint answered.
ConnectFails ==
    /\ link.phase = "connecting"
    /\ BackOff
    /\ UNCHANGED <<stream, last, rest, silent>>

\* A stable session leaves run_session with Ok: the schedule starts afresh.
EndSession ==
    /\ IF SessionWasStable(link.up) THEN link' = Waiting(0) /\ delay' = 0 ELSE BackOff
    /\ UNCHANGED <<stream, last, rest, silent>>

Arrived(i) == i \in DOMAIN stream /\ stream[i].age >= link.skew

\* event_time_us: any event moves the cursor, a replayed one moves it back.
Receive ==
    /\ link.phase = "live" /\ Arrived(link.next) /\ stream[link.next].kind # "poison"
    /\ last' = stream[link.next].age - link.skew
    /\ stream' = [stream EXCEPT ![link.next].taken = TRUE]
    /\ link' = [link EXCEPT !.next = @ + 1, !.idle = 0]
    /\ UNCHANGED <<delay, rest, silent>>

\* jetstream-oxide tears the connection down on an event it cannot decode.
HitPoison ==
    /\ link.phase = "live" /\ Arrived(link.next) /\ stream[link.next].kind = "poison"
    /\ EndSession

\* The server closes the session.
ChannelCloses == link.phase = "live" /\ EndSession

RecvTimesOut == link.phase = "live" /\ link.idle = RecvTimeout /\ EndSession

\* A redeploy or a crash forgets the cursor; live-tailing is meant.
Restart ==
    /\ link' = Waiting(0) /\ last' = None /\ delay' = 0 /\ rest' = MinDelay
    /\ UNCHANGED <<stream, silent>>

----------------------------------------------------------------------------
Init ==
    /\ stream = <<>> /\ link = Waiting(0) /\ last = None
    /\ delay = 0 /\ rest = MinDelay /\ silent = FALSE

Connect == \E skew \in Skew : Connected(skew)

Next ==
    \/ \E kind \in Kind : Emit(kind)
    \/ Tick \/ StartSession \/ Connect \/ ConnectFails
    \/ Receive \/ HitPoison \/ ChannelCloses \/ RecvTimesOut \/ Restart

\* The clock runs, the runtime polls the stage and the socket, and an outage
\* ends: endpoints that are tried again and again answer some time.
Fairness ==
    /\ WF_vars(Tick) /\ WF_vars(StartSession) /\ SF_vars(Connect)
    /\ WF_vars(Receive) /\ WF_vars(HitPoison) /\ WF_vars(RecvTimesOut)

Spec == Init /\ [][Next]_vars /\ Fairness
----------------------------------------------------------------------------
(* Properties                                                              *)

\* A session that resumes from a cursor leaves no gap: as long as endpoints
\* stamp an event at most the rewind apart, every post that no earlier
\* session delivered is sent again (firehose.rs:12-15).
NoSilentGap == ~silent

\* Two attempts to connect are at least the base delay apart, whatever ends
\* the sessions between them (firehose.rs:67-70, "polite").
AttemptsAreSpaced == [][StartSession => rest = MinDelay]_vars

PoisonAhead == \E i \in DOMAIN stream : stream[i].kind = "poison" /\ i >= link.next

\* A replay that keeps meeting the same undecodable event is not for ever:
\* again and again a session is past it, unless the process restarts again
\* and again (firehose.rs:17-21).
GetsPastPoison ==
    \/ []<><<Restart>>_vars
    \/ []<>(link.phase = "live" /\ ~PoisonAhead)
=============================================================================
