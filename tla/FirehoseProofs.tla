--------------------------- MODULE FirehoseProofs ---------------------------
(* Proofs about Firehose, for every choice of its times, skews and bounds    *)
(* that FirehoseConstants admits.                                            *)
EXTENDS Firehose, FiniteSetTheorems, WellFoundedInduction, TLAPS

-----------------------------------------------------------------------------
(* Type correctness.                                                       *)

Event == [kind : Kind, age : Nat, taken : BOOLEAN]

Pauses   == [phase : {"waiting"}, left : Nat]
Dials    == [phase : {"connecting"}, spent : Nat, cursor : Nat \cup {None}]
Sessions == [phase : {"live"}, skew : Skew, next : Int, up : Nat, idle : Nat]

TypeInv ==
    /\ stream \in Seq(Event)
    /\ link \in Pauses \cup Dials \cup Sessions
    /\ last \in Nat \cup {None}
    /\ delay \in Nat
    /\ rest \in 0 .. MinDelay
    /\ silent \in BOOLEAN

LEMMA LinkPhases ==
  ASSUME TypeInv
  PROVE  /\ link.phase \in {"waiting", "connecting", "live"}
         /\ link.phase = "waiting" => link \in Pauses
         /\ link.phase = "connecting" => link \in Dials
         /\ link.phase = "live" => link \in Sessions
  BY DEF TypeInv, Pauses, Dials, Sessions

\* A set of numbers has a least one.
LEMMA SmallestOf ==
  ASSUME NEW S \in SUBSET Nat, S # {}
  PROVE  \E i \in S : \A j \in S : i <= j
  <1> DEFINE R == OpToRel(<, Nat)
  <1>1. IsWellFoundedOn(R, Nat)
    BY NatLessThanWellFounded
  <1>2. PICK i \in S : \A j \in S : <<j, i>> \notin R
    BY <1>1, WFMin
  <1>3. R = {ss \in Nat \X Nat : ss[1] < ss[2]}
    BY Zenon DEF OpToRel
  <1> HIDE DEF R
  <1>5. ASSUME NEW j \in S PROVE i <= j
    <2>1. <<j, i>> \notin R /\ i \in Nat /\ j \in Nat
      BY <1>2
    <2>2. QED
      BY <1>3, <2>1
  <1>4. QED
    BY <1>5

LEMMA OlderType == \A age \in Nat : Older(age) \in Nat
  BY FirehoseConstants DEF Older, Horizon

\* How many events leave the view in a Tick.
Gone == Cardinality({i \in DOMAIN stream : \A j \in 1 .. i : OutOfView(j)})

LEMMA GoneType == ASSUME TypeInv PROVE Gone \in 0 .. Len(stream)
  <1> DEFINE S == {i \in DOMAIN stream : \A j \in 1 .. i : OutOfView(j)}
  <1>1. Len(stream) \in Nat /\ DOMAIN stream = 1 .. Len(stream)
    BY DEF TypeInv
  <1>2. IsFiniteSet(1 .. Len(stream)) /\ Cardinality(1 .. Len(stream)) = Len(stream)
    <2>1. 1 \in Int /\ Len(stream) \in Int
      BY <1>1
    <2>2. /\ IsFiniteSet(1 .. Len(stream))
          /\ Cardinality(1 .. Len(stream)) =
                IF 1 > Len(stream) THEN 0 ELSE Len(stream) - 1 + 1
      BY <2>1, FS_Interval
    <2>3. QED
      BY <1>1, <2>2
  <1>3. IsFiniteSet(S) /\ Cardinality(S) <= Cardinality(1 .. Len(stream))
    BY <1>1, <1>2, FS_Subset
  <1>4. Cardinality(S) \in Nat
    BY <1>3, FS_CardinalityType
  <1>5. QED
    BY <1>1, <1>2, <1>3, <1>4 DEF Gone

\* What a Tick makes of the stream.
LEMMA TickStream ==
  ASSUME TypeInv, Tick
  PROVE  /\ stream' \in Seq(Event)
         /\ Len(stream') = Len(stream) - Gone
         /\ \A i \in 1 .. Len(stream') :
               /\ i + Gone \in 1 .. Len(stream)
               /\ stream'[i].age = Older(stream[i + Gone].age)
               /\ stream'[i].taken = stream[i + Gone].taken
  <1> DEFINE n == Len(stream) - Gone
  <1>1. Gone \in 0 .. Len(stream) /\ Len(stream) \in Nat
    BY GoneType DEF TypeInv
  <1>2. stream' = [i \in 1 .. n |-> [stream[i + Gone] EXCEPT !.age = Older(@)]]
    BY DEF Tick, Gone
  <1>3. n \in Nat /\ \A i \in 1 .. n : i + Gone \in 1 .. Len(stream)
    BY <1>1
  <1> HIDE DEF n
  <1>4. \A i \in 1 .. n : stream[i + Gone] \in Event
    BY <1>3 DEF TypeInv
  <1>5. ASSUME NEW i \in 1 .. n
        PROVE  /\ [stream[i + Gone] EXCEPT !.age = Older(@)] \in Event
               /\ stream'[i].age = Older(stream[i + Gone].age)
               /\ stream'[i].taken = stream[i + Gone].taken
    BY <1>2, <1>4, OlderType DEF Event
  <1>6. stream' \in Seq(Event) /\ Len(stream') = n
    BY <1>2, <1>3, <1>5
  <1>7. QED
    BY <1>3, <1>5, <1>6 DEF n

\* What a Tick makes of the link.
LEMMA TickLink ==
  ASSUME TypeInv, Tick
  PROVE  /\ link.phase = "waiting" =>
               /\ link.left > 0 /\ link' \in Pauses /\ link'.left = link.left - 1
         /\ link.phase = "connecting" =>
               /\ link' \in Dials
               /\ link'.cursor = IF link.cursor = None THEN None ELSE link.cursor + 1
         /\ link.phase = "live" =>
               /\ link' \in Sessions /\ link'.next = link.next - Gone
               /\ link'.up = IF link.up < StableAfter THEN link.up + 1 ELSE link.up
  <1>1. CASE link.phase = "waiting"
    <2>1. link \in Pauses
      BY <1>1, LinkPhases
    <2>2. link.left > 0 /\ link' = [link EXCEPT !.left = @ - 1]
      BY <1>1 DEF Tick
    <2>3. QED
      BY <1>1, <2>1, <2>2 DEF Pauses
  <1>2. CASE link.phase = "connecting"
    <2>1. link \in Dials
      BY <1>2, LinkPhases
    <2>2. link' = [link EXCEPT !.spent = @ + 1, !.cursor = IF @ = None THEN None ELSE @ + 1]
      BY <1>2 DEF Tick
    <2>3. link.spent \in Nat /\ link.cursor \in Nat \cup {None}
      BY <2>1 DEF Dials
    <2>4. /\ link'.phase = "connecting" /\ link'.spent = link.spent + 1
          /\ link'.cursor = IF link.cursor = None THEN None ELSE link.cursor + 1
          /\ DOMAIN link' = {"phase", "spent", "cursor"}
          /\ link' = [k \in {"phase", "spent", "cursor"} |-> link'[k]]
      BY <1>2, <2>1, <2>2 DEF Dials
    <2>5. link'.cursor \in Nat \cup {None} /\ link'.spent \in Nat
      BY <2>3, <2>4
    <2>6. link' \in Dials
      BY <2>4, <2>5 DEF Dials
    <2>7. QED
      BY <1>2, <2>4, <2>6
  <1>3. CASE link.phase = "live"
    <2>1. link \in Sessions /\ Gone \in Int
      BY <1>3, LinkPhases, GoneType
    <2>2. link' = [link EXCEPT !.idle = @ + 1, !.next = @ - Gone,
                               !.up = IF @ < StableAfter THEN @ + 1 ELSE @]
      BY <1>3 DEF Tick, Gone
    <2>3. /\ link'.phase = "live" /\ link'.skew = link.skew /\ link'.next = link.next - Gone
          /\ link'.idle = link.idle + 1
          /\ link'.up = IF link.up < StableAfter THEN link.up + 1 ELSE link.up
          /\ link' = [k \in {"phase", "skew", "next", "up", "idle"} |-> link'[k]]
      BY <1>3, <2>1, <2>2 DEF Sessions
    <2>4. link.skew \in Skew /\ link.next \in Int /\ link.idle \in Nat /\ link.up \in Nat
      BY <2>1 DEF Sessions
    <2>5. link'.next \in Int /\ link'.idle \in Nat /\ link'.up \in Nat
      BY <2>1, <2>3, <2>4
    <2>6. link' \in Sessions
      BY <2>3, <2>4, <2>5 DEF Sessions
    <2>7. QED
      BY <1>3, <2>3, <2>6
  <1>4. QED
    BY <1>1, <1>2, <1>3

\* A delay is at least the base delay, and a session that ends waits for one
\* unless it was stable.
LEMMA BackOffWaits ==
  ASSUME TypeInv, delay = 0 \/ delay >= MinDelay, BackOff
  PROVE  /\ link' \in Pauses /\ link'.left >= MinDelay
         /\ delay' \in Nat /\ delay' >= MinDelay
  <1> DEFINE d == IF delay = 0 THEN MinDelay ELSE IF 2 * delay < MaxDelay THEN 2 * delay ELSE MaxDelay
  <1>1. d \in Nat /\ d >= MinDelay
    BY FirehoseConstants DEF TypeInv
  <1>2. delay' = d /\ \E left \in d .. 2 * d : link' = Waiting(left)
    BY DEF BackOff
  <1> HIDE DEF d
  <1>3. PICK left \in d .. 2 * d : link' = Waiting(left)
    BY <1>2
  <1>4. left \in Nat /\ left >= MinDelay
    BY <1>1, <1>3, FirehoseConstants
  <1>5. QED
    BY <1>1, <1>2, <1>3, <1>4 DEF Waiting, Pauses

\* The first event sent is the first of those that may be, or none that is there.
LEMMA FirstSentType ==
  ASSUME TypeInv, NEW cursor, NEW skew
  PROVE  /\ FirstSent(cursor, skew) \in 1 .. Len(stream) + 1
         /\ \A i \in 1 .. FirstSent(cursor, skew) - 1 : i \in DOMAIN stream =>
               ~IF cursor = None THEN stream[i].age < skew ELSE stream[i].age - skew <= cursor
  <1> DEFINE sent == {i \in DOMAIN stream : IF cursor = None THEN stream[i].age < skew
                                            ELSE stream[i].age - skew <= cursor}
  <1>1. Len(stream) \in Nat /\ DOMAIN stream = 1 .. Len(stream)
    BY DEF TypeInv
  <1>2. CASE sent = {}
    <2>1. FirstSent(cursor, skew) = Len(stream) + 1
      BY <1>2 DEF FirstSent
    <2>2. QED
      BY <1>1, <1>2, <2>1
  <1>3. CASE sent # {}
    <2>1. \E i \in sent : \A j \in sent : i <= j
      <3>1. sent \subseteq Nat
        BY <1>1
      <3>2. QED
        BY <1>3, <3>1, SmallestOf
    <2>2. FirstSent(cursor, skew) = CHOOSE i \in sent : \A j \in sent : i <= j
      BY <1>3 DEF FirstSent
    <2> DEFINE first == FirstSent(cursor, skew)
    <2>3. first \in sent /\ \A j \in sent : first <= j
      BY <2>1, <2>2
    <2> HIDE DEF first
    <2>4. first \in 1 .. Len(stream) + 1 /\ \A i \in 1 .. first - 1 : i \notin sent
      BY <1>1, <2>3
    <2>5. QED
      BY <2>4 DEF first
  <1>4. QED
    BY <1>2, <1>3

-----------------------------------------------------------------------------
(* Attempts.  What is left of a pause and what has passed since the last     *)
(* attempt make up the base delay; a session that has been up for long has   *)
(* made it up already.                                                       *)

PaceInv ==
    /\ delay = 0 \/ delay >= MinDelay
    /\ link.phase = "waiting" => rest + link.left >= MinDelay
    /\ link.phase = "live" => rest = MinDelay \/ rest >= link.up

Inv == TypeInv /\ PaceInv

LEMMA InitInv == Init => Inv
  <1> SUFFICES ASSUME Init PROVE Inv
    OBVIOUS
  <1>1. TypeInv
    <2>1. Waiting(0) \in Pauses
      BY DEF Waiting, Pauses
    <2>2. MinDelay \in 0 .. MinDelay
      BY FirehoseConstants
    <2>3. <<>> \in Seq(Event)
      OBVIOUS
    <2>4. QED
      BY <2>1, <2>2, <2>3 DEF Init, TypeInv
  <1>2. PaceInv
    BY FirehoseConstants DEF Init, PaceInv, Waiting
  <1>3. QED
    BY <1>1, <1>2 DEF Inv

LEMMA EndSessionPace ==
  ASSUME Inv, link.phase = "live", EndSession
  PROVE  Inv'
  <1>1. UNCHANGED <<stream, last, rest, silent>>
    BY DEF EndSession
  <1>2. link \in Sessions /\ rest \in 0 .. MinDelay /\ delay \in Nat
    BY LinkPhases DEF Inv, TypeInv
  <1>3. CASE SessionWasStable(link.up)
    <2>1. link' = [phase |-> "waiting", left |-> 0] /\ delay' = 0
      BY <1>3 DEF EndSession, Waiting
    <2>2. rest = MinDelay
      BY <1>2, <1>3, FirehoseConstants DEF Inv, PaceInv, SessionWasStable, Sessions
    <2>3. QED
      BY <1>1, <1>2, <2>1, <2>2, FirehoseConstants DEF Inv, TypeInv, PaceInv, Pauses
  <1>4. CASE ~SessionWasStable(link.up)
    <2>1. BackOff
      BY <1>4 DEF EndSession
    <2>2. /\ link' \in Pauses /\ link'.left >= MinDelay
          /\ delay' \in Nat /\ delay' >= MinDelay
      BY <2>1, BackOffWaits DEF Inv, PaceInv
    <2>3. QED
      BY <1>1, <1>2, <2>2, FirehoseConstants DEF Inv, TypeInv, PaceInv, Pauses
  <1>5. QED
    BY <1>3, <1>4

LEMMA InvStep ==
  ASSUME Inv, [Next]_vars
  PROVE  Inv'
  <1> USE FirehoseConstants
  <1>1. TypeInv /\ PaceInv /\ rest \in 0 .. MinDelay /\ MinDelay \in Nat
    BY DEF Inv, TypeInv
  <1>2. CASE UNCHANGED vars
    BY <1>1, <1>2 DEF vars, Inv, TypeInv, PaceInv
  <1>3. ASSUME NEW kind \in Kind, Emit(kind) PROVE Inv'
    <2>1. [kind |-> kind, age |-> 0, taken |-> kind # "post"] \in Event
      BY DEF Event
    <2>2. stream' \in Seq(Event)
      BY <1>1, <1>3, <2>1 DEF Emit, TypeInv
    <2>3. QED
      BY <1>1, <1>3, <2>2 DEF Emit, Inv, TypeInv, PaceInv
  <1>4. CASE Tick
    <2>1. /\ last' \in Nat \cup {None} /\ UNCHANGED <<delay, silent>>
          /\ rest' = IF rest < MinDelay THEN rest + 1 ELSE rest
      BY <1>1, <1>4, OlderType DEF Tick, TypeInv
    <2>2. stream' \in Seq(Event)
      BY <1>1, <1>4, TickStream
    <2>3. link' \in Pauses \cup Dials \cup Sessions
      BY <1>1, <1>4, TickLink, LinkPhases
    <2>4. TypeInv'
      BY <1>1, <2>1, <2>2, <2>3 DEF TypeInv
    <2>5. PaceInv'
      <3>1. CASE link.phase = "waiting"
        <4>1. /\ link \in Pauses /\ link' \in Pauses /\ link'.left = link.left - 1
          BY <1>1, <1>4, <3>1, TickLink, LinkPhases
        <4>2. rest' + link'.left >= MinDelay
          BY <1>1, <2>1, <3>1, <4>1 DEF PaceInv, Pauses
        <4>3. QED
          BY <1>1, <2>1, <4>1, <4>2 DEF PaceInv, Pauses
      <3>2. CASE link.phase = "connecting"
        <4>1. link' \in Dials
          BY <1>1, <1>4, <3>2, TickLink
        <4>2. QED
          BY <1>1, <2>1, <4>1 DEF PaceInv, Dials
      <3>3. CASE link.phase = "live"
        <4>1. /\ link \in Sessions /\ link' \in Sessions
              /\ link'.up = IF link.up < StableAfter THEN link.up + 1 ELSE link.up
          BY <1>1, <1>4, <3>3, TickLink, LinkPhases
        <4>2. rest' = MinDelay \/ rest' >= link'.up
          BY <1>1, <2>1, <3>3, <4>1 DEF PaceInv, Sessions
        <4>3. QED
          BY <1>1, <2>1, <4>1, <4>2 DEF PaceInv, Sessions
      <3>4. QED
        BY <1>1, <3>1, <3>2, <3>3, LinkPhases
    <2>6. QED
      BY <2>4, <2>5 DEF Inv
  <1>5. CASE StartSession
    <2>1. /\ link' = [phase |-> "connecting", spent |-> 0,
                      cursor |-> IF last = None THEN None ELSE ReplayCursor(last)]
          /\ rest' = 0 /\ UNCHANGED <<stream, last, delay, silent>>
      BY <1>5 DEF StartSession
    <2>2. link' \in Dials
      BY <1>1, <2>1 DEF TypeInv, ReplayCursor, CursorFrom, Dials
    <2>3. QED
      BY <1>1, <2>1, <2>2 DEF Inv, TypeInv, PaceInv
  <1>6. ASSUME NEW skew \in Skew, Connected(skew) PROVE Inv'
    <2> DEFINE first == FirstSent(link.cursor, skew)
    <2>1. UNCHANGED <<last, delay, rest>>
      BY <1>6 DEF Connected
    <2>2. link' = [phase |-> "live", skew |-> skew, next |-> first, up |-> 0, idle |-> 0]
      BY <1>6 DEF Connected
    <2>3. first \in Int
      BY <1>1, FirstSentType
    <2>4. stream' = [i \in DOMAIN stream |-> [stream[i] EXCEPT !.taken = @ \/ i < first]]
      BY <1>6 DEF Connected
    <2>5. stream' \in Seq(Event)
      <3>1. Len(stream) \in Nat /\ DOMAIN stream = 1 .. Len(stream)
            /\ \A i \in DOMAIN stream : stream[i] \in Event
        BY <1>1 DEF TypeInv
      <3> HIDE DEF first
      <3>2. \A i \in DOMAIN stream : [stream[i] EXCEPT !.taken = @ \/ i < first] \in Event
        BY <3>1 DEF Event
      <3>3. QED
        BY <2>4, <3>1, <3>2
    <2>6. silent' \in BOOLEAN
      BY <1>1, <1>6 DEF Connected, TypeInv
    <2>7. link' \in Sessions /\ link'.phase = "live" /\ link'.up = 0
      BY <2>2, <2>3 DEF Sessions
    <2>8. QED
      BY <1>1, <2>1, <2>5, <2>6, <2>7 DEF Inv, TypeInv, PaceInv
  <1>7. CASE ConnectFails
    <2>1. UNCHANGED <<stream, last, rest, silent>> /\ BackOff
      BY <1>7 DEF ConnectFails
    <2>2. /\ link' \in Pauses /\ link'.left >= MinDelay
          /\ delay' \in Nat /\ delay' >= MinDelay
      BY <1>1, <2>1, BackOffWaits DEF PaceInv
    <2>3. QED
      BY <1>1, <2>1, <2>2 DEF Inv, TypeInv, PaceInv, Pauses
  <1>8. CASE Receive
    <2>1. link \in Sessions /\ link.phase = "live" /\ link.next \in DOMAIN stream
          /\ stream[link.next].age >= link.skew
      BY <1>1, <1>8, LinkPhases DEF Receive, Arrived
    <2>2. link' = [link EXCEPT !.next = @ + 1, !.idle = 0] /\ UNCHANGED <<delay, rest, silent>>
          /\ stream' = [stream EXCEPT ![link.next].taken = TRUE]
          /\ last' = stream[link.next].age - link.skew
      BY <1>8 DEF Receive
    <2>3. /\ link'.phase = "live" /\ link'.skew = link.skew /\ link'.next = link.next + 1
          /\ link'.idle = 0 /\ link'.up = link.up
          /\ link' = [k \in {"phase", "skew", "next", "up", "idle"} |-> link'[k]]
      BY <2>1, <2>2 DEF Sessions
    <2>4. link' \in Sessions
      <3>1. link.skew \in Skew /\ link.next + 1 \in Int /\ link.up \in Nat
        BY <2>1 DEF Sessions
      <3>2. QED
        BY <2>3, <3>1 DEF Sessions
    <2>5. stream[link.next] \in Event /\ link.skew \in Nat
      <3>1. link.skew \in Skew
        BY <2>1 DEF Sessions
      <3>2. link.skew \in 0 .. Rewind
        BY <3>1
      <3>3. stream[link.next] \in Event
        BY <1>1, <2>1 DEF TypeInv
      <3>4. QED
        BY <3>2, <3>3
    <2>7. stream' \in Seq(Event)
      <3>1. [stream[link.next] EXCEPT !.taken = TRUE] \in Event
        BY <2>5 DEF Event
      <3>2. QED
        BY <1>1, <2>1, <2>2, <3>1 DEF TypeInv
    <2>6. last' \in Nat
      BY <2>1, <2>2, <2>5 DEF Event
    <2>8. QED
      BY <1>1, <2>1, <2>2, <2>3, <2>4, <2>6, <2>7 DEF Inv, TypeInv, PaceInv
  <1>9. CASE HitPoison \/ ChannelCloses \/ RecvTimesOut
    BY <1>9, EndSessionPace DEF HitPoison, ChannelCloses, RecvTimesOut
  <1>10. CASE Restart
    <2>1. /\ link' = [phase |-> "waiting", left |-> 0] /\ last' = None /\ delay' = 0
          /\ rest' = MinDelay /\ UNCHANGED <<stream, silent>>
      BY <1>10 DEF Restart, Waiting
    <2>2. link' \in Pauses
      BY <2>1 DEF Pauses
    <2>3. QED
      BY <1>1, <2>1, <2>2 DEF Inv, TypeInv, PaceInv
  <1>11. QED
    BY <1>2, <1>3, <1>4, <1>5, <1>6, <1>7, <1>8, <1>9, <1>10 DEF Next, Connect

LEMMA Invariant == Spec => []Inv
  BY InitInv, InvStep, PTL DEF Spec

\* Every state of the stage is well typed: ages are numbers, a pause, a dial or a
\* session has the fields the code keeps for it.
THEOREM TypeCorrect == Spec => []TypeInv
  <1>1. Inv => TypeInv
    BY DEF Inv
  <1>2. QED
    BY <1>1, Invariant, PTL

\* Two attempts to connect are the base delay apart, whatever ends the sessions
\* between them and whatever the times are (firehose.rs:67-70).
THEOREM AttemptsKeepApart == Spec => AttemptsAreSpaced
  <1>1. Inv /\ [Next]_vars => [StartSession => rest = MinDelay]_vars
    <2>1. ASSUME Inv, StartSession PROVE rest = MinDelay
      <3>1. rest \in 0 .. MinDelay /\ MinDelay \in Nat
        BY <2>1, FirehoseConstants DEF Inv, TypeInv
      <3>2. rest + 0 >= MinDelay
        BY <2>1 DEF Inv, PaceInv, StartSession
      <3>3. QED
        BY <3>1, <3>2
    <2>2. QED
      BY <2>1
  <1>2. QED
    BY <1>1, Invariant, PTL DEF Spec, AttemptsAreSpaced

-----------------------------------------------------------------------------
(* Gaps.  What no session has delivered is no older than the cursor asks     *)
(* for: events come in the order they were emitted, the one that moved the   *)
(* cursor was stamped at most the rewind late, and both age alike.           *)

Untaken == {i \in DOMAIN stream : ~stream[i].taken}

GapInv ==
    /\ ~silent
    /\ \A i, j \in DOMAIN stream : i <= j => stream[j].age <= stream[i].age
    /\ link.phase = "live" =>
          link.next <= Len(stream) + 1 /\ \A i \in Untaken : link.next <= i
    /\ last # None => \A i \in Untaken : stream[i].age <= last + Rewind
    /\ link.phase = "connecting" /\ link.cursor # None =>
          \A i \in Untaken : stream[i].age <= link.cursor

LEMMA GapFrame ==
  ASSUME Inv, Inv', GapInv, UNCHANGED <<stream, silent>>, last' \in {last, None},
         link'.phase = "waiting"
  PROVE  GapInv'
  BY DEF GapInv, Untaken

LEMMA GapTick ==
  ASSUME Inv, GapInv, Tick
  PROVE  GapInv'
  <1> USE FirehoseConstants
  <1>1. TypeInv /\ Gone \in Nat /\ Len(stream) \in Nat
        /\ DOMAIN stream = 1 .. Len(stream) /\ DOMAIN stream' = 1 .. Len(stream')
        /\ Len(stream') = Len(stream) - Gone
        /\ \A i \in DOMAIN stream : stream[i].age \in Nat
    <2>1. TypeInv
      BY DEF Inv
    <2>2. Gone \in 0 .. Len(stream) /\ stream' \in Seq(Event)
          /\ Len(stream') = Len(stream) - Gone
      BY <2>1, GoneType, TickStream
    <2>3. Len(stream) \in Nat /\ DOMAIN stream = 1 .. Len(stream)
          /\ \A i \in DOMAIN stream : stream[i] \in Event
      BY <2>1 DEF TypeInv
    <2>4. DOMAIN stream' = 1 .. Len(stream')
      BY <2>2
    <2>5. \A i \in DOMAIN stream : stream[i].age \in Nat
      BY <2>3 DEF Event
    <2>6. QED
      BY <2>1, <2>2, <2>3, <2>4, <2>5
  <1>2. \A i \in DOMAIN stream' :
           /\ i \in Int /\ i + Gone \in DOMAIN stream
           /\ stream'[i].age = Older(stream[i + Gone].age)
           /\ stream'[i].taken = stream[i + Gone].taken
    BY <1>1, TickStream
  <1>3. UNCHANGED silent /\ last' = IF last = None THEN None ELSE Older(last)
    BY DEF Tick
  <1>4. \A a, b \in Nat : a <= b => Older(a) <= Older(b)
    BY DEF Older, Horizon
  <1>5. \A a, b \in Nat : a <= b + Rewind => Older(a) <= Older(b) + Rewind
    BY DEF Older, Horizon
  <1>6. \A a, b \in Nat : a <= b => Older(a) <= b + 1
    BY DEF Older, Horizon
  <1>7. ASSUME NEW i \in DOMAIN stream', NEW j \in DOMAIN stream', i <= j
        PROVE  stream'[j].age <= stream'[i].age
    <2>1. i + Gone <= j + Gone
      BY <1>1, <1>2, <1>7
    <2>2. stream[j + Gone].age <= stream[i + Gone].age
      BY <1>2, <2>1 DEF GapInv
    <2>3. QED
      BY <1>1, <1>2, <1>4, <2>2
  <1>8. ASSUME NEW i \in Untaken'
        PROVE  /\ i \in DOMAIN stream' /\ i + Gone \in Untaken
               /\ stream[i + Gone].age \in Nat
               /\ stream'[i].age = Older(stream[i + Gone].age)
    BY <1>1, <1>2 DEF Untaken
  <1>9. link'.phase = "live" =>
          link'.next <= Len(stream') + 1 /\ \A i \in Untaken' : link'.next <= i
    <2>2. ASSUME link'.phase = "live" PROVE link'.next <= Len(stream') + 1
      <3>1. link.phase = "live" /\ link'.next = link.next - Gone /\ link.next \in Int
        BY <1>1, <2>2, TickLink, LinkPhases DEF Pauses, Dials, Sessions
      <3>2. link.next <= Len(stream) + 1
        BY <3>1 DEF GapInv
      <3>3. QED
        BY <1>1, <3>1, <3>2
    <2>1. ASSUME link'.phase = "live", NEW i \in Untaken' PROVE link'.next <= i
      <3>1. link.phase = "live" /\ link'.next = link.next - Gone /\ link.next \in Int
        BY <1>1, <2>1, TickLink, LinkPhases DEF Pauses, Dials, Sessions
      <3>2. link.next <= i + Gone
        BY <1>8, <3>1 DEF GapInv
      <3>3. QED
        BY <1>1, <1>2, <1>8, <3>1, <3>2
    <2>3. QED
      BY <2>1, <2>2
  <1>10. ASSUME last' # None, NEW i \in Untaken' PROVE stream'[i].age <= last' + Rewind
    <2>1. last # None /\ last \in Nat /\ last' = Older(last)
      BY <1>1, <1>3, <1>10 DEF TypeInv
    <2>2. stream[i + Gone].age <= last + Rewind
      BY <1>8, <2>1 DEF GapInv
    <2>3. QED
      BY <1>5, <1>8, <2>1, <2>2
  <1>11. ASSUME link'.phase = "connecting", link'.cursor # None, NEW i \in Untaken'
         PROVE  stream'[i].age <= link'.cursor
    <2>1. link.phase = "connecting" /\ link.cursor \in Nat /\ link'.cursor = link.cursor + 1
      BY <1>1, <1>11, TickLink, LinkPhases DEF Pauses, Dials, Sessions
    <2>2. stream[i + Gone].age <= link.cursor
      BY <1>8, <2>1 DEF GapInv
    <2>3. QED
      BY <1>6, <1>8, <2>1, <2>2
  <1>12. QED
    BY <1>3, <1>7, <1>9, <1>10, <1>11 DEF GapInv

LEMMA GapStep ==
  ASSUME Inv, Inv', GapInv, [Next]_vars
  PROVE  GapInv'
  <1> USE FirehoseConstants
  <1>1. TypeInv /\ TypeInv' /\ Len(stream) \in Nat /\ DOMAIN stream = 1 .. Len(stream)
        /\ \A i \in DOMAIN stream : stream[i] \in Event /\ stream[i].age \in Nat
    <2>1. TypeInv /\ TypeInv' /\ Len(stream) \in Nat /\ DOMAIN stream = 1 .. Len(stream)
      BY DEF Inv, TypeInv
    <2>2. \A i \in DOMAIN stream : stream[i] \in Event
      BY <2>1 DEF TypeInv
    <2>3. \A i \in DOMAIN stream : stream[i].age \in Nat
      BY <2>2 DEF Event
    <2>4. QED
      BY <2>1, <2>2, <2>3
  <1>2. CASE UNCHANGED vars
    BY <1>2 DEF vars, GapInv, Untaken
  <1>3. ASSUME NEW kind \in Kind, Emit(kind) PROVE GapInv'
    <2> DEFINE e == [kind |-> kind, age |-> 0, taken |-> kind # "post"]
    <2>1. stream' = Append(stream, e) /\ UNCHANGED <<link, last, silent>>
      BY <1>3 DEF Emit
    <2>2. /\ DOMAIN stream' = 1 .. Len(stream) + 1
          /\ \A i \in DOMAIN stream : stream'[i] = stream[i]
          /\ stream'[Len(stream) + 1].age = 0
      BY <1>1, <2>1
    <2>3. \A i \in DOMAIN stream' : i \in DOMAIN stream \/ i = Len(stream) + 1
      BY <1>1, <2>2
    <2>4. \A i \in Untaken' : i \in Untaken \/ i = Len(stream) + 1
      BY <2>2, <2>3 DEF Untaken
    <2>5. link.phase = "live" => link.next \in Int /\ link.next <= Len(stream) + 1
      BY <1>1, LinkPhases DEF Sessions, GapInv
    <2>6. Len(stream') = Len(stream) + 1
      BY <1>1, <2>1
    <2> HIDE DEF e
    <2>7. \A i, j \in DOMAIN stream' : i <= j => stream'[j].age <= stream'[i].age
      BY <1>1, <2>2, <2>3 DEF GapInv
    <2>8. ASSUME last' # None, NEW i \in Untaken' PROVE stream'[i].age <= last' + Rewind
      <3>1. last' = last /\ last \in Nat
        BY <1>1, <2>1, <2>8 DEF TypeInv
      <3>2. QED
        BY <2>2, <2>4, <2>8, <3>1 DEF GapInv, Untaken
    <2>9. ASSUME link'.phase = "connecting", link'.cursor # None, NEW i \in Untaken'
          PROVE  stream'[i].age <= link'.cursor
      <3>1. link' = link /\ link.cursor \in Nat
        BY <1>1, <2>1, <2>9, LinkPhases DEF Dials
      <3>2. QED
        BY <2>2, <2>4, <2>9, <3>1 DEF GapInv, Untaken
    <2>10. ASSUME link'.phase = "live"
           PROVE  link'.next <= Len(stream') + 1 /\ \A i \in Untaken' : link'.next <= i
      BY <1>1, <2>1, <2>4, <2>5, <2>6, <2>10 DEF GapInv
    <2>11. QED
      BY <2>1, <2>7, <2>8, <2>9, <2>10 DEF GapInv
  <1>4. CASE Tick
    BY <1>4, GapTick
  <1>5. CASE StartSession
    <2>1. /\ link'.phase = "connecting" /\ UNCHANGED <<stream, last, silent>>
          /\ link'.cursor = IF last = None THEN None ELSE ReplayCursor(last)
      BY <1>5 DEF StartSession
    <2>2. link'.cursor # None => last # None /\ link'.cursor = last + Rewind
      BY <2>1 DEF ReplayCursor, CursorFrom
    <2>3. QED
      BY <2>1, <2>2 DEF GapInv, Untaken
  \* What the first session event leaves behind has been taken, or was given up
  \* because the session asked for no replay.
  <1>6. ASSUME NEW skew \in Skew, Connected(skew) PROVE GapInv'
    <2> DEFINE first == FirstSent(link.cursor, skew)
               skipped == {i \in 1 .. first - 1 : ~stream[i].taken}
    <2>1. /\ link.phase = "connecting" /\ UNCHANGED last
          /\ silent' = (silent \/ (skipped # {} /\ link.cursor # None))
          /\ link' = [phase |-> "live", skew |-> skew, next |-> first, up |-> 0, idle |-> 0]
          /\ stream' = [i \in DOMAIN stream |-> [stream[i] EXCEPT !.taken = @ \/ i < first]]
      BY <1>6 DEF Connected
    <2>2. first \in 1 .. Len(stream) + 1
      BY <1>1, FirstSentType
    <2>3. skew \in Nat
      <3>1. skew \in 0 .. Rewind
        OBVIOUS
      <3>2. QED
        BY <3>1
    <2>4. link.cursor # None => skipped = {}
      <3>1. ASSUME link.cursor # None, NEW i \in 1 .. first - 1, ~stream[i].taken PROVE FALSE
        <4>1. i \in Untaken
          BY <1>1, <2>2, <3>1 DEF Untaken
        <4>2. link.cursor \in Nat /\ stream[i].age \in Nat
          BY <1>1, <2>1, <3>1, <4>1, LinkPhases DEF Dials, Untaken
        <4>3. stream[i].age <= link.cursor
          BY <2>1, <3>1, <4>1 DEF GapInv
        <4>4. ~(stream[i].age - skew <= link.cursor)
          BY <1>1, <3>1, <4>1, FirstSentType DEF Untaken
        <4>5. QED
          BY <2>3, <4>2, <4>3, <4>4
      <3>2. QED
        BY <3>1
    <2>5. ~silent'
      BY <2>1, <2>4 DEF GapInv
    <2> HIDE DEF first, skipped
    <2>6. /\ DOMAIN stream' = DOMAIN stream /\ Len(stream') = Len(stream)
          /\ \A i \in DOMAIN stream : /\ stream'[i].age = stream[i].age
                                     /\ stream'[i].taken = (stream[i].taken \/ i < first)
      <3>1. /\ DOMAIN stream' = DOMAIN stream
            /\ \A i \in DOMAIN stream :
                  stream'[i] = [stream[i] EXCEPT !.taken = @ \/ i < first]
        BY <2>1
      <3>2. Len(stream') = Len(stream)
        BY <1>1, <3>1 DEF TypeInv
      <3>3. QED
        BY <1>1, <3>1, <3>2 DEF Event
    <2>7. \A i \in Untaken' : i \in Untaken /\ first <= i
      <3>1. ASSUME NEW i \in Untaken' PROVE i \in Untaken /\ first <= i
        <4>1. i \in DOMAIN stream /\ ~(stream[i].taken \/ i < first)
          BY <2>6, <3>1 DEF Untaken
        <4>2. i \in Int /\ ~(i < first) /\ ~stream[i].taken
          BY <1>1, <4>1
        <4>3. QED
          BY <2>2, <4>1, <4>2 DEF Untaken
      <3>2. QED
        BY <3>1
    <2>8. \A i \in Untaken' : i \in DOMAIN stream /\ stream'[i].age = stream[i].age
      BY <2>6, <2>7 DEF Untaken
    <2>9. link'.phase = "live" /\ link'.next = first
      BY <2>1
    <2>10. \A i, j \in DOMAIN stream' : i <= j => stream'[j].age <= stream'[i].age
      BY <2>6 DEF GapInv
    <2>11. last' # None => \A i \in Untaken' : stream'[i].age <= last' + Rewind
      BY <2>1, <2>7, <2>8 DEF GapInv
    <2>12. QED
      BY <2>2, <2>5, <2>6, <2>7, <2>9, <2>10, <2>11 DEF GapInv
  <1>7. CASE ConnectFails
    <2>1. UNCHANGED <<stream, last, silent>> /\ link'.phase = "waiting"
      BY <1>7 DEF ConnectFails, BackOff, Waiting
    <2>2. QED
      BY <2>1, GapFrame
  \* The event that moves the cursor is the oldest that is owed.
  <1>8. CASE Receive
    <2> DEFINE n == link.next
    <2>1. /\ link.phase = "live" /\ n \in DOMAIN stream /\ link \in Sessions
          /\ last' = stream[n].age - link.skew
          /\ stream' = [stream EXCEPT ![n].taken = TRUE]
          /\ link' = [link EXCEPT !.next = @ + 1, !.idle = 0]
          /\ UNCHANGED silent
      BY <1>1, <1>8, LinkPhases DEF Receive, Arrived
    <2>2. link.skew \in 0 .. Rewind /\ n \in Int
      BY <2>1 DEF Sessions
    <2>3. link'.phase = "live" /\ link'.next = n + 1
      BY <2>1 DEF Sessions
    <2> HIDE DEF n
    <2>4. /\ DOMAIN stream' = DOMAIN stream /\ Len(stream') = Len(stream)
          /\ \A i \in DOMAIN stream : stream'[i].age = stream[i].age
          /\ \A i \in DOMAIN stream : stream'[i].taken = (stream[i].taken \/ i = n)
      <3>1. /\ DOMAIN stream' = DOMAIN stream
            /\ stream'[n] = [stream[n] EXCEPT !.taken = TRUE]
            /\ \A i \in DOMAIN stream : i # n => stream'[i] = stream[i]
        BY <1>1, <2>1 DEF TypeInv
      <3>2. Len(stream') = Len(stream)
        BY <1>1, <2>1 DEF TypeInv
      <3>3. stream'[n].age = stream[n].age /\ stream'[n].taken = TRUE
        BY <1>1, <2>1, <3>1 DEF Event
      <3>4. \A i \in DOMAIN stream : stream[i].taken \in BOOLEAN
        BY <1>1 DEF Event
      <3>5. QED
        BY <3>1, <3>2, <3>3, <3>4
    <2>5. ASSUME NEW i \in Untaken'
          PROVE  i \in Untaken /\ n + 1 <= i /\ stream'[i].age = stream[i].age
      <3>1. i \in DOMAIN stream /\ ~stream[i].taken /\ i # n
        BY <2>4, <2>5 DEF Untaken
      <3>2. i \in Untaken /\ n <= i /\ i \in Int
        BY <1>1, <2>1, <3>1 DEF Untaken, GapInv, n
      <3>3. QED
        BY <2>2, <2>4, <3>1, <3>2
    <2>6. n + 1 <= Len(stream') + 1
      BY <1>1, <2>1, <2>4
    <2>7. \A i, j \in DOMAIN stream' : i <= j => stream'[j].age <= stream'[i].age
      BY <2>4 DEF GapInv
    <2>8. ASSUME NEW i \in Untaken' PROVE stream'[i].age <= last' + Rewind
      <3>1. i \in DOMAIN stream /\ n <= i
        BY <1>1, <2>2, <2>5 DEF Untaken
      <3>2. stream[i].age <= stream[n].age
        BY <2>1, <3>1 DEF GapInv
      <3>3. stream[i].age \in Nat /\ stream[n].age \in Nat
        BY <1>1, <2>1, <3>1
      <3>4. QED
        BY <2>1, <2>2, <2>5, <3>2, <3>3
    <2>9. QED
      BY <2>1, <2>3, <2>5, <2>6, <2>7, <2>8 DEF GapInv
  <1>9. CASE HitPoison \/ ChannelCloses \/ RecvTimesOut
    <2>1. EndSession
      BY <1>9 DEF HitPoison, ChannelCloses, RecvTimesOut
    <2>2. UNCHANGED <<stream, last, silent>> /\ link'.phase = "waiting"
      BY <2>1 DEF EndSession, BackOff, Waiting
    <2>3. QED
      BY <2>2, GapFrame
  <1>10. CASE Restart
    <2>1. UNCHANGED <<stream, silent>> /\ last' = None /\ link'.phase = "waiting"
      BY <1>10 DEF Restart, Waiting
    <2>2. QED
      BY <2>1, GapFrame
  <1>11. QED
    BY <1>2, <1>3, <1>4, <1>5, <1>6, <1>7, <1>8, <1>9, <1>10 DEF Next, Connect

\* A session that resumes from a cursor leaves no gap, for every rewind that is
\* no less than the skew of the endpoints, every cap on replays and every outage
\* (firehose.rs:12-15).
THEOREM NothingIsSkipped == Spec => []NoSilentGap
  <1>1. Init => GapInv
    BY DEF Init, GapInv, Untaken, Waiting
  <1>2. Inv /\ Inv' /\ GapInv /\ [Next]_vars => GapInv'
    BY GapStep
  <1>3. GapInv => NoSilentGap
    BY DEF GapInv, NoSilentGap
  <1>4. QED
    BY <1>1, <1>2, <1>3, Invariant, PTL DEF Spec
=============================================================================
