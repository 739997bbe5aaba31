------------------------------ MODULE PagesProofs ------------------------------
(***************************************************************************)
(* What a reader is shown, for every value of the constants: the lists, as *)
(* Publisher has them, the numbers on a page, as Statistics has them, and  *)
(* the preview picture, as Montage has it.                                 *)
(***************************************************************************)
EXTENDS MCPages, SumProofs, FiniteSetTheorems, WellFoundedInduction, TLAPS

-----------------------------------------------------------------------------
(* Type correctness, owner by owner.  TypeOK alone is not inductive: a      *)
(* reader asks for a feed's companions only after it has picked the feed.   *)

Cycle == [now : Nat, aged : [Item -> Nat], key : [Table -> Nat],
          tag : Nat \cup {None}, rows : [Table -> Rows], alive : SUBSET Item,
          tables : SUBSET Table, feeds : SUBSET Feed, feed : Feed \cup {None}]

Page == [feed : Feed \cup {None}, list : Seq(Publication),
         at : Nat \cup {None}, stats : Summary \cup {None}]

WorldType ==
    /\ content \in [Table -> Rows]
    /\ version \in [Table -> Nat]
    /\ clock \in Nat
    /\ age \in [Item -> Nat]
    /\ gone \in SUBSET Item
    /\ faults \in Nat

ProcType ==
    /\ stage \in [Publisher -> Stage]
    /\ cycle \in [Publisher -> Cycle]
    /\ gate \in [Publisher -> [Table -> Nat] \cup {None}]
    /\ scoresCache \in [Publisher -> [version : Nat, rows : Rows] \cup {None}]

RedisType ==
    /\ list \in [Feed -> Seq(Publication)]
    /\ building \in [Feed -> Seq(Publication)]
    /\ refreshedAt \in [Feed -> Nat \cup {None}]
    /\ statistics \in [Feed -> Summary \cup {None}]
    /\ catalog \in SUBSET Feed

ReaderType ==
    /\ rstage \in [Reader -> {"resting", "listing", "dating", "counting"}]
    /\ chain \in [Reader -> SUBSET Feed]
    /\ page \in [Reader -> Page]
    /\ \A r \in Reader : rstage[r] \in {"dating", "counting"} => page[r].feed \in Feed

TypeInv ==
    /\ WorldType
    /\ ProcType
    /\ RedisType
    /\ ReaderType
    /\ solid \in [Reader -> SUBSET Feed]

LEMMA TypeInvImpliesTypeOK == TypeInv => TypeOK
  BY DEF TypeInv, WorldType, ProcType, RedisType, ReaderType, TypeOK, Cycle, Page

LEMMA NoCycleType == NoCycle \in Cycle
  BY DEF NoCycle, Cycle, NoRows, Rows, Verdict, Table

LEMMA BlankPageType == BlankPage \in Page
  BY DEF BlankPage, Page

LEMMA InitTypeInv == Init => TypeInv
  <1> SUFFICES ASSUME Init PROVE TypeInv
    OBVIOUS
  <1>1. WorldType
    BY DEF Init, WorldType, NoRows, Rows, Verdict
  <1>2. ProcType
    BY NoCycleType DEF Init, ProcType, Stage
  <1>3. RedisType
    BY DEF Init, RedisType
  <1>4. ReaderType
    BY BlankPageType DEF Init, ReaderType
  <1>5. QED
    BY <1>1, <1>2, <1>3, <1>4 DEF Init, TypeInv

\* What a publication holds is typed by the cycle that makes it.
LEMMA NextPublicationType ==
  ASSUME ProcType, NEW p \in Publisher, NEW f
  PROVE  /\ NextPublication(p, f) \in Publication
         /\ Cardinality(NextPublication(p, f).live) \in Nat
  <1>1. cycle[p] \in Cycle
    BY DEF ProcType
  <1>2. NextPublication(p, f) \in Publication
    BY <1>1 DEF NextPublication, Publication, Visible, Within, PublishedAt, Cycle
  <1>3. IsFiniteSet(NextPublication(p, f).live)
    BY <1>2, PublisherAssumption, FS_Subset DEF Publication
  <1>4. QED
    BY <1>2, <1>3, FS_CardinalityType

-----------------------------------------------------------------------------
StateType == WorldType /\ ProcType /\ RedisType /\ ReaderType

LEMMA WorldFrame == WorldType /\ UNCHANGED <<storeVars, worldVars, faults>> => WorldType'
  BY DEF WorldType, storeVars, worldVars

LEMMA ProcFrame == ProcType /\ UNCHANGED procVars => ProcType'
  BY DEF ProcType, procVars

LEMMA RedisFrame == RedisType /\ UNCHANGED redisVars => RedisType'
  BY DEF RedisType, redisVars, listVars, otherKeys

LEMMA ReaderFrame == ReaderType /\ UNCHANGED readerVars => ReaderType'
  BY DEF ReaderType, readerVars

LEMMA OthersType ==
  ASSUME StateType, Others PROVE StateType'
  <1> USE WorldFrame, ProcFrame, RedisFrame, ReaderFrame DEF StateType
  <1>1. ASSUME NEW t \in Table, NEW i \in Item, NEW v \in Verdict, Write(t, i, v)
        PROVE  StateType'
    <2>1. content[t] \in Rows
      BY DEF WorldType
    <2>2. [content[t] EXCEPT ![i] = v] \in Rows
      BY <2>1 DEF Rows
    <2>3. content' = [content EXCEPT ![t] = [content[t] EXCEPT ![i] = v]]
      BY <1>1 DEF Write
    <2>4. content' \in [Table -> Rows]
      BY <2>2, <2>3 DEF WorldType
    <2>5. WorldType'
      BY <1>1, <2>4 DEF Write, WorldType, worldVars
    <2>6. QED
      BY <1>1, <2>5 DEF Write
  <1>2. ASSUME NEW t \in Table, Compact(t) PROVE StateType'
    BY <1>2 DEF Compact, WorldType, worldVars
  <1>3. ASSUME NEW i \in Item, Grow(i) \/ Delete(i) PROVE StateType'
    BY <1>3 DEF Grow, Delete, WorldType, storeVars
  <1>4. ASSUME NEW f \in Feed, LoseList(f) \/ LoseScratch(f) PROVE StateType'
    <2>1. WorldType'
      BY <1>4 DEF LoseList, LoseScratch, WorldType, storeVars, worldVars
    <2>2. <<>> \in Seq(Publication)
      OBVIOUS
    <2>3. CASE LoseList(f)
      BY <1>4, <2>1, <2>2, <2>3 DEF LoseList, RedisType, otherKeys
    <2>4. CASE LoseScratch(f)
      BY <1>4, <2>1, <2>2, <2>4 DEF LoseScratch, RedisType, otherKeys
    <2>5. QED
      BY <1>4, <2>3, <2>4
  <1>5. ASSUME LoseCatalog PROVE StateType'
    BY <1>5 DEF LoseCatalog, WorldType, RedisType, storeVars, worldVars, listVars,
                otherKeys
  <1>6. QED
    BY <1>1, <1>2, <1>3, <1>4, <1>5 DEF Others

\* The moves of a publisher's program counter and of its locals.
LEMMA GoToType ==
  ASSUME stage \in [Publisher -> Stage], NEW p \in Publisher, NEW s \in Stage, GoTo(p, s)
  PROVE  stage' \in [Publisher -> Stage]
  BY DEF GoTo

LEMMA NoteType ==
  ASSUME cycle \in [Publisher -> Cycle], NEW p \in Publisher, NEW c \in Cycle, Note(p, c)
  PROVE  cycle' \in [Publisher -> Cycle]
  BY DEF Note

LEMMA FetchedType ==
  ASSUME ProcType, NEW p \in Publisher, NEW t \in Table, NEW rs \in Rows,
         Fetched(p, t, rs)
  PROVE  stage' \in [Publisher -> Stage] /\ cycle' \in [Publisher -> Cycle]
  <1>1. cycle[p] \in Cycle
    BY DEF ProcType
  <1>2. PICK c \in Cycle : Note(p, c)
    <2> DEFINE c == [cycle[p] EXCEPT !.rows[t] = rs, !.tables = @ \ {t},
                                     !.tag = IF t = "scores" THEN None ELSE @]
    <2>1. [cycle[p].rows EXCEPT ![t] = rs] \in [Table -> Rows]
      BY <1>1 DEF Cycle
    <2>2. c \in Cycle
      BY <1>1, <2>1 DEF Cycle
    <2>3. Note(p, c)
      BY DEF Fetched
    <2>4. QED
      BY <2>2, <2>3
  <1>3. cycle' \in [Publisher -> Cycle]
    BY <1>2, NoteType DEF ProcType
  <1>4. stage' \in [Publisher -> Stage]
    BY DEF Fetched, GoTo, ProcType, Stage
  <1>5. QED
    BY <1>3, <1>4

\* The steps of a cycle up to its writes, which touch no redis key.
LEMMA GatherType ==
  ASSUME StateType, NEW p \in Publisher,
         \/ Begin(p) \/ CheckScoresCache(p) \/ ScanScores(p) \/ Probe(p)
         \/ \E t \in Table : ReadVersion(p, t) \/ ReadAppraisals(p, t)
         \/ \E f \in Feed : CheckPresence(p, f)
  PROVE  StateType'
  <1> USE WorldFrame, RedisFrame, ReaderFrame DEF StateType
  <1>1. cycle[p] \in Cycle
    BY DEF ProcType
  <1>2. ASSUME NEW c \in Cycle, NEW s \in Stage, Note(p, c), GoTo(p, s) \/ UNCHANGED stage,
               UNCHANGED <<gate, scoresCache>>
        PROVE  ProcType'
    BY <1>2, GoToType, NoteType DEF ProcType
  <1>3. ASSUME Begin(p) PROVE StateType'
    <2>1. clock' \in Nat
      BY <1>3 DEF Begin, WorldType
    <2>2. [NoCycle EXCEPT !.now = clock', !.aged = age, !.tables = Table] \in Cycle
      BY <2>1, NoCycleType DEF WorldType, Cycle
    <2>3. ProcType'
      BY <1>2, <1>3, <2>2 DEF Begin, Stage
    <2>4. QED
      BY <1>3, <2>1, <2>3 DEF Begin, WorldType, storeVars
  <1>4. ASSUME NEW t \in Table, ReadVersion(p, t) PROVE StateType'
    <2> DEFINE read == [cycle[p] EXCEPT !.key[t] = version[t], !.tables = @ \ {t}]
    <2>1. read \in Cycle
      BY <1>1 DEF Cycle, WorldType
    <2>2. PICK c \in {read, [read EXCEPT !.feeds = Feed], [read EXCEPT !.tables = Table]} :
            Note(p, c) /\ (UNCHANGED stage \/ GoTo(p, "presence") \/ GoTo(p, "reading"))
      BY <1>4 DEF ReadVersion
    <2>3. c \in Cycle
      BY <2>1 DEF Cycle
    <2>4. ProcType'
      BY <1>2, <1>4, <2>2, <2>3 DEF ReadVersion, Stage
    <2>5. QED
      BY <1>4, <2>4 DEF ReadVersion
  <1>5. ASSUME NEW f \in Feed, CheckPresence(p, f) PROVE StateType'
    <2>1. PICK c \in {[cycle[p] EXCEPT !.feeds = {}, !.tables = Table], NoCycle,
                      [cycle[p] EXCEPT !.feeds = @ \ {f}]} :
            Note(p, c) /\ (UNCHANGED stage \/ GoTo(p, "idle") \/ GoTo(p, "reading"))
      BY <1>5 DEF CheckPresence
    <2>2. c \in Cycle
      BY <1>1, NoCycleType DEF Cycle
    <2>3. ProcType'
      BY <1>2, <1>5, <2>1, <2>2 DEF CheckPresence, Stage
    <2>4. QED
      BY <1>5, <2>3 DEF CheckPresence
  <1>6. ASSUME NEW t \in Table, NEW rs \in Rows, Fetched(p, t, rs),
               UNCHANGED <<gate, scoresCache>>
        PROVE  ProcType'
    BY <1>6, FetchedType DEF ProcType
  <1>7. ASSUME NEW t \in Table, ReadAppraisals(p, t) PROVE StateType'
    BY <1>6, <1>7 DEF ReadAppraisals, WorldType
  <1>8. ASSUME CheckScoresCache(p) PROVE StateType'
    <2>1. CASE Fetched(p, "scores", scoresCache[p].rows) /\ scoresCache[p] # None
      <3>1. scoresCache[p].rows \in Rows
        BY <2>1 DEF ProcType
      <3>2. QED
        BY <1>6, <1>8, <2>1, <3>1 DEF CheckScoresCache, Table
    <2>2. CASE Note(p, [cycle[p] EXCEPT !.tag = version["scores"]]) /\ UNCHANGED stage
      <3>1. [cycle[p] EXCEPT !.tag = version["scores"]] \in Cycle
        BY <1>1 DEF Cycle, WorldType, Table
      <3>2. ProcType'
        BY <1>8, <2>2, <3>1, NoteType DEF CheckScoresCache, ProcType
      <3>3. QED
        BY <1>8, <3>2 DEF CheckScoresCache
    <2>3. QED
      BY <1>8, <2>1, <2>2 DEF CheckScoresCache
  <1>9. ASSUME ScanScores(p) PROVE StateType'
    <2>1. content["scores"] \in Rows /\ "scores" \in Table /\ cycle[p].tag \in Nat
      BY <1>1, <1>9 DEF ScanScores, WorldType, Table, Cycle
    <2>2. stage' \in [Publisher -> Stage] /\ cycle' \in [Publisher -> Cycle]
      BY <1>9, <2>1, FetchedType DEF ScanScores
    <2>3. scoresCache' \in [Publisher -> [version : Nat, rows : Rows] \cup {None}]
      BY <1>9, <2>1 DEF ScanScores, ProcType, Tag
    <2>4. ProcType'
      BY <1>9, <2>2, <2>3 DEF ScanScores, ProcType
    <2>5. QED
      BY <1>9, <2>4 DEF ScanScores
  <1>10. ASSUME Probe(p) PROVE StateType'
    <2>1. PICK missed \in SUBSET gone :
            Note(p, [cycle[p] EXCEPT !.alive = (Item \ gone) \cup missed, !.feeds = Feed])
      BY <1>10 DEF Probe
    <2>2. [cycle[p] EXCEPT !.alive = (Item \ gone) \cup missed, !.feeds = Feed] \in Cycle
      BY <1>1 DEF Cycle, WorldType
    <2>3. ProcType'
      BY <1>2, <1>10, <2>1, <2>2 DEF Probe, Stage
    <2>4. QED
      BY <1>10, <2>3 DEF Probe
  <1>11. QED
    BY <1>3, <1>4, <1>5, <1>7, <1>8, <1>9, <1>10

\* The writes of a cycle, and its ends.
LEMMA DeliverType ==
  ASSUME StateType, NEW p \in Publisher,
         \/ ClearCatalog(p) \/ Advertise(p) \/ Push(p) \/ Swap(p) \/ SwapFails(p)
         \/ Stamp(p) \/ Summarise(p) \/ Fail(p) \/ Restart(p)
         \/ \E f \in Feed : ClearScratch(p, f)
  PROVE  StateType'
  <1> USE WorldFrame, ReaderFrame, RedisFrame DEF StateType
  <1> DEFINE f == cycle[p].feed
             u == NextPublication(p, f)
  <1>1. /\ cycle[p] \in Cycle
        /\ u \in Publication
        /\ Cardinality(u.live) \in Nat
    BY NextPublicationType DEF ProcType
  <1>2. <<>> \in Seq(Publication)
    OBVIOUS
  <1>3. ASSUME UNCHANGED <<cycle, gate, scoresCache>>, NEW s \in Stage, GoTo(p, s)
        PROVE  ProcType'
    BY <1>3, GoToType DEF ProcType
  <1>4. ASSUME NEW c \in Cycle, NEW s \in Stage, Note(p, c), GoTo(p, s),
               UNCHANGED <<gate, scoresCache>>
        PROVE  ProcType'
    BY <1>4, GoToType, NoteType DEF ProcType
  <1>5. ASSUME ClearCatalog(p) \/ Advertise(p) PROVE StateType'
    <2>1. RedisType'
      BY <1>5 DEF ClearCatalog, Advertise, RedisType, listVars, otherKeys
    <2>2. ProcType'
      BY <1>3, <1>5 DEF ClearCatalog, Advertise, Stage
    <2>3. QED
      BY <1>5, <2>1, <2>2 DEF ClearCatalog, Advertise
  <1>6. ASSUME NEW g \in Feed, ClearScratch(p, g) PROVE StateType'
    <2>1. [cycle[p] EXCEPT !.feed = g] \in Cycle
      BY <1>1 DEF Cycle
    <2>2. ProcType'
      BY <1>4, <1>6, <2>1 DEF ClearScratch, Stage
    <2>3. RedisType'
      BY <1>2, <1>6 DEF ClearScratch, Scratch, RedisType, otherKeys
    <2>4. QED
      BY <1>6, <2>2, <2>3 DEF ClearScratch
  <1>7. ASSUME Push(p) PROVE StateType'
    <2>1. ProcType'
      BY <1>3, <1>7 DEF Push, Stage
    <2>2. list' \in [Feed -> Seq(Publication)]
      BY <1>2, <1>7 DEF Push, RedisType
    <2>3. building' \in [Feed -> Seq(Publication)]
      <3>1. CASE UNCHANGED building
        BY <3>1 DEF RedisType
      <3>2. CASE building' = [building EXCEPT ![f] = Append(@, u)]
        <4>1. f \in Feed => Append(building[f], u) \in Seq(Publication)
          BY <1>1 DEF RedisType
        <4>2. QED
          BY <3>2, <4>1 DEF RedisType
      <3>3. QED
        BY <1>7, <3>1, <3>2 DEF Push
    <2>4. RedisType'
      BY <1>7, <2>2, <2>3 DEF Push, RedisType, otherKeys
    <2>5. QED
      BY <1>7, <2>1, <2>4 DEF Push
  <1>8. ASSUME Swap(p) PROVE StateType'
    <2>1. ProcType'
      BY <1>3, <1>8 DEF Swap, Stage
    <2>2. list' = [list EXCEPT ![f] = building[f]] /\ building' = [building EXCEPT ![f] = <<>>]
      BY <1>8 DEF Swap
    <2>3. RedisType'
      BY <1>2, <1>8, <2>2 DEF Swap, RedisType, otherKeys
    <2>4. QED
      BY <1>8, <2>1, <2>3 DEF Swap
  <1>9. ASSUME SwapFails(p) \/ Fail(p) PROVE StateType'
    <2>1. ProcType'
      BY <1>4, <1>9, NoCycleType DEF SwapFails, Fail, Stage
    <2>2. WorldType'
      BY <1>9 DEF SwapFails, Fail, WorldType, storeVars, worldVars
    <2>3. QED
      BY <1>9, <2>1, <2>2 DEF SwapFails, Fail
  <1>10. ASSUME Stamp(p) PROVE StateType'
    <2>1. ProcType'
      BY <1>3, <1>10 DEF Stamp, Stage
    <2>2. cycle[p].now \in Nat
      BY <1>1 DEF Cycle
    <2>3. RedisType'
      BY <1>10, <2>2 DEF Stamp, PublishedAt, RedisType, listVars
    <2>4. QED
      BY <1>10, <2>1, <2>3 DEF Stamp
  <1>11. ASSUME Summarise(p) PROVE StateType'
    <2>1. [exists |-> Cardinality(u.live), at |-> PublishedAt(p, f)] \in Summary
      BY <1>1 DEF Summary, PublishedAt, Cycle
    <2>2. RedisType'
      BY <1>11, <2>1 DEF Summarise, RedisType, listVars
    <2>3. gate' \in [Publisher -> [Table -> Nat] \cup {None}]
      BY <1>1, <1>11 DEF Summarise, Key, ProcType, Cycle
    <2>4. PICK c \in {NoCycle, [cycle[p] EXCEPT !.feeds = @ \ {f}, !.feed = None]} :
            Note(p, c) /\ (GoTo(p, "idle") \/ GoTo(p, "clearing"))
      BY <1>11 DEF Summarise
    <2>5. c \in Cycle
      BY <1>1, NoCycleType DEF Cycle
    <2>6. ProcType'
      BY <1>11, <2>3, <2>4, <2>5, GoToType, NoteType DEF Summarise, ProcType, Stage
    <2>7. QED
      BY <1>11, <2>2, <2>6 DEF Summarise
  <1>12. ASSUME Restart(p) PROVE StateType'
    <2>1. stage' \in [Publisher -> Stage] /\ cycle' \in [Publisher -> Cycle]
      BY <1>12, GoToType, NoteType, NoCycleType DEF Restart, ProcType, Stage
    <2>2. ProcType'
      BY <1>12, <2>1 DEF Restart, ProcType
    <2>3. WorldType'
      BY <1>12 DEF Restart, WorldType, storeVars, worldVars
    <2>4. QED
      BY <1>12, <2>2, <2>3 DEF Restart
  <1>13. QED
    BY <1>5, <1>6, <1>7, <1>8, <1>9, <1>10, <1>11, <1>12

LEMMA ReadType ==
  ASSUME StateType, NEW r \in Reader, Read(r) PROVE StateType'
  <1> USE WorldFrame, ProcFrame, RedisFrame DEF StateType
  <1>1. page[r] \in Page /\ chain[r] \in SUBSET Feed
    BY DEF ReaderType
  <1>2. ASSUME NEW f \in Feed, ReadCatalog(r, f) PROVE StateType'
    <2>1. ReaderType'
      BY <1>2, BlankPageType DEF ReadCatalog, ReaderType, RedisType
    <2>2. QED
      BY <1>2, <2>1 DEF ReadCatalog, publishSide
  <1>3. ASSUME NEW f \in Feed, ReadList(r, f) PROVE StateType'
    <2>1. [BlankPage EXCEPT !.feed = f, !.list = list[f]] \in Page
      BY BlankPageType DEF Page, RedisType
    <2>2. ReaderType'
      BY <1>3, <2>1 DEF ReadList, ReaderType, BlankPage
    <2>3. QED
      BY <1>3, <2>2 DEF ReadList, publishSide
  <1>4. ASSUME ReadRefreshedAt(r) PROVE StateType'
    <2>1. page[r].feed \in Feed
      BY <1>4 DEF ReadRefreshedAt, ReaderType
    <2>2. [page[r] EXCEPT !.at = refreshedAt[page[r].feed]] \in Page
      BY <1>1, <2>1 DEF Page, RedisType
    <2>3. page' = [page EXCEPT ![r] = [page[r] EXCEPT !.at = refreshedAt[page[r].feed]]]
      BY <1>4 DEF ReadRefreshedAt
    <2>4. ReaderType'
      BY <1>1, <1>4, <2>1, <2>2, <2>3 DEF ReadRefreshedAt, ReaderType, Page
    <2>5. QED
      BY <1>4, <2>4 DEF ReadRefreshedAt, publishSide
  <1>5. ASSUME Retry(r) PROVE StateType'
    <2>1. ReaderType'
      BY <1>5, BlankPageType DEF Retry, ReaderType
    <2>2. QED
      BY <1>5, <2>1 DEF Retry, publishSide
  <1>6. ASSUME ReadStatistics(r) PROVE StateType'
    <2>1. page[r].feed \in Feed
      BY <1>6 DEF ReadStatistics, ReaderType
    <2>2. [page[r] EXCEPT !.stats = statistics[page[r].feed]] \in Page
      BY <1>1, <2>1 DEF Page, RedisType
    <2>3. page' = [page EXCEPT ![r] = [page[r] EXCEPT !.stats = statistics[page[r].feed]]]
      BY <1>6 DEF ReadStatistics
    <2>4. ReaderType'
      BY <1>1, <1>6, <2>2, <2>3 DEF ReadStatistics, ReaderType
    <2>5. QED
      BY <1>6, <2>4 DEF ReadStatistics, publishSide
  <1>7. QED
    BY <1>2, <1>3, <1>4, <1>5, <1>6 DEF Read

LEMMA TypeStep == TypeInv /\ [Next]_vars => TypeInv'
  <1> SUFFICES ASSUME TypeInv, [Next]_vars PROVE TypeInv'
    OBVIOUS
  <1>1. StateType
    BY DEF TypeInv, StateType
  <1>2. CASE UNCHANGED vars
    BY <1>1, <1>2, WorldFrame, ProcFrame, RedisFrame, ReaderFrame
       DEF TypeInv, StateType, vars
  <1>3. CASE Next
    <2>1. StateType'
      BY <1>1, <1>3, OthersType, GatherType, DeliverType, ReadType DEF Next, Publish
    <2>2. solid' \in [Reader -> SUBSET Feed]
      BY <1>3, <2>1 DEF Next, Watch, StateType, ReaderType, TypeInv
    <2>3. QED
      BY <2>1, <2>2 DEF TypeInv, StateType
  <1>4. QED
    BY <1>2, <1>3

LEMMA TypeInvariant == Spec => []TypeInv
  BY InitTypeInv, TypeStep, PTL DEF Spec

\* Every state that skeet-publish, redis and its readers reach is well typed; a
\* reader never asks for the companions of a feed it has not picked.
THEOREM TypeCorrect == Spec => []TypeOK
  BY TypeInvariant, TypeInvImpliesTypeOK, PTL

-----------------------------------------------------------------------------
(* One publisher.  Nobody else pushes to its scratch key and nobody else    *)
(* moves the clock, so a list is always one whole publication, and the one  *)
(* that takes its place is never older.  ListsAreWhole is not inductive: it *)
(* needs what the scratch key holds between RPUSH and RENAME.               *)

Sole == \A p, q \in Publisher : p = q

\* A key holds nothing, or one publication that was made by now.
Single(s) == s = <<>> \/ \E u \in Publication : s = <<u>> /\ u.at <= clock

Working(p) == stage[p] \notin {"starting", "advertising", "idle"}

ScratchInv(p) ==
    /\ Working(p) => cycle[p].now = clock
    /\ stage[p] \in {"pushing", "swapping"} => cycle[p].feed \in Feed
    /\ stage[p] = "pushing" => building[cycle[p].feed] = <<>>
    /\ stage[p] = "swapping" =>
          \/ building[cycle[p].feed] = <<>>
          \/ building[cycle[p].feed] = <<NextPublication(p, cycle[p].feed)>>

SoleInv ==
    /\ \A f \in Feed : Single(list[f])
    /\ \A p \in Publisher : ScratchInv(p)

LEMMA SoleFrame ==
  ASSUME SoleInv, UNCHANGED <<clock, list, building, stage, cycle>>
  PROVE  SoleInv'
  BY DEF SoleInv, ScratchInv, Single, Working, NextPublication, PublishedAt

\* Only the publisher's own step can disturb what it has in the scratch key.
LEMMA SolePublisherStep ==
  ASSUME Sole, TypeInv, SoleInv, NEW p \in Publisher, Publish(p) \/ Fail(p) \/ Restart(p)
  PROVE  SoleInv'
  <1> USE DEF SoleInv
  <1> DEFINE f == cycle[p].feed
             u == NextPublication(p, f)
  <1>1. /\ \A q \in Publisher : q = p
        /\ stage \in [Publisher -> Stage] /\ cycle \in [Publisher -> Cycle]
        /\ clock \in Nat
        /\ list \in [Feed -> Seq(Publication)] /\ building \in [Feed -> Seq(Publication)]
    BY DEF Sole, TypeInv, WorldType, ProcType, RedisType
  <1>2. u \in Publication
    BY NextPublicationType DEF TypeInv
  <1>3. ASSUME Begin(p) PROVE SoleInv'
    <2>1. clock' \in Nat /\ clock <= clock'
      BY <1>1, <1>3 DEF Begin
    <2>2. \A g \in Feed : Single(list[g])'
      <3>1. \A v \in Publication : v.at <= clock => v.at <= clock'
        BY <1>1, <2>1 DEF Publication
      <3>2. QED
        BY <1>3, <3>1 DEF Begin, Single, redisVars, listVars
    <2>3. stage'[p] = "gating" /\ cycle'[p].now = clock'
      BY <1>1, <1>3 DEF Begin, GoTo, Note, NoCycle
    <2>4. QED
      BY <1>1, <2>2, <2>3 DEF ScratchInv
  <1>4. ASSUME UNCHANGED <<clock, list, building>>,
               Working(p)' => Working(p) /\ cycle'[p].now = cycle[p].now,
               stage'[p] \notin {"pushing", "swapping"}
        PROVE  SoleInv'
    BY <1>1, <1>4 DEF ScratchInv, Single, Working
  <1>5. ASSUME \/ ClearCatalog(p) \/ Advertise(p) \/ CheckScoresCache(p) \/ ScanScores(p)
               \/ Probe(p)
               \/ \E t \in Table : ReadVersion(p, t) \/ ReadAppraisals(p, t)
               \/ \E g \in Feed : CheckPresence(p, g)
        PROVE  SoleInv'
    <2>1. UNCHANGED <<clock, list, building>>
      BY <1>5 DEF ClearCatalog, Advertise, CheckScoresCache, ScanScores, Probe, ReadVersion,
                  ReadAppraisals, CheckPresence, worldVars, redisVars, listVars
    <2>2. ASSUME ClearCatalog(p) \/ Advertise(p)
          PROVE  stage'[p] \in {"advertising", "idle"}
      BY <1>1, <2>2 DEF ClearCatalog, Advertise, GoTo
    <2>3. ASSUME NEW t \in Table, NEW rs, Fetched(p, t, rs), stage[p] = "reading"
          PROVE  stage'[p] \in {"reading", "probing"} /\ cycle'[p].now = cycle[p].now
      BY <1>1, <2>3 DEF Fetched, GoTo, Note, Cycle
    <2>4. ASSUME CheckScoresCache(p) \/ ScanScores(p) \/ \E t \in Table : ReadAppraisals(p, t)
          PROVE  /\ stage[p] = "reading" /\ stage'[p] \in {"reading", "probing"}
                 /\ cycle'[p].now = cycle[p].now
      <3>1. CASE Note(p, [cycle[p] EXCEPT !.tag = version["scores"]]) /\ UNCHANGED stage
                 /\ stage[p] = "reading"
        BY <1>1, <3>1 DEF Note, Cycle
      <3>2. QED
        BY <2>3, <2>4, <3>1 DEF CheckScoresCache, ScanScores, ReadAppraisals, Table
    <2>5. ASSUME Probe(p)
          PROVE  /\ stage[p] = "probing" /\ stage'[p] = "clearing"
                 /\ cycle'[p].now = cycle[p].now
      BY <1>1, <2>5 DEF Probe, GoTo, Note, Cycle
    <2>6. ASSUME NEW t \in Table, ReadVersion(p, t)
          PROVE  /\ stage[p] = "gating" /\ stage'[p] \in {"gating", "presence", "reading"}
                 /\ cycle'[p].now = cycle[p].now
      <3> DEFINE read == [cycle[p] EXCEPT !.key[t] = version[t], !.tables = @ \ {t}]
      <3>1. PICK c \in {read, [read EXCEPT !.feeds = Feed], [read EXCEPT !.tables = Table]} :
              Note(p, c) /\ (UNCHANGED stage \/ GoTo(p, "presence") \/ GoTo(p, "reading"))
        BY <2>6 DEF ReadVersion
      <3>2. c.now = cycle[p].now
        BY <1>1 DEF Cycle
      <3>3. QED
        BY <1>1, <2>6, <3>1, <3>2 DEF ReadVersion, GoTo, Note
    <2>7. ASSUME NEW g \in Feed, CheckPresence(p, g)
          PROVE  /\ stage[p] = "presence"
                 /\ \/ stage'[p] = "idle"
                    \/ /\ stage'[p] \in {"presence", "reading"}
                       /\ cycle'[p].now = cycle[p].now
      BY <1>1, <2>7 DEF CheckPresence, GoTo, Note, Cycle
    <2>8. QED
      BY <1>4, <1>5, <2>1, <2>2, <2>4, <2>5, <2>6, <2>7 DEF Working
  <1>6. ASSUME NEW g \in Feed, ClearScratch(p, g) PROVE SoleInv'
    <2>1. UNCHANGED <<clock, list>> /\ stage[p] = "clearing"
      BY <1>6 DEF ClearScratch, worldVars
    <2>2. /\ stage'[p] = "pushing"
          /\ cycle'[p].now = cycle[p].now
          /\ cycle'[p].feed = g
          /\ building'[g] = <<>>
      BY <1>1, <1>6 DEF ClearScratch, GoTo, Note, Cycle, Scratch
    <2>3. QED
      BY <1>1, <2>1, <2>2 DEF ScratchInv, Working, Single
  <1>7. ASSUME Push(p) PROVE SoleInv'
    <2>1. /\ UNCHANGED <<clock, cycle>> /\ stage[p] = "pushing"
          /\ f \in Feed /\ building[f] = <<>>
      BY <1>7 DEF Push, worldVars, ScratchInv
    <2>2. CASE u.items = {}
      <3>1. list' = [list EXCEPT ![f] = <<>>] /\ stage'[p] = "stamping"
        BY <1>1, <1>7, <2>2 DEF Push, GoTo
      <3>2. QED
        BY <1>1, <2>1, <3>1 DEF ScratchInv, Working, Single
    <2>3. CASE u.items # {}
      <3>1. list' = list /\ stage'[p] = "swapping" /\ building'[f] = Append(building[f], u)
        BY <1>1, <1>7, <2>1, <2>3 DEF Push, GoTo
      <3>2. building'[f] = <<u>>
        BY <1>2, <2>1, <3>1
      <3>3. ScratchInv(p)'
        BY <2>1, <3>1, <3>2 DEF ScratchInv, Working, NextPublication, PublishedAt
      <3>4. QED
        BY <1>1, <2>1, <3>1, <3>3 DEF Single
    <2>4. QED
      BY <2>2, <2>3
  <1>8. ASSUME Swap(p) PROVE SoleInv'
    <2>1. /\ UNCHANGED <<clock, cycle>> /\ stage[p] = "swapping" /\ stage'[p] = "stamping"
          /\ list' = [list EXCEPT ![f] = building[f]]
          /\ building[f] = <<u>> /\ u.at = clock
      BY <1>1, <1>8 DEF Swap, GoTo, worldVars, ScratchInv, Working, NextPublication,
                        PublishedAt
    <2>2. Single(building[f])
      BY <1>1, <1>2, <2>1 DEF Single
    <2>3. \A g \in Feed : Single(list[g])'
      BY <1>1, <2>1, <2>2 DEF Single
    <2>4. QED
      BY <1>1, <2>1, <2>3 DEF ScratchInv, Working
  <1>9. ASSUME SwapFails(p) \/ Stamp(p) \/ Summarise(p) \/ Fail(p) \/ Restart(p)
        PROVE  SoleInv'
    <2>1. UNCHANGED <<clock, list, building>>
      BY <1>9 DEF SwapFails, Stamp, Summarise, Fail, Restart, worldVars, redisVars, listVars
    <2>2. ASSUME SwapFails(p) \/ Fail(p) \/ Restart(p)
          PROVE  stage'[p] \in {"idle", "starting"}
      BY <1>1, <2>2 DEF SwapFails, Fail, Restart, GoTo
    <2>3. ASSUME Stamp(p)
          PROVE  stage[p] = "stamping" /\ stage'[p] = "summing" /\ UNCHANGED cycle
      BY <1>1, <2>3 DEF Stamp, GoTo
    <2>4. ASSUME Summarise(p)
          PROVE  /\ stage[p] = "summing"
                 /\ \/ stage'[p] = "idle"
                    \/ stage'[p] = "clearing" /\ cycle'[p].now = cycle[p].now
      <3>1. CASE GoTo(p, "idle")
        BY <1>1, <2>4, <3>1 DEF Summarise, GoTo
      <3>2. CASE Note(p, [cycle[p] EXCEPT !.feeds = @ \ {f}, !.feed = None])
                 /\ GoTo(p, "clearing")
        BY <1>1, <2>4, <3>2 DEF Summarise, GoTo, Note, Cycle
      <3>3. QED
        BY <2>4, <3>1, <3>2 DEF Summarise
    <2>5. QED
      BY <1>4, <1>9, <2>1, <2>2, <2>3, <2>4 DEF Working
  <1>10. QED
    BY <1>3, <1>5, <1>6, <1>7, <1>8, <1>9 DEF Publish

LEMMA SoleStep ==
  ASSUME Sole, TypeInv, SoleInv, [Next]_vars
  PROVE  SoleInv'
  <1>1. CASE UNCHANGED vars
    BY <1>1, SoleFrame DEF vars, worldVars, procVars, redisVars, listVars
  <1>2. ASSUME NEW f \in Feed, LoseList(f) \/ LoseScratch(f) PROVE SoleInv'
    <2>1. UNCHANGED <<clock, stage, cycle>>
      BY <1>2 DEF LoseList, LoseScratch, worldVars, procVars
    <2>2. /\ \A g \in Feed : list'[g] \in {list[g], <<>>}
          /\ \A g \in Feed : building'[g] \in {building[g], <<>>}
      BY <1>2 DEF LoseList, LoseScratch, TypeInv, RedisType
    <2>3. QED
      BY <2>1, <2>2 DEF SoleInv, ScratchInv, Single, Working, NextPublication, PublishedAt
  <1>3. CASE Others
    <2>1. ASSUME UNCHANGED <<clock, list, building, stage, cycle>> PROVE SoleInv'
      BY <2>1, SoleFrame
    <2>2. QED
      BY <1>2, <1>3, <2>1 DEF Others, Write, Compact, Grow, Delete, LoseCatalog, worldVars,
                             procVars, redisVars, listVars
  <1>4. ASSUME NEW r \in Reader, Read(r) PROVE SoleInv'
    BY <1>4, SoleFrame DEF Read, ReadCatalog, ReadList, ReadRefreshedAt, Retry,
       ReadStatistics, publishSide, worldVars, procVars, redisVars, listVars
  <1>5. QED
    BY <1>1, <1>3, <1>4, SolePublisherStep DEF Next

LEMMA SoleInvariant == ASSUME Sole PROVE Spec => []SoleInv
  <1>1. Init => SoleInv
    BY DEF Init, SoleInv, ScratchInv, Single, Working
  <1>2. TypeInv /\ SoleInv /\ [Next]_vars => SoleInv'
    BY SoleStep
  <1>3. QED
    BY <1>1, <1>2, TypeInvariant, PTL DEF Spec

\* With one publisher a reader finds a whole list or none, through any failure,
\* restart or lost key: a leftover in the scratch key never mixes with what the
\* next cycle pushes (PublishedList::replace).
THEOREM SoleListsAreWhole == ASSUME Sole PROVE Spec => []ListsAreWhole
  <1>1. ASSUME SoleInv, NEW f \in Feed PROVE Len(list[f]) <= 1
    <2>1. CASE list[f] = <<>>
      BY <2>1
    <2>2. ASSUME NEW u \in Publication, list[f] = <<u>> PROVE Len(list[f]) <= 1
      BY <2>2
    <2>3. QED
      BY <1>1, <2>1, <2>2 DEF SoleInv, Single
  <1>2. SoleInv => ListsAreWhole
    BY <1>1 DEF ListsAreWhole
  <1>3. QED
    BY <1>2, SoleInvariant, PTL

\* With one publisher redis implements PublishedRegister: every step of the
\* publisher, of redis and of the world leaves the lists alone, clears one, or
\* puts one whole publication in the place of another that is no newer.
THEOREM SoleListsAreARegister == ASSUME Sole PROVE Spec => ListsAreARegister
  <1>1. Init => Register!Init
    BY DEF Init, Register!Init
  <1>2. ASSUME TypeInv, SoleInv, [Next]_vars PROVE [Register!Next]_list
    <2> USE DEF Register!Next, Register!Clear, Register!Replace
    <2>1. list \in [Feed -> Seq(Publication)]
      BY <1>2 DEF TypeInv, RedisType
    <2>2. ASSUME NEW f \in Feed, LoseList(f) PROVE Register!Clear(f)
      BY <2>2 DEF LoseList
    <2>3. ASSUME NEW p \in Publisher, Push(p) PROVE [Register!Next]_list
      <3>1. cycle[p].feed \in Feed
        BY <1>2, <2>3 DEF SoleInv, ScratchInv, Push
      <3>2. QED
        BY <2>3, <3>1 DEF Push
    <2>4. ASSUME NEW p \in Publisher, Swap(p) PROVE Register!Next
      <3> DEFINE f == cycle[p].feed
                 u == NextPublication(p, f)
      <3>1. /\ f \in Feed
            /\ building[f] = <<u>>
            /\ u.at = clock
            /\ list' = [list EXCEPT ![f] = building[f]]
        BY <1>2, <2>4 DEF SoleInv, ScratchInv, Working, Swap, NextPublication, PublishedAt
      <3>2. list'[f] = <<u>> /\ list' = [list EXCEPT ![f] = list'[f]]
        BY <2>1, <3>1
      <3>3. list[f] # <<>> => list[f][1].at <= clock
        BY <1>2, <3>1 DEF SoleInv, Single
      <3>4. list[f] # <<>> => list[f][1].at <= list'[f][1].at
        BY <3>1, <3>2, <3>3
      <3>5. Len(list'[f]) = 1
        BY <3>2
      <3>6. Register!Replace(f)
        BY <3>2, <3>4, <3>5
      <3>7. QED
        BY <3>1, <3>6
    <2>5. ASSUME UNCHANGED list PROVE [Register!Next]_list
      BY <2>5
    <2>6. CASE UNCHANGED vars
      BY <2>5, <2>6 DEF vars, redisVars, listVars
    <2>7. CASE Others
      BY <2>2, <2>5, <2>7 DEF Others, Write, Compact, Grow, Delete, LoseScratch, LoseCatalog,
                              redisVars, listVars
    <2>8. ASSUME NEW p \in Publisher, Publish(p) \/ Fail(p) \/ Restart(p)
          PROVE  [Register!Next]_list
      BY <2>3, <2>4, <2>5, <2>8
         DEF Publish, Fail, Restart, ClearCatalog, Advertise, Begin, CheckScoresCache,
             ScanScores, Probe, SwapFails, Stamp, Summarise, ReadVersion, ReadAppraisals,
             CheckPresence, ClearScratch, redisVars, listVars
    <2>9. ASSUME NEW r \in Reader, Read(r) PROVE [Register!Next]_list
      BY <2>5, <2>9 DEF Read, ReadCatalog, ReadList, ReadRefreshedAt, Retry, ReadStatistics,
                       publishSide, redisVars, listVars
    <2>10. QED
      BY <1>2, <2>6, <2>7, <2>8, <2>9 DEF Next
  <1>3. QED
    BY <1>1, <1>2, TypeInvariant, SoleInvariant, PTL DEF Spec, ListsAreARegister, Register!Spec

-----------------------------------------------------------------------------
(* What a publisher has read, and when it is current.  A version moves with  *)
(* every write, so what was read at a version that still stands is what is   *)
(* there.  A publisher reads a table's version before the table, for its     *)
(* gate and for its scores cache alike, and an older version than the rows'  *)
(* costs a cycle but hides nothing.  This much holds for any number of       *)
(* publishers, since all of it is in their own memory.                       *)

Delivering == {"probing", "clearing", "pushing", "swapping", "stamping", "summing"}

KeyInv(p) ==
    /\ \A t \in Table : cycle[p].key[t] <= version[t]
    /\ cycle[p].tag # None => cycle[p].tag <= version["scores"]

\* The key of the last publish is no newer than the key of the running cycle.
GateInv(p) ==
    gate[p] # None => \A t \in Table :
        /\ gate[p][t] <= version[t]
        /\ Working(p) /\ (stage[p] = "gating" => t \notin cycle[p].tables) =>
              gate[p][t] <= cycle[p].key[t]

CacheInv(p) ==
    scoresCache[p] # None =>
        /\ scoresCache[p].version <= version["scores"]
        /\ scoresCache[p].version = version["scores"] =>
              scoresCache[p].rows = content["scores"]

HasRows(p, t) ==
    \/ stage[p] \in Delivering
    \/ stage[p] = "reading" /\ t \notin cycle[p].tables

RowsInv(p) ==
    /\ Working(p) => \A i \in Item : cycle[p].aged[i] <= age[i]
    /\ \A t \in Table :
          HasRows(p, t) /\ cycle[p].key[t] = version[t] => cycle[p].rows[t] = content[t]

ReadInv(p) == KeyInv(p) /\ GateInv(p) /\ CacheInv(p) /\ RowsInv(p)

LEMMA ReadFrame ==
  ASSUME NEW p \in Publisher, ReadInv(p), UNCHANGED <<content, version, age>>,
         stage'[p] = stage[p], cycle'[p] = cycle[p], gate'[p] = gate[p],
         scoresCache'[p] = scoresCache[p]
  PROVE  ReadInv(p)'
  BY DEF ReadInv, KeyInv, GateInv, CacheInv, RowsInv, Working, HasRows

\* A write moves its table's version past every version that was read.
LEMMA ReadOthers ==
  ASSUME TypeInv, Others, NEW p \in Publisher, ReadInv(p)
  PROVE  ReadInv(p)'
  <1>1. /\ cycle[p] \in Cycle
        /\ gate[p] \in [Table -> Nat] \cup {None}
        /\ scoresCache[p] \in [version : Nat, rows : Rows] \cup {None}
        /\ version \in [Table -> Nat] /\ content \in [Table -> Rows]
        /\ age \in [Item -> Nat]
        /\ "scores" \in Table
    BY DEF TypeInv, WorldType, ProcType, Table
  <1>2. ASSUME NEW t \in Table, version' = [version EXCEPT ![t] = @ + 1],
               \A u \in Table \ {t} : content'[u] = content[u],
               UNCHANGED <<age, stage, cycle, gate, scoresCache>>
        PROVE  ReadInv(p)'
    <2>1. /\ version'[t] = version[t] + 1
          /\ \A u \in Table \ {t} : version'[u] = version[u]
          /\ \A u \in Table : version[u] \in Nat /\ version[u] <= version'[u]
      BY <1>1, <1>2
    <2>2. KeyInv(p)'
      <3>1. \A u \in Table : cycle[p].key[u] \in Nat
        BY <1>1 DEF Cycle
      <3>2. cycle[p].tag # None => cycle[p].tag \in Nat
        BY <1>1 DEF Cycle
      <3>3. QED
        BY <1>1, <1>2, <2>1, <3>1, <3>2 DEF ReadInv, KeyInv
    <2>3. GateInv(p)'
      <3>1. gate[p] # None => \A u \in Table : gate[p][u] \in Nat
        BY <1>1
      <3>2. QED
        BY <1>1, <1>2, <2>1, <3>1 DEF ReadInv, GateInv, Working
    <2>4. CacheInv(p)'
      <3>1. scoresCache[p] # None => scoresCache[p].version \in Nat
        BY <1>1
      <3>2. QED
        BY <1>1, <1>2, <2>1, <3>1 DEF ReadInv, CacheInv
    <2>5. RowsInv(p)'
      <3>1. \A u \in Table : cycle[p].key[u] \in Nat /\ cycle[p].key[u] <= version[u]
        BY <1>1 DEF Cycle, ReadInv, KeyInv
      <3>2. \A u \in Table : HasRows(p, u)' <=> HasRows(p, u)
        BY <1>2 DEF HasRows
      <3>3. QED
        BY <1>1, <1>2, <2>1, <3>1, <3>2 DEF ReadInv, RowsInv, Working
    <2>6. QED
      BY <2>2, <2>3, <2>4, <2>5 DEF ReadInv
  <1>3. ASSUME NEW t \in Table, NEW i \in Item, NEW v \in Verdict, Write(t, i, v)
        PROVE  ReadInv(p)'
    BY <1>1, <1>2, <1>3 DEF Write, worldVars, procVars
  <1>4. ASSUME NEW t \in Table, Compact(t) PROVE ReadInv(p)'
    BY <1>1, <1>2, <1>4 DEF Compact, worldVars, procVars
  <1>5. ASSUME NEW i \in Item, Grow(i) PROVE ReadInv(p)'
    <2>1. \A j \in Item : age[j] \in Nat /\ age'[j] \in Nat /\ age[j] <= age'[j]
      BY <1>1, <1>5 DEF Grow
    <2>2. UNCHANGED <<content, version, stage, cycle, gate, scoresCache>>
      BY <1>5 DEF Grow, storeVars, procVars
    <2>3. \A j \in Item : cycle[p].aged[j] \in Nat
      BY <1>1 DEF Cycle
    <2>4. RowsInv(p)'
      <3>1. Working(p) => \A j \in Item : cycle[p].aged[j] <= age'[j]
        BY <2>1, <2>3 DEF ReadInv, RowsInv
      <3>2. QED
        BY <2>2, <3>1 DEF ReadInv, RowsInv, Working, HasRows
    <2>5. QED
      BY <2>2, <2>4 DEF ReadInv, KeyInv, GateInv, CacheInv, Working
  <1>6. QED
    BY <1>3, <1>4, <1>5, ReadFrame
       DEF Others, Delete, LoseList, LoseScratch, LoseCatalog, storeVars, worldVars, procVars

LEMMA ReadPublisherStep ==
  ASSUME TypeInv, NEW p \in Publisher, Publish(p) \/ Fail(p) \/ Restart(p), ReadInv(p)
  PROVE  ReadInv(p)'
  <1>1. /\ cycle[p] \in Cycle
        /\ stage \in [Publisher -> Stage] /\ cycle \in [Publisher -> Cycle]
        /\ gate \in [Publisher -> [Table -> Nat] \cup {None}]
        /\ gate[p] \in [Table -> Nat] \cup {None}
        /\ scoresCache \in [Publisher -> [version : Nat, rows : Rows] \cup {None}]
        /\ version \in [Table -> Nat] /\ content \in [Table -> Rows]
        /\ age \in [Item -> Nat]
        /\ "scores" \in Table
    BY DEF TypeInv, WorldType, ProcType, Table
  <1>2. UNCHANGED <<content, version, age>>
    BY DEF Publish, Fail, Restart, ClearCatalog, Advertise, Begin, CheckScoresCache, ScanScores,
           Probe, Push, Swap, SwapFails, Stamp, Summarise, ReadVersion, ReadAppraisals,
           CheckPresence, ClearScratch, storeVars, worldVars
  \* A cycle that ends, and the process's own start.
  <1>3. ASSUME ~Working(p)', cycle'[p] \in {cycle[p], NoCycle}, gate'[p] \in {gate[p], None},
               scoresCache'[p] \in {scoresCache[p], None}
        PROVE  ReadInv(p)'
    <2>1. cycle'[p].key \in {cycle[p].key, [t \in Table |-> 0]}
          /\ cycle'[p].tag \in {cycle[p].tag, None}
      BY <1>3 DEF NoCycle
    <2>2. ~HasRows(p, "scores")' /\ \A t \in Table : ~HasRows(p, t)'
      BY <1>3 DEF HasRows, Working, Delivering
    <2>3. QED
      BY <1>1, <1>2, <1>3, <2>1, <2>2 DEF ReadInv, KeyInv, GateInv, CacheInv, RowsInv
  \* A step that keeps what was read.
  <1>4. ASSUME Working(p), stage[p] # "gating", cycle'[p].key = cycle[p].key,
               cycle'[p].tag = cycle[p].tag, cycle'[p].aged = cycle[p].aged,
               cycle'[p].rows = cycle[p].rows, gate'[p] = gate[p],
               scoresCache'[p] = scoresCache[p], stage'[p] # "gating",
               \A t \in Table : HasRows(p, t)' => HasRows(p, t)
        PROVE  ReadInv(p)'
    BY <1>1, <1>2, <1>4 DEF ReadInv, KeyInv, GateInv, CacheInv, RowsInv
  <1>5. ASSUME ClearCatalog(p) \/ Advertise(p) PROVE ReadInv(p)'
    BY <1>1, <1>3, <1>5 DEF ClearCatalog, Advertise, GoTo, Working
  <1>6. ASSUME SwapFails(p) \/ Fail(p) \/ Restart(p) PROVE ReadInv(p)'
    BY <1>1, <1>3, <1>6 DEF SwapFails, Fail, Restart, GoTo, Note, Working
  <1>7. ASSUME Begin(p) PROVE ReadInv(p)'
    <2>1. /\ cycle'[p] = [NoCycle EXCEPT !.now = clock', !.aged = age, !.tables = Table]
          /\ stage'[p] = "gating" /\ UNCHANGED <<gate, scoresCache>>
      BY <1>1, <1>7 DEF Begin, GoTo, Note
    <2>2. /\ cycle'[p].key = [t \in Table |-> 0] /\ cycle'[p].tag = None
          /\ cycle'[p].aged = age /\ cycle'[p].tables = Table
      BY <2>1 DEF NoCycle
    <2>3. \A t \in Table : ~HasRows(p, t)'
      BY <2>1 DEF HasRows, Delivering
    <2>4. QED
      BY <1>1, <1>2, <2>1, <2>2, <2>3 DEF ReadInv, KeyInv, GateInv, CacheInv, RowsInv
  <1>8. ASSUME NEW t \in Table, ReadVersion(p, t) PROVE ReadInv(p)'
    <2> DEFINE read == [cycle[p] EXCEPT !.key[t] = version[t], !.tables = @ \ {t}]
    <2>1. PICK c \in {read, [read EXCEPT !.feeds = Feed], [read EXCEPT !.tables = Table]} :
            /\ Note(p, c)
            /\ \/ UNCHANGED stage
               \/ read.tables = {} /\ (GoTo(p, "presence") \/ GoTo(p, "reading"))
            /\ stage' = stage => c = read
            /\ GoTo(p, "reading") => c = [read EXCEPT !.tables = Table]
      BY <1>1, <1>8 DEF ReadVersion, GoTo
    <2>2. /\ c.key = [cycle[p].key EXCEPT ![t] = version[t]]
          /\ c.tag = cycle[p].tag /\ c.aged = cycle[p].aged /\ c.rows = cycle[p].rows
          /\ c = read => c.tables = cycle[p].tables \ {t}
          /\ read.tables = cycle[p].tables \ {t}
          /\ c = [read EXCEPT !.tables = Table] => c.tables = Table
      BY <1>1 DEF Cycle
    <2>3. /\ cycle'[p] = c /\ stage[p] = "gating"
          /\ UNCHANGED <<gate, scoresCache>>
          /\ \/ stage'[p] = "gating" /\ c.tables = cycle[p].tables \ {t}
             \/ stage'[p] = "presence" /\ cycle[p].tables \subseteq {t}
             \/ stage'[p] = "reading" /\ c.tables = Table /\ cycle[p].tables \subseteq {t}
      BY <1>1, <1>8, <2>1, <2>2 DEF ReadVersion, GoTo, Note
    <2>4. /\ c.key[t] = version[t]
          /\ \A u \in Table \ {t} : c.key[u] = cycle[p].key[u]
      BY <1>1, <2>2 DEF Cycle
    <2>5. KeyInv(p)'
      <3> HIDE DEF read
      <3>1. \A u \in Table : version[u] \in Nat /\ c.key[u] <= version[u]
        BY <1>1, <2>4 DEF ReadInv, KeyInv
      <3>2. QED
        BY <1>2, <2>2, <2>3, <3>1 DEF ReadInv, KeyInv
    <2>6. GateInv(p)'
      BY <1>1, <1>2, <2>3, <2>4 DEF ReadInv, GateInv, Working
    <2>7. \A u \in Table : ~HasRows(p, u)'
      BY <2>3 DEF HasRows, Delivering
    <2>8. RowsInv(p)'
      BY <1>1, <1>2, <2>2, <2>3, <2>7 DEF ReadInv, RowsInv, Working
    <2>9. QED
      BY <1>2, <2>3, <2>5, <2>6, <2>8 DEF ReadInv, CacheInv
  <1>9. ASSUME NEW f \in Feed, CheckPresence(p, f) PROVE ReadInv(p)'
    <2>1. stage[p] = "presence" /\ UNCHANGED <<gate, scoresCache>>
      BY <1>9 DEF CheckPresence
    <2>2. CASE Note(p, NoCycle) /\ GoTo(p, "idle")
      BY <1>1, <1>3, <2>1, <2>2 DEF Note, GoTo, Working
    <2>3. CASE Note(p, [cycle[p] EXCEPT !.feeds = {}, !.tables = Table]) /\ GoTo(p, "reading")
      <3>1. /\ cycle'[p] = [cycle[p] EXCEPT !.feeds = {}, !.tables = Table]
            /\ stage'[p] = "reading"
        BY <1>1, <2>3 DEF Note, GoTo
      <3>2. /\ cycle'[p].key = cycle[p].key /\ cycle'[p].tag = cycle[p].tag
            /\ cycle'[p].aged = cycle[p].aged /\ cycle'[p].rows = cycle[p].rows
            /\ cycle'[p].tables = Table
        BY <1>1, <3>1 DEF Cycle
      <3>3. QED
        BY <1>4, <2>1, <3>1, <3>2 DEF Working, HasRows, Delivering
    <2>4. CASE Note(p, [cycle[p] EXCEPT !.feeds = @ \ {f}]) /\ UNCHANGED stage
      <3>1. cycle'[p] = [cycle[p] EXCEPT !.feeds = @ \ {f}] /\ stage'[p] = "presence"
        BY <1>1, <2>1, <2>4 DEF Note
      <3>2. /\ cycle'[p].key = cycle[p].key /\ cycle'[p].tag = cycle[p].tag
            /\ cycle'[p].aged = cycle[p].aged /\ cycle'[p].rows = cycle[p].rows
        BY <1>1, <3>1 DEF Cycle
      <3>3. QED
        BY <1>4, <2>1, <3>1, <3>2 DEF Working, HasRows, Delivering
    <2>5. QED
      BY <1>9, <2>2, <2>3, <2>4 DEF CheckPresence
  \* A table as it is now, or as it is at the key's version.
  <1>10. ASSUME NEW t \in Table, NEW rs, Fetched(p, t, rs), stage[p] = "reading",
                cycle[p].key[t] = version[t] => rs = content[t]
         PROVE  /\ stage'[p] \in {"reading", "probing"}
                /\ KeyInv(p)' /\ RowsInv(p)'
                /\ cycle'[p].key = cycle[p].key
    <2>1. /\ cycle'[p] = [cycle[p] EXCEPT !.rows[t] = rs, !.tables = @ \ {t},
                                          !.tag = IF t = "scores" THEN None ELSE @]
          /\ IF cycle[p].tables = {t} THEN stage'[p] = "probing" ELSE stage'[p] = "reading"
      BY <1>1, <1>10 DEF Fetched, Note, GoTo
    <2>2. /\ cycle'[p].key = cycle[p].key /\ cycle'[p].aged = cycle[p].aged
          /\ cycle'[p].tag \in {cycle[p].tag, None}
          /\ cycle'[p].tables = cycle[p].tables \ {t}
          /\ cycle'[p].rows = [cycle[p].rows EXCEPT ![t] = rs]
      BY <1>1, <2>1 DEF Cycle
    <2>3. /\ cycle'[p].rows[t] = rs
          /\ \A u \in Table \ {t} : cycle'[p].rows[u] = cycle[p].rows[u]
      BY <1>1, <2>2 DEF Cycle
    <2>4. \A u \in Table \ {t} : HasRows(p, u)' => HasRows(p, u)
      BY <1>10, <2>1, <2>2 DEF HasRows, Delivering
    <2>5. RowsInv(p)'
      BY <1>1, <1>2, <1>10, <2>2, <2>3, <2>4 DEF ReadInv, RowsInv, Working
    <2>6. KeyInv(p)'
      BY <1>1, <1>2, <2>2 DEF ReadInv, KeyInv
    <2>7. QED
      BY <2>1, <2>2, <2>5, <2>6
  <1>11. ASSUME stage[p] = "reading", stage'[p] \in {"reading", "probing"}, gate'[p] = gate[p],
                cycle'[p].key = cycle[p].key
         PROVE  GateInv(p)'
    BY <1>1, <1>2, <1>11 DEF ReadInv, GateInv, Working
  <1>12. ASSUME NEW t \in Table, ReadAppraisals(p, t) PROVE ReadInv(p)'
    <2>1. /\ Fetched(p, t, content[t]) /\ stage[p] = "reading"
          /\ UNCHANGED <<gate, scoresCache>>
      BY <1>12 DEF ReadAppraisals
    <2>2. QED
      BY <1>2, <1>10, <1>11, <2>1 DEF ReadInv, CacheInv
  <1>13. ASSUME CheckScoresCache(p) PROVE ReadInv(p)'
    <2>1. stage[p] = "reading" /\ UNCHANGED <<gate, scoresCache>>
      BY <1>13 DEF CheckScoresCache
    <2>2. CASE /\ Fetched(p, "scores", scoresCache[p].rows)
               /\ scoresCache[p] # None /\ scoresCache[p].version = version["scores"]
      <3>1. scoresCache[p].rows = content["scores"]
        BY <2>2 DEF ReadInv, CacheInv
      <3>2. QED
        BY <1>1, <1>2, <1>10, <1>11, <2>1, <2>2, <3>1 DEF ReadInv, CacheInv
    <2>3. CASE Note(p, [cycle[p] EXCEPT !.tag = version["scores"]]) /\ UNCHANGED stage
      <3>1. cycle'[p] = [cycle[p] EXCEPT !.tag = version["scores"]] /\ stage'[p] = stage[p]
        BY <1>1, <2>3 DEF Note
      <3>2. /\ cycle'[p].key = cycle[p].key /\ cycle'[p].tag = version["scores"]
            /\ cycle'[p].aged = cycle[p].aged /\ cycle'[p].rows = cycle[p].rows
            /\ cycle'[p].tables = cycle[p].tables
        BY <1>1, <3>1 DEF Cycle
      <3>3. KeyInv(p)'
        BY <1>1, <1>2, <3>2 DEF ReadInv, KeyInv
      <3>4. GateInv(p)' /\ RowsInv(p)'
        BY <1>1, <1>2, <2>1, <3>1, <3>2 DEF ReadInv, GateInv, RowsInv, HasRows, Working
      <3>5. QED
        BY <1>2, <2>1, <3>3, <3>4 DEF ReadInv, CacheInv
    <2>4. QED
      BY <1>13, <2>2, <2>3 DEF CheckScoresCache
  <1>14. ASSUME ScanScores(p) PROVE ReadInv(p)'
    <2>1. /\ Fetched(p, "scores", content["scores"]) /\ stage[p] = "reading"
          /\ UNCHANGED gate /\ cycle[p].tag # None
          /\ scoresCache' = [scoresCache EXCEPT ![p] =
                               [version |-> cycle[p].tag, rows |-> content["scores"]]]
      BY <1>14 DEF ScanScores, Tag
    <2>2. KeyInv(p)' /\ RowsInv(p)' /\ GateInv(p)'
      BY <1>1, <1>2, <1>10, <1>11, <2>1
    <2>3. /\ scoresCache'[p].version = cycle[p].tag
          /\ scoresCache'[p].rows = content["scores"]
      BY <1>1, <2>1
    <2>4. CacheInv(p)'
      BY <1>2, <2>1, <2>3 DEF ReadInv, KeyInv, CacheInv
    <2>5. QED
      BY <2>2, <2>4 DEF ReadInv
  <1>15. ASSUME Probe(p) PROVE ReadInv(p)'
    <2>1. PICK missed \in SUBSET gone :
            Note(p, [cycle[p] EXCEPT !.alive = (Item \ gone) \cup missed, !.feeds = Feed])
      BY <1>15 DEF Probe
    <2>2. cycle'[p] = [cycle[p] EXCEPT !.alive = (Item \ gone) \cup missed, !.feeds = Feed]
      BY <1>1, <2>1 DEF Note
    <2>3. /\ cycle'[p].key = cycle[p].key /\ cycle'[p].tag = cycle[p].tag
          /\ cycle'[p].aged = cycle[p].aged /\ cycle'[p].rows = cycle[p].rows
      BY <1>1, <2>2 DEF Cycle
    <2>4. /\ stage[p] = "probing" /\ stage'[p] = "clearing"
          /\ UNCHANGED <<gate, scoresCache>>
      BY <1>1, <1>15 DEF Probe, GoTo
    <2>5. QED
      BY <1>4, <2>3, <2>4 DEF Working, HasRows, Delivering
  <1>16. ASSUME NEW f \in Feed, ClearScratch(p, f) PROVE ReadInv(p)'
    <2>1. /\ cycle'[p] = [cycle[p] EXCEPT !.feed = f]
          /\ stage[p] = "clearing" /\ stage'[p] = "pushing"
          /\ UNCHANGED <<gate, scoresCache>>
      BY <1>1, <1>16 DEF ClearScratch, Note, GoTo
    <2>2. /\ cycle'[p].key = cycle[p].key /\ cycle'[p].tag = cycle[p].tag
          /\ cycle'[p].aged = cycle[p].aged /\ cycle'[p].rows = cycle[p].rows
      BY <1>1, <2>1 DEF Cycle
    <2>3. QED
      BY <1>4, <2>1, <2>2 DEF Working, HasRows, Delivering
  <1>17. ASSUME Push(p) \/ Swap(p) \/ Stamp(p) PROVE ReadInv(p)'
    <2>1. /\ stage[p] \in {"pushing", "swapping", "stamping"}
          /\ stage'[p] \in {"swapping", "stamping", "summing"}
          /\ UNCHANGED <<cycle, gate, scoresCache>>
      BY <1>1, <1>17 DEF Push, Swap, Stamp, GoTo
    <2>2. QED
      BY <1>4, <2>1 DEF Working, HasRows, Delivering
  <1>18. ASSUME Summarise(p) PROVE ReadInv(p)'
    <2>1. stage[p] = "summing" /\ UNCHANGED scoresCache
      BY <1>18 DEF Summarise
    <2>2. CASE /\ gate' = [gate EXCEPT ![p] = Key(p)]
               /\ Note(p, NoCycle) /\ GoTo(p, "idle")
      <3>1. gate'[p] = cycle[p].key /\ cycle'[p] = NoCycle /\ stage'[p] = "idle"
        BY <1>1, <2>2 DEF Key, Note, GoTo
      <3>2. cycle'[p].key = [t \in Table |-> 0] /\ cycle'[p].tag = None
        BY <3>1 DEF NoCycle
      <3>3. \A t \in Table : ~HasRows(p, t)'
        BY <3>1 DEF HasRows, Delivering
      <3>4. GateInv(p)'
        BY <1>1, <1>2, <3>1 DEF ReadInv, KeyInv, GateInv, Working
      <3>5. QED
        BY <1>1, <1>2, <2>1, <3>1, <3>2, <3>3, <3>4
           DEF ReadInv, KeyInv, CacheInv, RowsInv, Working
    <2>3. CASE /\ Note(p, [cycle[p] EXCEPT !.feeds = @ \ {cycle[p].feed}, !.feed = None])
               /\ GoTo(p, "clearing") /\ UNCHANGED gate
      <3>1. /\ cycle'[p] = [cycle[p] EXCEPT !.feeds = @ \ {cycle[p].feed}, !.feed = None]
            /\ stage'[p] = "clearing"
        BY <1>1, <2>3 DEF Note, GoTo
      <3>2. /\ cycle'[p].key = cycle[p].key /\ cycle'[p].tag = cycle[p].tag
            /\ cycle'[p].aged = cycle[p].aged /\ cycle'[p].rows = cycle[p].rows
        BY <1>1, <3>1 DEF Cycle
      <3>3. QED
        BY <1>4, <2>1, <2>3, <3>1, <3>2 DEF Working, HasRows, Delivering
    <2>4. QED
      BY <1>18, <2>2, <2>3 DEF Summarise
  <1>19. QED
    BY <1>5, <1>6, <1>7, <1>8, <1>9, <1>12, <1>13, <1>14, <1>15, <1>16, <1>17, <1>18
       DEF Publish

ReadsAgree == \A p \in Publisher : ReadInv(p)

\* A publisher's step leaves the locals of the others alone.
LEMMA OwnStep ==
  ASSUME TypeInv, NEW p \in Publisher, NEW q \in Publisher, p # q,
         Publish(p) \/ Fail(p) \/ Restart(p)
  PROVE  /\ stage'[q] = stage[q] /\ cycle'[q] = cycle[q]
         /\ gate'[q] = gate[q] /\ scoresCache'[q] = scoresCache[q]
         /\ UNCHANGED <<content, version, age>>
  <1>1. UNCHANGED <<content, version, age>>
    BY DEF Publish, Fail, Restart, ClearCatalog, Advertise, Begin, CheckScoresCache, ScanScores,
           Probe, Push, Swap, SwapFails, Stamp, Summarise, ReadVersion, ReadAppraisals,
           CheckPresence, ClearScratch, storeVars, worldVars
  <1>2. /\ stage \in [Publisher -> Stage] /\ cycle \in [Publisher -> Cycle]
        /\ gate \in [Publisher -> [Table -> Nat] \cup {None}]
        /\ scoresCache \in [Publisher -> [version : Nat, rows : Rows] \cup {None}]
    BY DEF TypeInv, ProcType
  <1>3. gate'[q] = gate[q] /\ scoresCache'[q] = scoresCache[q]
    BY <1>2 DEF Publish, Fail, Restart, ClearCatalog, Advertise, Begin, CheckScoresCache,
           ScanScores, Probe, Push, Swap, SwapFails, Stamp, Summarise, ReadVersion,
           ReadAppraisals, CheckPresence, ClearScratch
  <1>4. stage'[q] = stage[q]
    BY <1>2 DEF Publish, Fail, Restart, ClearCatalog, Advertise, Begin, CheckScoresCache,
           ScanScores, Probe, Push, Swap, SwapFails, Stamp, Summarise, ReadVersion,
           ReadAppraisals, CheckPresence, ClearScratch, GoTo, Fetched
  <1>5. cycle'[q] = cycle[q]
    BY <1>2 DEF Publish, Fail, Restart, ClearCatalog, Advertise, Begin, CheckScoresCache,
           ScanScores, Probe, Push, Swap, SwapFails, Stamp, Summarise, ReadVersion,
           ReadAppraisals, CheckPresence, ClearScratch, Note, Fetched
  <1>6. QED
    BY <1>1, <1>3, <1>4, <1>5

LEMMA ReadStep ==
  ASSUME TypeInv, ReadsAgree, [Next]_vars PROVE ReadsAgree'
  <1> SUFFICES ASSUME NEW q \in Publisher PROVE ReadInv(q)'
    BY DEF ReadsAgree
  <1>1. ReadInv(q)
    BY DEF ReadsAgree
  <1>2. CASE UNCHANGED vars
    BY <1>1, <1>2, ReadFrame DEF vars, storeVars, worldVars, procVars
  <1>3. CASE Others
    BY <1>1, <1>3, ReadOthers
  <1>4. ASSUME NEW p \in Publisher, Publish(p) \/ Fail(p) \/ Restart(p) PROVE ReadInv(q)'
    BY <1>1, <1>4, ReadFrame, ReadPublisherStep, OwnStep
  <1>5. ASSUME NEW r \in Reader, Read(r) PROVE ReadInv(q)'
    BY <1>1, <1>5, ReadFrame DEF Read, ReadCatalog, ReadList, ReadRefreshedAt, Retry,
       ReadStatistics, publishSide, storeVars, worldVars, procVars
  <1>6. QED
    BY <1>2, <1>3, <1>4, <1>5 DEF Next

LEMMA ReadsInvariant == Spec => []ReadsAgree
  <1>1. Init => ReadsAgree
    BY DEF Init, ReadsAgree, ReadInv, KeyInv, GateInv, CacheInv, RowsInv, Working, HasRows,
           Delivering, NoCycle
  <1>2. TypeInv /\ ReadsAgree /\ [Next]_vars => ReadsAgree'
    BY ReadStep
  <1>3. QED
    BY <1>1, <1>2, TypeInvariant, PTL DEF Spec

-----------------------------------------------------------------------------
(* One publisher again.  Every list it has put in place since its key was    *)
(* read shows the tables, as long as that key is current.                    *)

\* A list that shows anything shows the tables.
Fresh(f) == list[f] # <<>> => Reflects(f)

\* The feeds this cycle has put in place.
Done(p, f) ==
    \/ f \notin cycle[p].feeds
    \/ f = cycle[p].feed /\ stage[p] \in {"stamping", "summing"}

ListInv(p) ==
    /\ gate[p] = version => \A f \in Feed : Fresh(f)
    /\ stage[p] \in Delivering \ {"probing"} /\ cycle[p].key = version =>
          \A f \in Feed : Done(p, f) => Fresh(f)

ListsAgree == \A p \in Publisher : ListInv(p)

LEMMA ListFrame ==
  ASSUME NEW p \in Publisher, ListInv(p), UNCHANGED <<content, version, age, list>>,
         stage'[p] = stage[p], cycle'[p] = cycle[p], gate'[p] = gate[p]
  PROVE  ListInv(p)'
  BY DEF ListInv, Fresh, Reflects, Done

LEMMA ListOthers ==
  ASSUME TypeInv, ReadsAgree, Others, NEW p \in Publisher, ListInv(p)
  PROVE  ListInv(p)'
  <1>1. /\ cycle[p] \in Cycle
        /\ gate[p] \in [Table -> Nat] \cup {None}
        /\ version \in [Table -> Nat]
        /\ age \in [Item -> Nat]
        /\ list \in [Feed -> Seq(Publication)]
        /\ Feed \subseteq Nat
        /\ ReadInv(p)
    BY PublisherAssumption DEF TypeInv, WorldType, ProcType, RedisType, ReadsAgree
  <1>2. ASSUME NEW t \in Table, version' = [version EXCEPT ![t] = @ + 1],
               UNCHANGED <<cycle, gate>>
        PROVE  ListInv(p)'
    <2>1. version'[t] = version[t] + 1 /\ version[t] \in Nat
      BY <1>1, <1>2
    <2>2. cycle[p].key[t] \in Nat /\ cycle[p].key[t] <= version[t]
      BY <1>1 DEF Cycle, ReadInv, KeyInv
    <2>3. cycle'[p].key # version'
      <3>1. cycle'[p].key[t] # version'[t]
        BY <1>2, <2>1, <2>2
      <3>2. QED
        BY <3>1
    <2>4. gate'[p] # version'
      <3>1. CASE gate[p] = None
        <4>1. version' \in [Table -> Nat]
          BY <1>1, <1>2
        <4>2. QED
          BY <1>2, <3>1, <4>1, PublisherAssumption
      <3>2. CASE gate[p] # None
        <4>1. gate[p][t] \in Nat /\ gate[p][t] <= version[t]
          BY <1>1, <3>2 DEF ReadInv, GateInv
        <4>2. gate'[p][t] # version'[t]
          BY <1>2, <2>1, <4>1
        <4>3. QED
          BY <4>2
      <3>3. QED
        BY <3>1, <3>2
    <2>5. QED
      BY <2>3, <2>4 DEF ListInv
  <1>3. ASSUME NEW i \in Item, Grow(i) PROVE ListInv(p)'
    <2>1. /\ UNCHANGED <<content, version, stage, cycle, gate, list>>
          /\ \A f \in Feed : Within(age, f)' \subseteq Within(age, f)
      BY <1>1, <1>3 DEF Grow, storeVars, procVars, redisVars, listVars, Within
    <2>2. \A f \in Feed : Fresh(f) => Fresh(f)'
      BY <2>1 DEF Fresh, Reflects
    <2>3. QED
      BY <2>1, <2>2 DEF ListInv, Done
  <1>4. ASSUME NEW g \in Feed, LoseList(g) PROVE ListInv(p)'
    <2>1. /\ UNCHANGED <<content, version, age, stage, cycle, gate>>
          /\ \A f \in Feed : list'[f] \in {list[f], <<>>}
      BY <1>1, <1>4 DEF LoseList, storeVars, worldVars, procVars
    <2>2. \A f \in Feed : Fresh(f) => Fresh(f)'
      BY <2>1 DEF Fresh, Reflects
    <2>3. QED
      BY <2>1, <2>2 DEF ListInv, Done
  <1>5. QED
    BY <1>2, <1>3, <1>4, ListFrame
       DEF Others, Write, Compact, Delete, LoseScratch, LoseCatalog, storeVars, worldVars,
           procVars, redisVars, listVars

\* What a cycle puts in place on a current key is what the tables say.
LEMMA NextIsCurrent ==
  ASSUME TypeInv, NEW p \in Publisher, ReadInv(p), stage[p] \in Delivering,
         cycle[p].key = version, NEW f \in Feed
  PROVE  NextPublication(p, f).items \cap Within(age, f) = Visible(content) \cap Within(age, f)
  <1>1. cycle[p] \in Cycle /\ content \in [Table -> Rows] /\ age \in [Item -> Nat]
    BY DEF TypeInv, WorldType, ProcType
  <1>2. cycle[p].rows = content
    <2>1. \A t \in Table : cycle[p].rows[t] = content[t]
      BY DEF ReadInv, RowsInv, HasRows
    <2>2. cycle[p].rows \in [Table -> Rows]
      BY <1>1 DEF Cycle
    <2>3. QED
      BY <1>1, <2>1, <2>2
  <1>3. Within(age, f) \subseteq Within(cycle[p].aged, f)
    <2>1. Working(p)
      BY DEF Delivering, Working
    <2>2. \A i \in Item : /\ cycle[p].aged[i] \in Nat /\ age[i] \in Nat
                          /\ cycle[p].aged[i] <= age[i]
      BY <1>1, <2>1 DEF Cycle, ReadInv, RowsInv
    <2>3. f \in Nat
      BY PublisherAssumption
    <2>4. QED
      BY <2>2, <2>3 DEF Within
  <1>4. QED
    BY <1>2, <1>3 DEF NextPublication

LEMMA ListPublisherStep ==
  ASSUME Sole, TypeInv, SoleInv, ReadsAgree, NEW p \in Publisher,
         Publish(p) \/ Fail(p) \/ Restart(p), ListInv(p)
  PROVE  ListInv(p)'
  <1> DEFINE f == cycle[p].feed
             u == NextPublication(p, f)
  <1>1. /\ cycle[p] \in Cycle
        /\ stage \in [Publisher -> Stage] /\ cycle \in [Publisher -> Cycle]
        /\ gate \in [Publisher -> [Table -> Nat] \cup {None}]
        /\ gate[p] \in [Table -> Nat] \cup {None}
        /\ version \in [Table -> Nat] /\ content \in [Table -> Rows]
        /\ age \in [Item -> Nat]
        /\ list \in [Feed -> Seq(Publication)]
        /\ ReadInv(p)
    BY DEF TypeInv, WorldType, ProcType, RedisType, ReadsAgree
  <1>2. UNCHANGED <<content, version, age>>
    BY DEF Publish, Fail, Restart, ClearCatalog, Advertise, Begin, CheckScoresCache, ScanScores,
           Probe, Push, Swap, SwapFails, Stamp, Summarise, ReadVersion, ReadAppraisals,
           CheckPresence, ClearScratch, storeVars, worldVars
  <1>3. None # version
    BY <1>1, PublisherAssumption
  \* Steps that leave the lists alone and have delivered nothing.
  <1>4. ASSUME UNCHANGED list, gate'[p] \in {gate[p], None},
               stage'[p] \notin Delivering \ {"probing"}
        PROVE  ListInv(p)'
    BY <1>2, <1>3, <1>4 DEF ListInv, Fresh, Reflects
  <1>5. ASSUME ClearCatalog(p) \/ Advertise(p) \/ Begin(p) \/ SwapFails(p) \/ Fail(p) \/ Restart(p)
        PROVE  ListInv(p)'
    BY <1>1, <1>4, <1>5 DEF ClearCatalog, Advertise, Begin, SwapFails, Fail, Restart, GoTo,
                            Delivering, redisVars, listVars
  <1>6. ASSUME NEW t \in Table, NEW rs, Fetched(p, t, rs), stage[p] = "reading"
        PROVE  stage'[p] \in {"reading", "probing"}
    BY <1>1, <1>6 DEF Fetched, GoTo
  <1>7. ASSUME CheckScoresCache(p) \/ ScanScores(p) \/ \E t \in Table : ReadAppraisals(p, t)
        PROVE  ListInv(p)'
    <2>1. UNCHANGED <<list, gate>> /\ stage[p] = "reading"
      BY <1>7 DEF CheckScoresCache, ScanScores, ReadAppraisals, redisVars, listVars
    <2>2. stage'[p] \in {"reading", "probing"}
      BY <1>6, <1>7, <2>1 DEF CheckScoresCache, ScanScores, ReadAppraisals, Table
    <2>3. QED
      BY <1>4, <2>1, <2>2 DEF Delivering
  <1>8. ASSUME NEW t \in Table, ReadVersion(p, t) PROVE ListInv(p)'
    <2>1. UNCHANGED <<list, gate>> /\ stage'[p] \in {"gating", "presence", "reading"}
      BY <1>1, <1>8 DEF ReadVersion, GoTo, redisVars, listVars
    <2>2. QED
      BY <1>4, <2>1 DEF Delivering
  <1>9. ASSUME NEW g \in Feed, CheckPresence(p, g) PROVE ListInv(p)'
    <2>1. UNCHANGED <<list, gate>> /\ stage'[p] \in {"idle", "presence", "reading"}
      BY <1>1, <1>9 DEF CheckPresence, GoTo, redisVars, listVars
    <2>2. QED
      BY <1>4, <2>1 DEF Delivering
  \* The cycle starts to deliver: no feed is done yet.
  <1>10. ASSUME Probe(p) PROVE ListInv(p)'
    <2>1. PICK missed \in SUBSET gone :
            Note(p, [cycle[p] EXCEPT !.alive = (Item \ gone) \cup missed, !.feeds = Feed])
      BY <1>10 DEF Probe
    <2>2. cycle'[p] = [cycle[p] EXCEPT !.alive = (Item \ gone) \cup missed, !.feeds = Feed]
      BY <1>1, <2>1 DEF Note
    <2>3. cycle'[p].feeds = Feed
      BY <1>1, <2>2 DEF Cycle
    <2>4. stage'[p] = "clearing" /\ UNCHANGED <<list, gate>>
      BY <1>1, <1>10 DEF Probe, GoTo, redisVars, listVars
    <2>5. \A g \in Feed : ~Done(p, g)'
      BY <2>3, <2>4 DEF Done
    <2>6. QED
      BY <1>2, <2>4, <2>5 DEF ListInv, Fresh, Reflects
  \* Steps of the delivery that finish no feed and touch no list.
  <1>11. ASSUME UNCHANGED <<list, gate>>, stage[p] \in Delivering \ {"probing"},
                cycle'[p].key = cycle[p].key, \A g \in Feed : Done(p, g)' => Done(p, g)
         PROVE  ListInv(p)'
    BY <1>2, <1>11 DEF ListInv, Fresh, Reflects
  <1>12. ASSUME NEW g \in Feed, ClearScratch(p, g) PROVE ListInv(p)'
    <2>1. /\ cycle'[p] = [cycle[p] EXCEPT !.feed = g]
          /\ stage[p] = "clearing" /\ stage'[p] = "pushing"
          /\ UNCHANGED <<gate, list>>
      BY <1>1, <1>12 DEF ClearScratch, Note, GoTo
    <2>2. cycle'[p].key = cycle[p].key /\ cycle'[p].feeds = cycle[p].feeds
      BY <1>1, <2>1 DEF Cycle
    <2>3. QED
      BY <1>11, <2>1, <2>2 DEF Delivering, Done
  <1>13. ASSUME Stamp(p) PROVE ListInv(p)'
    <2>1. /\ UNCHANGED <<cycle, gate, list>>
          /\ stage[p] = "stamping" /\ stage'[p] = "summing"
      BY <1>1, <1>13 DEF Stamp, GoTo, listVars
    <2>2. QED
      BY <1>11, <2>1 DEF Delivering, Done
  \* The list of f is put in place, empty or with what the cycle has read.
  <1>14. ASSUME NEW g \in Feed, g = cycle[p].feed, NEW w, w = NextPublication(p, g),
                NEW s, s = <<>> \/ s = <<w>>, list' = [list EXCEPT ![g] = s],
                UNCHANGED <<cycle, gate>>, stage[p] \in {"pushing", "swapping"},
                stage'[p] = "stamping"
         PROVE  ListInv(p)'
    <2>1. list'[g] = s /\ \A h \in Feed \ {g} : list'[h] = list[h]
      BY <1>1, <1>14
    <2>2. \A h \in Feed \ {g} : Fresh(h) => Fresh(h)'
      BY <1>2, <2>1 DEF Fresh, Reflects
    <2>3. ASSUME cycle[p].key = version PROVE Fresh(g)'
      <3>1. w.items \cap Within(age, g) = Visible(content) \cap Within(age, g)
        BY <1>1, <1>14, <2>3, NextIsCurrent DEF Delivering
      <3>2. CASE s = <<w>>
        <4>1. Shown(<<w>>) = w.items
          BY DEF Shown
        <4>2. Shown(list'[g]) = w.items
          BY <2>1, <3>2, <4>1
        <4>3. Reflects(g)'
          BY <1>2, <3>1, <4>2 DEF Reflects
        <4>4. QED
          BY <4>3 DEF Fresh
      <3>3. QED
        BY <1>14, <2>1, <3>2 DEF Fresh
    <2>4. gate[p] = version => cycle[p].key = version
      <3>1. ASSUME gate[p] = version PROVE \A t \in Table : cycle[p].key[t] = version[t]
        <4>1. \A t \in Table : cycle[p].key[t] \in Nat /\ cycle[p].key[t] <= version[t]
          BY <1>1 DEF Cycle, ReadInv, KeyInv
        <4>2. \A t \in Table : gate[p][t] <= cycle[p].key[t]
          BY <1>1, <1>3, <1>14, <3>1 DEF ReadInv, GateInv, Working
        <4>3. QED
          BY <1>1, <3>1, <4>1, <4>2
      <3>2. cycle[p].key \in [Table -> Nat]
        BY <1>1 DEF Cycle
      <3>3. QED
        BY <1>1, <3>1, <3>2
    <2>5. \A h \in Feed \ {g} : Done(p, h)' => Done(p, h)
      BY <1>14 DEF Done
    <2>6. gate'[p] = version' => \A h \in Feed : Fresh(h)'
      BY <1>2, <1>14, <2>2, <2>3, <2>4 DEF ListInv
    <2>7. cycle'[p].key = version' => \A h \in Feed : Done(p, h)' => Fresh(h)'
      BY <1>2, <1>14, <2>2, <2>3, <2>5 DEF ListInv, Delivering
    <2>8. QED
      BY <2>6, <2>7 DEF ListInv
  <1>15. f \in Feed \/ stage[p] \notin {"pushing", "swapping"}
    BY DEF SoleInv, ScratchInv
  <1>16. ASSUME Push(p) PROVE ListInv(p)'
    <2>1. UNCHANGED <<cycle, gate>> /\ stage[p] = "pushing"
      BY <1>16 DEF Push
    <2>2. CASE u.items = {}
      <3>1. list' = [list EXCEPT ![f] = <<>>] /\ stage'[p] = "stamping"
        BY <1>1, <1>16, <2>2 DEF Push, GoTo
      <3>2. QED
        BY <1>14, <1>15, <2>1, <3>1
    <2>3. CASE u.items # {}
      <3>1. UNCHANGED list /\ stage'[p] = "swapping"
        BY <1>1, <1>16, <2>3 DEF Push, GoTo
      <3>2. QED
        BY <1>11, <2>1, <3>1 DEF Delivering, Done
    <2>4. QED
      BY <2>2, <2>3
  <1>17. ASSUME Swap(p) PROVE ListInv(p)'
    <2>1. /\ UNCHANGED <<cycle, gate>> /\ stage[p] = "swapping" /\ stage'[p] = "stamping"
          /\ list' = [list EXCEPT ![f] = building[f]]
          /\ building[f] = <<u>>
      BY <1>1, <1>17 DEF Swap, GoTo, SoleInv, ScratchInv
    <2>2. building[f] \in Seq(Publication)
      BY <1>15, <2>1 DEF TypeInv, RedisType
    <2>3. QED
      BY <1>14, <1>15, <2>1, <2>2
  <1>18. ASSUME Summarise(p) PROVE ListInv(p)'
    <2>1. stage[p] = "summing" /\ UNCHANGED list
      BY <1>18 DEF Summarise, listVars
    <2>2. CASE /\ gate' = [gate EXCEPT ![p] = Key(p)] /\ cycle[p].feeds = {f}
               /\ Note(p, NoCycle) /\ GoTo(p, "idle")
      <3>1. gate'[p] = cycle[p].key /\ stage'[p] = "idle"
        BY <1>1, <2>2 DEF Key, GoTo
      <3>2. \A g \in Feed : Done(p, g)
        BY <2>1, <2>2 DEF Done
      <3>3. QED
        BY <1>2, <2>1, <3>1, <3>2 DEF ListInv, Fresh, Reflects, Delivering
    <2>3. CASE /\ Note(p, [cycle[p] EXCEPT !.feeds = @ \ {f}, !.feed = None])
               /\ GoTo(p, "clearing") /\ UNCHANGED gate
      <3>1. /\ cycle'[p] = [cycle[p] EXCEPT !.feeds = @ \ {f}, !.feed = None]
            /\ stage'[p] = "clearing"
        BY <1>1, <2>3 DEF Note, GoTo
      <3>2. cycle'[p].key = cycle[p].key /\ cycle'[p].feeds = cycle[p].feeds \ {f}
        BY <1>1, <3>1 DEF Cycle
      <3>3. \A g \in Feed : Done(p, g)' => Done(p, g)
        BY <2>1, <3>1, <3>2 DEF Done
      <3>4. QED
        BY <1>11, <2>1, <2>3, <3>2, <3>3 DEF Delivering
    <2>4. QED
      BY <1>18, <2>2, <2>3 DEF Summarise
  <1>19. QED
    BY <1>5, <1>7, <1>8, <1>9, <1>10, <1>12, <1>13, <1>16, <1>17, <1>18 DEF Publish

LEMMA ListStep ==
  ASSUME Sole, TypeInv, SoleInv, ReadsAgree, ListsAgree, [Next]_vars
  PROVE  ListsAgree'
  <1> SUFFICES ASSUME NEW p \in Publisher PROVE ListInv(p)'
    BY DEF ListsAgree
  <1>1. ListInv(p) /\ \A q \in Publisher : q = p
    BY DEF ListsAgree, Sole
  <1>2. CASE UNCHANGED vars
    BY <1>1, <1>2, ListFrame DEF vars, storeVars, worldVars, procVars, redisVars, listVars
  <1>3. CASE Others
    BY <1>1, <1>3, ListOthers
  <1>4. ASSUME NEW q \in Publisher, Publish(q) \/ Fail(q) \/ Restart(q) PROVE ListInv(p)'
    BY <1>1, <1>4, ListPublisherStep
  <1>5. ASSUME NEW r \in Reader, Read(r) PROVE ListInv(p)'
    BY <1>1, <1>5, ListFrame DEF Read, ReadCatalog, ReadList, ReadRefreshedAt, Retry,
       ReadStatistics, publishSide, storeVars, worldVars, procVars, redisVars, listVars
  <1>6. QED
    BY <1>2, <1>3, <1>4, <1>5 DEF Next

\* With one publisher that rests on a current key, every list in redis shows the
\* tables as they are, for any number of tables' writes, lost keys, failed cycles
\* and restarts in between (publish_if_changed, cached_scores).
THEOREM SoleGateMeansCurrent == ASSUME Sole PROVE Spec => []CurrentGateMeansCurrentLists
  <1>1. Init => ListsAgree
    <2> SUFFICES ASSUME Init, NEW p \in Publisher PROVE ListInv(p)
      BY DEF ListsAgree
    <2>1. gate[p] = None /\ stage[p] = "starting" /\ version \in [Table -> Nat]
      BY DEF Init
    <2>2. QED
      BY <2>1, PublisherAssumption DEF ListInv, Delivering
  <1>2. TypeInv /\ SoleInv /\ ReadsAgree /\ ListsAgree /\ [Next]_vars => ListsAgree'
    BY ListStep
  <1>3. ListsAgree => CurrentGateMeansCurrentLists
    BY DEF ListsAgree, ListInv, CurrentGateMeansCurrentLists, Fresh
  <1>4. QED
    BY <1>1, <1>2, <1>3, TypeInvariant, SoleInvariant, ReadsInvariant, PTL DEF Spec

-----------------------------------------------------------------------------
(* Readers.  A feed that stood all along is still to be tried, or is the     *)
(* one being read and was found to stand.                                   *)

ReadingNow(r) == rstage[r] \in {"dating", "counting"}

AnswerInv(r) ==
    /\ rstage[r] = "resting" =>
          /\ chain[r] = {}
          /\ \A f \in solid[r] : IsLive(page[r].list) # {} /\ page[r].feed <= f
    /\ rstage[r] # "resting" => solid[r] \subseteq chain[r]
    /\ ReadingNow(r) =>
          /\ page[r].feed \in chain[r] /\ \A g \in chain[r] : page[r].feed <= g
          /\ page[r].feed \in solid[r] => IsLive(page[r].list) # {}

AnswersStand == \A r \in Reader : AnswerInv(r)

\* Whatever happens elsewhere, the standing feeds only get fewer.
LEMMA AnswerFrame ==
  ASSUME NEW r \in Reader, AnswerInv(r), Watch, rstage'[r] = rstage[r],
         chain'[r] = chain[r], page'[r] = page[r]
  PROVE  AnswerInv(r)'
  <1>1. /\ rstage[r] = "resting" => solid'[r] = {}
        /\ rstage[r] # "resting" => solid'[r] \subseteq solid[r]
    BY DEF AnswerInv, Watch
  <1>2. QED
    BY <1>1 DEF AnswerInv, ReadingNow

LEMMA AnswerStep ==
  ASSUME TypeInv, NEW r \in Reader, AnswerInv(r), Read(r), Watch
  PROVE  AnswerInv(r)'
  <1>1. /\ rstage \in [Reader -> {"resting", "listing", "dating", "counting"}]
        /\ chain \in [Reader -> SUBSET Feed]
        /\ page \in [Reader -> Page]
        /\ page[r].list \in Seq(Publication)
        /\ Feed \subseteq Nat
    BY PublisherAssumption DEF TypeInv, ReaderType, Page
  <1>2. /\ rstage[r] = "resting" =>
              solid'[r] = {f \in chain'[r] : IsLive(list'[f]) # {}}
        /\ rstage[r] # "resting" =>
              solid'[r] = {f \in solid[r] : IsLive(list'[f]) # {}}
    BY DEF Watch
  <1>3. ASSUME NEW f \in Feed, ReadCatalog(r, f) PROVE AnswerInv(r)'
    <2>1. /\ rstage[r] = "resting"
          /\ rstage'[r] = IF chain'[r] = {} THEN "resting" ELSE "listing"
      BY <1>1, <1>3 DEF ReadCatalog
    <2>2. QED
      BY <1>2, <2>1 DEF AnswerInv, ReadingNow
  <1>4. ASSUME NEW f \in Feed, ReadList(r, f) PROVE AnswerInv(r)'
    <2>1. /\ rstage[r] = "listing" /\ rstage'[r] = "dating"
          /\ chain' = chain /\ list' = list
          /\ f \in chain[r] /\ \A g \in chain[r] : f <= g
          /\ page'[r] = [BlankPage EXCEPT !.feed = f, !.list = list[f]]
      BY <1>1, <1>4 DEF ReadList, publishSide, redisVars, listVars
    <2>2. page'[r].feed = f /\ page'[r].list = list[f]
      BY <2>1 DEF BlankPage
    <2>3. solid'[r] \subseteq chain'[r]
      BY <1>2, <2>1 DEF AnswerInv
    <2>4. f \in solid'[r] => IsLive(list[f]) # {}
      BY <1>2, <2>1
    <2>5. QED
      BY <2>1, <2>2, <2>3, <2>4 DEF AnswerInv, ReadingNow
  <1>5. ASSUME ReadRefreshedAt(r) PROVE AnswerInv(r)'
    <2>1. /\ rstage[r] = "dating" /\ rstage'[r] = "counting" /\ chain' = chain
          /\ page'[r] = [page[r] EXCEPT !.at = refreshedAt[page[r].feed]]
      BY <1>1, <1>5 DEF ReadRefreshedAt
    <2>2. page'[r].feed = page[r].feed /\ page'[r].list = page[r].list
      BY <1>1, <2>1 DEF Page
    <2>3. QED
      BY <1>2, <2>1, <2>2 DEF AnswerInv, ReadingNow
  <1>6. ASSUME Retry(r) PROVE AnswerInv(r)'
    <2>1. rstage[r] = "dating" /\ rstage'[r] = "listing" /\ chain' = chain
      BY <1>1, <1>6 DEF Retry
    <2>2. QED
      BY <1>2, <2>1 DEF AnswerInv, ReadingNow
  <1>7. ASSUME ReadStatistics(r) PROVE AnswerInv(r)'
    <2>1. /\ rstage[r] = "counting"
          /\ page'[r] = [page[r] EXCEPT !.stats = statistics[page[r].feed]]
      BY <1>1, <1>7 DEF ReadStatistics
    <2>2. page'[r].feed = page[r].feed /\ page'[r].list = page[r].list
      BY <1>1, <2>1 DEF Page
    <2>3. /\ solid'[r] \subseteq solid[r] /\ solid[r] \subseteq chain[r]
          /\ \A g \in chain[r] : page[r].feed <= g
          /\ page[r].feed \in solid[r] => IsLive(page[r].list) # {}
      BY <1>2, <2>1 DEF AnswerInv, ReadingNow
    <2>4. CASE GivesWay(r)
      <3>1. rstage'[r] = "listing" /\ chain'[r] = chain[r] \ {page[r].feed}
        BY <1>1, <1>7, <2>4 DEF ReadStatistics
      <3>2. solid'[r] \subseteq chain'[r]
        BY <2>3, <2>4, <3>1 DEF GivesWay
      <3>3. QED
        BY <3>1, <3>2 DEF AnswerInv, ReadingNow
    <2>5. CASE ~GivesWay(r)
      <3>1. rstage'[r] = "resting" /\ chain'[r] = {}
        BY <1>1, <1>7, <2>5 DEF ReadStatistics
      <3>2. IsLive(page[r].list) # {} \/ solid'[r] = {}
        BY <2>3, <2>5 DEF GivesWay
      <3>3. \A f \in solid'[r] : IsLive(page'[r].list) # {} /\ page'[r].feed <= f
        BY <2>2, <2>3, <3>2
      <3>4. QED
        BY <3>1, <3>3 DEF AnswerInv, ReadingNow
    <2>6. QED
      BY <2>4, <2>5
  <1>8. QED
    BY <1>3, <1>4, <1>5, <1>6, <1>7 DEF Read

\* A request is answered from the narrowest feed that had something to show
\* since the request began, or from a narrower one, whatever any number of
\* publishers do to the lists meanwhile (FallbackFeedSource::published_images).
THEOREM AnswersAreNarrowest == Spec => []AnswerIsNarrowestStanding
  <1>1. Init => AnswersStand
    BY DEF Init, AnswersStand, AnswerInv, ReadingNow
  <1>2. ASSUME TypeInv, AnswersStand, [Next]_vars PROVE AnswersStand'
    <2> SUFFICES ASSUME NEW r \in Reader PROVE AnswerInv(r)'
      BY DEF AnswersStand
    <2>1. AnswerInv(r)
      BY <1>2 DEF AnswersStand
    <2>2. CASE UNCHANGED vars
      BY <2>1, <2>2 DEF vars, readerVars, AnswerInv, ReadingNow
    <2>3. ASSUME Watch, UNCHANGED readerVars PROVE AnswerInv(r)'
      BY <2>1, <2>3, AnswerFrame DEF readerVars
    <2>4. CASE Others /\ Watch
      BY <2>3, <2>4 DEF Others, Write, Compact, Grow, Delete, LoseList, LoseScratch, LoseCatalog
    <2>5. ASSUME NEW p \in Publisher, Publish(p) \/ Fail(p) \/ Restart(p), Watch
          PROVE  AnswerInv(r)'
      BY <2>3, <2>5 DEF Publish, Fail, Restart, ClearCatalog, Advertise, Begin,
         CheckScoresCache, ScanScores, Probe, Push, Swap, SwapFails, Stamp, Summarise,
         ReadVersion, ReadAppraisals, CheckPresence, ClearScratch
    <2>6. ASSUME NEW s \in Reader, Read(s), Watch PROVE AnswerInv(r)'
      <3>1. CASE s = r
        BY <1>2, <2>1, <2>6, <3>1, AnswerStep
      <3>2. CASE s # r
        <4>1. rstage'[r] = rstage[r] /\ chain'[r] = chain[r] /\ page'[r] = page[r]
          BY <1>2, <2>6, <3>2 DEF Read, ReadCatalog, ReadList, ReadRefreshedAt, Retry,
             ReadStatistics, TypeInv, ReaderType
        <4>2. QED
          BY <2>1, <2>6, <4>1, AnswerFrame
      <3>3. QED
        BY <3>1, <3>2
    <2>7. QED
      BY <1>2, <2>2, <2>4, <2>5, <2>6 DEF Next
  <1>3. AnswersStand => AnswerIsNarrowestStanding
    BY DEF AnswersStand, AnswerInv, AnswerIsNarrowestStanding
  <1>4. QED
    BY <1>1, <1>2, <1>3, TypeInvariant, PTL DEF Spec

--------------------------------------------------------------------------------
(* The numbers on a page (Statistics).  What rows of a sequence count from an *)
(* instant on, and what the stage was told from one.                        *)


Row == [start : Nat, end : Nat, images : Nat]

LateImages(s, a) == [i \in 1 .. Len(s) |-> IF s[i].start >= a THEN s[i].images ELSE 0]
Late(s, a) == SumOf(LateImages(s, a), 1 .. Len(s))

ToldFrom(f, a) == [t \in 1 .. Len(f) |-> IF t > a THEN f[t] ELSE 0]
Since(f, a) == SumOf(ToldFrom(f, a), 1 .. Len(f))

Seen(f, start, until) == SumOf(f, {t \in DOMAIN f : start < t /\ t <= until + 1})

LEMMA LateImagesAre ==
    ASSUME NEW s \in Seq(Row), NEW a \in Int, NEW i \in 1 .. Len(s)
    PROVE  LateImages(s, a)[i] \in Nat /\ LateImages(s, a)[i] <= LateImages(s, 0)[i]
<1>1. s[i] \in Row
  OBVIOUS
<1>2. s[i].start \in Nat /\ s[i].images \in Nat
  BY <1>1 DEF Row
<1>3. /\ LateImages(s, a)[i] = IF s[i].start >= a THEN s[i].images ELSE 0
      /\ LateImages(s, 0)[i] = IF s[i].start >= 0 THEN s[i].images ELSE 0
  BY DEF LateImages
<1>4. QED
  BY <1>2, <1>3

LEMMA LateIsNat ==
    ASSUME NEW s \in Seq(Row), NEW a \in Int
    PROVE  Late(s, a) \in Nat /\ Late(s, a) <= Late(s, 0)
<1>1. IsFiniteSet(1 .. Len(s))
  BY UpTo
<1>2. \A i \in 1 .. Len(s) : /\ LateImages(s, a)[i] \in Nat /\ LateImages(s, 0)[i] \in Nat
                             /\ LateImages(s, a)[i] <= LateImages(s, 0)[i]
  BY LateImagesAre
<1>3. QED
  BY <1>1, <1>2, SumOfIsNat, SumOfLeq DEF Late

LEMMA LateOfNothing == \A a \in Int : Late(<<>>, a) = 0
<1>1. 1 .. Len(<<>>) = {}
  OBVIOUS
<1>2. QED
  BY <1>1, SumOfEmpty DEF Late

LEMMA LateAppends ==
    ASSUME NEW s \in Seq(Row), NEW r \in Row, NEW a \in Int
    PROVE  Late(Append(s, r), a) = Late(s, a) + (IF r.start >= a THEN r.images ELSE 0)
<1> DEFINE n == Len(s)
           u == Append(s, r)
           f == LateImages(s, a)
           g == LateImages(u, a)
<1>1. n \in Nat /\ u \in Seq(Row) /\ Len(u) = n + 1 /\ u[n + 1] = r /\ \A i \in 1 .. n : u[i] = s[i]
  OBVIOUS
<1>2. \A i \in 1 .. n : f[i] \in Nat /\ f[i] = IF s[i].start >= a THEN s[i].images ELSE 0
  BY LateImagesAre DEF LateImages
<1>3. \A i \in 1 .. n + 1 : g[i] = IF u[i].start >= a THEN u[i].images ELSE 0
  BY <1>1 DEF LateImages
<1>4. n + 1 \in 1 .. n + 1 /\ \A i \in 1 .. n : i \in 1 .. n + 1
  BY <1>1
<1>5. g[n + 1] = IF r.start >= a THEN r.images ELSE 0
  BY <1>1, <1>3, <1>4
<1>6. g[n + 1] \in Nat
  BY <1>5 DEF Row
<1>7. \A i \in 1 .. n : f[i] \in Nat /\ g[i] = f[i]
  BY <1>1, <1>2, <1>3, <1>4
<1>8. Late(s, a) = SumOf(f, 1 .. n) /\ Late(u, a) = SumOf(g, 1 .. n + 1)
  BY <1>1 DEF Late
<1> HIDE DEF n, u, f, g
<1>9. SumOf(g, 1 .. n + 1) = SumOf(f, 1 .. n) + g[n + 1]
  BY <1>1, <1>6, <1>7, SumOfExtends
<1>10. QED
  BY <1>5, <1>8, <1>9 DEF u

LEMMA LateConcat ==
    ASSUME NEW s \in Seq(Row), NEW t \in Seq(Row), NEW a \in Int
    PROVE  s \o t \in Seq(Row) /\ Late(s \o t, a) = Late(s, a) + Late(t, a)
<1> DEFINE m == Len(s)
           n == Len(t)
           u == s \o t
           f == LateImages(s, a)
           h == LateImages(t, a)
           g == LateImages(u, a)
<1>1. /\ m \in Nat /\ n \in Nat /\ u \in Seq(Row) /\ Len(u) = m + n
      /\ \A i \in 1 .. m : u[i] = s[i]
      /\ \A i \in 1 .. n : u[m + i] = t[i]
  OBVIOUS
<1>2. \A i \in 1 .. m : f[i] \in Nat /\ f[i] = IF s[i].start >= a THEN s[i].images ELSE 0
  BY LateImagesAre DEF LateImages
<1>3. \A i \in 1 .. n : h[i] \in Nat /\ h[i] = IF t[i].start >= a THEN t[i].images ELSE 0
  BY LateImagesAre DEF LateImages
<1>4. \A i \in 1 .. m + n : g[i] = IF u[i].start >= a THEN u[i].images ELSE 0
  BY <1>1 DEF LateImages
<1>5. Late(s, a) = SumOf(f, 1 .. m) /\ Late(t, a) = SumOf(h, 1 .. n) /\ Late(u, a) = SumOf(g, 1 .. m + n)
  BY <1>1 DEF Late
<1> HIDE DEF m, n, u, f, g, h
<1>6. \A i \in 1 .. m : i \in 1 .. m + n
  BY <1>1
<1>7. \A i \in 1 .. n : m + i \in 1 .. m + n
  BY <1>1
<1>8. \A i \in 1 .. m : f[i] \in Nat /\ g[i] = f[i]
  BY <1>1, <1>2, <1>4, <1>6
<1>9. \A i \in 1 .. n : h[i] \in Nat /\ g[m + i] = h[i]
  BY <1>1, <1>3, <1>4, <1>7
<1>10. SumOf(g, 1 .. m + n) = SumOf(f, 1 .. m) + SumOf(h, 1 .. n)
  <2>1. m \in Nat /\ n \in Nat
    BY <1>1
  <2>2. QED
    BY ONLY <1>8, <1>9, <2>1, SumOfConcat
<1>11. QED
  BY <1>1, <1>5, <1>10 DEF u

LEMMA SinceIsNat ==
    ASSUME NEW f \in Seq(Nat), NEW a \in Int
    PROVE  Since(f, a) \in Nat
<1>1. IsFiniteSet(1 .. Len(f))
  BY UpTo
<1>2. \A t \in 1 .. Len(f) : ToldFrom(f, a)[t] \in Nat
  BY DEF ToldFrom
<1>3. QED
  BY <1>1, <1>2, SumOfIsNat DEF Since

\* A tick goes by.
LEMMA SincePasses ==
    ASSUME NEW f \in Seq(Nat), NEW a \in Int
    PROVE  Since(Append(f, 0), a) = Since(f, a)
<1> DEFINE n == Len(f)
           u == Append(f, 0)
           g == ToldFrom(f, a)
           h == ToldFrom(u, a)
<1>1. n \in Nat /\ u \in Seq(Nat) /\ Len(u) = n + 1 /\ u[n + 1] = 0 /\ \A i \in 1 .. n : u[i] = f[i]
  OBVIOUS
<1>2. \A i \in 1 .. n : g[i] \in Nat /\ g[i] = IF i > a THEN f[i] ELSE 0
  BY DEF ToldFrom
<1>3. \A i \in 1 .. n + 1 : h[i] = IF i > a THEN u[i] ELSE 0
  BY <1>1 DEF ToldFrom
<1>4. n + 1 \in 1 .. n + 1 /\ \A i \in 1 .. n : i \in 1 .. n + 1
  BY <1>1
<1>5. h[n + 1] = 0 /\ h[n + 1] \in Nat
  BY <1>1, <1>3, <1>4
<1>6. \A i \in 1 .. n : g[i] \in Nat /\ h[i] = g[i]
  BY <1>1, <1>2, <1>3, <1>4
<1>7. Since(f, a) = SumOf(g, 1 .. n) /\ Since(u, a) = SumOf(h, 1 .. n + 1)
  BY <1>1 DEF Since
<1> HIDE DEF n, u, g, h
<1>8. SumOf(g, 1 .. n) \in Nat /\ SumOf(h, 1 .. n + 1) = SumOf(g, 1 .. n) + h[n + 1]
  BY <1>1, <1>5, <1>6, SumOfExtends
<1>9. QED
  BY <1>5, <1>7, <1>8 DEF u

\* The stage is told of more in the present tick.
LEMMA SinceAdds ==
    ASSUME NEW f \in Seq(Nat), NEW n, n = Len(f), n > 0, NEW x \in Nat, NEW a \in Int
    PROVE  /\ [f EXCEPT ![n] = @ + x] \in Seq(Nat)
           /\ Len([f EXCEPT ![n] = @ + x]) = n
           /\ Since([f EXCEPT ![n] = @ + x], a) = Since(f, a) + (IF n > a THEN x ELSE 0)
<1> DEFINE u == [f EXCEPT ![n] = @ + x]
           g == ToldFrom(f, a)
           h == ToldFrom(u, a)
           gain == IF n > a THEN x ELSE 0
<1>1. n \in 1 .. n /\ f[n] \in Nat /\ n \in Nat
  OBVIOUS
<1>2. /\ u \in Seq(Nat) /\ Len(u) = n /\ u[n] = f[n] + x
      /\ \A i \in 1 .. n : i # n => u[i] = f[i]
  BY <1>1
<1>3. \A i \in 1 .. n : g[i] \in Nat /\ g[i] = IF i > a THEN f[i] ELSE 0
  BY DEF ToldFrom
<1>4. \A i \in 1 .. n : h[i] \in Nat /\ h[i] = IF i > a THEN u[i] ELSE 0
  BY <1>2 DEF ToldFrom
<1>5. h[n] = g[n] + gain /\ gain \in Nat
  <2>1. g[n] = (IF n > a THEN f[n] ELSE 0) /\ h[n] = IF n > a THEN f[n] + x ELSE 0
    BY <1>1, <1>2, <1>3, <1>4
  <2>2. CASE n > a
    BY <1>1, <2>1, <2>2
  <2>3. CASE ~(n > a)
    BY <1>1, <2>1, <2>3
  <2>4. QED
    BY <2>2, <2>3
<1>6. \A i \in (1 .. n) \ {n} : h[i] = g[i] /\ g[i] \in Nat
  BY <1>2, <1>3, <1>4
<1>7. Since(f, a) = SumOf(g, 1 .. n) /\ Since(u, a) = SumOf(h, 1 .. n)
  BY <1>2 DEF Since
<1> HIDE DEF u, g, h, gain
<1>8. IsFiniteSet(1 .. n) /\ IsFiniteSet((1 .. n) \ {n})
  BY <1>1, UpTo, FS_Subset
<1>9. /\ SumOf(g, 1 .. n) = g[n] + SumOf(g, (1 .. n) \ {n})
      /\ SumOf(h, 1 .. n) = h[n] + SumOf(h, (1 .. n) \ {n})
  <2>1. (\A i \in 1 .. n : g[i] \in Nat) /\ (\A i \in 1 .. n : h[i] \in Nat)
    BY <1>3, <1>4
  <2>2. SumOf(g, 1 .. n) = g[n] + SumOf(g, (1 .. n) \ {n})
    BY ONLY <1>1, <1>8, <2>1, SumOfTakesOut
  <2>3. SumOf(h, 1 .. n) = h[n] + SumOf(h, (1 .. n) \ {n})
    BY ONLY <1>1, <1>8, <2>1, SumOfTakesOut
  <2>4. QED
    BY <2>2, <2>3
<1>10. SumOf(h, (1 .. n) \ {n}) = SumOf(g, (1 .. n) \ {n}) /\ SumOf(g, (1 .. n) \ {n}) \in Nat
  BY <1>6, <1>8, SumOfSame, SumOfIsNat
<1>11. g[n] \in Nat
  BY <1>1, <1>3
<1>12. SumOf(h, 1 .. n) = SumOf(g, 1 .. n) + gain
  BY <1>5, <1>9, <1>10, <1>11
<1>13. QED
  BY <1>2, <1>7, <1>12 DEF u, gain

\* All of it, and the part up to now.
LEMMA SinceTheStart ==
    ASSUME NEW f \in Seq(Nat) PROVE Since(f, 0) = SumOf(f, DOMAIN f)
<1>1. DOMAIN f = 1 .. Len(f) /\ \A t \in 1 .. Len(f) : ToldFrom(f, 0)[t] = f[t]
  BY DEF ToldFrom
<1>2. IsFiniteSet(1 .. Len(f))
  BY UpTo
<1>3. QED
  BY <1>1, <1>2, SumOfSame DEF Since

LEMMA SinceIsSeen ==
    ASSUME NEW f \in Seq(Nat), NEW c \in Nat, Len(f) = c + 1, NEW a \in Int
    PROVE  Since(f, a) = Seen(f, a, c)
<1> DEFINE R == {t \in DOMAIN f : a < t /\ t <= c + 1}
           g == ToldFrom(f, a)
<1>1. IsFiniteSet(1 .. Len(f)) /\ DOMAIN f = 1 .. Len(f)
  BY UpTo
<1>2. R \in SUBSET (1 .. Len(f))
  BY <1>1
<1>3. \A t \in 1 .. Len(f) : f[t] \in Nat /\ g[t] = IF t > a THEN f[t] ELSE 0
  BY DEF ToldFrom
<1>4. \A t \in R : f[t] = g[t] /\ f[t] \in Nat
  BY <1>2, <1>3
<1>5. \A t \in (1 .. Len(f)) \ R : g[t] = 0
  BY <1>1, <1>3
<1>6. Seen(f, a, c) = SumOf(f, R) /\ Since(f, a) = SumOf(g, 1 .. Len(f))
  BY DEF Seen, Since
<1> HIDE DEF R, g
<1> DEFINE S == 1 .. Len(f)
<1>7. /\ IsFiniteSet(S) /\ R \in SUBSET S
      /\ \A t \in R : f[t] = g[t] /\ f[t] \in Nat
      /\ \A t \in S \ R : g[t] = 0
  BY <1>1, <1>2, <1>4, <1>5
<1> HIDE DEF S
<1>8. SumOf(f, R) = SumOf(g, S)
  BY ONLY <1>7, SumOfOfPart
<1>9. QED
  BY <1>6, <1>8 DEF S

\* What was seen up to an instant does not become less.
LEMMA SeenGrows ==
    ASSUME NEW f \in Seq(Nat), NEW g \in Seq(Nat), NEW c \in Nat, NEW until \in Nat, NEW start \in Int,
           Len(f) = c + 1, until <= c, Len(g) >= Len(f), \A t \in 1 .. Len(f) : f[t] <= g[t]
    PROVE  Seen(f, start, until) \in Nat /\ Seen(g, start, until) \in Nat
           /\ Seen(f, start, until) <= Seen(g, start, until)
<1> DEFINE R == {t \in DOMAIN f : start < t /\ t <= until + 1}
<1>1. R = {t \in DOMAIN g : start < t /\ t <= until + 1}
  <2>1. DOMAIN f = 1 .. c + 1 /\ DOMAIN g = 1 .. Len(g) /\ Len(g) \in Nat
    OBVIOUS
  <2>2. \A t \in 1 .. Len(g) : t <= until + 1 => t \in 1 .. c + 1
    BY <2>1
  <2>3. \A t \in 1 .. c + 1 : t \in 1 .. Len(g)
    BY <2>1
  <2>4. QED
    BY <2>1, <2>2, <2>3
<1>2. IsFiniteSet(R)
  <2>1. R \subseteq 1 .. Len(f)
    OBVIOUS
  <2>2. QED
    BY <2>1, UpTo, FS_Subset
<1>3. \A t \in R : f[t] \in Nat /\ g[t] \in Nat /\ f[t] <= g[t]
  BY <1>1
<1>4. Seen(f, start, until) = SumOf(f, R) /\ Seen(g, start, until) = SumOf(g, R)
  BY <1>1 DEF Seen
<1> HIDE DEF R
<1>5. QED
  BY <1>2, <1>3, <1>4, SumOfIsNat, SumOfLeq
--------------------------------------------------------------------------------
(* The books: what the tally was told of (f, by the ticks c) against the     *)
(* table r, the buffer b and the open interval; tw and lo are what a retry   *)
(* doubled and a crash took.                                                 *)

Booked(f, c, r, b, open, since, tw, lo) ==
    /\ f \in Seq(Nat) /\ c \in Nat /\ Len(f) = c + 1
    /\ r \in Seq(Row) /\ b \in Seq(Row) /\ open \in Nat /\ tw \in Nat /\ lo \in Nat
    /\ since \in Nat /\ since <= c

\* No row claims more since an instant than the stage was told from it on.
NotEarly(f, r, b, open, since, tw, a) ==
    Late(r, a) + Late(b, a) + (IF since >= a THEN open ELSE 0) <= Since(f, a) + tw

Sound(f, c, r, b, open, since, tw, lo) ==
    /\ Booked(f, c, r, b, open, since, tw, lo)
    /\ Since(f, 0) + tw = Late(r, 0) + Late(b, 0) + open + lo
    /\ \A a \in Int : NotEarly(f, r, b, open, since, tw, a)

LEMMA BookedTypes ==
    ASSUME NEW f, NEW c, NEW r, NEW b, NEW open, NEW since, NEW tw, NEW lo,
           Booked(f, c, r, b, open, since, tw, lo), NEW a \in Int
    PROVE  /\ Since(f, a) \in Nat /\ Late(r, a) \in Nat /\ Late(b, a) \in Nat
           /\ Late(b, a) <= Late(b, 0) /\ Late(b, 0) \in Nat
           /\ open \in Nat /\ tw \in Nat /\ lo \in Nat /\ since \in Nat /\ c \in Nat /\ since <= c
<1>1. /\ f \in Seq(Nat) /\ r \in Seq(Row) /\ b \in Seq(Row) /\ 0 \in Int
      /\ open \in Nat /\ tw \in Nat /\ lo \in Nat /\ since \in Nat /\ c \in Nat /\ since <= c
  BY DEF Booked
<1>2. Since(f, a) \in Nat
  BY <1>1, SinceIsNat
<1>3. Late(r, a) \in Nat
  BY <1>1, LateIsNat
<1>4. Late(b, a) \in Nat /\ Late(b, a) <= Late(b, 0) /\ Late(b, 0) \in Nat
  BY <1>1, LateIsNat
<1>5. QED
  BY <1>1, <1>2, <1>3, <1>4

LEMMA SoundPasses ==
    ASSUME NEW f, NEW c, NEW r, NEW b, NEW open, NEW since, NEW tw, NEW lo,
           Sound(f, c, r, b, open, since, tw, lo)
    PROVE  Sound(Append(f, 0), c + 1, r, b, open, since, tw, lo)
<1>1. Booked(f, c, r, b, open, since, tw, lo)
  BY DEF Sound
<1>2. Booked(Append(f, 0), c + 1, r, b, open, since, tw, lo)
  BY <1>1 DEF Booked
<1>3. \A a \in Int : Since(Append(f, 0), a) = Since(f, a)
  BY <1>1, SincePasses DEF Booked
<1>4. QED
  BY <1>2, <1>3 DEF Sound, NotEarly

LEMMA SoundHears ==
    ASSUME NEW f, NEW c, NEW r, NEW b, NEW open, NEW since, NEW tw, NEW lo, NEW x \in Nat,
           Sound(f, c, r, b, open, since, tw, lo)
    PROVE  Sound([f EXCEPT ![c + 1] = @ + x], c, r, b, open + x, since, tw, lo)
<1> DEFINE g == [f EXCEPT ![c + 1] = @ + x]
<1>1. Booked(f, c, r, b, open, since, tw, lo)
  BY DEF Sound
<1>2. PICK n \in Nat : n = c + 1
  BY <1>1 DEF Booked
<1>3. n = Len(f) /\ n > 0 /\ f \in Seq(Nat)
  BY <1>1, <1>2 DEF Booked
<1>4. \A a \in Int : /\ [f EXCEPT ![n] = @ + x] \in Seq(Nat)
                     /\ Len([f EXCEPT ![n] = @ + x]) = n
                     /\ Since([f EXCEPT ![n] = @ + x], a) = Since(f, a) + (IF n > a THEN x ELSE 0)
  BY ONLY <1>3, SinceAdds, x \in Nat
<1>5. \A a \in Int : g \in Seq(Nat) /\ Len(g) = n /\ Since(g, a) = Since(f, a) + (IF n > a THEN x ELSE 0)
  BY <1>2, <1>4
<1> HIDE DEF g
<1>6. Booked(g, c, r, b, open + x, since, tw, lo)
  BY <1>1, <1>2, <1>5 DEF Booked
<1>7. Since(g, 0) = Since(f, 0) + x
  BY <1>2, <1>3, <1>5
<1>8. Since(g, 0) + tw = Late(r, 0) + Late(b, 0) + (open + x) + lo
  <2>1. /\ Since(f, 0) \in Nat /\ Late(r, 0) \in Nat /\ Late(b, 0) \in Nat
        /\ open \in Nat /\ tw \in Nat /\ lo \in Nat
    BY <1>1, BookedTypes
  <2>2. Since(f, 0) + tw = Late(r, 0) + Late(b, 0) + open + lo
    BY DEF Sound
  <2>3. QED
    BY <1>7, <2>1, <2>2
<1>9. ASSUME NEW a \in Int PROVE NotEarly(g, r, b, open + x, since, tw, a)
  <2>1. /\ Since(f, a) \in Nat /\ Late(r, a) \in Nat /\ Late(b, a) \in Nat
        /\ open \in Nat /\ tw \in Nat /\ since \in Nat /\ c \in Nat /\ since <= c
    BY <1>1, BookedTypes
  <2>2. Late(r, a) + Late(b, a) + (IF since >= a THEN open ELSE 0) <= Since(f, a) + tw
    BY DEF Sound, NotEarly
  <2>3. Since(g, a) = Since(f, a) + (IF c + 1 > a THEN x ELSE 0)
    BY <1>2, <1>5
  <2>4. Late(r, a) + Late(b, a) + (IF since >= a THEN open + x ELSE 0) <= Since(g, a) + tw
    BY <2>1, <2>2, <2>3
  <2>5. QED
    BY <2>4 DEF NotEarly
<1>10. QED
  BY <1>6, <1>8, <1>9 DEF Sound, g

LEMMA SoundCloses ==
    ASSUME NEW f, NEW c, NEW r, NEW b, NEW open, NEW since, NEW tw, NEW lo,
           Sound(f, c, r, b, open, since, tw, lo)
    PROVE  Sound(f, c, r, Append(b, [start |-> since, end |-> c, images |-> open]), 0, c, tw, lo)
<1> DEFINE closed == [start |-> since, end |-> c, images |-> open]
           d == Append(b, closed)
<1>1. Booked(f, c, r, b, open, since, tw, lo)
  BY DEF Sound
<1>2. closed \in Row /\ closed.start = since /\ closed.images = open
  BY <1>1 DEF Row, Booked
<1> HIDE DEF closed
<1>3. \A a \in Int : Late(d, a) = Late(b, a) + (IF since >= a THEN open ELSE 0)
  BY <1>1, <1>2, LateAppends DEF Booked
<1>4. Booked(f, c, r, d, 0, c, tw, lo)
  BY <1>1, <1>2 DEF Booked
<1> HIDE DEF d
<1>5. Since(f, 0) + tw = Late(r, 0) + Late(d, 0) + 0 + lo
  <2>1. Late(d, 0) = Late(b, 0) + open
    BY <1>1, <1>3, BookedTypes
  <2>2. QED
    BY <1>1, <2>1, BookedTypes DEF Sound
<1>6. ASSUME NEW a \in Int PROVE NotEarly(f, r, d, 0, c, tw, a)
  <2>1. /\ Since(f, a) \in Nat /\ Late(r, a) \in Nat /\ Late(b, a) \in Nat
        /\ open \in Nat /\ tw \in Nat
    BY <1>1, BookedTypes
  <2>2. Late(r, a) + Late(b, a) + (IF since >= a THEN open ELSE 0) <= Since(f, a) + tw
    BY DEF Sound, NotEarly
  <2>3. Late(r, a) + Late(d, a) + (IF c >= a THEN 0 ELSE 0) <= Since(f, a) + tw
    BY <1>3, <2>1, <2>2
  <2>4. QED
    BY <2>3 DEF NotEarly
<1>7. QED
  BY <1>4, <1>5, <1>6 DEF Sound, d, closed

LEMMA SoundWrites ==
    ASSUME NEW f, NEW c, NEW r, NEW b, NEW open, NEW since, NEW tw, NEW lo,
           Sound(f, c, r, b, open, since, tw, lo)
    PROVE  Sound(f, c, r \o b, <<>>, open, since, tw, lo)
<1> DEFINE q == r \o b
<1>1. Booked(f, c, r, b, open, since, tw, lo)
  BY DEF Sound
<1>2. \A a \in Int : q \in Seq(Row) /\ Late(q, a) = Late(r, a) + Late(b, a) /\ Late(<<>>, a) = 0
  BY <1>1, LateConcat, LateOfNothing DEF Booked
<1> HIDE DEF q
<1>3. <<>> \in Seq(Row)
  OBVIOUS
<1>4. Booked(f, c, q, <<>>, open, since, tw, lo)
  BY <1>1, <1>2, <1>3 DEF Booked
<1>5. Since(f, 0) + tw = Late(q, 0) + Late(<<>>, 0) + open + lo
  <2>1. Late(q, 0) = Late(r, 0) + Late(b, 0) /\ Late(<<>>, 0) = 0
    BY <1>2
  <2>2. QED
    BY <1>1, <2>1, BookedTypes DEF Sound
<1>6. ASSUME NEW a \in Int PROVE NotEarly(f, q, <<>>, open, since, tw, a)
  <2>1. /\ Since(f, a) \in Nat /\ Late(r, a) \in Nat /\ Late(b, a) \in Nat
        /\ open \in Nat /\ tw \in Nat
    BY <1>1, BookedTypes
  <2>2. Late(r, a) + Late(b, a) + (IF since >= a THEN open ELSE 0) <= Since(f, a) + tw
    BY DEF Sound, NotEarly
  <2>3. Late(q, a) + Late(<<>>, a) + (IF since >= a THEN open ELSE 0) <= Since(f, a) + tw
    BY <1>2, <2>1, <2>2
  <2>4. QED
    BY <2>3 DEF NotEarly
<1>7. QED
  BY <1>4, <1>5, <1>6 DEF Sound, q

LEMMA SoundRewrites ==
    ASSUME NEW f, NEW c, NEW r, NEW b, NEW open, NEW since, NEW tw, NEW lo,
           Sound(f, c, r, b, open, since, tw, lo)
    PROVE  Sound(f, c, r \o b, b, open, since, tw + Late(b, 0), lo)
<1> DEFINE q == r \o b
<1>1. Booked(f, c, r, b, open, since, tw, lo)
  BY DEF Sound
<1>2. \A a \in Int : q \in Seq(Row) /\ Late(q, a) = Late(r, a) + Late(b, a)
  BY <1>1, LateConcat DEF Booked
<1> HIDE DEF q
<1>3. PICK u \in Nat : u = Late(b, 0)
  BY <1>1, BookedTypes
<1>4. Booked(f, c, q, b, open, since, tw + u, lo)
  BY <1>1, <1>2 DEF Booked
<1>5. Since(f, 0) + (tw + u) = Late(q, 0) + Late(b, 0) + open + lo
  <2>1. /\ Since(f, 0) \in Nat /\ Late(r, 0) \in Nat /\ Late(b, 0) \in Nat
        /\ open \in Nat /\ tw \in Nat /\ lo \in Nat
    BY <1>1, BookedTypes
  <2>2. Late(q, 0) = Late(r, 0) + u /\ Late(b, 0) = u
    BY <1>2, <1>3
  <2>3. Since(f, 0) + tw = Late(r, 0) + Late(b, 0) + open + lo
    BY DEF Sound
  <2>4. QED
    BY <2>1, <2>2, <2>3
<1>6. ASSUME NEW a \in Int PROVE NotEarly(f, q, b, open, since, tw + u, a)
  <2>1. /\ Since(f, a) \in Nat /\ Late(r, a) \in Nat /\ Late(b, a) \in Nat
        /\ open \in Nat /\ tw \in Nat /\ Late(b, a) <= u
    BY <1>1, <1>3, BookedTypes
  <2>2. Late(r, a) + Late(b, a) + (IF since >= a THEN open ELSE 0) <= Since(f, a) + tw
    BY DEF Sound, NotEarly
  <2>3. Late(q, a) + Late(b, a) + (IF since >= a THEN open ELSE 0) <= Since(f, a) + (tw + u)
    BY <1>2, <2>1, <2>2
  <2>4. QED
    BY <2>3 DEF NotEarly
<1>7. QED
  BY <1>3, <1>4, <1>5, <1>6 DEF Sound, q

LEMMA SoundForgets ==
    ASSUME NEW f, NEW c, NEW r, NEW b, NEW open, NEW since, NEW tw, NEW lo, NEW later \in Nat,
           Sound(f, c, r, b, open, since, tw, lo), later <= c
    PROVE  Sound(f, c, r, <<>>, 0, later, tw, lo + (open + Late(b, 0)))
<1>1. Booked(f, c, r, b, open, since, tw, lo)
  BY DEF Sound
<1>2. PICK u \in Nat : u = Late(b, 0)
  BY <1>1, BookedTypes
<1>3. <<>> \in Seq(Row) /\ \A a \in Int : Late(<<>>, a) = 0
  BY LateOfNothing
<1>4. Booked(f, c, r, <<>>, 0, later, tw, lo + (open + u))
  BY <1>1, <1>3 DEF Booked
<1>5. Since(f, 0) + tw = Late(r, 0) + Late(<<>>, 0) + 0 + (lo + (open + u))
  <2>1. Late(<<>>, 0) = 0
    BY <1>3
  <2>2. QED
    BY <1>1, <1>2, <2>1, BookedTypes DEF Sound
<1>6. ASSUME NEW a \in Int PROVE NotEarly(f, r, <<>>, 0, later, tw, a)
  <2>1. /\ Since(f, a) \in Nat /\ Late(r, a) \in Nat /\ Late(b, a) \in Nat
        /\ open \in Nat /\ tw \in Nat
    BY <1>1, BookedTypes
  <2>2. Late(r, a) + Late(b, a) + (IF since >= a THEN open ELSE 0) <= Since(f, a) + tw
    BY DEF Sound, NotEarly
  <2>3. Late(r, a) + Late(<<>>, a) + (IF later >= a THEN 0 ELSE 0) <= Since(f, a) + tw
    BY <1>3, <2>1, <2>2
  <2>4. QED
    BY <2>3 DEF NotEarly
<1>7. QED
  BY <1>2, <1>4, <1>5, <1>6 DEF Sound
--------------------------------------------------------------------------------
(* The pruner's side: its two recorders, its meters and the books.          *)

Counted == {"posts", "images", "rejected"}
Counts == [Counted -> Nat]
Stages == [phase : {"receiving", "flushing", "stopping", "down"}, total : Counts, lastLog : Nat,
           emitted : Counts, open : Counts, since : Nat, buffer : Seq(Row), lastFlush : Nat]

StageInv ==
    /\ tally \in Stages
    /\ tally.phase = "down" =>
        tally.open = Numbers!NoCounts /\ tally.buffer = <<>> /\ tally.emitted = Numbers!NoCounts

MetersInv ==
    /\ meters = tally.emitted
    /\ \A k \in Counted : tally.emitted[k] <= tally.total[k]

Books == Sound(told, ticks, rows, tally.buffer, tally.open.images, tally.since, twice, lost)

PrunerInv == StageInv /\ MetersInv /\ Books

LEMMA NoCountsAre == Numbers!NoCounts \in Counts /\ \A k \in Counted : Numbers!NoCounts[k] = 0
  BY DEF Numbers!NoCounts, Counts, Counted

LEMMA PlusAdds ==
    ASSUME NEW a \in Counts, NEW b \in Counts
    PROVE  /\ Numbers!Plus(a, b) \in Counts /\ DOMAIN a = Counted
           /\ \A k \in Counted : Numbers!Plus(a, b)[k] = a[k] + b[k]
  BY DEF Numbers!Plus, Counts

\* What is exported makes up the difference.
LEMMA EmitsAll ==
    ASSUME NEW a \in Counts, NEW b \in Counts
    PROVE  Numbers!Plus(a, Numbers!Minus(b, a)) = b
<1>1. DOMAIN a = Counted /\ DOMAIN b = Counted /\ \A k \in Counted : a[k] \in Nat /\ b[k] \in Nat
  BY DEF Counts
<1>2. DOMAIN Numbers!Minus(b, a) = Counted /\ \A k \in Counted : Numbers!Minus(b, a)[k] = b[k] - a[k]
  BY <1>1 DEF Numbers!Minus
<1>3. Numbers!Plus(a, Numbers!Minus(b, a)) = [k \in Counted |-> a[k] + Numbers!Minus(b, a)[k]]
  BY <1>1 DEF Numbers!Plus
<1>4. \A k \in Counted : a[k] + Numbers!Minus(b, a)[k] = b[k]
  BY <1>1, <1>2
<1>5. Numbers!Plus(a, Numbers!Minus(b, a)) = [k \in Counted |-> b[k]]
  BY <1>3, <1>4
<1>6. b = [k \in Counted |-> b[k]]
  BY DEF Counts
<1>7. QED
  BY <1>5, <1>6

LEMMA SumOfRows ==
    ASSUME NEW s \in Seq(Row)
    PROVE  Numbers!MapThenSumSet(LAMBDA i : s[i].images, DOMAIN s) = Late(s, 0)
<1> DEFINE f == [i \in DOMAIN s |-> s[i].images]
<1>1. Numbers!MapThenSumSet(LAMBDA i : s[i].images, DOMAIN s) = SumOf(f, DOMAIN s)
  BY DEF SumOf, MapThenSumSet, MapThenFoldSet, Numbers!MapThenSumSet, Numbers!MapThenFoldSet
<1>2. DOMAIN s = 1 .. Len(s) /\ IsFiniteSet(1 .. Len(s))
  BY UpTo
<1>3. \A i \in 1 .. Len(s) : f[i] = LateImages(s, 0)[i]
  <2> SUFFICES ASSUME NEW i \in 1 .. Len(s) PROVE f[i] = LateImages(s, 0)[i]
    OBVIOUS
  <2>1. s[i] \in Row
    OBVIOUS
  <2>2. s[i].start \in Nat
    BY <2>1 DEF Row
  <2>3. QED
    BY <1>2, <2>2 DEF LateImages
<1> HIDE DEF f
<1>4. SumOf(f, 1 .. Len(s)) = SumOf(LateImages(s, 0), 1 .. Len(s))
  BY <1>2, <1>3, SumOfSame
<1>5. QED
  BY <1>1, <1>2, <1>4 DEF Late

LEMMA SameCardinality == \A S : Numbers!Cardinality(S) = Cardinality(S)
  BY DEF Numbers!Cardinality, Cardinality

LEMMA NewStageIsOne ==
    ASSUME ticks \in Nat
    PROVE  /\ Numbers!NewStage \in Stages /\ Numbers!Down \in Stages /\ Numbers!Down.phase = "down"
           /\ Numbers!NewStage.phase = "receiving"
           /\ Numbers!NewStage.open = Numbers!NoCounts /\ Numbers!NewStage.buffer = <<>> /\ Numbers!NewStage.since = ticks
           /\ Numbers!NewStage.emitted = Numbers!NoCounts /\ Numbers!NewStage.total = Numbers!NoCounts
           /\ Numbers!Down.open = Numbers!NoCounts /\ Numbers!Down.buffer = <<>> /\ Numbers!Down.since = 0
           /\ Numbers!Down.emitted = Numbers!NoCounts /\ Numbers!Down.total = Numbers!NoCounts
<1>1. Numbers!NoCounts \in Counts
  BY NoCountsAre
<1>2. <<>> \in Seq(Row)
  OBVIOUS
<1> HIDE DEF Numbers!NoCounts
<1>3. Numbers!NewStage \in Stages /\ Numbers!NewStage.phase = "receiving"
  BY <1>1, <1>2 DEF Numbers!NewStage, Stages
<1>4. Numbers!Down \in Stages /\ Numbers!Down.phase = "down" /\ Numbers!Down.since = 0
  BY <1>3 DEF Numbers!Down, Stages
<1>5. /\ Numbers!Down.open = Numbers!NewStage.open /\ Numbers!Down.buffer = Numbers!NewStage.buffer
      /\ Numbers!Down.emitted = Numbers!NewStage.emitted /\ Numbers!Down.total = Numbers!NewStage.total
  BY <1>3 DEF Numbers!Down, Stages
<1>6. QED
  BY <1>3, <1>4, <1>5 DEF Numbers!NewStage

LEMMA InitPruner == Numbers!Init => PrunerInv
<1> SUFFICES ASSUME Numbers!Init PROVE PrunerInv
  OBVIOUS
<1>1. ticks = 0 /\ tally = Numbers!NewStage /\ meters = Numbers!NoCounts /\ rows = <<>> /\ told = <<0>>
      /\ lost = 0 /\ twice = 0
  BY DEF Numbers!Init
<1>2. StageInv /\ MetersInv
  BY <1>1, NewStageIsOne, NoCountsAre DEF StageInv, MetersInv
<1>3. Sound(<<0>>, 0, <<>>, <<>>, 0, 0, 0, 0)
  <2>1. <<>> \in Seq(Row) /\ <<0>> \in Seq(Nat) /\ Len(<<0>>) = 1
    OBVIOUS
  <2>2. Booked(<<0>>, 0, <<>>, <<>>, 0, 0, 0, 0)
    BY <2>1 DEF Booked
  <2>3. \A a \in Int : Late(<<>>, a) = 0 /\ Since(<<0>>, a) \in Nat
    BY <2>1, LateOfNothing, SinceIsNat
  <2>4. Since(<<0>>, 0) = 0
    <3>1. <<0>> = Append(<<>>, 0) /\ <<>> \in Seq(Nat) /\ 1 .. Len(<<>>) = {}
      OBVIOUS
    <3>2. Since(Append(<<>>, 0), 0) = Since(<<>>, 0)
      BY <3>1, SincePasses, 0 \in Int
    <3>3. Since(<<>>, 0) = 0
      BY <3>1, SumOfEmpty DEF Since
    <3>4. QED
      BY <3>1, <3>2, <3>3
  <2>5. QED
    BY <2>2, <2>3, <2>4 DEF Sound, NotEarly
<1>4. Books
  BY <1>1, <1>3, NewStageIsOne, NoCountsAre DEF Books, Counted
<1>5. QED
  BY <1>2, <1>4 DEF PrunerInv
LEMMA RecordKeepsPruner ==
    ASSUME Numbers!StatisticsConstants, PrunerInv, NEW m \in Message, Numbers!Record(m)
    PROVE  PrunerInv'
<1> DEFINE total == Numbers!Plus(tally.total, m)
           open == Numbers!Plus(tally.open, m)
           logs == Numbers!Logs(m, total)
           ends == ticks - tally.since >= RecordInterval
           closed == [start |-> tally.since, end |-> ticks, images |-> open.images]
           buffer == IF ends THEN Append(tally.buffer, closed) ELSE tally.buffer
           due == ticks - tally.lastFlush >= FlushInterval /\ buffer # <<>>
<1>1. m \in Counts
  BY DEF Numbers!StatisticsConstants, Counts, Counted
<1>2. /\ tally \in Stages /\ tally.phase = "receiving" /\ ticks \in Nat
      /\ tally.total \in Counts /\ tally.open \in Counts /\ tally.emitted \in Counts
      /\ tally.buffer \in Seq(Row) /\ tally.since \in Nat /\ tally.lastLog \in Nat
  BY DEF PrunerInv, StageInv, Stages, Books, Sound, Booked, Numbers!Record
<1>3. /\ total \in Counts /\ \A k \in Counted : total[k] = tally.total[k] + m[k]
      /\ open \in Counts /\ \A k \in Counted : open[k] = tally.open[k] + m[k]
  BY <1>1, <1>2, PlusAdds
<1>4. tally' = [tally EXCEPT
               !.total = total,
               !.lastLog = IF logs THEN ticks ELSE @,
               !.emitted = IF logs THEN total ELSE @,
               !.open = IF ends THEN Numbers!Close(open) ELSE open,
               !.since = IF ends THEN ticks ELSE @,
               !.buffer = buffer,
               !.phase = IF due THEN "flushing" ELSE @]
  BY DEF Numbers!Record
<1>5. /\ IF logs THEN Numbers!Emit(total) ELSE UNCHANGED meters
      /\ told' = [told EXCEPT ![ticks + 1] = @ + m.images]
      /\ ticks' = ticks /\ rows' = rows /\ lost' = lost /\ twice' = twice
  BY DEF Numbers!Record
<1>6. closed \in Row
  BY <1>2, <1>3 DEF Row, Counts, Counted
<1>7. buffer \in Seq(Row)
  BY <1>2, <1>6
<1>8. Numbers!Close(open) \in Counts /\ Numbers!Close(open) = Numbers!NoCounts
  BY NoCountsAre DEF Numbers!Close
<1> HIDE DEF total, open, logs, ends, closed, buffer, due
<1>9. /\ tally'.total = total /\ tally'.emitted = (IF logs THEN total ELSE tally.emitted)
      /\ tally'.open = (IF ends THEN Numbers!Close(open) ELSE open)
      /\ tally'.since = (IF ends THEN ticks ELSE tally.since)
      /\ tally'.buffer = buffer /\ tally'.phase = (IF due THEN "flushing" ELSE tally.phase)
      /\ tally'.lastLog = (IF logs THEN ticks ELSE tally.lastLog)
  BY <1>2, <1>4 DEF Stages
<1>10. tally' \in Stages
  <2> DEFINE ll == IF logs THEN ticks ELSE tally.lastLog
             ee == IF logs THEN total ELSE tally.emitted
             oo == IF ends THEN Numbers!Close(open) ELSE open
             ss == IF ends THEN ticks ELSE tally.since
             pp == IF due THEN "flushing" ELSE tally.phase
  <2>1. ll \in Nat /\ ee \in Counts /\ oo \in Counts /\ ss \in Nat
    BY <1>2, <1>3, <1>8
  <2>2. pp \in {"receiving", "flushing", "stopping", "down"}
    BY <1>2
  <2>3. tally' = [tally EXCEPT !.total = total, !.lastLog = ll, !.emitted = ee, !.open = oo,
                              !.since = ss, !.buffer = buffer, !.phase = pp]
    BY <1>4
  <2> HIDE DEF ll, ee, oo, ss, pp
  <2>4. QED
    BY <1>2, <1>3, <1>7, <2>1, <2>2, <2>3 DEF Stages
<1>11. StageInv'
  BY <1>2, <1>9, <1>10 DEF StageInv
<1>12. MetersInv'
  <2>1. meters = tally.emitted /\ \A k \in Counted : tally.emitted[k] <= tally.total[k]
    BY DEF PrunerInv, MetersInv
  <2>2. CASE logs
    <3>1. meters' = Numbers!Plus(meters, Numbers!Minus(total, tally.emitted))
      BY <1>5, <2>2 DEF Numbers!Emit
    <3>2. meters' = total
      BY <1>2, <1>3, <2>1, <3>1, EmitsAll
    <3>3. \A k \in Counted : total[k] <= total[k]
      BY <1>3 DEF Counts
    <3>4. QED
      BY <1>9, <2>2, <3>2, <3>3 DEF MetersInv
  <2>3. CASE ~logs
    <3>1. \A k \in Counted : tally.emitted[k] <= total[k]
      <4>1. \A k \in Counted : tally.emitted[k] \in Nat /\ tally.total[k] \in Nat /\ m[k] \in Nat
        BY <1>1, <1>2 DEF Counts
      <4>2. QED
        BY <1>3, <2>1, <4>1
    <3>2. QED
      BY <1>5, <1>9, <2>1, <2>3, <3>1 DEF MetersInv
  <2>4. QED
    BY <2>2, <2>3
<1>13. Books'
  <2>1. m.images \in Nat /\ open.images = tally.open.images + m.images
    BY <1>1, <1>3 DEF Counts, Counted
  <2>2. Sound(told, ticks, rows, tally.buffer, tally.open.images, tally.since, twice, lost)
    BY DEF PrunerInv, Books
  <2>3. Sound(told', ticks, rows, tally.buffer, open.images, tally.since, twice, lost)
    BY <1>5, <2>1, <2>2, SoundHears
  <2>4. CASE ends
    <3>1. buffer = Append(tally.buffer, closed) /\ Numbers!NoCounts.images = 0
      BY <2>4 DEF buffer, Numbers!NoCounts
    <3>2. Sound(told', ticks, rows, buffer, 0, ticks, twice, lost)
      BY <2>3, <3>1, SoundCloses DEF closed
    <3>3. QED
      BY <1>5, <1>8, <1>9, <2>4, <3>1, <3>2 DEF Books
  <2>5. CASE ~ends
    <3>1. buffer = tally.buffer
      BY <2>5 DEF buffer
    <3>2. QED
      BY <1>5, <1>9, <2>3, <2>5, <3>1 DEF Books
  <2>6. QED
    BY <2>4, <2>5
<1>14. QED
  BY <1>11, <1>12, <1>13 DEF PrunerInv

\* A flush that leaves its phase and takes the buffer, or keeps it.
LEMMA BatchKeepsPruner ==
    ASSUME PrunerInv,
           \/ Numbers!WriteBatch \/ Numbers!WriteLastBatch \/ Numbers!Crash \/ Numbers!Start \/ Numbers!StopStage
           \/ \E committed \in BOOLEAN : Numbers!WriteBatchFails(committed)
    PROVE  PrunerInv'
<1>1. /\ tally \in Stages /\ ticks \in Nat /\ tally.buffer \in Seq(Row) /\ tally.open \in Counts
      /\ tally.open.images \in Nat
      /\ Sound(told, ticks, rows, tally.buffer, tally.open.images, tally.since, twice, lost)
      /\ meters = tally.emitted /\ \A k \in Counted : tally.emitted[k] <= tally.total[k]
  BY DEF PrunerInv, StageInv, MetersInv, Stages, Counts, Counted, Books, Sound, Booked
<1>2. <<>> \in Seq(Row)
  OBVIOUS
<1>3. Numbers!InMemory = tally.open.images + Late(tally.buffer, 0) /\ Late(tally.buffer, 0) \in Nat
  <2>1. Numbers!MapThenSumSet(LAMBDA i : tally.buffer[i].images, DOMAIN tally.buffer) = Late(tally.buffer, 0)
    BY <1>1, SumOfRows
  <2>2. Late(tally.buffer, 0) \in Nat
    BY <1>1, LateIsNat
  <2>3. QED
    BY <2>1, <2>2 DEF Numbers!InMemory
<1>4. CASE Numbers!WriteBatch
  <2>1. /\ tally' = [tally EXCEPT !.buffer = <<>>, !.lastFlush = ticks, !.phase = "receiving"]
        /\ meters' = meters /\ ticks' = ticks /\ rows' = rows \o tally.buffer
        /\ told' = told /\ lost' = lost /\ twice' = twice
    BY <1>4 DEF Numbers!WriteBatch, Numbers!Flushed, Numbers!history
  <2>2. /\ tally' \in Stages /\ tally'.phase = "receiving" /\ tally'.buffer = <<>>
        /\ tally'.open = tally.open /\ tally'.since = tally.since
        /\ tally'.emitted = tally.emitted /\ tally'.total = tally.total
    BY <1>1, <1>2, <2>1 DEF Stages
  <2>3. Sound(told, ticks, rows', <<>>, tally.open.images, tally.since, twice, lost)
    BY <1>1, <2>1, SoundWrites
  <2>4. QED
    BY <1>1, <2>1, <2>2, <2>3 DEF PrunerInv, StageInv, MetersInv, Books
<1>5. ASSUME NEW committed \in BOOLEAN, Numbers!WriteBatchFails(committed) PROVE PrunerInv'
  <2>1. /\ tally' = [tally EXCEPT !.phase = "receiving"] /\ meters' = meters /\ ticks' = ticks
        /\ told' = told /\ lost' = lost
        /\ rows' = IF committed THEN rows \o tally.buffer ELSE rows
        /\ twice' = IF committed THEN twice + Numbers!InMemory - tally.open.images ELSE twice
    BY <1>5 DEF Numbers!WriteBatchFails, Numbers!KeepBatch
  <2>2. /\ tally' \in Stages /\ tally'.phase = "receiving" /\ tally'.buffer = tally.buffer
        /\ tally'.open = tally.open /\ tally'.since = tally.since
        /\ tally'.emitted = tally.emitted /\ tally'.total = tally.total
    BY <1>1, <2>1 DEF Stages
  <2>3. Sound(told, ticks, rows', tally.buffer, tally.open.images, tally.since, twice', lost)
    <3>1. CASE committed
      <4>1. twice \in Nat
        BY <1>1 DEF Sound, Booked
      <4>2. twice' = twice + Late(tally.buffer, 0)
        BY <1>1, <1>3, <2>1, <3>1, <4>1
      <4>3. QED
        BY <1>1, <2>1, <3>1, <4>2, SoundRewrites
    <3>2. QED
      BY <1>1, <2>1, <3>1
  <2>4. QED
    BY <1>1, <2>1, <2>2, <2>3 DEF PrunerInv, StageInv, MetersInv, Books
<1>6. CASE Numbers!WriteLastBatch
  <2>1. /\ tally' = Numbers!Down /\ meters' = Numbers!NoCounts /\ ticks' = ticks /\ rows' = rows \o tally.buffer
        /\ told' = told /\ lost' = lost + tally.open.images /\ twice' = twice
    BY <1>6 DEF Numbers!WriteLastBatch
  <2>2. Sound(told, ticks, rows', <<>>, tally.open.images, tally.since, twice, lost)
    BY <1>1, <2>1, SoundWrites
  <2>3. Late(<<>>, 0) = 0 /\ tally.open.images + 0 = tally.open.images /\ 0 <= ticks
    BY <1>1, LateOfNothing
  <2>4. Sound(told, ticks, rows', <<>>, 0, 0, twice, lost + (tally.open.images + Late(<<>>, 0)))
    BY <2>2, <2>3, SoundForgets
  <2>5. Sound(told, ticks, rows', <<>>, 0, 0, twice, lost')
    BY <2>1, <2>3, <2>4
  <2>6. Books'
    BY <1>1, <2>1, <2>5, NewStageIsOne DEF Books, Numbers!NoCounts
  <2>7. QED
    BY <1>1, <2>1, <2>6, NewStageIsOne, NoCountsAre DEF PrunerInv, StageInv, MetersInv
<1>7. CASE Numbers!Crash
  <2>1. /\ tally' = Numbers!Down /\ meters' = Numbers!NoCounts /\ ticks' = ticks /\ rows' = rows
        /\ told' = told /\ lost' = lost + Numbers!InMemory /\ twice' = twice
    BY <1>7 DEF Numbers!Crash
  <2>2. Sound(told, ticks, rows, <<>>, 0, 0, twice, lost + (tally.open.images + Late(tally.buffer, 0)))
    BY <1>1, SoundForgets
  <2>3. Books'
    BY <1>1, <1>3, <2>1, <2>2, NewStageIsOne DEF Books, Numbers!NoCounts
  <2>4. QED
    BY <1>1, <2>1, <2>3, NewStageIsOne, NoCountsAre DEF PrunerInv, StageInv, MetersInv
<1>8. CASE Numbers!Start
  <2>1. /\ tally.phase = "down" /\ tally' = Numbers!NewStage /\ meters' = meters /\ ticks' = ticks
        /\ rows' = rows /\ told' = told /\ lost' = lost /\ twice' = twice
    BY <1>8 DEF Numbers!Start, Numbers!history
  <2>2. tally.open.images = 0 /\ tally.buffer = <<>>
    BY <2>1 DEF PrunerInv, StageInv, Numbers!NoCounts
  <2>3. Late(<<>>, 0) = 0 /\ 0 + 0 = 0 /\ lost \in Nat
    BY <1>1, LateOfNothing DEF Sound, Booked
  <2>4. Sound(told, ticks, rows, <<>>, 0, ticks, twice, lost + (0 + Late(<<>>, 0)))
    BY <1>1, <2>2, SoundForgets
  <2>5. Sound(told, ticks, rows, <<>>, 0, ticks, twice, lost)
    BY <2>3, <2>4
  <2>6. Books'
    BY <1>1, <2>1, <2>5, NewStageIsOne DEF Books, Numbers!NoCounts
  <2>7. meters = Numbers!NoCounts
    BY <1>1, <2>1 DEF PrunerInv, StageInv
  <2>8. QED
    BY <1>1, <2>1, <2>6, <2>7, NewStageIsOne, NoCountsAre DEF PrunerInv, StageInv, MetersInv
<1>9. CASE Numbers!StopStage
  <2>1. /\ tally' = [tally EXCEPT !.phase = IF @ = "receiving" THEN "stopping" ELSE @]
        /\ tally.phase = "receiving" /\ meters' = meters /\ ticks' = ticks /\ rows' = rows
        /\ told' = told /\ lost' = lost /\ twice' = twice
    BY <1>9 DEF Numbers!StopStage, Numbers!history
  <2>2. /\ tally' \in Stages /\ tally'.phase = "stopping" /\ tally'.buffer = tally.buffer
        /\ tally'.open = tally.open /\ tally'.since = tally.since
        /\ tally'.emitted = tally.emitted /\ tally'.total = tally.total
    BY <1>1, <2>1 DEF Stages
  <2>3. QED
    BY <1>1, <2>1, <2>2 DEF PrunerInv, StageInv, MetersInv, Books
<1>10. QED
  BY <1>4, <1>5, <1>6, <1>7, <1>8, <1>9
LEMMA PassKeepsPruner ==
    ASSUME PrunerInv, Numbers!Pass
    PROVE  PrunerInv'
<1>1. /\ tally' = tally /\ meters' = meters /\ ticks' = ticks + 1 /\ rows' = rows
      /\ told' = Append(told, 0) /\ lost' = lost /\ twice' = twice
  BY DEF Numbers!Pass, Numbers!pruner
<1>2. Sound(told, ticks, rows, tally.buffer, tally.open.images, tally.since, twice, lost)
  BY DEF PrunerInv, Books
<1>3. Sound(told', ticks', rows, tally.buffer, tally.open.images, tally.since, twice, lost)
  BY <1>1, <1>2, SoundPasses
<1>4. QED
  BY <1>1, <1>3 DEF PrunerInv, StageInv, MetersInv, Books

PublisherStep ==
    \/ \E entries \in Lists : Numbers!Compute(entries)
    \/ Numbers!Examine \/ Numbers!Replace \/ Numbers!SetRefreshedAt \/ Numbers!WriteStatistics \/ Numbers!CycleFails

ReaderStep ==
    \/ Numbers!AskHome \/ Numbers!ReadList \/ Numbers!AnswerHome \/ Numbers!VisitFails
    \/ \E known \in BOOLEAN, limit \in {None, 1, MaxEntries + 1} : Numbers!GetFeedSkeleton(known, limit)

LEMMA OthersLeavePruner ==
    ASSUME PublisherStep \/ ReaderStep \/ UNCHANGED Numbers!vars
    PROVE  UNCHANGED <<ticks, tally, meters, rows, told, lost, twice>>
<1>1. CASE PublisherStep
  BY <1>1 DEF PublisherStep, Numbers!Compute, Numbers!Examine, Numbers!Replace, Numbers!SetRefreshedAt, Numbers!WriteStatistics, Numbers!CycleFails,
              Numbers!pruner, Numbers!history
<1>2. CASE ReaderStep
  BY <1>2 DEF ReaderStep, Numbers!AskHome, Numbers!ReadList, Numbers!AnswerHome, Numbers!VisitFails, Numbers!GetFeedSkeleton, Numbers!pruner, Numbers!history
<1>3. CASE UNCHANGED Numbers!vars
  BY <1>3 DEF Numbers!vars, Numbers!pruner, Numbers!history
<1>4. QED
  BY <1>1, <1>2, <1>3

LEMMA NextPruner ==
    ASSUME Numbers!StatisticsConstants, PrunerInv, [Numbers!Next]_(Numbers!vars)
    PROVE  PrunerInv'
<1>1. CASE Numbers!Pass
  BY <1>1, PassKeepsPruner
<1>2. CASE \E m \in Message : Numbers!Record(m)
  BY <1>2, RecordKeepsPruner
<1>3. CASE \/ Numbers!WriteBatch \/ Numbers!WriteLastBatch \/ Numbers!Crash \/ Numbers!Start \/ Numbers!StopStage
           \/ \E committed \in BOOLEAN : Numbers!WriteBatchFails(committed)
  BY <1>3, BatchKeepsPruner
<1>4. CASE PublisherStep \/ ReaderStep \/ UNCHANGED Numbers!vars
  <2>1. UNCHANGED <<ticks, tally, meters, rows, told, lost, twice>>
    BY <1>4, OthersLeavePruner
  <2>2. QED
    BY <2>1 DEF PrunerInv, StageInv, MetersInv, Books
<1>5. QED
  BY <1>1, <1>2, <1>3, <1>4 DEF Numbers!Next, PublisherStep, ReaderStep

--------------------------------------------------------------------------------
(* The published figures: what a turn has examined, and what it wrote.     *)

Cycles == [phase : {"checked", "counted", "replaced", "stamped"}, pub : Nat, at : Nat,
           entries : Lists, examined : Nat, until : Nat]

\* A count of images is of images seen from the start of the window to the time
\* it was made.
Backed(examined, start, until) ==
    until <= ticks /\ examined <= Seen(told, start, until) + twice

CycleInv ==
    turn # None =>
        /\ turn \in Cycles
        /\ turn.phase # "checked" => Backed(turn.examined, turn.at - Window, turn.until)

FiguresInv ==
    stats # None => stats \in Numbers!Figures /\ Backed(stats.examined, stats.start, stats.until)

\* Publications are numbered, and only a complete one changes the figures.
NumberInv ==
    /\ started \in Nat /\ whole \in Nat /\ whole <= started
    /\ turn # None => turn.pub = started /\ whole < started
    /\ stats = None => whole = 0
    /\ stats # None => stats.pub = whole

\* The predicted waits begin after the publication.
WaitsInv ==
    stats # None /\ stats.prediction # None =>
        \A q \in DOMAIN Numbers!Quantile : stats.prediction[q] > Numbers!Milli * stats.end

PublishedInv == CycleInv /\ FiguresInv /\ NumberInv /\ WaitsInv

\* A request has read no figures before it has the list.
VisitInv ==
    visit # None =>
        /\ visit.stats = None
        /\ visit.phase = "listed" => visit.done \in Nat /\ visit.done <= whole

Inv == PrunerInv /\ PublishedInv /\ VisitInv /\ Numbers!NumbersAreFresh

LEMMA InitInv == Numbers!StatisticsConstants /\ Numbers!Init => Inv
<1> SUFFICES ASSUME Numbers!StatisticsConstants, Numbers!Init PROVE Inv
  OBVIOUS
<1>1. /\ stats = None /\ turn = None /\ visit = None /\ answer = [kind |-> "none"]
      /\ started = 0 /\ whole = 0
  BY DEF Numbers!Init
<1>2. PublishedInv
  BY <1>1 DEF PublishedInv, CycleInv, FiguresInv, NumberInv, WaitsInv
<1>3. VisitInv /\ Numbers!NumbersAreFresh
  BY <1>1 DEF VisitInv, Numbers!NumbersAreFresh
<1>4. QED
  BY <1>2, <1>3, InitPruner DEF Inv

\* What the stage is told later, and what is written twice, takes nothing from
\* what was seen.
LEMMA BackedStays ==
    ASSUME Numbers!StatisticsConstants, PrunerInv, [Numbers!Next]_(Numbers!vars),
           NEW examined \in Nat, NEW start \in Int, NEW until \in Nat,
           Backed(examined, start, until)
    PROVE  until <= ticks' /\ examined <= Seen(told', start, until) + twice'
<1>1. /\ told \in Seq(Nat) /\ ticks \in Nat /\ Len(told) = ticks + 1 /\ twice \in Nat
      /\ until <= ticks /\ examined <= Seen(told, start, until) + twice
  BY DEF PrunerInv, Books, Sound, Booked, Backed
<1>2. /\ told' \in Seq(Nat) /\ Len(told') >= Len(told) /\ ticks' \in Nat /\ ticks <= ticks'
      /\ \A t \in 1 .. Len(told) : told[t] <= told'[t]
  <2>1. CASE Numbers!Pass
    BY <1>1, <2>1 DEF Numbers!Pass
  <2>2. ASSUME NEW m \in Message, Numbers!Record(m)
        PROVE  /\ told' \in Seq(Nat) /\ Len(told') >= Len(told) /\ ticks' \in Nat /\ ticks <= ticks'
               /\ \A t \in 1 .. Len(told) : told[t] <= told'[t]
    <3>1. told' = [told EXCEPT ![ticks + 1] = @ + m.images] /\ ticks' = ticks
      BY <2>2 DEF Numbers!Record
    <3>2. m.images \in Nat
      BY DEF Numbers!StatisticsConstants
    <3>3. QED
      BY <1>1, <3>1, <3>2
  <2>3. CASE \/ Numbers!WriteBatch \/ Numbers!WriteLastBatch \/ Numbers!Crash \/ Numbers!Start \/ Numbers!StopStage
             \/ \E committed \in BOOLEAN : Numbers!WriteBatchFails(committed)
    <3>1. told' = told /\ ticks' = ticks
      BY <2>3 DEF Numbers!WriteBatch, Numbers!WriteLastBatch, Numbers!Crash, Numbers!Start, Numbers!StopStage, Numbers!WriteBatchFails, Numbers!history
    <3>2. QED
      BY <1>1, <3>1
  <2>4. CASE PublisherStep \/ ReaderStep \/ UNCHANGED Numbers!vars
    <3>1. told' = told /\ ticks' = ticks
      BY <2>4, OthersLeavePruner
    <3>2. QED
      BY <1>1, <3>1
  <2>5. QED
    BY <2>1, <2>2, <2>3, <2>4 DEF Numbers!Next, PublisherStep, ReaderStep
<1>3. twice' \in Nat /\ twice <= twice'
  <2>1. twice' \in Nat
    BY NextPruner DEF PrunerInv, Books, Sound, Booked
  <2>2. CASE \E committed \in BOOLEAN : Numbers!WriteBatchFails(committed)
    <3>1. /\ tally.buffer \in Seq(Row) /\ tally.open.images \in Nat
      BY DEF PrunerInv, Books, Sound, Booked
    <3>2. Numbers!InMemory = tally.open.images + Late(tally.buffer, 0) /\ Late(tally.buffer, 0) \in Nat
      <4>1. Numbers!MapThenSumSet(LAMBDA i : tally.buffer[i].images, DOMAIN tally.buffer) = Late(tally.buffer, 0)
        BY <3>1, SumOfRows
      <4>2. Late(tally.buffer, 0) \in Nat
        BY <3>1, LateIsNat, 0 \in Int
      <4>3. QED
        BY <4>1, <4>2 DEF Numbers!InMemory
    <3>3. twice' = twice \/ twice' = twice + Numbers!InMemory - tally.open.images
      BY <2>2 DEF Numbers!WriteBatchFails
    <3>4. QED
      BY <1>1, <2>1, <3>1, <3>2, <3>3
  <2>3. CASE ~\E committed \in BOOLEAN : Numbers!WriteBatchFails(committed)
    <3>1. twice' = twice
      <4>1. CASE PublisherStep \/ ReaderStep \/ UNCHANGED Numbers!vars
        BY <4>1, OthersLeavePruner
      <4>2. CASE \/ Numbers!Pass \/ Numbers!WriteBatch \/ Numbers!WriteLastBatch \/ Numbers!Crash \/ Numbers!Start \/ Numbers!StopStage
                 \/ \E m \in Message : Numbers!Record(m)
        BY <4>2 DEF Numbers!Pass, Numbers!WriteBatch, Numbers!WriteLastBatch, Numbers!Crash, Numbers!Start, Numbers!StopStage, Numbers!Record, Numbers!history
      <4>3. QED
        BY <2>3, <4>1, <4>2 DEF Numbers!Next, PublisherStep, ReaderStep
    <3>2. QED
      BY <1>1, <3>1
  <2>4. QED
    BY <2>2, <2>3
<1>4. /\ Seen(told, start, until) \in Nat /\ Seen(told', start, until) \in Nat
      /\ Seen(told, start, until) <= Seen(told', start, until)
  BY <1>1, <1>2, SeenGrows
<1>5. /\ until <= ticks /\ examined <= Seen(told, start, until) + twice
      /\ ticks \in Nat /\ ticks' \in Nat /\ twice \in Nat /\ ticks <= ticks'
  BY <1>1, <1>2
<1>6. until <= ticks'
  BY ONLY <1>5, until \in Nat
<1>7. examined <= Seen(told', start, until) + twice'
  BY ONLY <1>3, <1>4, <1>5, examined \in Nat
<1>8. QED
  BY <1>6, <1>7
\* The rows of a window count no more than the rows from its start on.
LEMMA ExaminedIsLate ==
    ASSUME rows \in Seq(Row), NEW start \in Int, NEW end \in Int
    PROVE  Numbers!Examined(start, end) \in Nat /\ Numbers!Examined(start, end) <= Late(rows, start)
<1> DEFINE S == 1 .. Len(rows)
           Q == {i \in DOMAIN rows : Numbers!InWindow(rows[i], start, end)}
           f == [i \in DOMAIN rows |-> rows[i].images]
           h == [i \in S |-> IF i \in Q THEN f[i] ELSE 0]
           g == LateImages(rows, start)
<1>1. Numbers!Examined(start, end) = SumOf(f, Q)
  BY DEF Numbers!Examined, SumOf, MapThenSumSet, MapThenFoldSet, Numbers!MapThenSumSet, Numbers!MapThenFoldSet
<1>2. DOMAIN rows = S /\ IsFiniteSet(S)
  BY UpTo
<1>3. Q \in SUBSET S
  BY <1>2
<1>4. \A i \in S : rows[i] \in Row
  OBVIOUS
<1>5. \A i \in S : f[i] \in Nat /\ f[i] = rows[i].images
  BY <1>2, <1>4 DEF Row
<1>6. \A i \in Q : f[i] = h[i] /\ f[i] \in Nat
  BY <1>3, <1>5
<1>7. \A i \in S \ Q : h[i] = 0
  OBVIOUS
<1>8. \A i \in S : g[i] \in Nat /\ h[i] \in Nat
  BY <1>5, LateImagesAre
<1>9. \A i \in S : h[i] <= g[i]
  <2> SUFFICES ASSUME NEW i \in S PROVE h[i] <= g[i]
    OBVIOUS
  <2>1. rows[i].start \in Nat
    BY <1>4 DEF Row
  <2>2. CASE i \in Q
    <3>1. rows[i].start >= start
      BY <2>1, <2>2 DEF Numbers!InWindow
    <3>2. g[i] = rows[i].images /\ h[i] = rows[i].images
      BY <1>5, <2>2, <3>1 DEF LateImages
    <3>3. PICK x \in Nat : x = g[i]
      BY <1>8
    <3>4. h[i] = x /\ x <= x
      BY <3>2, <3>3
    <3>5. QED
      BY <3>3, <3>4
  <2>3. CASE i \notin Q
    BY <1>8, <2>3
  <2>4. QED
    BY <2>2, <2>3
<1>10. Late(rows, start) = SumOf(g, S)
  BY DEF Late
<1> HIDE DEF S, Q, f, g, h
<1>11. SumOf(f, Q) = SumOf(h, S)
  BY ONLY <1>2, <1>3, <1>6, <1>7, SumOfOfPart
<1>12. SumOf(h, S) \in Nat
  BY <1>2, <1>8, SumOfIsNat
<1>13. SumOf(h, S) <= SumOf(g, S)
  BY <1>2, <1>8, <1>9, SumOfLeq
<1>14. QED
  BY <1>1, <1>10, <1>11, <1>12, <1>13

LEMMA ExaminedIsBacked ==
    ASSUME PrunerInv, NEW start \in Int, NEW end \in Int
    PROVE  Numbers!Examined(start, end) \in Nat /\ Backed(Numbers!Examined(start, end), start, ticks)
<1>1. /\ Booked(told, ticks, rows, tally.buffer, tally.open.images, tally.since, twice, lost)
      /\ NotEarly(told, rows, tally.buffer, tally.open.images, tally.since, twice, start)
  BY DEF PrunerInv, Books, Sound
<1>2. /\ Since(told, start) \in Nat /\ Late(rows, start) \in Nat /\ Late(tally.buffer, start) \in Nat
      /\ tally.open.images \in Nat /\ twice \in Nat /\ ticks \in Nat
  BY <1>1, BookedTypes
<1>3. Late(rows, start) <= Since(told, start) + twice
  BY <1>1, <1>2 DEF NotEarly
<1>4. Since(told, start) = Seen(told, start, ticks)
  BY <1>1, SinceIsSeen DEF Booked
<1>5. Numbers!Examined(start, end) \in Nat /\ Numbers!Examined(start, end) <= Late(rows, start)
  BY <1>1, ExaminedIsLate DEF Booked
<1>6. PICK x \in Nat : x = Numbers!Examined(start, end)
  BY <1>5
<1>7. x <= Seen(told, start, ticks) + twice
  BY <1>2, <1>3, <1>4, <1>5, <1>6
<1>8. ticks <= ticks
  BY <1>2
<1>9. QED
  BY <1>6, <1>7, <1>8 DEF Backed

LEMMA QuantilesAre ==
    /\ DOMAIN Numbers!Quantile = {"lower", "middle", "upper"}
    /\ \A q \in DOMAIN Numbers!Quantile : Numbers!Quantile[q] \in Nat /\ Numbers!Quantile[q] >= Numbers!Quantile.lower
    /\ Numbers!Quantile.lower = 25
  BY DEF Numbers!Quantile

\* The shortest wait is not rounded to nothing.
LEMMA WaitIsPositive ==
    ASSUME NEW n \in Nat, n > 0, NEW k \in Nat, NEW w \in Nat, n <= 25 * w, k >= 25
    PROVE  k * w \in Nat /\ (k * w) \div n \in Nat /\ (k * w) \div n > 0
<1>1. PICK p \in Nat : p = k * w
  OBVIOUS
<1>2. n <= p
  <2>1. 25 * w <= k * w
    OBVIOUS
  <2>2. QED
    BY <1>1, <2>1
<1>3. p \div n \in Nat /\ p \div n > 0
  <2>1. PICK d \in Int : d = p \div n
    OBVIOUS
  <2>2. n * d <= p /\ p < n * (d + 1)
    BY <2>1
  <2>3. d > 0
    <3>1. ASSUME d <= 0 PROVE FALSE
      <4>1. d + 1 <= 1
        BY <3>1
      <4>2. n * (d + 1) <= n * 1
        BY <4>1
      <4>3. QED
        BY <1>2, <2>2, <4>2
    <3>2. QED
      BY <3>1
  <2>4. QED
    BY <2>1, <2>3
<1>4. QED
  BY <1>1, <1>3

LEMMA Predicted ==
    ASSUME NEW at \in Nat, NEW start \in Int, NEW n \in Nat, Window \in Nat \ {0},
           start = at - Window, n <= Numbers!Quantile.lower * Window
    PROVE  /\ Numbers!PredictNextMatch(at, start, n) \in {None} \cup [DOMAIN Numbers!Quantile -> Int]
           /\ Numbers!PredictNextMatch(at, start, n) # None =>
                \A q \in DOMAIN Numbers!Quantile : Numbers!PredictNextMatch(at, start, n)[q] > Numbers!Milli * at
<1> DEFINE wait(q) == (Numbers!Quantile[q] * (at - start)) \div n
<1>1. CASE n = 0
  BY <1>1 DEF Numbers!PredictNextMatch
<1>2. CASE n # 0
  <2>1. n > 0 /\ at - start = Window /\ ~(at <= start) /\ Numbers!Milli * at \in Nat
    BY <1>2 DEF Numbers!Milli
  <2>2. ASSUME NEW q \in DOMAIN Numbers!Quantile PROVE wait(q) \in Nat /\ wait(q) > 0
    <3>1. PICK k \in Nat : k = Numbers!Quantile[q] /\ k >= 25
      BY QuantilesAre
    <3>2. n <= 25 * Window /\ Window \in Nat
      BY QuantilesAre
    <3>3. (k * Window) \div n \in Nat /\ (k * Window) \div n > 0
      BY <2>1, <3>1, <3>2, WaitIsPositive
    <3>4. QED
      BY <2>1, <3>1, <3>3
  <2>3. Numbers!PredictNextMatch(at, start, n) = [q \in DOMAIN Numbers!Quantile |-> Numbers!Milli * at + wait(q)]
    BY <1>2, <2>1 DEF Numbers!PredictNextMatch
  <2> HIDE DEF wait
  <2>4. \A q \in DOMAIN Numbers!Quantile : Numbers!Milli * at + wait(q) \in Int /\ Numbers!Milli * at + wait(q) > Numbers!Milli * at
    BY <2>1, <2>2
  <2>5. QED
    BY <2>3, <2>4
<1>3. QED
  BY <1>1, <1>2

LEMMA LiveAreCounted ==
    ASSUME Numbers!StatisticsConstants, NEW l \in Lists
    PROVE  /\ Cardinality({i \in DOMAIN l : l[i].live}) \in Nat /\ Len(l) \in Nat
           /\ Cardinality({i \in DOMAIN l : l[i].live}) <= Numbers!Quantile.lower * Window
<1> DEFINE n == Len(l)
           S == {i \in DOMAIN l : l[i].live}
<1>1. l \in Seq(Numbers!Range(l)) /\ n <= Numbers!Quantile.lower * Window /\ Window \in Nat
  BY DEF Numbers!StatisticsConstants
<1>2. n \in Nat /\ DOMAIN l = 1 .. n
  BY <1>1
<1>3. S \subseteq 1 .. n
  BY <1>2
<1> HIDE DEF n, S
<1>4. 1 \in Int /\ n \in Int
  BY <1>2
<1>5. IsFiniteSet(1 .. n) /\ Cardinality(1 .. n) = n
  BY <1>2, <1>4, FS_Interval
<1>6. Cardinality(S) \in Nat /\ Cardinality(S) <= n
  BY <1>3, <1>5, FS_Subset, FS_CardinalityType
<1>7. Numbers!Quantile.lower * Window \in Nat
  BY <1>1, QuantilesAre
<1>8. QED
  BY <1>1, <1>2, <1>6, <1>7 DEF n, S
\* The stage's steps and the reader's leave what the publisher keeps.
LEMMA OthersLeavePublished ==
    ASSUME Numbers!Next \/ UNCHANGED Numbers!vars, ~PublisherStep
    PROVE  UNCHANGED <<turn, started, stats, whole>>
<1>1. CASE ReaderStep \/ Numbers!Pass \/ UNCHANGED Numbers!vars
  BY <1>1 DEF ReaderStep, Numbers!AskHome, Numbers!ReadList, Numbers!AnswerHome, Numbers!VisitFails, Numbers!GetFeedSkeleton, Numbers!Pass, Numbers!publisher,
              Numbers!redis, Numbers!history, Numbers!vars
<1>2. CASE \E m \in Message : Numbers!Record(m)
  BY <1>2 DEF Numbers!Record, Numbers!publisher, Numbers!redis
<1>3. CASE Numbers!WriteBatch \/ Numbers!WriteLastBatch \/ Numbers!Crash \/ Numbers!Start \/ Numbers!StopStage
  BY <1>3 DEF Numbers!WriteBatch, Numbers!WriteLastBatch, Numbers!Crash, Numbers!Start, Numbers!StopStage, Numbers!publisher, Numbers!redis, Numbers!history
<1>4. CASE \E committed \in BOOLEAN : Numbers!WriteBatchFails(committed)
  BY <1>4 DEF Numbers!WriteBatchFails, Numbers!publisher, Numbers!redis
<1>5. QED
  BY <1>1, <1>2, <1>3, <1>4 DEF Numbers!Next, PublisherStep, ReaderStep

LEMMA NextPublished ==
    ASSUME Numbers!StatisticsConstants, PrunerInv, PublishedInv, [Numbers!Next]_(Numbers!vars)
    PROVE  PublishedInv'
<1> DEFINE Kept(e, st, u) == u <= ticks' /\ e <= Seen(told', st, u) + twice'
<1>1. Window \in Nat \ {0} /\ ticks \in Nat /\ None \notin Numbers!Figures
  BY DEF Numbers!StatisticsConstants, PrunerInv, Books, Sound, Booked
<1>2. turn # None => /\ turn \in Cycles /\ turn.pub = started /\ whole < started
                      /\ turn.at \in Nat /\ turn.at - Window \in Int
                      /\ turn.examined \in Nat /\ turn.until \in Nat
  BY <1>1 DEF PublishedInv, CycleInv, NumberInv, Cycles
<1>3. started \in Nat /\ whole \in Nat /\ whole <= started
  BY DEF PublishedInv, NumberInv
<1>4. turn # None /\ turn.phase # "checked" => Kept(turn.examined, turn.at - Window, turn.until)
  <2> SUFFICES ASSUME turn # None, turn.phase # "checked"
               PROVE  Kept(turn.examined, turn.at - Window, turn.until)
    OBVIOUS
  <2>1. PICK e \in Nat, st \in Int, u \in Nat :
            e = turn.examined /\ st = turn.at - Window /\ u = turn.until
    BY <1>2
  <2>2. Backed(e, st, u)
    BY <2>1 DEF PublishedInv, CycleInv
  <2>3. Kept(e, st, u)
    BY <2>2, BackedStays
  <2>4. QED
    BY <2>1, <2>3
<1>5. stats # None => stats \in Numbers!Figures /\ Kept(stats.examined, stats.start, stats.until)
  <2> SUFFICES ASSUME stats # None
               PROVE  stats \in Numbers!Figures /\ Kept(stats.examined, stats.start, stats.until)
    OBVIOUS
  <2>1. stats \in Numbers!Figures /\ Backed(stats.examined, stats.start, stats.until)
    BY DEF PublishedInv, FiguresInv
  <2>2. PICK e \in Nat, st \in Int, u \in Nat :
            e = stats.examined /\ st = stats.start /\ u = stats.until
    BY <2>1 DEF Numbers!Figures
  <2>3. Kept(e, st, u)
    BY <2>1, <2>2, BackedStays
  <2>4. QED
    BY <2>1, <2>2, <2>3
<1>6. UNCHANGED stats => FiguresInv'
  BY <1>5 DEF FiguresInv, Backed
<1>7. UNCHANGED stats => WaitsInv'
  BY DEF PublishedInv, WaitsInv
<1> HIDE DEF Kept
<1>8. CASE ~PublisherStep
  <2>1. UNCHANGED <<turn, started, stats, whole>>
    BY <1>8, OthersLeavePublished
  <2>2. CycleInv'
    BY <1>2, <1>4, <2>1 DEF CycleInv, Backed, Kept
  <2>3. NumberInv'
    BY <2>1 DEF PublishedInv, NumberInv
  <2>4. QED
    BY <1>6, <1>7, <2>1, <2>2, <2>3 DEF PublishedInv
<1>9. ASSUME NEW entries \in Lists, Numbers!Compute(entries) PROVE PublishedInv'
  <2>1. /\ turn' = [phase |-> "checked", pub |-> started + 1, at |-> ticks, entries |-> entries,
                     examined |-> 0, until |-> 0]
        /\ started' = started + 1 /\ stats' = stats /\ whole' = whole
    BY <1>9 DEF Numbers!Compute, Numbers!redis, Numbers!history
  <2>2. CycleInv'
    BY <1>1, <1>3, <2>1 DEF CycleInv, Cycles
  <2>3. NumberInv'
    BY <1>3, <2>1 DEF PublishedInv, NumberInv
  <2>4. QED
    BY <1>6, <1>7, <2>1, <2>2, <2>3 DEF PublishedInv
<1>10. CASE Numbers!Examine
  <2> DEFINE ex == Numbers!Examined(turn.at - Window, turn.at)
  <2>1. /\ turn # None
        /\ turn' = [turn EXCEPT !.phase = "counted", !.until = ticks, !.examined = ex]
        /\ ticks' = ticks /\ told' = told /\ twice' = twice
        /\ started' = started /\ stats' = stats /\ whole' = whole
    BY <1>10 DEF Numbers!Examine, Numbers!redis, Numbers!history
  <2>2. PICK st \in Int, a \in Int : st = turn.at - Window /\ a = turn.at
    BY <1>2, <2>1
  <2>3. ex \in Nat /\ Backed(ex, st, ticks)
    BY <2>2, ExaminedIsBacked
  <2> HIDE DEF ex
  <2>4. /\ turn' \in Cycles /\ turn'.pub = turn.pub /\ turn'.at = turn.at
        /\ turn'.until = ticks /\ turn'.examined = ex
    BY <1>1, <1>2, <2>1, <2>3 DEF Cycles
  <2>5. CycleInv'
    BY <2>1, <2>2, <2>3, <2>4 DEF CycleInv, Backed
  <2>6. NumberInv'
    BY <1>2, <2>1, <2>4 DEF PublishedInv, NumberInv
  <2>7. QED
    BY <1>6, <1>7, <2>1, <2>5, <2>6 DEF PublishedInv
<1>11. CASE Numbers!Replace \/ Numbers!SetRefreshedAt
  <2>1. PICK ph \in {"replaced", "stamped"} : turn' = [turn EXCEPT !.phase = ph]
    BY <1>11 DEF Numbers!Replace, Numbers!SetRefreshedAt
  <2>2. /\ turn # None /\ turn.phase # "checked"
        /\ ticks' = ticks /\ told' = told /\ twice' = twice
        /\ started' = started /\ stats' = stats /\ whole' = whole
    BY <1>11 DEF Numbers!Replace, Numbers!SetRefreshedAt, Numbers!history
  <2>3. /\ turn' \in Cycles /\ turn'.pub = turn.pub /\ turn'.at = turn.at
        /\ turn'.until = turn.until /\ turn'.examined = turn.examined
    BY <1>2, <2>1, <2>2 DEF Cycles
  <2>4. CycleInv'
    BY <1>4, <2>2, <2>3 DEF CycleInv, Backed, Kept
  <2>5. NumberInv'
    BY <1>2, <2>2, <2>3 DEF PublishedInv, NumberInv
  <2>6. QED
    BY <1>6, <1>7, <2>2, <2>4, <2>5 DEF PublishedInv
<1>12. CASE Numbers!WriteStatistics
  <2> DEFINE n == Cardinality({i \in DOMAIN turn.entries : turn.entries[i].live})
             pr == Numbers!PredictNextMatch(turn.at, turn.at - Window, n)
  <2>1. /\ turn # None /\ turn.phase = "stamped" /\ turn' = None
        /\ stats' = Numbers!ListStatistics /\ whole' = turn.pub
        /\ ticks' = ticks /\ told' = told /\ twice' = twice /\ started' = started
    BY <1>12 DEF Numbers!WriteStatistics
  <2>2. /\ n \in Nat /\ Len(turn.entries) \in Nat /\ n <= Numbers!Quantile.lower * Window
    BY <1>2, <2>1, LiveAreCounted DEF Cycles
  <2>3. /\ pr \in {None} \cup [DOMAIN Numbers!Quantile -> Int]
        /\ pr # None => \A q \in DOMAIN Numbers!Quantile : pr[q] > Numbers!Milli * turn.at
    BY <1>1, <1>2, <2>1, <2>2, Predicted
  <2>4. stats' = [pub |-> turn.pub, start |-> turn.at - Window, end |-> turn.at,
                  until |-> turn.until, examined |-> turn.examined,
                  found |-> Len(turn.entries), exists |-> n, prediction |-> pr]
    BY <2>1, SameCardinality DEF Numbers!ListStatistics
  <2> HIDE DEF n, pr
  <2>5. /\ stats' \in Numbers!Figures /\ stats'.pub = turn.pub /\ stats'.start = turn.at - Window
        /\ stats'.end = turn.at /\ stats'.until = turn.until
        /\ stats'.examined = turn.examined /\ stats'.prediction = pr
    BY <1>2, <1>3, <2>1, <2>2, <2>3, <2>4 DEF Numbers!Figures
  <2>6. FiguresInv'
    BY <1>4, <2>1, <2>5 DEF FiguresInv, Backed, Kept
  <2>7. WaitsInv'
    BY <2>3, <2>5 DEF WaitsInv
  <2>8. NumberInv'
    BY <1>1, <1>2, <1>3, <2>1, <2>5 DEF NumberInv
  <2>9. QED
    BY <2>1, <2>6, <2>7, <2>8 DEF PublishedInv, CycleInv
<1>13. CASE Numbers!CycleFails
  <2>1. turn' = None /\ started' = started /\ stats' = stats /\ whole' = whole
    BY <1>13 DEF Numbers!CycleFails, Numbers!redis, Numbers!history
  <2>2. NumberInv'
    BY <2>1 DEF PublishedInv, NumberInv
  <2>3. QED
    BY <1>6, <1>7, <2>1, <2>2 DEF PublishedInv, CycleInv
<1>14. QED
  BY <1>8, <1>9, <1>10, <1>11, <1>12, <1>13 DEF PublisherStep
\* What the last complete publication was does not go back.
LEMMA WholeGrows ==
    ASSUME Numbers!StatisticsConstants, PublishedInv, [Numbers!Next]_(Numbers!vars)
    PROVE  whole \in Nat /\ whole' \in Nat /\ whole <= whole'
<1>1. started \in Nat /\ whole \in Nat /\ (turn # None => turn.pub = started /\ whole < started)
  BY DEF PublishedInv, NumberInv
<1>2. CASE ~PublisherStep
  BY <1>1, <1>2, OthersLeavePublished
<1>3. CASE Numbers!WriteStatistics
  BY <1>1, <1>3 DEF Numbers!WriteStatistics
<1>4. CASE PublisherStep /\ ~Numbers!WriteStatistics
  <2>1. whole' = whole
    BY <1>4 DEF PublisherStep, Numbers!Compute, Numbers!Examine, Numbers!Replace, Numbers!SetRefreshedAt, Numbers!CycleFails, Numbers!history
  <2>2. QED
    BY <1>1, <2>1
<1>5. QED
  BY <1>2, <1>3, <1>4

LEMMA AnswerIsFresh ==
    ASSUME Numbers!StatisticsConstants, PrunerInv, PublishedInv, VisitInv, Numbers!AnswerHome
    PROVE  VisitInv' /\ Numbers!NumbersAreFresh'
<1>1. /\ visit # None /\ visit.phase = "listed" /\ visit.stats = None
      /\ visit.done \in Nat /\ visit.done <= whole /\ whole \in Nat
      /\ visit' = None
  BY DEF VisitInv, Numbers!AnswerHome, PublishedInv, NumberInv
<1>2. /\ answer'.done = visit.done /\ answer'.rendered = ticks
      /\ answer'.pub = IF stats = None THEN 0 ELSE stats.pub
      /\ answer'.arrival = IF stats = None THEN None ELSE Numbers!BuildNextArrival(stats)
  BY <1>1 DEF Numbers!AnswerHome
<1>3. answer'.done <= answer'.pub
  BY <1>1, <1>2 DEF PublishedInv, NumberInv
<1>4. ASSUME answer'.arrival # None, NEW q \in DOMAIN Numbers!Quantile
      PROVE  answer'.arrival[q] > Numbers!Milli * answer'.rendered
  <2>1. /\ stats # None /\ stats.prediction # None
        /\ answer'.arrival[q] = Numbers!Milli * ticks + stats.prediction[q] - Numbers!Milli * stats.end
    BY <1>2, <1>4 DEF Numbers!BuildNextArrival
  <2>2. stats \in Numbers!Figures /\ stats.prediction[q] > Numbers!Milli * stats.end
    BY <2>1 DEF PublishedInv, FiguresInv, WaitsInv
  <2>3. PICK p \in Int, e \in Nat : p = stats.prediction[q] /\ e = Numbers!Milli * stats.end
    BY <2>1, <2>2 DEF Numbers!Figures, Numbers!Milli
  <2>4. PICK c \in Nat : c = Numbers!Milli * ticks
    BY DEF PrunerInv, Books, Sound, Booked, Numbers!Milli
  <2>5. c + p - e > c
    BY <2>2, <2>3
  <2>6. QED
    BY <1>2, <2>1, <2>3, <2>4, <2>5
<1>5. QED
  BY <1>1, <1>3, <1>4 DEF VisitInv, Numbers!NumbersAreFresh

LEMMA NextReader ==
    ASSUME Numbers!StatisticsConstants, Inv, [Numbers!Next]_(Numbers!vars)
    PROVE  VisitInv' /\ Numbers!NumbersAreFresh'
<1>1. PrunerInv /\ PublishedInv /\ VisitInv /\ Numbers!NumbersAreFresh
  BY DEF Inv
<1>2. whole \in Nat /\ whole' \in Nat /\ whole <= whole'
  BY <1>1, WholeGrows
<1>3. UNCHANGED visit => VisitInv'
  <2> SUFFICES ASSUME UNCHANGED visit, visit # None, visit.phase = "listed"
               PROVE  visit.done \in Nat /\ visit.done <= whole'
    BY <1>1 DEF VisitInv
  <2>1. visit.done \in Nat /\ visit.done <= whole
    BY <1>1 DEF VisitInv
  <2>2. QED
    BY <1>2, <2>1
<1>4. UNCHANGED answer => Numbers!NumbersAreFresh'
  BY <1>1 DEF Numbers!NumbersAreFresh
<1>5. CASE Numbers!AnswerHome
  BY <1>1, <1>5, AnswerIsFresh
<1>6. CASE Numbers!AskHome
  <2>1. visit' = [phase |-> "asked", stats |-> None] /\ answer' = answer
    BY <1>6 DEF Numbers!AskHome, Numbers!Later
  <2>2. QED
    BY <1>4, <2>1 DEF VisitInv
<1>7. CASE Numbers!ReadList
  <2>1. /\ visit # None /\ visit'.phase = "listed" /\ visit'.stats = visit.stats
        /\ visit'.done = whole /\ answer' = answer /\ whole' = whole
    BY <1>7 DEF Numbers!ReadList, Numbers!history
  <2>2. QED
    BY <1>1, <1>2, <1>4, <2>1 DEF VisitInv
<1>8. CASE Numbers!VisitFails
  BY <1>8 DEF Numbers!VisitFails, VisitInv, Numbers!NumbersAreFresh
<1>9. ASSUME NEW known \in BOOLEAN, NEW limit, Numbers!GetFeedSkeleton(known, limit)
      PROVE  VisitInv' /\ Numbers!NumbersAreFresh'
  <2>1. visit' = visit /\ answer'.kind # "home"
    BY <1>9 DEF Numbers!GetFeedSkeleton
  <2>2. QED
    BY <1>3, <2>1 DEF Numbers!NumbersAreFresh
<1>10. CASE ~ReaderStep
  <2>1. UNCHANGED <<visit, answer>>
    <3>1. CASE \/ Numbers!Pass \/ (\E m \in Message : Numbers!Record(m)) \/ PublisherStep \/ UNCHANGED Numbers!vars
      BY <3>1 DEF Numbers!Pass, Numbers!Record, PublisherStep, Numbers!Compute, Numbers!Examine, Numbers!Replace, Numbers!SetRefreshedAt,
                  Numbers!WriteStatistics, Numbers!CycleFails, Numbers!vars, Numbers!reader
    <3>2. CASE \/ Numbers!WriteBatch \/ Numbers!WriteLastBatch \/ Numbers!Crash \/ Numbers!Start \/ Numbers!StopStage
               \/ \E committed \in BOOLEAN : Numbers!WriteBatchFails(committed)
      BY <3>2 DEF Numbers!WriteBatch, Numbers!WriteLastBatch, Numbers!Crash, Numbers!Start, Numbers!StopStage, Numbers!WriteBatchFails, Numbers!reader
    <3>3. QED
      BY <1>10, <3>1, <3>2 DEF Numbers!Next, PublisherStep, ReaderStep
  <2>2. QED
    BY <1>3, <1>4, <2>1
<1>11. QED
  BY <1>5, <1>6, <1>7, <1>8, <1>9, <1>10 DEF ReaderStep

LEMMA InvHolds == ASSUME Numbers!StatisticsConstants PROVE Numbers!Spec => []Inv
<1>1. Numbers!Init => Inv
  BY InitInv
<1>2. Inv /\ [Numbers!Next]_(Numbers!vars) => Inv'
  BY NextPruner, NextPublished, NextReader DEF Inv
<1>3. QED
  BY <1>1, <1>2, PTL DEF Numbers!Spec

LEMMA BooksBalance == Inv => Numbers!CountsAreKept
<1> SUFFICES ASSUME Inv PROVE Numbers!CountsAreKept
  OBVIOUS
<1>1. Booked(told, ticks, rows, tally.buffer, tally.open.images, tally.since, twice, lost)
  BY DEF Inv, PrunerInv, Books, Sound
<1>2. Since(told, 0) + twice = Late(rows, 0) + Late(tally.buffer, 0) + tally.open.images + lost
  BY DEF Inv, PrunerInv, Books, Sound
<1>3. told \in Seq(Nat) /\ rows \in Seq(Row) /\ tally.buffer \in Seq(Row)
  BY <1>1 DEF Booked
<1>4. Numbers!Sum(told, DOMAIN told) = Since(told, 0)
  BY <1>3, SinceTheStart DEF Numbers!Sum, SumOf, MapThenSumSet, MapThenFoldSet,
                            Numbers!MapThenSumSet, Numbers!MapThenFoldSet
<1>5. Numbers!InTable = Late(rows, 0)
  BY <1>3, SumOfRows DEF Numbers!InTable
<1>6. Numbers!InMemory = tally.open.images + Late(tally.buffer, 0)
  <2>1. Numbers!MapThenSumSet(LAMBDA i : tally.buffer[i].images, DOMAIN tally.buffer) = Late(tally.buffer, 0)
    BY <1>3, SumOfRows
  <2>2. QED
    BY <2>1 DEF Numbers!InMemory
<1>7. /\ Late(rows, 0) \in Nat /\ Late(tally.buffer, 0) \in Nat /\ tally.open.images \in Nat
      /\ lost \in Nat
  BY <1>1, BookedTypes, 0 \in Int
<1>8. Numbers!Sum(told, DOMAIN told) + twice = Numbers!InTable + Numbers!InMemory + lost
  BY <1>2, <1>4, <1>5, <1>6, <1>7
<1>9. meters = tally.emitted /\ \A k \in DOMAIN meters : meters[k] <= tally.total[k]
  BY DEF Inv, PrunerInv, StageInv, MetersInv, Stages, Counts
<1>10. QED
  BY <1>8, <1>9 DEF Numbers!CountsAreKept

LEMMA FiguresWereSeen == Inv => Numbers!ExaminedWasSeen
<1> SUFFICES ASSUME Inv, stats # None
             PROVE  stats.examined <= Seen(told, stats.start, stats.until) + twice
  BY DEF Numbers!ExaminedWasSeen, Numbers!Sum, Seen, SumOf, MapThenSumSet, MapThenFoldSet,
          Numbers!MapThenSumSet, Numbers!MapThenFoldSet
<1>1. QED
  BY DEF Inv, PublishedInv, FiguresInv, Backed

--------------------------------------------------------------------------------
(* The layout of the preview picture (Montage).  The invariant says where   *)
(* the loop over rows stands: all tiles of the rows before the next one are *)
(* placed, above its top, and each row above the ones after it.             *)

Width == Picture!TargetTileWidth + Picture!Gutter

Standing ==
    /\ tiles \in Seq(Picture!Extent) /\ row \in Nat /\ y \in Nat /\ y <= Canvas.height
    /\ done \in BOOLEAN

\* The tiles of the rows before the next one are placed, in their columns.
PlacedInColumns ==
    /\ DOMAIN placed = {i \in DOMAIN tiles : Picture!RowOf(i) < row}
    /\ \A i \in DOMAIN placed :
        /\ placed[i].x = Picture!Gutter + Picture!ColumnOf(i) * Width /\ placed[i].width = Picture!TargetTileWidth
        /\ placed[i].y \in Nat /\ placed[i].height \in 0 .. Picture!MaxTileHeight

RowsBelowEachOther ==
    /\ \A i \in DOMAIN placed : Picture!Bottom(placed[i]) <= y
    /\ \A i, j \in DOMAIN placed : Picture!RowOf(i) < Picture!RowOf(j) => Picture!Bottom(placed[i]) <= placed[j].y

\* The first two tops, and that the loop does not end before them.
TopOfTheSecond ==
    /\ row = 0 => y = Picture!Gutter
    /\ row = 1 => y <= 2 * Picture!Gutter + Picture!MaxTileHeight
    /\ done => row >= Picture!MinRows \/ Picture!Row = {}

LayoutInv == Standing /\ PlacedInColumns /\ RowsBelowEachOther /\ TopOfTheSecond

--------------------------------------------------------------------------------
\* Widths and heights are natural numbers, and four columns and two rows with
\* their gutters fit the canvas.
LEMMA Dimensions ==
    ASSUME Picture!MontageConstants
    PROVE  /\ Canvas.width \in Nat /\ Canvas.height \in Nat
           /\ Picture!TargetTileWidth \in Nat /\ 4 * Picture!TargetTileWidth + 30 <= Canvas.width
           /\ Picture!MaxTileHeight \in Nat /\ 2 * Picture!MaxTileHeight + 18 <= Canvas.height
<1>1. /\ Canvas.width \in Nat /\ Canvas.height \in Nat
      /\ Canvas.width >= 30 /\ Canvas.height >= 18
  BY DEF Picture!MontageConstants, Picture!Extent, Picture!MontageColumns, Picture!MinRows, Picture!Gutter
<1>2. Picture!TargetTileWidth = (Canvas.width - 30) \div 4 /\ Picture!MaxTileHeight = (Canvas.height - 18) \div 2
  BY <1>1 DEF Picture!TargetTileWidth, Picture!MaxTileHeight, Picture!MontageColumns, Picture!MinRows, Picture!Gutter
<1> QED
  BY <1>1, <1>2

\* A tile is cut to a height between nothing and what two rows leave it.
LEMMA HeightIsCapped ==
    ASSUME Picture!MontageConstants, NEW tile \in Picture!Extent
    PROVE  Picture!ScaleAndCap(tile) \in 0 .. Picture!MaxTileHeight
<1>1. Picture!TargetTileWidth \in Nat /\ Picture!MaxTileHeight \in Nat
  BY Dimensions
<1>2. Picture!AtLeastOne(tile.width) \in Nat /\ Picture!AtLeastOne(tile.width) > 0 /\ tile.height \in Nat
  BY DEF Picture!AtLeastOne, Picture!Extent
<1>3. Picture!TargetTileWidth * tile.height \in Nat
  BY <1>1, <1>2
<1>4. \A a, b \in Nat : b > 0 => a \div b \in Nat
  OBVIOUS
<1>5. Picture!ScaledHeight(tile) \in Nat
  BY <1>2, <1>3, <1>4 DEF Picture!ScaledHeight, Picture!AtLeastOne
<1> QED
  BY <1>1, <1>5 DEF Picture!ScaleAndCap

\* A tile has a row and one of four columns; between tiles of one row the
\* column tells.
LEMMA RowsAndColumns ==
    ASSUME NEW i \in Nat \ {0}
    PROVE  /\ Picture!RowOf(i) \in Nat /\ Picture!ColumnOf(i) \in 0 .. 3
           /\ i = 4 * Picture!RowOf(i) + Picture!ColumnOf(i) + 1
BY DEF Picture!RowOf, Picture!ColumnOf, Picture!MontageColumns

\* MontageColumns stand side by side, the last one within four of them.
LEMMA ColumnsSideBySide ==
    ASSUME NEW w \in Nat, NEW c \in 0 .. 3, NEW d \in 0 .. 3
    PROVE  /\ c * (w + 6) \in Nat /\ c * (w + 6) <= 3 * w + 18
           /\ c < d => c * (w + 6) + w + 6 <= d * (w + 6)
<1>1. /\ 0 * (w + 6) = 0 /\ 1 * (w + 6) = w + 6 /\ 2 * (w + 6) = w + w + 12
      /\ 3 * (w + 6) = w + w + w + 18
  OBVIOUS
<1>2. (c = 0 \/ c = 1 \/ c = 2 \/ c = 3) /\ (d = 0 \/ d = 1 \/ d = 2 \/ d = 3)
  OBVIOUS
<1> QED
  BY <1>1, <1>2

--------------------------------------------------------------------------------
LEMMA InitLayout ==
    ASSUME Picture!MontageConstants, Picture!Init
    PROVE  LayoutInv
<1>1. tiles \in Seq(Picture!Extent)
  BY DEF Picture!Init, Picture!MontageConstants
<1>2. Canvas.height \in Nat /\ 18 <= Canvas.height
  BY Dimensions
<1>3. placed = << >> /\ DOMAIN placed = {} /\ row = 0 /\ y = 6 /\ done = FALSE
  BY DEF Picture!Init, Picture!Gutter
<1>4. \A i \in DOMAIN tiles : Picture!RowOf(i) \in Nat
  BY <1>1, RowsAndColumns
<1>5. Standing
  <2>1. row \in Nat /\ y \in Nat /\ y <= Canvas.height
    BY <1>2, <1>3
  <2>2. done \in BOOLEAN
    BY <1>3, Zenon
  <2> QED
    BY <1>1, <2>1, <2>2 DEF Standing
<1>6. PlacedInColumns
  BY <1>3, <1>4 DEF PlacedInColumns
<1>7. RowsBelowEachOther
  BY <1>3 DEF RowsBelowEachOther
<1>8. TopOfTheSecond
  BY <1>3 DEF TopOfTheSecond, Picture!Gutter
<1> QED
  BY <1>5, <1>6, <1>7, <1>8 DEF LayoutInv

\* The row that is next is as high as its highest tile.
LEMMA RowHeightBounds ==
    ASSUME Picture!MontageConstants, tiles \in Seq(Picture!Extent), Picture!Row # {}
    PROVE  /\ Picture!RowHeight \in 0 .. Picture!MaxTileHeight
           /\ \A i \in Picture!Row : Picture!ScaleAndCap(tiles[i]) \in 0 .. Picture!RowHeight
<1> DEFINE H == {Picture!ScaleAndCap(tiles[i]) : i \in Picture!Row}
<1>1. Picture!MaxTileHeight \in Nat
  BY Dimensions
<1>2. Picture!Row \subseteq DOMAIN tiles /\ \A i \in Picture!Row : tiles[i] \in Picture!Extent
  BY DEF Picture!Row
<1>3. \A i \in Picture!Row : Picture!ScaleAndCap(tiles[i]) \in 0 .. Picture!MaxTileHeight
  BY <1>2, HeightIsCapped
<1>4. PICK h \in H : \A k \in H : k <= h
  <2> DEFINE Gaps == {Picture!MaxTileHeight - k : k \in H}
  <2>1. Gaps \in SUBSET Nat /\ Gaps # {}
    BY <1>1, <1>3
  <2>2. PICK n \in Gaps : \A m \in Gaps : n <= m
    <3> HIDE DEF Gaps
    <3>1. PICK n \in Gaps : \A m \in Gaps : <<m, n>> \notin OpToRel(<, Nat)
      BY <2>1, NatLessThanWellFounded, WFMin
    <3>2. \A m \in Gaps : ~(m < n)
      BY <2>1, <3>1 DEF OpToRel
    <3> QED
      BY <2>1, <3>2
  <2>3. PICK h \in H : n = Picture!MaxTileHeight - h
    OBVIOUS
  <2>4. h \in Nat /\ \A k \in H : Picture!MaxTileHeight - k \in Gaps /\ k \in Nat
    BY <1>3
  <2>5. \A k \in H : Picture!MaxTileHeight - h <= Picture!MaxTileHeight - k
    <3> HIDE DEF Gaps, H
    <3> QED
      BY <2>2, <2>3, <2>4
  <2>6. \A k \in H : k <= h
    <3> HIDE DEF Gaps, H
    <3> QED
      BY <1>1, <2>4, <2>5
  <2> QED
    BY <2>6
<1>5. Picture!RowHeight = CHOOSE m \in H : \A i \in Picture!Row : Picture!ScaleAndCap(tiles[i]) <= m
  BY Zenon DEF Picture!RowHeight
<1>6. \A i \in Picture!Row : Picture!ScaleAndCap(tiles[i]) <= h
  BY <1>4
<1>7. Picture!RowHeight \in H /\ \A i \in Picture!Row : Picture!ScaleAndCap(tiles[i]) <= Picture!RowHeight
  <2> HIDE DEF H
  <2> QED
    BY <1>5, <1>6, Zenon
<1> QED
  BY <1>1, <1>3, <1>7

\* Placing a row keeps where the loop stands.
LEMMA PlaceRowKeepsLayout ==
    ASSUME Picture!MontageConstants, LayoutInv, Picture!PlaceRow
    PROVE  LayoutInv'
<1>1. /\ Canvas.height \in Nat /\ Picture!TargetTileWidth \in Nat /\ Picture!MaxTileHeight \in Nat
      /\ tiles \in Seq(Picture!Extent) /\ row \in Nat /\ y \in Nat /\ done = FALSE
  BY Dimensions DEF LayoutInv, Standing, Picture!PlaceRow
<1>2. Picture!RowHeight \in 0 .. Picture!MaxTileHeight /\ \A i \in Picture!Row : Picture!ScaleAndCap(tiles[i]) \in 0 .. Picture!RowHeight
  BY <1>1, RowHeightBounds DEF Picture!PlaceRow
<1>3. /\ tiles' = tiles /\ row' = row + 1 /\ y' = y + Picture!RowHeight + 6 /\ done' = FALSE
      /\ y' <= Canvas.height
  BY <1>1 DEF Picture!PlaceRow, Picture!Fits, Picture!Gutter
<1>4. \A i \in DOMAIN tiles : Picture!RowOf(i) \in Nat
  BY <1>1, RowsAndColumns
<1>5. /\ DOMAIN placed = {i \in DOMAIN tiles : Picture!RowOf(i) < row}
      /\ Picture!Row = {i \in DOMAIN tiles : Picture!RowOf(i) = row}
  BY DEF LayoutInv, PlacedInColumns, Picture!Row
<1>6. DOMAIN placed' = DOMAIN placed \cup Picture!Row /\ DOMAIN placed' = {i \in DOMAIN tiles : Picture!RowOf(i) < row + 1}
  BY <1>1, <1>4, <1>5 DEF Picture!PlaceRow
<1>7. ASSUME NEW i \in DOMAIN placed', i \notin Picture!Row
      PROVE  i \in DOMAIN placed /\ placed'[i] = placed[i] /\ Picture!RowOf(i) < row
  BY <1>5, <1>6, <1>7 DEF Picture!PlaceRow
<1>8. ASSUME NEW i \in Picture!Row
      PROVE  /\ i \in DOMAIN placed' /\ Picture!RowOf(i) = row
             /\ placed'[i].x = Picture!Gutter + Picture!ColumnOf(i) * Width /\ placed'[i].y = y
             /\ placed'[i].width = Picture!TargetTileWidth /\ placed'[i].height \in 0 .. Picture!RowHeight
  <2>1. i \in DOMAIN placed' /\ Picture!RowOf(i) = row
    BY <1>5, <1>6
  <2>2. placed'[i] = Picture!Placement(i)
    BY <1>6 DEF Picture!PlaceRow
  <2>3. Picture!ScaleAndCap(tiles[i]) \in 0 .. Picture!RowHeight
    BY <1>2
  <2> QED
    BY <2>1, <2>2, <2>3 DEF Picture!Placement, Width
<1>9. Standing'
  <2>1. row' \in Nat /\ y' \in Nat /\ y' <= Canvas.height
    BY <1>1, <1>2, <1>3
  <2>2. done' \in BOOLEAN
    BY <1>3, Zenon
  <2> QED
    BY <1>1, <1>3, <2>1, <2>2 DEF Standing
<1>10. PlacedInColumns'
  <2>1. ASSUME NEW i \in DOMAIN placed'
        PROVE  /\ placed'[i].x = Picture!Gutter + Picture!ColumnOf(i) * Width /\ placed'[i].width = Picture!TargetTileWidth
               /\ placed'[i].y \in Nat /\ placed'[i].height \in 0 .. Picture!MaxTileHeight
    <3>1. CASE i \in Picture!Row
      BY <1>1, <1>2, <1>8, <3>1
    <3>2. CASE i \notin Picture!Row
      BY <1>7, <3>2 DEF LayoutInv, PlacedInColumns
    <3> QED
      BY <3>1, <3>2
  <2> QED
    BY <1>3, <1>6, <2>1 DEF PlacedInColumns
<1>11. RowsBelowEachOther'
  <2>1. ASSUME NEW i \in DOMAIN placed'
        PROVE  /\ i \notin Picture!Row => Picture!Bottom(placed'[i]) <= y
               /\ Picture!Bottom(placed'[i]) <= y'
    <3>1. CASE i \in Picture!Row
      BY <1>1, <1>2, <1>3, <1>8, <3>1 DEF Picture!Bottom, Picture!Gutter
    <3>2. CASE i \notin Picture!Row
      <4>1. Picture!Bottom(placed'[i]) <= y /\ Picture!Bottom(placed'[i]) \in Nat
        BY <1>7, <3>2 DEF LayoutInv, RowsBelowEachOther, PlacedInColumns, Picture!Bottom, Picture!Gutter
      <4> QED
        BY <1>1, <1>2, <1>3, <3>2, <4>1
    <3> QED
      BY <3>1, <3>2
  <2>2. ASSUME NEW i \in DOMAIN placed', NEW j \in DOMAIN placed', Picture!RowOf(i) < Picture!RowOf(j)
        PROVE  Picture!Bottom(placed'[i]) <= placed'[j].y
    <3>1. i \notin Picture!Row
      BY <1>1, <1>4, <1>5, <1>6, <2>2
    <3>2. CASE j \in Picture!Row
      BY <1>8, <2>1, <3>1, <3>2
    <3>3. CASE j \notin Picture!Row
      BY <1>7, <2>2, <3>1, <3>3 DEF LayoutInv, RowsBelowEachOther
    <3> QED
      BY <3>2, <3>3
  <2>3. (\A i \in DOMAIN placed : Picture!Bottom(placed[i]) <= y)'
    BY <2>1 DEF Picture!Bottom
  <2>4. (\A i, j \in DOMAIN placed : Picture!RowOf(i) < Picture!RowOf(j) => Picture!Bottom(placed[i]) <= placed[j].y)'
    BY <2>2 DEF Picture!Bottom
  <2> QED
    BY <2>3, <2>4 DEF RowsBelowEachOther
<1>12. TopOfTheSecond'
  BY <1>1, <1>2, <1>3 DEF LayoutInv, TopOfTheSecond, Picture!Gutter
<1> QED
  BY <1>9, <1>10, <1>11, <1>12 DEF LayoutInv

\* The loop ends only behind the second row, or behind the last.
LEMMA FinishKeepsLayout ==
    ASSUME Picture!MontageConstants, LayoutInv, Picture!Finish
    PROVE  LayoutInv'
<1>1. /\ Canvas.height \in Nat /\ Picture!MaxTileHeight \in Nat /\ 2 * Picture!MaxTileHeight + 18 <= Canvas.height
      /\ tiles \in Seq(Picture!Extent) /\ row \in Nat /\ y \in Nat
  BY Dimensions DEF LayoutInv, Standing
<1>2. UNCHANGED <<tiles, row, y, placed>> /\ done' = TRUE
  BY DEF Picture!Finish
<1>3. Picture!Row' = Picture!Row
  BY <1>2 DEF Picture!Row
<1>4. row >= 2 \/ Picture!Row = {}
  <2> SUFFICES ASSUME row < 2, Picture!Row # {} PROVE FALSE
    BY <1>1
  <2>1. Picture!RowHeight \in 0 .. Picture!MaxTileHeight
    BY <1>1, RowHeightBounds
  <2>2. y <= 2 * 6 + Picture!MaxTileHeight
    BY <1>1 DEF LayoutInv, TopOfTheSecond, Picture!Gutter
  <2>3. ~ (y + Picture!RowHeight + 6 <= Canvas.height)
    BY DEF Picture!Finish, Picture!Fits, Picture!Gutter
  <2> QED
    BY <1>1, <2>1, <2>2, <2>3
<1>5. Standing'
  <2>1. done' \in BOOLEAN
    BY <1>2, Zenon
  <2> QED
    BY <1>2, <2>1 DEF LayoutInv, Standing
<1>6. PlacedInColumns' /\ RowsBelowEachOther'
  BY <1>2 DEF LayoutInv, PlacedInColumns, RowsBelowEachOther, Picture!Bottom
<1>7. TopOfTheSecond'
  BY <1>2, <1>3, <1>4 DEF LayoutInv, TopOfTheSecond, Picture!MinRows
<1> QED
  BY <1>5, <1>6, <1>7 DEF LayoutInv

--------------------------------------------------------------------------------
\* The invariant holds throughout.
LEMMA LayoutHolds ==
    ASSUME Picture!MontageConstants
    PROVE  Picture!Spec => []LayoutInv
<1>1. Picture!Init => LayoutInv
  BY InitLayout
<1>2. LayoutInv /\ [Picture!Next]_(Picture!vars) => LayoutInv'
  <2>1. CASE UNCHANGED Picture!vars
    BY <2>1 DEF Picture!vars, LayoutInv, Standing, PlacedInColumns, RowsBelowEachOther, TopOfTheSecond, Picture!Row, Picture!Bottom
  <2> QED
    BY <2>1, PlaceRowKeepsLayout, FinishKeepsLayout DEF Picture!Next
<1> QED
  BY <1>1, <1>2, PTL DEF Picture!Spec

\* What a placed tile takes lies within the canvas.
LEMMA LayoutWithinCanvas ==
    ASSUME Picture!MontageConstants, LayoutInv
    PROVE  Picture!WithinCanvas
<1>1. /\ Canvas.width \in Nat /\ Picture!TargetTileWidth \in Nat /\ 4 * Picture!TargetTileWidth + 30 <= Canvas.width
      /\ Canvas.height \in Nat /\ y \in Nat /\ y <= Canvas.height
  BY Dimensions DEF LayoutInv, Standing
<1> SUFFICES ASSUME NEW i \in DOMAIN placed
             PROVE  Picture!Right(placed[i]) <= Canvas.width /\ Picture!Bottom(placed[i]) <= Canvas.height
  BY DEF Picture!WithinCanvas
<1>2. i \in Nat \ {0}
  BY DEF LayoutInv, Standing, PlacedInColumns
<1>3. Picture!ColumnOf(i) \in 0 .. 3
  BY <1>2, RowsAndColumns
<1>4. Picture!ColumnOf(i) * (Picture!TargetTileWidth + 6) \in Nat /\ Picture!ColumnOf(i) * (Picture!TargetTileWidth + 6) <= 3 * Picture!TargetTileWidth + 18
  BY <1>1, <1>3, ColumnsSideBySide
<1>5. Picture!Right(placed[i]) = 6 + Picture!ColumnOf(i) * (Picture!TargetTileWidth + 6) + Picture!TargetTileWidth + 6
  BY DEF LayoutInv, PlacedInColumns, Picture!Right, Width, Picture!Gutter
<1>6. Picture!Bottom(placed[i]) <= y /\ Picture!Bottom(placed[i]) \in Nat
  BY DEF LayoutInv, PlacedInColumns, RowsBelowEachOther, Picture!Bottom, Picture!Gutter
<1> QED
  BY <1>1, <1>4, <1>5, <1>6

\* Tiles of one row stand in different columns, and rows below each other.
LEMMA LayoutApart ==
    ASSUME Picture!MontageConstants, LayoutInv
    PROVE  Picture!TilesApart
<1>1. Picture!TargetTileWidth \in Nat
  BY Dimensions
<1> SUFFICES ASSUME NEW i \in DOMAIN placed, NEW j \in DOMAIN placed, i < j
             PROVE  Picture!Right(placed[i]) <= placed[j].x \/ Picture!Bottom(placed[i]) <= placed[j].y
  BY DEF Picture!TilesApart
<1>2. i \in Nat \ {0} /\ j \in Nat \ {0}
  BY DEF LayoutInv, Standing, PlacedInColumns
<1>3. /\ Picture!RowOf(i) \in Nat /\ Picture!ColumnOf(i) \in 0 .. 3 /\ i = 4 * Picture!RowOf(i) + Picture!ColumnOf(i) + 1
      /\ Picture!RowOf(j) \in Nat /\ Picture!ColumnOf(j) \in 0 .. 3 /\ j = 4 * Picture!RowOf(j) + Picture!ColumnOf(j) + 1
  BY <1>2, RowsAndColumns
<1>4. Picture!RowOf(i) < Picture!RowOf(j) \/ Picture!ColumnOf(i) < Picture!ColumnOf(j)
  BY <1>3
<1>5. CASE Picture!RowOf(i) < Picture!RowOf(j)
  BY <1>5 DEF LayoutInv, RowsBelowEachOther
<1>6. CASE Picture!ColumnOf(i) < Picture!ColumnOf(j)
  <2>1. Picture!ColumnOf(i) * (Picture!TargetTileWidth + 6) + Picture!TargetTileWidth + 6 <= Picture!ColumnOf(j) * (Picture!TargetTileWidth + 6)
    BY <1>1, <1>3, <1>6, ColumnsSideBySide
  <2>2. Picture!ColumnOf(i) * (Picture!TargetTileWidth + 6) \in Nat /\ Picture!ColumnOf(j) * (Picture!TargetTileWidth + 6) \in Nat
    BY <1>1, <1>3, ColumnsSideBySide
  <2>3. /\ Picture!Right(placed[i]) = 6 + Picture!ColumnOf(i) * (Picture!TargetTileWidth + 6) + Picture!TargetTileWidth + 6
        /\ placed[j].x = 6 + Picture!ColumnOf(j) * (Picture!TargetTileWidth + 6)
    BY DEF LayoutInv, PlacedInColumns, Picture!Right, Width, Picture!Gutter
  <2> QED
    BY <1>1, <2>1, <2>2, <2>3
<1> QED
  BY <1>4, <1>5, <1>6

\* A loop that has ended has placed every tile of the first two rows.
LEMMA LayoutShowsTwoRows ==
    ASSUME Picture!MontageConstants, LayoutInv
    PROVE  Picture!TwoRowsFit
<1> SUFFICES ASSUME done, NEW i \in DOMAIN tiles, Picture!RowOf(i) < 2
             PROVE  i \in DOMAIN placed
  BY DEF Picture!TwoRowsFit, Picture!MinRows
<1>1. /\ tiles \in Seq(Picture!Extent) /\ row \in Nat /\ DOMAIN placed = {k \in DOMAIN tiles : Picture!RowOf(k) < row}
      /\ row >= 2 \/ Picture!Row = {}
  BY DEF LayoutInv, Standing, PlacedInColumns, TopOfTheSecond, Picture!MinRows
<1>2. i \in Nat \ {0} /\ Picture!RowOf(i) \in Nat
  BY <1>1, RowsAndColumns
<1>3. 1 \in DOMAIN tiles /\ Picture!RowOf(1) = 0
  BY <1>1, <1>2 DEF Picture!RowOf, Picture!MontageColumns
<1>4. Picture!Row = {} => row # 0 /\ Picture!RowOf(i) # row
  BY <1>3 DEF Picture!Row
<1> QED
  BY <1>1, <1>2, <1>4

--------------------------------------------------------------------------------
(* Each part of a behaviour of MCPages is a behaviour of its module.         *)

LEMMA NumbersRun == PagesSpec => Numbers!Spec
<1>1. PagesInit => Numbers!Init
  BY DEF PagesInit
<1>2. [PagesNext]_<<machine, vars, numberVars, pictureVars>> => [Numbers!Next]_(Numbers!vars)
  <2>1. UNCHANGED numberVars => UNCHANGED Numbers!vars
    BY DEF numberVars, Numbers!vars, Numbers!pruner, Numbers!publisher, Numbers!redis, Numbers!reader,
           Numbers!history
  <2>2. QED
    BY <2>1 DEF PagesNext
<1>3. QED
  BY <1>1, <1>2, PTL DEF PagesSpec, Numbers!Spec

LEMMA PictureRuns == PagesSpec => Picture!Spec
<1>1. PagesInit => Picture!Init
  BY DEF PagesInit
<1>2. [PagesNext]_<<machine, vars, numberVars, pictureVars>> => [Picture!Next]_(Picture!vars)
  <2>1. UNCHANGED pictureVars => UNCHANGED Picture!vars
    BY DEF pictureVars, Picture!vars
  <2>2. QED
    BY <2>1 DEF PagesNext
<1>3. QED
  BY <1>1, <1>2, PTL DEF PagesSpec, Picture!Spec

\* Over any traffic, crashes, failed flushes and restarts: every image the
\* statistics stage was told of is, once, in its open interval, its buffer or the
\* table, but for what a crash took and an append that failed after its commit
\* wrote again; and the exported counters are those of the last log line
\* (StatisticsPersister::flush, PipelineMetrics).
THEOREM NoImageIsLost == PagesSpec => []CountsAreKept
<1>1. Inv => CountsAreKept
  BY BooksBalance DEF CountsAreKept
<1>2. QED
  BY <1>1, InvHolds, NumbersRun, PagesConstants, PTL

\* However late a batch is written, a published count of examined images is of
\* images seen between the start of the window and the time the publisher asked
\* (Statistics::prune_stats_for_interval).
THEOREM CountsAreOfTheSeen == PagesSpec => []ExaminedWasSeen
<1>1. Inv => ExaminedWasSeen
  BY FiguresWereSeen DEF ExaminedWasSeen
<1>2. QED
  BY <1>1, InvHolds, NumbersRun, PagesConstants, PTL

\* The numbers on a page are not behind the last complete publication at the time
\* its list was read, and a countdown never starts expired (handlers::home,
\* predict_next_match).
THEOREM PagesAreFresh == PagesSpec => []NumbersAreFresh
<1>1. Inv => NumbersAreFresh
  BY DEF Inv, NumbersAreFresh
<1>2. QED
  BY <1>1, InvHolds, NumbersRun, PagesConstants, PTL

\* For every canvas wide and high enough for its gutters and every sequence of
\* tiles: no tile reaches out of the picture, no two touch, and the first two
\* rows are shown however tall the tiles are (preview/mod.rs:48-51, 130-154).
THEOREM PictureIsLaidOut ==
    PagesSpec => [](Picture!WithinCanvas /\ Picture!TilesApart /\ Picture!TwoRowsFit)
<1>1. LayoutInv => Picture!WithinCanvas /\ Picture!TilesApart /\ Picture!TwoRowsFit
  BY PagesConstants, LayoutWithinCanvas, LayoutApart, LayoutShowsTwoRows
<1>2. QED
  BY <1>1, LayoutHolds, PictureRuns, PagesConstants, PTL
================================================================================
