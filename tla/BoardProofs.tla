---------------------------- MODULE BoardProofs ----------------------------
(***************************************************************************)
(* Theorems about the two scripts of the Metis Card, for every manifest,     *)
(* every set of temperatures and any number of starts, crashes and reboots.  *)
(***************************************************************************)
EXTENDS Board, TLAPS

Readings == Temps \cup {NoOutput}

Below(reading) == reading # NoOutput /\ reading < ABORT_CAP

MayEnd(b) == Len(b) = MaxBursts \/ (b # <<>> /\ Stops(b[Len(b)]))

(* Where a capture is, every reading but its last is below the cap; the last *)
(* one is too wherever another burst can follow.                              *)
CaptureInv ==
  /\ tpc \in {"down", "compile", "burst", "flush", "flushing", "check"}
  /\ bursts \in Seq(Readings)
  /\ \A i \in 1..(Len(bursts) - 1) : Below(bursts[i])
  /\ tpc = "compile" => bursts = <<>>
  /\ tpc = "burst" => \A i \in 1..Len(bursts) : Below(bursts[i])
  /\ tpc = "check" => bursts # <<>>
  /\ tpc \in {"compile", "burst", "check"} => done = FALSE

(* "done" is only ever said of a capture that had to stop.                    *)
DoneInv ==
  /\ done \in BOOLEAN
  /\ done = TRUE => MayEnd(bursts)
  /\ outFile # TornOut /\ outFile.done = TRUE => MayEnd(outFile.bursts)
  /\ outFile # TornOut => outFile.done \in BOOLEAN

(* A reading the loop does not stop at is below the cap.                      *)
LEMMA NotStopped ==
  ASSUME NEW r \in Readings, ~Stops(r)
  PROVE  Below(r)
BY ThermalAssumption DEF Readings, Stops, Below

(* The first state of a board that was never used.                           *)
LEMMA CaptureInitially == ThermalInit => CaptureInv /\ DoneInv
<1>. SUFFICES ASSUME ThermalInit PROVE CaptureInv /\ DoneInv
  OBVIOUS
<1>1. CaptureInv
  BY DEF ThermalInit, CaptureInv
<1>2. DoneInv
  BY DEF ThermalInit, DoneInv
<1>. QED
  BY <1>1, <1>2

(* Every step of a capture leaves the readings in order.                     *)
LEMMA CaptureStep ==
  ASSUME CaptureInv, ThermalNext
  PROVE  CaptureInv'
<1>. USE DEF CaptureInv
<1>1. CASE StartCapture
  BY <1>1 DEF StartCapture
<1>2. CASE CompileGemm
  BY <1>2 DEF CompileGemm
<1>3. CASE RunBurst
  BY <1>3 DEF RunBurst, Readings
<1>4. CASE FlushOut
  BY <1>4 DEF FlushOut
<1>5. CASE Check
  <2>1. bursts[Len(bursts)] \in Readings
    BY <1>5 DEF Check
  <2>. QED
    BY <1>5, <2>1, NotStopped DEF Check
<1>6. CASE CaptureLost
  BY <1>6 DEF CaptureLost, CaptureKilled
<1>. QED
  BY <1>1, <1>2, <1>3, <1>4, <1>5, <1>6 DEF ThermalNext

(* meta.done is set, and written, only at a reading the loop stops at.       *)
LEMMA DoneStep ==
  ASSUME CaptureInv, DoneInv, ThermalNext
  PROVE  DoneInv'
<1>. USE DEF DoneInv
<1>1. CASE StartCapture
  BY <1>1 DEF StartCapture
<1>2. CASE CompileGemm
  BY <1>2 DEF CompileGemm
<1>3. CASE RunBurst
  BY <1>3 DEF RunBurst, CaptureInv
<1>4. CASE FlushOut
  BY <1>4 DEF FlushOut
<1>5. CASE Check
  BY <1>5 DEF Check, CaptureInv, MayEnd
<1>6. CASE CaptureLost
  BY <1>6 DEF CaptureLost, CaptureKilled
<1>. QED
  BY <1>1, <1>2, <1>3, <1>4, <1>5, <1>6 DEF ThermalNext

(* The two parts together are the property the run checks.                   *)
LEMMA CaptureStops == CaptureInv /\ DoneInv => StopsAtTheCap
<1>. SUFFICES ASSUME CaptureInv, DoneInv PROVE StopsAtTheCap
  OBVIOUS
<1>1. \A i \in 1..(Len(bursts) - 1) : bursts[i] # NoOutput /\ bursts[i] < ABORT_CAP
  BY DEF CaptureInv, Below
<1>2. outFile # TornOut /\ outFile.done => MayEnd(outFile.bursts)
  BY DEF DoneInv
<1>. QED
  BY <1>1, <1>2 DEF StopsAtTheCap, MayEnd, Stops

-----------------------------------------------------------------------------
Tids == {Manifest[i].tid : i \in DOMAIN Manifest}

Agrees(f, g) == \A tid \in DOMAIN f : tid \in DOMAIN g /\ g[tid] = f[tid]

Running == pc \in {"loop", "save", "saving"}

(* What is left has no result yet, the task just measured excepted.           *)
TodoInv ==
  /\ pc \in {"down", "loop", "save", "saving", "report", "done"}
  /\ todo \subseteq DOMAIN Manifest
  /\ \A i \in todo :
       Manifest[i].tid \in DOMAIN results => pc \in {"save", "saving"} /\ IsNext(i)

(* The running process and every whole file agree with what was held, and    *)
(* between two tasks the process has nothing else.                            *)
HeldInv ==
  /\ Running => Agrees(held, results)
  /\ pc \in {"loop", "report"} => Agrees(results, held)
  /\ resultsFile # Torn => Agrees(held, resultsFile) /\ Agrees(resultsFile, held)
  /\ rawFile # Torn => Agrees(rawFile, held)

(* A result on a tile is that of a tile of its own M and of its process.      *)
OnTiles(res) ==
  \A i \in DOMAIN Manifest :
    LET tid == Manifest[i].tid
        t == res[tid].tile
    IN  tid \in DOMAIN res =>
          \/ t = 0
          \/ /\ t \in 1..Len(tiles)
             /\ tiles[t].M = MeasuredM(Manifest[i])
             /\ res[tid] = [ok |-> tiles[t].ok, tile |-> t, start |-> tiles[t].start]

MeasuredMs == {MeasuredM(Manifest[i]) : i \in DOMAIN Manifest}
TileRecords == [start : Nat, M : MeasuredMs, ok : BOOLEAN]

(* The tiles of a start are of distinct Ms, and the process that runs knows   *)
(* all of its own.                                                            *)
TileInv ==
  /\ tiles \in Seq(TileRecords)
  /\ starts \in Nat
  /\ \A a \in 1..Len(tiles) :
       /\ tiles[a].start <= starts
       /\ Running /\ tiles[a].start = starts => tiles[a].M \in DOMAIN tileCache
  /\ \A M \in DOMAIN tileCache :
       /\ tileCache[M] \in 1..Len(tiles)
       /\ tiles[tileCache[M]].M = M
       /\ tiles[tileCache[M]].start = starts
  /\ \A a, b \in 1..Len(tiles) :
       tiles[a].start = tiles[b].start /\ tiles[a].M = tiles[b].M => a = b
  /\ OnTiles(results)
  /\ resultsFile # Torn => OnTiles(resultsFile)

(* No results, no tiles, nothing held.                                       *)
LEMMA CampaignInitially == CampaignInit => TodoInv /\ HeldInv /\ TileInv
<1>. SUFFICES ASSUME CampaignInit PROVE TodoInv /\ HeldInv /\ TileInv
  OBVIOUS
<1>. USE DEF CampaignInit
<1>1. TodoInv
  BY DEF TodoInv
<1>2. HeldInv
  BY DEF HeldInv, Agrees
<1>3. TileInv
  BY DEF TileInv, OnTiles
<1>. QED
  BY <1>1, <1>2, <1>3

(* Whatever the measurement gives, it adds one result for the next task.      *)
LEMMA MeasureRecords ==
  ASSUME Measure
  PROVE  \E i \in todo : \E r : IsNext(i) /\ results' = Recorded(Manifest[i], r)
BY DEF Measure, FromCache, MeasureTile, MeasureWhole

(* A task is measured once in a process: its tid leaves with the write.      *)
LEMMA TodoStep ==
  ASSUME TodoInv, CampaignNext
  PROVE  TodoInv'
<1>. USE DEF TodoInv, IsNext
<1>1. ASSUME NEW only \in Scopes, Start(only) PROVE TodoInv'
  BY <1>1 DEF Start, Loaded
<1>2. CASE Measure
  <2>1. PICK i \in todo : \E r : IsNext(i) /\ results' = Recorded(Manifest[i], r)
    BY <1>2, MeasureRecords
  <2>2. DOMAIN results' = {Manifest[i].tid} \cup DOMAIN results
    BY <2>1 DEF Recorded, Assigned
  <2>3. pc = "loop" /\ pc' = "save" /\ todo' = todo
    BY <1>2 DEF Measure
  <2>. QED
    BY <2>1, <2>2, <2>3, ManifestAssumption
<1>3. CASE Truncate
  BY <1>3 DEF Truncate
<1>4. CASE Write
  BY <1>4, ManifestAssumption DEF Write
<1>5. CASE Finish
  BY <1>5 DEF Finish
<1>6. CASE Lost
  BY <1>6 DEF Lost, Killed
<1>. QED
  BY <1>1, <1>2, <1>3, <1>4, <1>5, <1>6 DEF CampaignNext, Process

(* A measurement adds a result and replaces none, and so does a write.       *)
LEMMA HeldStep ==
  ASSUME TodoInv, HeldInv, CampaignNext
  PROVE  HeldInv'
<1>. USE DEF HeldInv, Agrees, Running
<1>1. ASSUME NEW only \in Scopes, Start(only) PROVE HeldInv'
  BY <1>1 DEF Start, Loaded
<1>2. CASE Measure
  <2>1. PICK i \in todo : \E r : IsNext(i) /\ results' = Recorded(Manifest[i], r)
    BY <1>2, MeasureRecords
  <2>2. /\ pc = "loop" /\ pc' = "save" /\ held' = held
        /\ resultsFile' = resultsFile /\ rawFile' = rawFile
    BY <1>2 DEF Measure
  <2>3. Manifest[i].tid \notin DOMAIN held
    BY <2>2 DEF TodoInv
  <2>4. /\ DOMAIN results' = {Manifest[i].tid} \cup DOMAIN results
        /\ \A tid \in DOMAIN results : tid # Manifest[i].tid => results'[tid] = results[tid]
    BY <2>1 DEF Recorded, Assigned
  <2>5. \A tid \in DOMAIN held : tid \in DOMAIN results /\ results[tid] = held[tid]
    BY <2>2
  <2>6. \A tid \in DOMAIN held : tid \in DOMAIN results' /\ results'[tid] = held[tid]
    BY <2>3, <2>4, <2>5
  <2>. QED
    BY <2>2, <2>6
<1>3. CASE Truncate
  BY <1>3 DEF Truncate
<1>4. CASE Write
  BY <1>4 DEF Write
<1>5. CASE Finish
  BY <1>5 DEF Finish
<1>6. CASE Lost
  BY <1>6 DEF Lost, Killed
<1>. QED
  BY <1>1, <1>2, <1>3, <1>4, <1>5, <1>6 DEF CampaignNext, Process

(* A new result on a tile of its own M keeps all of them so.                 *)
LEMMA OnTilesStep ==
  ASSUME NEW i \in DOMAIN Manifest, NEW r, TileInv,
         results' = Recorded(Manifest[i], r),
         \A t \in 1..Len(tiles) : t \in 1..Len(tiles') /\ tiles'[t] = tiles[t],
         \/ r.tile = 0
         \/ /\ r.tile \in 1..Len(tiles')
            /\ tiles'[r.tile].M = MeasuredM(Manifest[i])
            /\ r = [ok |-> tiles'[r.tile].ok, tile |-> r.tile, start |-> tiles'[r.tile].start]
  PROVE  OnTiles(results)'
<1>. SUFFICES ASSUME NEW j \in DOMAIN Manifest, Manifest[j].tid \in DOMAIN results'
              PROVE  \/ results'[Manifest[j].tid].tile = 0
                     \/ /\ results'[Manifest[j].tid].tile \in 1..Len(tiles')
                        /\ tiles'[results'[Manifest[j].tid].tile].M = MeasuredM(Manifest[j])
                        /\ results'[Manifest[j].tid] =
                             [ok |-> tiles'[results'[Manifest[j].tid].tile].ok,
                              tile |-> results'[Manifest[j].tid].tile,
                              start |-> tiles'[results'[Manifest[j].tid].tile].start]
  BY DEF OnTiles
<1>1. CASE j = i
  <2>1. results'[Manifest[j].tid] = r
    BY <1>1 DEF Recorded, Assigned
  <2>. QED
    BY <1>1, <2>1
<1>2. CASE j # i
  <2>1. Manifest[j].tid # Manifest[i].tid
    BY <1>2, ManifestAssumption
  <2>2. Manifest[j].tid \in DOMAIN results /\ results'[Manifest[j].tid] = results[Manifest[j].tid]
    BY <2>1 DEF Recorded, Assigned
  <2> DEFINE t == results[Manifest[j].tid].tile
  <2>3. \/ t = 0
        \/ /\ t \in 1..Len(tiles)
           /\ tiles[t].M = MeasuredM(Manifest[j])
           /\ results[Manifest[j].tid] = [ok |-> tiles[t].ok, tile |-> t, start |-> tiles[t].start]
    BY <2>2 DEF TileInv, OnTiles
  <2>4. results'[Manifest[j].tid].tile = t
    BY <2>2
  <2>5. t = 0 \/ (t \in 1..Len(tiles') /\ tiles'[t] = tiles[t])
    BY <2>3
  <2> HIDE DEF t
  <2>. QED
    BY <2>2, <2>3, <2>4, <2>5
<1>. QED
  BY <1>1, <1>2

(* The cache is asked by the M the matrices are measured at.                 *)
LEMMA TileStep ==
  ASSUME TodoInv, TileInv, CampaignNext
  PROVE  TileInv'
<1>1. ASSUME NEW only \in Scopes, Start(only) PROVE TileInv'
  <2>1. \A a \in 1..Len(tiles) : tiles[a].start \in Nat
    <3>1. tiles \in Seq(TileRecords)
      BY DEF TileInv
    <3>2. \A a \in 1..Len(tiles) : tiles[a] \in TileRecords
      BY <3>1
    <3>. QED
      BY <3>2 DEF TileRecords
  <2>2. \A a \in 1..Len(tiles) : tiles[a].start # starts + 1 /\ tiles[a].start <= starts + 1
    BY <2>1 DEF TileInv
  <2>. QED
    BY <1>1, <2>2 DEF Start, Loaded, FreshCache, TileInv, OnTiles
<1>2. CASE Measure
  <2>1. PICK i \in todo : FromCache(Manifest[i]) \/ MeasureTile(Manifest[i]) \/ MeasureWhole(Manifest[i])
    BY <1>2 DEF Measure
  <2>2. /\ pc = "loop" /\ pc' = "save" /\ i \in DOMAIN Manifest
        /\ resultsFile' = resultsFile /\ starts' = starts
    BY <1>2 DEF Measure, TodoInv
  <2>3. CASE FromCache(Manifest[i])
    <3> DEFINE t == tileCache[MeasuredM(Manifest[i])]
    <3>1. /\ t \in 1..Len(tiles) /\ tiles[t].M = MeasuredM(Manifest[i])
          /\ results' = Recorded(Manifest[i],
                          [ok |-> tiles[t].ok, tile |-> t, start |-> tiles[t].start])
          /\ tileCache' = tileCache /\ tiles' = tiles
      BY <2>3 DEF FromCache, CacheKey, TileInv, Result
    <3> HIDE DEF t
    <3>2. OnTiles(results)'
      BY <2>2, <3>1, OnTilesStep
    <3>. QED
      BY <2>2, <3>1, <3>2 DEF TileInv, OnTiles, Running
  <2>4. CASE MeasureTile(Manifest[i])
    <3>1. PICK ok \in BOOLEAN :
            /\ tiles' = Append(tiles, [start |-> starts, M |-> MeasuredM(Manifest[i]), ok |-> ok])
            /\ results' = Recorded(Manifest[i],
                            [ok |-> ok, tile |-> Len(tiles) + 1, start |-> starts])
      BY <2>4 DEF MeasureTile, Result
    <3> DEFINE new == Len(tiles) + 1
               tile == [start |-> starts, M |-> MeasuredM(Manifest[i]), ok |-> ok]
    <3>2. tiles \in Seq(TileRecords) /\ tile \in TileRecords
      BY <2>2 DEF TileInv, MeasuredMs, TileRecords
    <3>3. /\ Len(tiles') = new /\ tiles' \in Seq(TileRecords) /\ tiles'[new] = tile
          /\ new \in Nat /\ new > 0 /\ Len(tiles) \in Nat
          /\ \A t \in 1..Len(tiles) : t \in 1..Len(tiles') /\ tiles'[t] = tiles[t] /\ t # new
          /\ \A t \in 1..Len(tiles') : t = new \/ t \in 1..Len(tiles)
      BY <3>1, <3>2
    <3>4. OnTiles(results)'
      <4>1. /\ tiles'[new].M = MeasuredM(Manifest[i]) /\ new \in 1..Len(tiles')
            /\ tiles'[new].ok = ok /\ tiles'[new].start = starts
        BY <3>3
      <4>. QED
        BY <2>2, <3>1, <3>3, <4>1, OnTilesStep
    <3>5. /\ DOMAIN tileCache' = DOMAIN tileCache \cup {MeasuredM(Manifest[i])}
          /\ MeasuredM(Manifest[i]) \notin DOMAIN tileCache
          /\ tileCache'[MeasuredM(Manifest[i])] = new
          /\ \A M \in DOMAIN tileCache : tileCache'[M] = tileCache[M]
      BY <2>4 DEF MeasureTile, CacheKey, Assigned
    <3>6. \A a \in 1..Len(tiles') :
            /\ tiles'[a].start <= starts
            /\ tiles'[a].start = starts => tiles'[a].M \in DOMAIN tileCache'
      <4>1. \A a \in 1..Len(tiles) :
              /\ tiles'[a] = tiles[a] /\ tiles[a].start <= starts
              /\ tiles[a].start = starts => tiles[a].M \in DOMAIN tileCache
        BY <2>2, <3>3 DEF TileInv, Running
      <4>2. tiles'[new].start = starts /\ tiles'[new].M = MeasuredM(Manifest[i]) /\ starts \in Nat
        BY <3>3 DEF TileInv
      <4> HIDE DEF new, tile
      <4>. QED
        BY <3>3, <3>5, <4>1, <4>2
    <3>7. \A M \in DOMAIN tileCache' :
            /\ tileCache'[M] \in 1..Len(tiles') /\ tiles'[tileCache'[M]].M = M
            /\ tiles'[tileCache'[M]].start = starts
      <4>1. \A M \in DOMAIN tileCache :
              /\ tileCache'[M] \in 1..Len(tiles)
              /\ tiles'[tileCache'[M]].M = M
              /\ tiles'[tileCache'[M]].start = starts
        BY <3>3, <3>5 DEF TileInv
      <4>2. /\ tiles'[new].M = MeasuredM(Manifest[i]) /\ new \in 1..Len(tiles')
            /\ tiles'[new].start = starts
        BY <3>3
      <4> HIDE DEF new, tile
      <4>. QED
        BY <3>3, <3>5, <4>1, <4>2
    <3>8. \A a \in 1..Len(tiles) : ~(tiles[a].start = starts /\ tiles[a].M = MeasuredM(Manifest[i]))
      BY <2>2, <3>5 DEF TileInv, Running
    <3>9. \A a, b \in 1..Len(tiles') :
            tiles'[a].start = tiles'[b].start /\ tiles'[a].M = tiles'[b].M => a = b
      BY <3>3, <3>8 DEF TileInv
    <3>10. resultsFile' # Torn => OnTiles(resultsFile)'
      BY <2>2, <3>3 DEF TileInv, OnTiles
    <3> HIDE DEF new, tile
    <3>. QED
      BY <2>2, <3>3, <3>4, <3>6, <3>7, <3>9, <3>10 DEF TileInv
  <2>5. CASE MeasureWhole(Manifest[i])
    <3>1. PICK r : results' = Recorded(Manifest[i], r) /\ r.tile = 0
      BY <2>5 DEF MeasureWhole, Untiled, Result
    <3>2. tileCache' = tileCache /\ tiles' = tiles
      BY <2>5 DEF MeasureWhole
    <3>3. OnTiles(results)'
      BY <2>2, <3>1, <3>2, OnTilesStep
    <3>. QED
      BY <2>2, <3>2, <3>3 DEF TileInv, OnTiles, Running
  <2>. QED
    BY <2>1, <2>3, <2>4, <2>5
<1>3. CASE Truncate
  BY <1>3 DEF Truncate, TileInv, OnTiles, Running
<1>4. CASE Write
  BY <1>4 DEF Write, TileInv, OnTiles, Running
<1>5. CASE Finish
  BY <1>5 DEF Finish, TileInv, OnTiles, Running
<1>6. CASE Lost
  BY <1>6 DEF Lost, Killed, FreshCache, TileInv, OnTiles, Running
<1>. QED
  BY <1>1, <1>2, <1>3, <1>4, <1>5, <1>6 DEF CampaignNext, Process

(* Two results on tiles of one start and one M are on the same tile.         *)
LEMMA TilesOfTheirOwnM == TileInv => TileOfItsOwnM
<1>. SUFFICES ASSUME TileInv PROVE TileOfItsOwnM
  OBVIOUS
<1> DEFINE tid(i) == Manifest[i].tid
           t(i) == results[tid(i)].tile
           tiled == {i \in DOMAIN Manifest : tid(i) \in DOMAIN results /\ t(i) > 0}
<1>1. \A i \in tiled :
        /\ t(i) \in 1..Len(tiles) /\ tiles[t(i)].M = MeasuredM(Manifest[i])
        /\ results[tid(i)] = [ok |-> tiles[t(i)].ok, tile |-> t(i), start |-> tiles[t(i)].start]
  <2>1. OnTiles(results)
    BY DEF TileInv
  <2>2. \A i \in tiled :
          \/ t(i) = 0
          \/ /\ t(i) \in 1..Len(tiles) /\ tiles[t(i)].M = MeasuredM(Manifest[i])
             /\ results[tid(i)] =
                  [ok |-> tiles[t(i)].ok, tile |-> t(i), start |-> tiles[t(i)].start]
    BY <2>1 DEF OnTiles
  <2>3. \A i \in tiled : t(i) # 0
    OBVIOUS
  <2> HIDE DEF t, tiled
  <2>. QED
    BY <2>2, <2>3
<1>2. \A a, b \in 1..Len(tiles) :
        tiles[a].start = tiles[b].start /\ tiles[a].M = tiles[b].M => a = b
  BY DEF TileInv
<1>3. ASSUME NEW i \in tiled, NEW j \in tiled,
             tiles[t(i)].start = tiles[t(j)].start, tiles[t(i)].M = tiles[t(j)].M
      PROVE  results[tid(i)] = results[tid(j)]
  <2>1. t(i) = t(j)
    <3> HIDE DEF t
    <3>. QED
      BY <1>1, <1>2, <1>3
  <2>. QED
    BY <1>1, <2>1
<1>4. \A i \in tiled : results[tid(i)].start = tiles[t(i)].start
  <2> SUFFICES ASSUME NEW i \in tiled
               PROVE  results[tid(i)].start = tiles[t(i)].start
    OBVIOUS
  <2>1. results[tid(i)] = [ok |-> tiles[t(i)].ok, tile |-> t(i), start |-> tiles[t(i)].start]
    BY <1>1
  <2> HIDE DEF t, tiled, tid
  <2>. QED
    BY <2>1
<1>5. \A i \in tiled :
        /\ tiles[t(i)].M = MeasuredM(Manifest[i]) /\ tiles[t(i)].start = results[tid(i)].start
        /\ \A j \in tiled :
             results[tid(i)].start = results[tid(j)].start /\ tiles[t(i)].M = tiles[t(j)].M
               => results[tid(i)] = results[tid(j)]
  <2> HIDE DEF t, tiled, tid
  <2>. QED
    BY <1>1, <1>3, <1>4
<1>. QED
  BY <1>5 DEF TileOfItsOwnM

-----------------------------------------------------------------------------
(* The two scripts touch nothing of each other but in a reboot, which is a    *)
(* loss of both.                                                              *)
CampaignInv == TodoInv /\ HeldInv /\ TileInv

(* A step of the capture leaves the campaign as it was.                      *)
LEMMA CampaignKept ==
  ASSUME CampaignInv, UNCHANGED campaignVars
  PROVE  CampaignInv'
BY DEF CampaignInv, campaignVars, TodoInv, IsNext, HeldInv, Agrees, Running, TileInv, OnTiles

(* A step of the campaign leaves the capture as it was.                      *)
LEMMA CaptureKept ==
  ASSUME CaptureInv, DoneInv, UNCHANGED thermalVars
  PROVE  (CaptureInv /\ DoneInv)'
BY DEF CaptureInv, DoneInv, thermalVars

(* A lost process forgets its results and its cache, not the files.          *)
LEMMA KilledKeeps ==
  ASSUME CampaignInv, Killed
  PROVE  CampaignInv'
BY DEF CampaignInv, Killed, FreshCache, TodoInv, IsNext, HeldInv, Agrees, Running, TileInv, OnTiles

(* A lost capture leaves its file as it was, torn or whole.                  *)
LEMMA CaptureKilledKeeps ==
  ASSUME CaptureInv, DoneInv, CaptureKilled
  PROVE  (CaptureInv /\ DoneInv)'
BY DEF CaptureInv, DoneInv, CaptureKilled

BoardInv == CampaignInv /\ CaptureInv /\ DoneInv

(* What holds of the board at every step, whatever is lost and started again. *)
THEOREM BoardInvariant == Spec => []BoardInv
<1>1. Init => BoardInv
  BY CampaignInitially, CaptureInitially DEF Init, BoardInv, CampaignInv
<1>2. BoardInv /\ [Next]_vars => BoardInv'
  <2>. SUFFICES ASSUME BoardInv, [Next]_vars PROVE BoardInv'
    OBVIOUS
  <2>1. CampaignInv /\ CaptureInv /\ DoneInv
    BY DEF BoardInv
  <2>2. CASE CampaignNext /\ UNCHANGED thermalVars
    BY <2>1, <2>2, TodoStep, HeldStep, TileStep, CaptureKept DEF BoardInv, CampaignInv
  <2>3. CASE ThermalNext /\ UNCHANGED campaignVars
    BY <2>1, <2>3, CaptureStep, DoneStep, CampaignKept DEF BoardInv
  <2>4. CASE Reboot
    BY <2>1, <2>4, KilledKeeps, CaptureKilledKeeps DEF Reboot, BoardInv
  <2>5. CASE UNCHANGED vars
    BY <2>1, <2>5, CampaignKept, CaptureKept DEF vars, BoardInv
  <2>. QED
    BY <2>2, <2>3, <2>4, <2>5 DEF Next
<1>. QED
  BY <1>1, <1>2, PTL DEF Spec

(* A result once held by a whole results file is never lost or measured again *)
(* (run_metis_cim_v16.main), however often and wherever the script is lost,   *)
(* and the report at the end holds no other.                                  *)
THEOREM ResultsAreNotForgotten == Spec => []NothingForgotten
<1>1. BoardInv => NothingForgotten
  BY DEF BoardInv, CampaignInv, HeldInv, Agrees, NothingForgotten
<1>. QED
  BY <1>1, BoardInvariant, PTL

(* measure_op never serves an M from the canonical tile of another, nor from  *)
(* one of a process before it, nor two matrices of one M from two tiles of    *)
(* one process.                                                               *)
THEOREM TilesServeTheirOwnM == Spec => []TileOfItsOwnM
<1>1. BoardInv => TileOfItsOwnM
  BY TilesOfTheirOwnM DEF BoardInv, CampaignInv
<1>. QED
  BY <1>1, BoardInvariant, PTL

(* thermal_capture.main goes on only below its cap, and says done only of a   *)
(* capture that had to stop.                                                  *)
THEOREM CapturesStopAtTheCap == Spec => []StopsAtTheCap
<1>1. BoardInv => StopsAtTheCap
  BY CaptureStops DEF BoardInv
<1>. QED
  BY <1>1, BoardInvariant, PTL

=============================================================================
