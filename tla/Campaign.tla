------------------------------ MODULE Campaign ------------------------------
(***************************************************************************)
(* The resumable measurement campaign of the Metis Card                      *)
(* (characterization/metis_card/run_metis_cim_v16.py): a manifest of tasks,  *)
(* each measured once, the results file rewritten after each, and a process  *)
(* that may be lost at any step and started again.                           *)
(***************************************************************************)
EXTENDS Integers, Sequences

CONSTANTS
  Manifest,    \* the tasks: sequence of [tid, group, M, big]; big: K * N > SAFE_KN
  M_MAX,       \* the largest M of which a tile compiles
  Chunk,       \* rows of a chunk of an "mtile" task
  MaxStarts,   \* starts of the script, at most
  Torn         \* a file lost within its rewriting

(* A tid names its task: group, family and shape.                            *)
ASSUME ManifestAssumption ==
  /\ DOMAIN Manifest = 1..Len(Manifest)
  /\ \A i, j \in DOMAIN Manifest : Manifest[i].tid = Manifest[j].tid => i = j

VARIABLES
  pc,          \* "down", "loop", "save", "saving", "report", "done"
  scope,       \* --only: a group, or "all"
  todo,        \* what the loop has left, as places in the manifest
  results,     \* task |-> its result, in memory; [ok, tile, start]
  tileCache,   \* M |-> the canonical tile measured at it, in this process
  resultsFile, \* what is on disk: task |-> result, or Torn
  rawFile,     \* cim_card_revalidate_raw.json, likewise: written at the end
  tiles,       \* every canonical tile measured, in order: [start, M, ok]
  held,        \* task |-> the first result a whole file ever held
  starts

campaignVars ==
  <<pc, scope, todo, results, tileCache, resultsFile, rawFile, tiles, held, starts>>

Direct ==
  {"prefill_msweep", "envelope_probe", "cliff_map", "multitile", "k_staircase", "n_staircase"}

(* d[key] = value on a dict.                                                 *)
Assigned(d, key, value) ==
  [k \in DOMAIN d \cup {key} |-> IF k = key THEN value ELSE d[k]]

CampaignInit ==
  /\ pc = "down" /\ scope = "all" /\ todo = {}
  /\ results = <<>> /\ tileCache = <<>> /\ resultsFile = <<>>
  /\ rawFile = <<>>
  /\ tiles = <<>> /\ held = <<>> /\ starts = 0

InScope(task, only) == only = "all" \/ task.group = only

(* Mutated form: a start does not read what the last one left.               *)
Loaded_Nothing == <<>>

(* A file that is not there reads as no result; a torn one raises.           *)
Loaded == resultsFile

(* Mutated form: the cache of one process is found again by the next.        *)
FreshCache_Kept == tileCache

(* _TILE_CACHE is a global of the module: empty in every new process.        *)
FreshCache == <<>>

Start(only) ==
  /\ pc \in {"down", "done"} /\ starts < MaxStarts /\ resultsFile # Torn
  /\ pc' = "loop" /\ scope' = only
  /\ results' = Loaded
  /\ todo' = {i \in DOMAIN Manifest :
               InScope(Manifest[i], only) /\ Manifest[i].tid \notin DOMAIN Loaded}
  /\ tileCache' = FreshCache /\ starts' = starts + 1
  /\ UNCHANGED <<resultsFile, rawFile, tiles, held>>

-----------------------------------------------------------------------------
(* The M the task's matrices are measured at, and whether that takes the     *)
(* canonical tile.                                                           *)
MeasuredM(task) == IF task.group = "mtile" THEN Chunk ELSE task.M
Tiled(task) ==
  task.group \notin Direct \cup {"kv_proxy"} /\ task.big /\ MeasuredM(task) <= M_MAX
Refused(task) == task.group \notin Direct \cup {"kv_proxy"} /\ MeasuredM(task) > M_MAX

(* Mutated form: whatever tile was measured first serves every M.            *)
CacheKey_None(task) == 0

CacheKey(task) == MeasuredM(task)

(* Mutated form: a task that failed is left for a later start.               *)
Recorded_OnlyOk(task, result) == IF result.ok THEN Assigned(results, task.tid, result) ELSE results

Recorded(task, result) == Assigned(results, task.tid, result)

(* A result: whether it is a measurement, the tile it stands on and, a       *)
(* history, the start it was recorded in.                                    *)
Result(ok, tile) == [ok |-> ok, tile |-> tile, start |-> starts]

Untiled(ok) == Result(ok, 0)

(* The loop takes the tasks in the order of the manifest.                    *)
IsNext(i) == i \in todo /\ \A j \in todo : i <= j

(* The tile of this M was measured before in this process.                   *)
FromCache(task) ==
  /\ Tiled(task) /\ CacheKey(task) \in DOMAIN tileCache
  /\ LET i == tileCache[CacheKey(task)]
     IN  results' = Recorded(task, Result(tiles[i].ok, i))
  /\ UNCHANGED <<tileCache, tiles>>

(* measure() catches every failure of the compiler and of the run, their     *)
(* timeouts included: it answers, with a measurement or an error.            *)
MeasureTile(task) ==
  /\ Tiled(task) /\ CacheKey(task) \notin DOMAIN tileCache
  /\ \E ok \in BOOLEAN :
       /\ tiles' = Append(tiles, [start |-> starts, M |-> MeasuredM(task), ok |-> ok])
       /\ results' = Recorded(task, Result(ok, Len(tiles) + 1))
  /\ tileCache' = Assigned(tileCache, CacheKey(task), Len(tiles) + 1)

MeasureWhole(task) ==
  /\ ~Tiled(task)
  /\ \E ok \in IF Refused(task) THEN {FALSE} ELSE BOOLEAN :
       results' = Recorded(task, Untiled(ok))
  /\ UNCHANGED <<tileCache, tiles>>

Measure ==
  /\ pc = "loop" /\ pc' = "save"
  /\ \E i \in todo :
       /\ IsNext(i)
       /\ FromCache(Manifest[i]) \/ MeasureTile(Manifest[i]) \/ MeasureWhole(Manifest[i])
  /\ UNCHANGED <<scope, todo, resultsFile, rawFile, held, starts>>

(* The file is emptied, then written.                                        *)
Truncate ==
  /\ pc = "save" /\ pc' = "saving"
  /\ resultsFile' = Torn
  /\ UNCHANGED <<scope, todo, results, tileCache, rawFile, tiles, held, starts>>

Write ==
  /\ pc = "saving" /\ pc' = "loop"
  /\ resultsFile' = results
  /\ held' = [tid \in DOMAIN held \cup DOMAIN results |->
               IF tid \in DOMAIN held THEN held[tid] ELSE results[tid]]
  /\ \E i \in todo : IsNext(i) /\ todo' = todo \ {i}
  /\ UNCHANGED <<scope, results, tileCache, rawFile, tiles, starts>>

(* The last write, of a copy nobody reads back.                              *)
Finish ==
  /\ \/ pc = "loop" /\ todo = {} /\ pc' = "report" /\ rawFile' = Torn
     \/ pc = "report" /\ pc' = "done" /\ rawFile' = results
  /\ UNCHANGED <<scope, todo, results, tileCache, resultsFile, tiles, held, starts>>

(* The process is lost with what it holds in memory.                         *)
Killed ==
  /\ pc' = "down" /\ todo' = {} /\ results' = <<>> /\ tileCache' = FreshCache
  /\ UNCHANGED <<scope, resultsFile, rawFile, tiles, held, starts>>

Lost == pc \notin {"down", "done"} /\ Killed

Scopes == {"all"} \cup {Manifest[i].group : i \in DOMAIN Manifest}

Process == Measure \/ Truncate \/ Write \/ Finish
CampaignNext == (\E only \in Scopes : Start(only)) \/ Process \/ Lost

-----------------------------------------------------------------------------
(* A result that was once in a whole file is in every whole file after it,   *)
(* unchanged, whatever crashes and starts of any scope come between: the     *)
(* hours of board time behind it are not spent again.  A whole report holds  *)
(* such results only.                                                        *)
NothingForgotten ==
  /\ resultsFile # Torn =>
       \A tid \in DOMAIN held : tid \in DOMAIN resultsFile /\ resultsFile[tid] = held[tid]
  /\ rawFile # Torn =>
       \A tid \in DOMAIN rawFile : tid \in DOMAIN held /\ rawFile[tid] = held[tid]

(* An extrapolated result stands on a tile measured at the M it is about, in *)
(* the process that recorded it, and two of one process and one M on the     *)
(* same tile: their ratio is that of their tile counts.                      *)
TileOfItsOwnM ==
  LET result(i) == results[Manifest[i].tid]
      tiled == {i \in DOMAIN Manifest :
                  Manifest[i].tid \in DOMAIN results /\ result(i).tile > 0}
      ran(i) == tiles[result(i).tile]
  IN  \A i \in tiled :
        /\ ran(i).M = MeasuredM(Manifest[i]) /\ ran(i).start = result(i).start
        /\ \A j \in tiled :
             result(i).start = result(j).start /\ ran(i).M = ran(j).M =>
               result(i) = result(j)

(* A start that is not lost records every task of its scope, those the board *)
(* refuses or hangs on included.                                             *)
Finishes ==
  \A only \in Scopes :
    (pc = "loop" /\ scope = only) ~>
      (pc = "down" \/ \A i \in DOMAIN Manifest :
         InScope(Manifest[i], only) => resultsFile # Torn /\ Manifest[i].tid \in DOMAIN resultsFile)

=============================================================================
