--------------------------- MODULE ThermalCapture ---------------------------
(***************************************************************************)
(* The thermal capture of the Metis Card                                     *)
(* (characterization/metis_card/thermal_capture.py): bursts back to back,    *)
(* the file rewritten after each, an abort at a cap on the temperature.      *)
(***************************************************************************)
EXTENDS Integers, Sequences

CONSTANTS
  Temps,         \* readings, in degrees
  ABORT_CAP,
  MaxBursts,
  MaxCaptures,   \* starts of the script, at most
  NoOutput,      \* what stands for the temperature of a burst without a summary line
  TornOut        \* an output file lost within its rewriting

ASSUME ThermalAssumption ==
  Temps \subseteq Int /\ ABORT_CAP \in Int /\ NoOutput \notin Temps

VARIABLES
  tpc,           \* "down", "compile", "burst", "flush", "flushing", "check"
  bursts,        \* temperatures read, in memory
  done,          \* meta.done
  outFile,       \* what is on disk: [bursts, done], or TornOut
  captures

thermalVars == <<tpc, bursts, done, outFile, captures>>

ThermalInit ==
  /\ tpc = "down" /\ bursts = <<>> /\ done = FALSE
  /\ outFile = [bursts |-> <<>>, done |-> FALSE] /\ captures = 0

StartCapture ==
  /\ tpc = "down" /\ captures < MaxCaptures
  /\ tpc' = "compile" /\ bursts' = <<>> /\ done' = FALSE /\ captures' = captures + 1
  /\ UNCHANGED outFile

(* The first M that compiles is used; none of them, or a compiler that       *)
(* hangs, ends the script with the file of the last capture untouched.       *)
CompileGemm ==
  /\ tpc = "compile"
  /\ tpc' \in {"flush", "down"}
  /\ UNCHANGED <<bursts, done, outFile, captures>>

(* A burst that outlasts its timeout raises and ends the script.             *)
RunBurst ==
  /\ tpc = "burst"
  /\ \/ \E reading \in Temps \cup {NoOutput} : bursts' = Append(bursts, reading) /\ tpc' = "flush"
     \/ tpc' = "down" /\ UNCHANGED bursts
  /\ UNCHANGED <<done, outFile, captures>>

FlushOut ==
  \/ tpc = "flush" /\ tpc' = "flushing" /\ outFile' = TornOut /\ UNCHANGED <<bursts, done, captures>>
  \/ /\ tpc = "flushing" /\ outFile' = [bursts |-> bursts, done |-> done]
     /\ tpc' = IF done THEN "down" ELSE IF bursts = <<>> THEN "burst" ELSE "check"
     /\ UNCHANGED <<bursts, done, captures>>

(* Mutated form: a reading at the cap is not yet one to stop at.             *)
Stops_AboveCap(reading) == reading = NoOutput \/ reading > ABORT_CAP

Stops(reading) == reading = NoOutput \/ reading >= ABORT_CAP

Check ==
  /\ tpc = "check"
  /\ LET last == bursts[Len(bursts)]
     IN  IF Stops(last) \/ Len(bursts) = MaxBursts
         THEN done' = TRUE /\ tpc' = "flush"
         ELSE done' = done /\ tpc' = "burst"
  /\ UNCHANGED <<bursts, outFile, captures>>

CaptureKilled == tpc' = "down" /\ UNCHANGED <<bursts, done, outFile, captures>>
CaptureLost == tpc # "down" /\ CaptureKilled

ThermalNext == StartCapture \/ CompileGemm \/ RunBurst \/ FlushOut \/ Check \/ CaptureLost

-----------------------------------------------------------------------------
(* Within a capture no burst follows one that read the cap or read nothing,  *)
(* and a whole file that says done ends where the capture had to stop, not   *)
(* where it was lost.  A capture knows nothing of the one before it: started *)
(* right after a reading at the cap, it runs its first burst.                *)
StopsAtTheCap ==
  LET stopped(b) == b # <<>> /\ (b[Len(b)] = NoOutput \/ b[Len(b)] >= ABORT_CAP)
  IN  /\ \A i \in 1..(Len(bursts) - 1) : bursts[i] # NoOutput /\ bursts[i] < ABORT_CAP
      /\ outFile # TornOut /\ outFile.done => stopped(outFile.bursts) \/ Len(outFile.bursts) = MaxBursts

=============================================================================
