---------------------------- MODULE ExpressHarness ----------------------------
(***************************************************************************)
(* The EpicChainExpress wrapper of src/examples/shared/__init__.py, used   *)
(* as a context manager by the example scripts.                            *)
(*                                                                         *)
(* Three threads of control:                                               *)
(*   - the main thread: __enter__ (batch, then run(): Popen, start the     *)
(*     reader, busy-wait on _ready), the with-body, then __exit__/stop();  *)
(*   - the reader thread process_stdout, iterating over readline();        *)
(*   - the epicchainxp child process writing lines into the stdout pipe.   *)
(*                                                                         *)
(* A line is READY (it contains "EpicChain private chain is running") or   *)
(* LOG.  The pipe is opened with text=True, so at end of file readline()   *)
(* returns the empty string EOF, which never equals the sentinel b"" of    *)
(* iter(): after EOF the loop keeps running with output = EOF.             *)
(***************************************************************************)
EXTENDS Naturals, Sequences

CONSTANTS
  Output,         \* the lines the chain prints, in order
  PipeCap,        \* lines the pipe buffers before the child blocks
  ExitBeforeReady \* whether the chain may exit before it announces it runs

READY == "ready"
LOG == "log"
EOF == ""       \* readline() of a text-mode pipe at end of file

ASSUME Output \in Seq({READY, LOG}) /\ PipeCap \in Nat \ {0} /\ ExitBeforeReady \in BOOLEAN

VARIABLES
  main,      \* the main thread: "init", "batched", "failed", "waiting",
             \* "running", "stopping", "stopped"
  reader,    \* the reader thread: "off", "reading", "done"
  ready,     \* self._ready
  stop,      \* self._stop
  debug,     \* self.debug
  child,     \* the child process: "none", "alive", "dead"
  printed,   \* how many lines of Output the child has written
  pipe       \* lines written and not yet read

vars == <<main, reader, ready, stop, debug, child, printed, pipe>>

-----------------------------------------------------------------------------
(* Mutant of LoopBody: the _stop check is missing. *)
LoopBodyNoStopCheck(out) ==
  /\ ready' = (ready \/ out = READY)
  /\ UNCHANGED reader

(* Mutant of LoopBody: the readiness test is indented under `if debug`. *)
LoopBodyReadyInDebug(out) ==
  IF stop THEN reader' = "done" /\ UNCHANGED ready
  ELSE ready' = (ready \/ (debug /\ out = READY)) /\ UNCHANGED reader

(* One iteration of process_stdout's loop on output (lines 101-108):     *)
(* break when _stop is set, otherwise note a READY line.                 *)
LoopBody(out) ==
  IF stop THEN reader' = "done" /\ UNCHANGED ready
  ELSE ready' = (ready \/ out = READY) /\ UNCHANGED reader

-----------------------------------------------------------------------------
(* __enter__ first runs the batch (lines 135-137): initialize_with      *)
(* (lines 80-84) waits for it, and check=True raises when it fails; the *)
(* exception leaves __enter__, so neither run() nor __exit__ is called.  *)
Batch ==
  /\ main = "init"
  /\ main' \in {"batched", "failed"}
  /\ UNCHANGED <<reader, ready, stop, debug, child, printed, pipe>>

(* __enter__ then calls run() (line 138), which starts the chain and the *)
(* reader thread (lines 86-111).                                         *)
Enter ==
  /\ main = "batched"
  /\ main' = "waiting"
  /\ child' = "alive"
  /\ reader' = "reading"
  /\ UNCHANGED <<ready, stop, debug, printed, pipe>>

(* The chain writes its next line; a full pipe blocks it. *)
ChildPrint ==
  /\ child = "alive"
  /\ printed < Len(Output)
  /\ Len(pipe) < PipeCap
  /\ pipe' = Append(pipe, Output[printed + 1])
  /\ printed' = printed + 1
  /\ UNCHANGED <<main, reader, ready, stop, debug, child>>

(* The chain has written its READY line. *)
Announced == \E j \in 1 .. printed : Output[j] = READY

(* The chain exits by itself: it crashes while running, or, when       *)
(* ExitBeforeReady, its start fails before the READY line.               *)
ChildExit ==
  /\ ExitBeforeReady \/ Announced
  /\ child = "alive"
  /\ child' = "dead"
  /\ UNCHANGED <<main, reader, ready, stop, debug, printed, pipe>>

(* readline() returns a buffered line (line 100). *)
ReadLine ==
  /\ reader = "reading"
  /\ pipe # << >>
  /\ LoopBody(Head(pipe))
  /\ pipe' = Tail(pipe)
  /\ UNCHANGED <<main, stop, debug, child, printed>>

(* readline() at end of file returns EOF, which is not the sentinel, so *)
(* the loop body runs again (line 100).                                  *)
ReadEOF ==
  /\ reader = "reading"
  /\ pipe = << >>
  /\ child = "dead"
  /\ LoopBody(EOF)
  /\ UNCHANGED <<main, stop, debug, child, printed, pipe>>

(* run()'s busy wait (lines 113-116) ends once _ready is set. *)
Wake ==
  /\ main = "waiting"
  /\ ready
  /\ main' = "running"
  /\ UNCHANGED <<reader, ready, stop, debug, child, printed, pipe>>

(* __exit__ calls stop(): _stop is set first (line 121) ... *)
Stop ==
  /\ main = "running"
  /\ main' = "stopping"
  /\ stop' = TRUE
  /\ UNCHANGED <<reader, ready, debug, child, printed, pipe>>

(* ... then the chain is killed (line 122). *)
Kill ==
  /\ main = "stopping"
  /\ main' = "stopped"
  /\ child' = "dead"
  /\ UNCHANGED <<reader, ready, stop, debug, printed, pipe>>

(* __init__ (lines 49-53), with the debug flag of the caller. *)
Init ==
  /\ main = "init"
  /\ reader = "off"
  /\ ready = FALSE
  /\ stop = FALSE
  /\ debug \in BOOLEAN
  /\ child = "none"
  /\ printed = 0
  /\ pipe = << >>

Next ==
  \/ Batch \/ Enter \/ Wake \/ Stop \/ Kill
  \/ ChildPrint \/ ChildExit
  \/ ReadLine \/ ReadEOF

(* The main and reader threads are scheduled; the script reaches the end *)
(* of its with-body; a running chain keeps writing its output.  A chain  *)
(* exit is not forced.                                                    *)
Fairness ==
  /\ WF_vars(Batch) /\ WF_vars(Enter) /\ WF_vars(Wake) /\ WF_vars(Stop) /\ WF_vars(Kill)
  /\ WF_vars(ReadLine) /\ WF_vars(ReadEOF)
  /\ WF_vars(ChildPrint)

Spec == Init /\ [][Next]_vars /\ Fairness

-----------------------------------------------------------------------------
(* run() returns: once the main thread waits on _ready, the reader       *)
(* eventually sets it and the busy wait of lines 113-114 ends.           *)
RunReturns == main = "waiting" ~> main = "running"

(* stop() ends the reader thread: after the chain is killed the loop     *)
(* meets the _stop flag, on a buffered line or on EOF, and breaks.       *)
ReaderEnds == main = "stopped" ~> reader = "done"
=============================================================================
