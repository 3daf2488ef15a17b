----------------------------- MODULE PollRunner -----------------------------
(***************************************************************************)
(* The background runner of the desktop: one worker thread, one evaluation  *)
(* in flight, and a bounded queue of operator commands that the worker      *)
(* drains before it evaluates.  `flight' is the future in PollRunner.future *)
(* and `disposal' the one in close_future.                                  *)
(***************************************************************************)
EXTENDS Naturals, Sequences

CONSTANT QueueSize      \* Queue(maxsize=8)

ASSUME QueueSizeAssumption == QueueSize \in Nat \ {0}

Commands == {"pause", "resume"}

VARIABLES commands, flight, disposal

runnerVars == <<commands, flight, disposal>>

RunnerTypeOK ==
    /\ commands \in Seq(Commands)
    /\ Len(commands) <= QueueSize
    /\ flight \in {"none", "running", "done", "failed"}
    /\ disposal \in {"none", "queued", "done", "failed"}

RunnerInit == commands = <<>> /\ flight = "none" /\ disposal = "none"

RunnerOpen == disposal = "none"

(* The GUI's side. *)
Enqueue(action) ==
    /\ RunnerOpen
    /\ Len(commands) < QueueSize
    /\ commands' = Append(commands, action)

(* submit() does nothing while an evaluation is in flight or once closed. *)
Submitting == RunnerOpen /\ flight = "none"

Landed == flight \in {"done", "failed"}

Take == Landed /\ flight' = "none"

(* The worker's side: the commands in order, then one evaluation. *)
TakeCommand(action) ==
    /\ commands # <<>>
    /\ Head(commands) = action
    /\ commands' = Tail(commands)
=============================================================================
