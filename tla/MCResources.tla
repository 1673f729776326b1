----------------------------- MODULE MCResources -----------------------------
(***************************************************************************)
(* What shares out the machine: the scheduler and the memory monitor.      *)
(* They meet only in the queue, which passes the monitor's verdict on, so  *)
(* a behaviour is one of a single part while the other stays as it began.  *)
(***************************************************************************)
EXTENDS Scheduler, Monitor

VARIABLE part

R(c, m, g, v) == [cpu |-> c, ram |-> m, gpu |-> g, vram |-> v]

\* Two small jobs that keep fitting beside each other, one of them with a GPU,
\* and one that needs all the GPUs; the configuration leaves out a processor.
MCStatic == <<R(1, 1, 1, 1), R(1, 1, 0, 0), R(2, 2, 2, 2)>>
MCHost == R(3, 3, 2, 2)
MCCapacity == R(2, 3, 2, 2)

\* All attempts have ended: the monitor has nothing to sample.
MonitorIdle ==
    /\ parent = [p \in Pids |-> 0] /\ rss = [p \in Pids |-> 0]
    /\ alive = {} /\ running = {}
    /\ breaches = 0 /\ action = "Admit" /\ window = <<>>
    /\ pc = "idle" /\ scan = NoScan
    /\ target = 0 /\ polls = 0 /\ outcome = "none"

Init ==
    \/ part = "scheduler" /\ SchedInit /\ MonitorIdle
    \/ part = "monitor" /\ MonitorInit /\ SchedInit

Next ==
    /\ UNCHANGED part
    /\ \/ part = "scheduler" /\ SchedNext /\ UNCHANGED monitorVars
       \/ part = "monitor" /\ MonitorNext /\ UNCHANGED schedVars

\* The part that stays as it began has no step that fairness asks for: no job
\* waits or runs, no attempt is left.
Spec ==
    Init /\ [][Next]_<<part, schedVars, monitorVars>> /\ SchedFairness /\ MonitorFairness
=============================================================================
