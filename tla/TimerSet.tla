------------------------------- MODULE TimerSet -------------------------------
(***************************************************************************)
(* What the timer container promises its users (timer/timer.h): a set of   *)
(* armed timers, each with a deadline.  A timer is armed, re-armed and     *)
(* disarmed one at a time; a sweep that began at time c fires timers that  *)
(* are due at c, each of them at most once, and is over only when none is  *)
(* left.  Nothing is said of links, order or traversal.                    *)
(***************************************************************************)
EXTENDS Integers

CONSTANTS Timers,       \* the timer objects
          NoSweep       \* the value of sweep when no sweep is in progress

VARIABLES deadline,     \* a function from the armed timers to their deadlines
          sweep         \* the time the current sweep began, or NoSweep

vars == <<deadline, sweep>>

Armed == DOMAIN deadline

Init == /\ deadline = [t \in {} |-> 0]
        /\ sweep = NoSweep

\* All timers but t keep their deadlines.
OthersKeep(t) == \A s \in Armed \ {t} : deadline'[s] = deadline[s]

Arm(t) == /\ sweep = NoSweep
          /\ t \notin Armed
          /\ DOMAIN deadline' = Armed \cup {t}
          /\ OthersKeep(t)
          /\ UNCHANGED sweep

Rearm(t) == /\ sweep = NoSweep
            /\ t \in Armed
            /\ DOMAIN deadline' = Armed
            /\ OthersKeep(t)
            /\ UNCHANGED sweep

Remove(t) == /\ t \in Armed
             /\ deadline' = [s \in Armed \ {t} |-> deadline[s]]
             /\ UNCHANGED sweep

Disarm(t) == sweep = NoSweep /\ Remove(t)

BeginSweep == /\ sweep = NoSweep
              /\ sweep' # NoSweep
              /\ UNCHANGED deadline

\* Only a timer that is due at the time of the sweep fires.
Fire(t) == /\ sweep # NoSweep
           /\ t \in Armed /\ deadline[t] <= sweep
           /\ Remove(t)

\* A sweep is complete: it never ends with a timer that was due still armed.
EndSweep == /\ sweep # NoSweep
            /\ \A t \in Armed : deadline[t] > sweep
            /\ sweep' = NoSweep
            /\ UNCHANGED deadline

Next == \/ \E t \in Timers : Arm(t) \/ Rearm(t) \/ Disarm(t) \/ Fire(t)
        \/ BeginSweep
        \/ EndSweep

Spec == Init /\ [][Next]_vars
===============================================================================
