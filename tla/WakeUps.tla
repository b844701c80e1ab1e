------------------------------ MODULE WakeUps ------------------------------
(***************************************************************************)
(* How the workers of main.cpp sleep and are woken: one eventfd, shared by *)
(* all their rings (SPSCEventRing::wake_fd_), which every push writes and  *)
(* every worker drains before it polls and reads after.  A read of an      *)
(* eventfd takes the whole count, so the count is only "zero or not".      *)
(* blocked_ is stored and never read: left out.  Short spins before the    *)
(* sleep change nothing another thread sees.                               *)
(***************************************************************************)
EXTENDS Integers

CONSTANT NWorkers    \* nworkers_

Workers == 0 .. NWorkers - 1

VARIABLES wake_fd,     \* the shared eventfd is readable
          sleep,       \* per worker: "no", "armed", "poll" or "woken"
          swallowed    \* history: workers going to sleep on a non-empty ring
                       \* after their wake-up was read by a worker

wakeVars == <<wake_fd, sleep, swallowed>>

WakeInit == /\ wake_fd = FALSE
            /\ sleep = [w \in Workers |-> "no"]
            /\ swallowed = {}

(* The write at the end of push.                                           *)
Wake == wake_fd' = TRUE /\ UNCHANGED <<sleep, swallowed>>

(* Going to sleep: the ring was found empty; set_blocked writes the        *)
(* eventfd itself.                                                         *)
SetBlocked(w) ==
  /\ sleep[w] = "no"
  /\ sleep' = [sleep EXCEPT ![w] = "armed"]
  /\ wake_fd' = TRUE
  /\ UNCHANGED swallowed

(* A read by worker v takes the wake-ups of every worker that is about to  *)
(* poll, or polls, while events wait in its ring.                          *)
ReadFd(v, waiting) ==
  /\ wake_fd' = FALSE
  /\ swallowed' = swallowed \cup
       {w \in waiting : sleep[w] = "armed" \/ (sleep[w] = "poll" /\ w # v)}

(* wait_for_data: drain what is left over ...                              *)
Drain(w, waiting) ==
  /\ sleep[w] = "armed"
  /\ ReadFd(w, waiting)
  /\ sleep' = [sleep EXCEPT ![w] = "poll"]

(* ... poll until the eventfd is written ...                               *)
PollReturns(w) ==
  /\ sleep[w] = "poll" /\ wake_fd
  /\ sleep' = [sleep EXCEPT ![w] = "woken"]
  /\ swallowed' = swallowed \ {w}
  /\ UNCHANGED wake_fd

(* ... and consume the wake-up, whosever it is by now.                     *)
Woken(w, waiting) ==
  /\ sleep[w] = "woken"
  /\ ReadFd(w, waiting)
  /\ sleep' = [sleep EXCEPT ![w] = "no"]

(* Or the time-out of a second.                                            *)
PollTimesOut(w) ==
  /\ sleep[w] = "poll"
  /\ sleep' = [sleep EXCEPT ![w] = "no"]
  /\ swallowed' = swallowed \ {w}
  /\ UNCHANGED wake_fd
=============================================================================
