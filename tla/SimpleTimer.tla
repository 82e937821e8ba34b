---------------------------- MODULE SimpleTimer ----------------------------
(***************************************************************************)
(* The SimpleTimer objects of the gateway (timers/simpleTimer.h): a flag   *)
(* m_active, and a std::thread m_timerThread that sleeps, tests the flag   *)
(* and calls the slot function until the flag is false.                    *)
(*                                                                         *)
(* start() and stop() are not atomic: each is the sequence of the atomic   *)
(* actions below, which the callers (module BridgeControl) interleave.     *)
(* loop[t] is where the thread of timer t is; "none" says that             *)
(* m_timerThread holds no thread, that is, that it is not joinable.        *)
(***************************************************************************)

CONSTANTS
  Timers,    \* the timer objects
  Callers,   \* the threads that call start() and stop()
  NoCaller   \* stands for "nobody", outside Callers

ASSUME CallerAssumption == NoCaller \notin Callers

VARIABLES
  active,    \* active[t]: m_active
  loop,      \* loop[t]: the program point of m_timerThread
  joiner     \* joiner[t]: the caller blocked in m_timerThread.join()

timerVars == <<active, loop, joiner>>

LoopPoints == {"none", "cond", "sleep", "slot", "exited"}

TimerTypeOK ==
  /\ active \in [Timers -> BOOLEAN]
  /\ loop \in [Timers -> LoopPoints]
  /\ joiner \in [Timers -> Callers \cup {NoCaller}]

TimerInit_ThreadUnset ==   \* mutant: the constructor leaves m_timerThread unset
  /\ active = [t \in Timers |-> FALSE]
  /\ loop = [t \in Timers |-> "unset"]
  /\ joiner = [t \in Timers |-> NoCaller]

TimerInit ==
  /\ active = [t \in Timers |-> FALSE]
  /\ loop = [t \in Timers |-> "none"]
  /\ joiner = [t \in Timers |-> NoCaller]

Joinable(t) == loop[t] # "none"

(* The thread still runs code: it may call the slot function. *)
Alive(t) == loop[t] \in {"cond", "sleep", "slot"}

----------------------------------------------------------------------------
(* start(): raise the flag, then assign a new thread.                      *)

RaiseFlag_Forgotten(t) ==   \* mutant: start() leaves the flag down
  UNCHANGED timerVars

RaiseFlag(t) ==
  /\ active' = [active EXCEPT ![t] = TRUE]
  /\ UNCHANGED <<loop, joiner>>

(* The assignment when m_timerThread is free. When it is joinable the      *)
(* assignment calls std::terminate: the caller of this module says so.     *)
LaunchThread(t) ==
  /\ ~ Joinable(t)
  /\ loop' = [loop EXCEPT ![t] = "cond"]
  /\ UNCHANGED <<active, joiner>>

----------------------------------------------------------------------------
(* stop(): lower the flag, test joinable(), join().                        *)

LowerFlag_Forgotten(t) ==   \* mutant: stop() leaves the flag up
  UNCHANGED timerVars

LowerFlag(t) ==
  /\ active' = [active EXCEPT ![t] = FALSE]
  /\ UNCHANGED <<loop, joiner>>

BeginJoin(t, c) ==
  /\ Joinable(t)
  /\ joiner[t] = NoCaller
  /\ joiner' = [joiner EXCEPT ![t] = c]
  /\ UNCHANGED <<active, loop>>

(* join() fails (std::system_error) on a thread that is not joinable any   *)
(* more, or that another caller is already joining.                        *)
JoinThrows(t) == ~ Joinable(t) \/ joiner[t] # NoCaller

EndJoin(t, c) ==
  /\ joiner[t] = c
  /\ loop[t] = "exited"
  /\ loop' = [loop EXCEPT ![t] = "none"]
  /\ joiner' = [joiner EXCEPT ![t] = NoCaller]
  /\ UNCHANGED active

----------------------------------------------------------------------------
(* The thread: while (m_active) { sleep; if (m_active) slot(); }           *)

TestLoop(t) ==
  /\ loop[t] = "cond"
  /\ loop' = [loop EXCEPT ![t] = IF active[t] THEN "sleep" ELSE "exited"]
  /\ UNCHANGED <<active, joiner>>

Wake_Inverted(t) ==   \* mutant: the second test of the flag is inverted
  /\ loop[t] = "sleep"
  /\ loop' = [loop EXCEPT ![t] = IF active[t] THEN "cond" ELSE "slot"]
  /\ UNCHANGED <<active, joiner>>

Wake(t) ==
  /\ loop[t] = "sleep"
  /\ loop' = [loop EXCEPT ![t] = IF active[t] THEN "slot" ELSE "cond"]
  /\ UNCHANGED <<active, joiner>>

SlotReturns_Once(t) ==   \* mutant: the timer fires once
  /\ loop[t] = "slot"
  /\ loop' = [loop EXCEPT ![t] = "exited"]
  /\ UNCHANGED <<active, joiner>>

SlotReturns(t) ==
  /\ loop[t] = "slot"
  /\ loop' = [loop EXCEPT ![t] = "cond"]
  /\ UNCHANGED <<active, joiner>>

============================================================================
