--------------------------- MODULE BridgeControl ---------------------------
(***************************************************************************)
(* The run control of NItoModbusBridge: the simulation timer and the       *)
(* acquisition timer, and the threads that switch between them. The        *)
(* callers are the boot thread, which ends main() with one                 *)
(* startAcquisition(), and one thread per client of the command server,    *)
(* which runs the four start / stop commands.                              *)
(***************************************************************************)
EXTENDS SimpleTimer

CONSTANTS
  Boot,          \* the thread of main()
  Clients,       \* the command threads
  SpawnMayFail   \* TRUE: the std::thread constructor may throw

ASSUME BridgeAssumption ==
  /\ Timers = {"simulate", "acquire"}
  /\ Callers = Clients \cup {Boot}
  /\ Boot \notin Clients
  /\ SpawnMayFail \in BOOLEAN

VARIABLES
  pc,           \* pc[c]: where caller c is in its command
  cmd,          \* cmd[c]: the command c runs, or "none"
  reply,        \* reply[c]: what the last command of c answered
  terminated,   \* the process has called std::terminate
  published     \* the timer whose tick filled the registers last

(* History, which no guard reads: what the commands met so far.            *)
VARIABLES
  clash,     \* two start commands have been under way at the same time
  crossed,   \* a start command and a stop command of its own timer have
  orphan     \* orphan[t]: a thread for the raised flag could not be created

history == <<clash, crossed, orphan>>
vars == <<timerVars, pc, cmd, reply, terminated, published, history>>

Starts == {"startSimulation", "startAcquisition"}
Stops == {"stopSimulation", "stopAcquisition"}
Points == {"idle", "asked", "entered", "prepare", "lower", "probe", "join",
           "joining", "raise", "launch"}

(* The timer a command stops, and the timer a start command starts. *)
Stopped(c) ==
  IF cmd[c] \in {"stopSimulation", "startAcquisition"}
  THEN "simulate" ELSE "acquire"
Started(c) ==
  IF cmd[c] = "startSimulation" THEN "simulate" ELSE "acquire"

TypeOK ==
  /\ TimerTypeOK
  /\ pc \in [Callers -> Points]
  /\ cmd \in [Callers -> Starts \cup Stops \cup {"none"}]
  /\ reply \in [Callers -> {"none", "ACK", "NACK"}]
  /\ terminated \in BOOLEAN
  /\ published \in Timers \cup {"zeros"}
  /\ clash \in BOOLEAN /\ crossed \in BOOLEAN
  /\ orphan \in [Timers -> BOOLEAN]

StartsMeet ==
  \E c, d \in Callers : c # d /\ cmd[c] \in Starts /\ cmd[d] \in Starts

StartMeetsStop ==
  \E c, d \in Callers :
    cmd[c] \in Starts /\ cmd[d] \in Stops /\ Started(c) = Stopped(d)

(* main() is about to call startAcquisition(); the command server already  *)
(* accepts clients.                                                        *)
Init ==
  /\ TimerInit
  /\ pc = [c \in Callers |-> IF c = Boot THEN "entered" ELSE "idle"]
  /\ cmd = [c \in Callers |->
              IF c = Boot THEN "startAcquisition" ELSE "none"]
  /\ reply = [c \in Callers |-> "none"]
  /\ terminated = FALSE
  /\ published = "zeros"
  /\ clash = FALSE /\ crossed = FALSE
  /\ orphan = [t \in Timers |-> FALSE]

Goto(c, from, to) ==
  /\ ~ terminated
  /\ pc[c] = from
  /\ pc' = [pc EXCEPT ![c] = to]

Answer(c, from, answer) ==
  /\ Goto(c, from, "idle")
  /\ reply' = [reply EXCEPT ![c] = answer]
  /\ cmd' = [cmd EXCEPT ![c] = "none"]

----------------------------------------------------------------------------
(* The command server and the entry of the bridge's methods.               *)

(* parseRequest recognises a command: a start command first asks the timer *)
(* whether it is active, a stop command goes to stop() at once.            *)
Receive(c, k) ==
  /\ Goto(c, "idle", IF k \in Starts THEN "asked" ELSE "lower")
  /\ cmd' = [cmd EXCEPT ![c] = k]
  /\ reply' = [reply EXCEPT ![c] = "none"]
  /\ clash' = (clash \/ StartsMeet')
  /\ crossed' = (crossed \/ StartMeetsStop')
  /\ UNCHANGED <<timerVars, terminated, published, orphan>>

AlreadyActive(c) ==
  /\ active[Started(c)]
  /\ Answer(c, "asked", "ACK") \/ Answer(c, "entered", "ACK")
  /\ UNCHANGED <<timerVars, terminated, published, history>>

CallBridge(c) ==
  /\ ~ active[Started(c)]
  /\ Goto(c, "asked", "entered")
  /\ UNCHANGED <<timerVars, cmd, reply, terminated, published, history>>

(* startAcquisition() resizes m_realDataBufferLine before it stops the     *)
(* simulation; startModbusSimulation() stops the acquisition first.        *)
EnterBridge_KeepsOther(c) ==   \* mutant: the other timer is not stopped
  /\ ~ active[Started(c)]
  /\ Goto(c, "entered", "raise")
  /\ UNCHANGED <<timerVars, cmd, reply, terminated, published, history>>

EnterBridge(c) ==
  /\ ~ active[Started(c)]
  /\ Goto(c, "entered",
          IF cmd[c] = "startAcquisition" THEN "prepare" ELSE "lower")
  /\ UNCHANGED <<timerVars, cmd, reply, terminated, published, history>>

PrepareLine(c) ==
  /\ Goto(c, "prepare", "lower")
  /\ UNCHANGED <<timerVars, cmd, reply, terminated, published, history>>

(* The same while a tick still writes into the vector being resized, or    *)
(* another caller resizes it too: a data race, whose worst outcome is the  *)
(* end of the process.                                                     *)
PrepareRaces(c) ==
  /\ \/ loop["acquire"] = "slot"
     \/ \E d \in Callers \ {c} : pc[d] = "prepare"
  /\ Goto(c, "prepare", "lower")
  /\ terminated' = TRUE
  /\ UNCHANGED <<timerVars, cmd, reply, published, history>>

----------------------------------------------------------------------------
(* SimpleTimer::stop() as every command runs it.                           *)

AfterStop(c, from) ==
  \/ /\ cmd[c] \in Starts
     /\ Goto(c, from, "raise")
     /\ UNCHANGED <<cmd, reply>>
  \/ /\ cmd[c] \in Stops
     /\ Answer(c, from, "ACK")

Lower(c) ==
  /\ Goto(c, "lower", "probe")
  /\ LowerFlag(Stopped(c))
  /\ orphan' = [orphan EXCEPT ![Stopped(c)] = FALSE]
  /\ UNCHANGED <<cmd, reply, terminated, published, clash, crossed>>

ProbeNothing_Detached(c) ==   \* mutant: stop() does not wait
  /\ AfterStop(c, "probe")
  /\ UNCHANGED <<timerVars, terminated, published, history>>

ProbeNothing(c) ==
  /\ ~ Joinable(Stopped(c))
  /\ AfterStop(c, "probe")
  /\ UNCHANGED <<timerVars, terminated, published, history>>

ProbeThread(c) ==
  /\ Joinable(Stopped(c))
  /\ Goto(c, "probe", "join")
  /\ UNCHANGED <<timerVars, cmd, reply, terminated, published, history>>

CallJoin(c) ==
  /\ Goto(c, "join", "joining")
  /\ BeginJoin(Stopped(c), c)
  /\ UNCHANGED <<cmd, reply, terminated, published, history>>

(* The catch blocks: a start command returns false, a stop command returns *)
(* as if it had stopped the timer.                                         *)
JoinRaises(c) ==
  /\ JoinThrows(Stopped(c))
  /\ Answer(c, "join", IF cmd[c] \in Starts THEN "NACK" ELSE "ACK")
  /\ UNCHANGED <<timerVars, terminated, published, history>>

JoinReturns(c) ==
  /\ AfterStop(c, "joining")
  /\ EndJoin(Stopped(c), c)
  /\ UNCHANGED <<terminated, published, history>>

----------------------------------------------------------------------------
(* SimpleTimer::start() as the two start commands run it.                  *)

Raise(c) ==
  /\ Goto(c, "raise", "launch")
  /\ RaiseFlag(Started(c))
  /\ UNCHANGED <<cmd, reply, terminated, published, history>>

Launch(c) ==
  /\ Answer(c, "launch", "ACK")
  /\ LaunchThread(Started(c))
  /\ UNCHANGED <<terminated, published, history>>

LaunchTerminates(c) ==
  /\ Joinable(Started(c))
  /\ pc[c] = "launch"
  /\ ~ terminated
  /\ terminated' = TRUE
  /\ UNCHANGED <<timerVars, pc, cmd, reply, published, history>>

LaunchRaises(c) ==
  /\ SpawnMayFail
  /\ Answer(c, "launch", "NACK")
  /\ orphan' = [orphan EXCEPT ![Started(c)] = TRUE]
  /\ UNCHANGED <<timerVars, terminated, published, clash, crossed>>

----------------------------------------------------------------------------
(* The timer threads. A tick ends by publishing its registers; an          *)
(* acquisition tick that meets an exception ends without.                  *)

TimerTests(t) ==
  /\ ~ terminated
  /\ TestLoop(t)
  /\ UNCHANGED <<pc, cmd, reply, terminated, published, history>>

TimerWakes(t) ==
  /\ ~ terminated
  /\ Wake(t)
  /\ UNCHANGED <<pc, cmd, reply, terminated, published, history>>

TickEnds(t) ==
  /\ ~ terminated
  /\ SlotReturns(t)
  /\ \/ published' = t
     \/ t = "acquire" /\ UNCHANGED published
  /\ UNCHANGED <<pc, cmd, reply, terminated, history>>

----------------------------------------------------------------------------

CallerStep(c) ==
  \/ AlreadyActive(c) \/ CallBridge(c) \/ EnterBridge(c)
  \/ PrepareLine(c) \/ PrepareRaces(c)
  \/ Lower(c) \/ ProbeNothing(c) \/ ProbeThread(c)
  \/ CallJoin(c) \/ JoinRaises(c) \/ JoinReturns(c)
  \/ Raise(c) \/ Launch(c) \/ LaunchTerminates(c) \/ LaunchRaises(c)

TimerStep(t) == TimerTests(t) \/ TimerWakes(t) \/ TickEnds(t)

Next ==
  \/ \E c \in Clients, k \in Starts \cup Stops : Receive(c, k)
  \/ \E c \in Callers : CallerStep(c)
  \/ \E t \in Timers : TimerStep(t)

Spec == Init /\ [][Next]_vars

(* Threads of the process are scheduled: a caller inside a command and a   *)
(* timer thread go on. Clients need not send anything.                     *)
Fairness ==
  /\ \A c \in Callers : WF_vars(CallerStep(c))
  /\ \A t \in Timers : WF_vars(TimerStep(t))

FairSpec == Spec /\ Fairness

----------------------------------------------------------------------------
(* Properties.                                                             *)

(* The comments of startModbusSimulation() and startAcquisition() say that *)
(* the other timer is stopped "to avoid conflicts": the two timer threads  *)
(* never run at the same time. The code does not keep this promise.        *)
TimersExclusive == ~ (Alive("simulate") /\ Alive("acquire"))

(* What it keeps: both timers run only if two start commands (one of them  *)
(* may be the boot's) have been under way at the same time. Stop commands  *)
(* may come at any moment, and threads may fail to be created.             *)
ExclusiveUntilClash == clash \/ TimersExclusive

(* Commands end the process (m_timerThread assigned while it holds a       *)
(* thread, the line resized under a tick) only if a start command has met  *)
(* another one, or a stop command of the timer it starts.                  *)
EndsOnlyWhenMet == terminated => clash \/ crossed

(* m_realDataBufferLine is resized by startAcquisition() only while no     *)
(* acquisition tick writes into it, until commands have met in that way.   *)
LineNotShared ==
  \A c \in Callers :
    (pc[c] = "prepare" /\ loop["acquire"] = "slot") => clash \/ crossed

(* A stop command answers only when the thread it stops is gone, so that   *)
(* no tick of that timer is under way any more, or while another caller is *)
(* still waiting for that thread. Whatever the callers do meanwhile.       *)
StopIsComplete ==
  [][\A c \in Callers :
       (cmd[c] \in Stops /\ pc[c] # "idle" /\ pc'[c] = "idle")
         => \/ loop'[Stopped(c)] = "none"
            \/ \E d \in Callers \ {c} :
                 pc'[d] = "joining" /\ Stopped(d)' = Stopped(c)]_vars

(* startModbusSimulation(): "Simulation is already running, return true".  *)
(* The flag that this answer trusts stands for a running thread, at the    *)
(* latest the one a caller is about to launch, however the commands of the *)
(* callers interleave; unless a thread for it could not be created since   *)
(* the flag was lowered last.                                              *)
ActiveMeansRunning ==
  \A t \in Timers :
    active[t] => \/ Alive(t)
                 \/ \E c \in Callers : pc[c] = "launch" /\ Started(c) = t
                 \/ orphan[t]

(* Every command returns, or the process ends, however the commands of the *)
(* callers interleave; but for one case: a start has met another command,  *)
(* and has raised the flag that a stop, its own or that of another start,  *)
(* had lowered before it waits for the thread.                             *)
CommandReturns ==
  \A c \in Callers :
    pc[c] # "idle" ~>
      \/ pc[c] = "idle" \/ terminated
      \/ pc[c] = "joining" /\ active[Stopped(c)] /\ (clash \/ crossed)

(* A timer that stays active while no command runs goes on ticking.        *)
ActiveTimerTicks ==
  \A t \in Timers :
    LET Settled ==
          active[t] /\ ~ orphan[t] /\ \A c \in Callers : pc[c] = "idle"
    IN Settled ~> (loop[t] = "slot" \/ ~ Settled \/ terminated)

----------------------------------------------------------------------------
(* Why they hold: the inductive invariants of the proofs.                  *)

StopPoints == {"probe", "join", "joining"}

(* At every moment: the command a caller runs fits its point, the caller   *)
(* that waits for a thread is inside a join of it, and the history knows   *)
(* of every meeting.                                                       *)
CallersInv ==
  /\ \A c \in Callers :
       /\ pc[c] = "idle" <=> cmd[c] = "none"
       /\ pc[c] \in {"asked", "entered", "prepare", "raise", "launch"}
            => cmd[c] \in Starts
       /\ pc[c] = "prepare" => cmd[c] = "startAcquisition"
       /\ pc[c] = "joining" =>
            joiner[Stopped(c)] = c /\ Joinable(Stopped(c))
  /\ \A t \in Timers :
       joiner[t] # NoCaller =>
         pc[joiner[t]] = "joining" /\ Stopped(joiner[t]) = t
  /\ StartsMeet => clash
  /\ StartMeetsStop => crossed

(* Until two starts have met, a start that has stopped the other timer     *)
(* finds it without a thread up to its own launch.                         *)
NoClashInv ==
  /\ ~ (Joinable("simulate") /\ Joinable("acquire"))
  /\ \A c \in Callers :
       pc[c] \in {"raise", "launch"} => ~ Joinable(Stopped(c))

(* Until a start has met a stop of its timer either: a stop keeps the flag *)
(* down, a start that has found its own timer inactive keeps it without a  *)
(* thread, and a thread whose flag is down is being stopped by somebody.   *)
NotMetInv ==
  /\ ~ terminated
  /\ \A c \in Callers :
       /\ pc[c] \in StopPoints => ~ active[Stopped(c)]
       /\ (cmd[c] \in Starts /\ pc[c] \notin {"asked", "entered"})
            => ~ Joinable(Started(c))
       /\ pc[c] = "launch" => active[Started(c)]
  /\ \A t \in Timers :
       Joinable(t) =>
         IF active[t] THEN loop[t] # "exited"
         ELSE \E c \in Callers : pc[c] \in StopPoints /\ Stopped(c) = t

ControlInv ==
  /\ CallersInv
  /\ ~ clash => NoClashInv
  /\ ~ clash /\ ~ crossed => NotMetInv

(* The bridge implements BridgeMode.                                       *)
ModeInForce ==
  IF Joinable("simulate") /\ loop["simulate"] # "exited" THEN "simulate"
  ELSE IF Joinable("acquire") /\ loop["acquire"] # "exited" THEN "acquire"
  ELSE "idle"

Mode == INSTANCE BridgeMode WITH
  Sources <- Timers,
  mode <- ModeInForce,
  ticking <- \E t \in Timers : loop[t] = "slot",
  disturbed <- clash

(* Until two start commands meet, the registers are fed by one source at a *)
(* time, which changes between two ticks: also while stop commands and the *)
(* threads interleave and threads cannot be created.                       *)
ImplementsMode == Mode!Spec

============================================================================
