------------------------- MODULE BridgeControlProofs -------------------------
(***************************************************************************)
(* Theorems of BridgeControl, for every set of clients.                    *)
(***************************************************************************)
EXTENDS BridgeControl, TLAPS

(* The flags, threads, program points and answers keep their types.        *)
THEOREM TypeCorrect == Spec => []TypeOK
<1> USE BridgeAssumption, CallerAssumption
    DEF TypeOK, TimerTypeOK, LoopPoints, Points, Starts, Stops
<1>1. Init => TypeOK
  <2> SUFFICES ASSUME Init PROVE TypeOK
    OBVIOUS
  <2>1. TimerTypeOK
    BY DEF Init, TimerInit
  <2>2. pc \in [Callers -> Points] /\ orphan \in [Timers -> BOOLEAN]
    BY DEF Init
  <2>3. cmd \in [Callers -> Starts \cup Stops \cup {"none"}]
    BY DEF Init
  <2> QED BY <2>1, <2>2, <2>3 DEF Init
<1>2. TypeOK /\ [Next]_vars => TypeOK'
  <2> SUFFICES ASSUME TypeOK, [Next]_vars PROVE TypeOK'
    OBVIOUS
  <2> USE DEF Goto, Answer, timerVars, history, Started, Stopped
  <2>1. ASSUME NEW c \in Clients, NEW k \in Starts \cup Stops, Receive(c, k)
        PROVE TypeOK'
    BY <2>1 DEF Receive
  <2>2. ASSUME NEW c \in Callers, CallerStep(c) PROVE TypeOK'
    <3>1. CASE AlreadyActive(c) BY <3>1 DEF AlreadyActive
    <3>2. CASE CallBridge(c) BY <3>2 DEF CallBridge
    <3>3. CASE EnterBridge(c) BY <3>3 DEF EnterBridge
    <3>4. CASE PrepareLine(c) BY <3>4 DEF PrepareLine
    <3>5. CASE PrepareRaces(c) BY <3>5 DEF PrepareRaces
    <3>6. CASE Lower(c) BY <3>6 DEF Lower, LowerFlag
    <3>7. CASE ProbeNothing(c) BY <3>7 DEF ProbeNothing, AfterStop
    <3>8. CASE ProbeThread(c) BY <3>8 DEF ProbeThread
    <3>9. CASE CallJoin(c) BY <3>9 DEF CallJoin, BeginJoin
    <3>10. CASE JoinRaises(c) BY <3>10 DEF JoinRaises
    <3>11. CASE JoinReturns(c) BY <3>11 DEF JoinReturns, AfterStop, EndJoin
    <3>12. CASE Raise(c) BY <3>12 DEF Raise, RaiseFlag
    <3>13. CASE Launch(c) BY <3>13 DEF Launch, LaunchThread
    <3>14. CASE LaunchTerminates(c) BY <3>14 DEF LaunchTerminates
    <3>15. CASE LaunchRaises(c) BY <3>15 DEF LaunchRaises
    <3> QED
      BY <2>2, <3>1, <3>2, <3>3, <3>4, <3>5, <3>6, <3>7, <3>8, <3>9, <3>10,
         <3>11, <3>12, <3>13, <3>14, <3>15 DEF CallerStep
  <2>3. ASSUME NEW t \in Timers, TimerStep(t) PROVE TypeOK'
    BY <2>3 DEF TimerStep, TimerTests, TimerWakes, TickEnds, TestLoop, Wake,
                SlotReturns
  <2>4. CASE UNCHANGED vars
    BY <2>4 DEF vars
  <2> QED BY <2>1, <2>2, <2>3, <2>4 DEF Next
<1>3. QED BY <1>1, <1>2, PTL DEF Spec

----------------------------------------------------------------------------
(* The flag of a timer and its thread.                                     *)

(* A step of caller c leaves the program counter and the command of every  *)
(* other caller alone, and takes c from one point to another.              *)
LEMMA OnlyOneMoves ==
  ASSUME TypeOK, NEW c \in Callers, CallerStep(c),
         NEW d \in Callers, d # c
  PROVE  pc'[d] = pc[d] /\ cmd'[d] = cmd[d]
BY DEF TypeOK, CallerStep, AlreadyActive, CallBridge, EnterBridge, PrepareLine,
       PrepareRaces, Lower, ProbeNothing, ProbeThread, CallJoin, JoinRaises,
       JoinReturns, Raise, Launch, LaunchTerminates, LaunchRaises, AfterStop,
       Goto, Answer

(* ActiveMeansRunning for one timer. *)
Pending(t) == \E c \in Callers : pc[c] = "launch" /\ Started(c) = t

(* A launch that is pending survives every step of a caller but its own.   *)
LEMMA PendingStays ==
  ASSUME TypeOK, NEW c \in Callers, CallerStep(c), pc[c] # "launch",
         NEW t \in Timers, Pending(t)
  PROVE  Pending(t)'
<1>1. PICK d \in Callers : pc[d] = "launch" /\ Started(d) = t
  BY DEF Pending
<1>2. pc'[d] = "launch" /\ cmd'[d] = cmd[d]
  BY <1>1, OnlyOneMoves
<1> QED BY <1>1, <1>2 DEF Pending, Started

(* However the commands of the boot thread and of the clients interleave,  *)
(* an active flag stands for a running thread or one about to be launched, *)
(* unless the thread for it could not be created.                          *)
THEOREM FlagIsTruthful == Spec => []ActiveMeansRunning
<1>1. Init => ActiveMeansRunning
  BY BridgeAssumption DEF Init, TimerInit, ActiveMeansRunning
<1>2. TypeOK /\ ActiveMeansRunning /\ [Next]_vars => ActiveMeansRunning'
  <2> SUFFICES ASSUME TypeOK, ActiveMeansRunning, [Next]_vars,
                      NEW t \in Timers, active'[t]
               PROVE  Alive(t)' \/ Pending(t)' \/ orphan'[t]
    BY DEF ActiveMeansRunning, Pending
  <2>0. active[t] => Alive(t) \/ Pending(t) \/ orphan[t]
    BY DEF ActiveMeansRunning, Pending
  <2>1. ASSUME NEW c \in Clients, NEW k \in Starts \cup Stops, Receive(c, k)
        PROVE  Alive(t)' \/ Pending(t)' \/ orphan'[t]
    <3>1. active'[t] = active[t] /\ loop' = loop /\ orphan' = orphan
      BY <2>1 DEF Receive, timerVars
    <3>2. ASSUME NEW d \in Callers, pc[d] = "launch" /\ Started(d) = t
          PROVE  Pending(t)'
      <4>1. c # d /\ c \in Callers
        BY <2>1, <3>2, BridgeAssumption DEF Receive, Goto
      <4>2. pc'[d] = pc[d] /\ cmd'[d] = cmd[d]
        BY <2>1, <4>1 DEF Receive, Goto, TypeOK
      <4> QED BY <3>2, <4>2 DEF Pending, Started
    <3> QED BY <2>0, <3>1, <3>2 DEF Alive, Pending
  <2>2. ASSUME NEW c \in Callers, CallerStep(c)
        PROVE  Alive(t)' \/ Pending(t)' \/ orphan'[t]
    <3>1. CASE Raise(c) /\ Started(c) = t
      BY <3>1 DEF Raise, Goto, Pending, Started, TypeOK
    <3>2. CASE Launch(c) /\ Started(c) = t
      BY <3>2 DEF Launch, LaunchThread, Alive, TypeOK, TimerTypeOK
    <3>3. CASE LaunchRaises(c) /\ Started(c) = t
      BY <3>3 DEF LaunchRaises, TypeOK
    <3>4. CASE (Launch(c) \/ LaunchRaises(c)) /\ Started(c) # t
      <4>1. /\ active'[t] = active[t] /\ loop'[t] = loop[t]
            /\ orphan'[t] = orphan[t]
        BY <3>4 DEF Launch, LaunchThread, LaunchRaises, TypeOK, TimerTypeOK,
                    timerVars, history
      <4>2. ASSUME NEW d \in Callers, pc[d] = "launch" /\ Started(d) = t
            PROVE  Pending(t)'
        BY <2>2, <3>4, <4>2, OnlyOneMoves DEF Pending, Started
      <4> QED BY <2>0, <4>1, <4>2 DEF Alive, Pending
    <3>5. CASE LaunchTerminates(c)
      BY <2>0, <3>5
      DEF LaunchTerminates, timerVars, history, Alive, Pending, Started
    <3>6. CASE pc[c] # "launch" /\ ~ (Raise(c) /\ Started(c) = t)
      <4> USE DEF CallerStep, AlreadyActive, CallBridge, EnterBridge,
                  PrepareLine, PrepareRaces, Lower, LowerFlag, ProbeNothing,
                  ProbeThread, CallJoin, BeginJoin, JoinRaises, JoinReturns,
                  EndJoin, Raise, RaiseFlag, Launch, LaunchTerminates,
                  LaunchRaises, Answer, Goto, timerVars, history, TypeOK,
                  TimerTypeOK
      <4>1. active'[t] => active[t] /\ orphan'[t] = orphan[t]
        BY <2>2, <3>6
      <4>2. Alive(t) => loop'[t] = loop[t]
        BY <2>2, <3>6 DEF Alive
      <4> QED BY <2>0, <2>2, <3>6, <4>1, <4>2, PendingStays DEF Alive
    <3>7. pc[c] = "launch" => Launch(c) \/ LaunchTerminates(c) \/ LaunchRaises(c)
      BY <2>2
      DEF CallerStep, AlreadyActive, CallBridge, EnterBridge, PrepareLine,
          PrepareRaces, Lower, ProbeNothing, ProbeThread, CallJoin, JoinRaises,
          JoinReturns, Raise, AfterStop, Answer, Goto
    <3> QED BY <3>1, <3>2, <3>3, <3>4, <3>5, <3>6, <3>7
  <2>3. ASSUME NEW u \in Timers, TimerStep(u)
        PROVE  Alive(t)' \/ Pending(t)' \/ orphan'[t]
    <3>1. active'[t] = active[t] /\ pc' = pc /\ cmd' = cmd /\ orphan' = orphan
      BY <2>3 DEF TimerStep, TimerTests, TimerWakes, TickEnds, TestLoop, Wake,
                  SlotReturns, history
    <3>2. active[t] /\ Alive(t) => Alive(t)'
      BY <2>3, <3>1 DEF TimerStep, TimerTests, TimerWakes, TickEnds, TestLoop,
                  Wake, SlotReturns, Alive, TypeOK, TimerTypeOK
    <3> QED BY <2>0, <3>1, <3>2 DEF Pending, Started
  <2>4. CASE UNCHANGED vars
    BY <2>0, <2>4 DEF vars, timerVars, history, Alive, Pending, Started
  <2> QED BY <2>1, <2>2, <2>3, <2>4 DEF Next
<1>3. QED BY <1>1, <1>2, TypeCorrect, PTL DEF Spec
----------------------------------------------------------------------------
(* ControlInv is inductive, whatever the callers and the threads do.       *)

(* main() reaches startAcquisition() with no timer thread and no command.  *)
LEMMA ControlInit == Init => ControlInv
BY BridgeAssumption, CallerAssumption
DEF Init, TimerInit, ControlInv, CallersInv, NoClashInv, NotMetInv, StartsMeet,
    StartMeetsStop, Joinable, Starts, Stops, StopPoints, Started, Stopped

(* What a step of a caller does to the callers and the history: it leaves  *)
(* the command or ends it, and the history speaks of Receive only.         *)
LEMMA StepsKeepHistory ==
  ASSUME TypeOK, NEW c \in Callers, CallerStep(c)
  PROVE  /\ UNCHANGED <<clash, crossed>>
         /\ \A d \in Callers : cmd'[d] \in {cmd[d], "none"}
BY DEF TypeOK, CallerStep, AlreadyActive, CallBridge, EnterBridge, PrepareLine,
       PrepareRaces, Lower, ProbeNothing, ProbeThread, CallJoin, JoinRaises,
       JoinReturns, Raise, Launch, LaunchTerminates, LaunchRaises, AfterStop,
       Goto, Answer, history

(* Commands that end make no new meeting.                                  *)
LEMMA NoNewMeeting ==
  ASSUME TypeOK, CallersInv, UNCHANGED <<clash, crossed>>,
         \A d \in Callers : cmd'[d] \in {cmd[d], "none"}
  PROVE  (StartsMeet' => clash') /\ (StartMeetsStop' => crossed')
<1>1. StartsMeet' => StartsMeet
  BY DEF StartsMeet, Starts
<1>2. StartMeetsStop' => StartMeetsStop
  <2> SUFFICES ASSUME NEW c \in Callers, NEW d \in Callers,
                      cmd'[c] \in Starts, cmd'[d] \in Stops,
                      Started(c)' = Stopped(d)'
               PROVE  StartMeetsStop
    BY DEF StartMeetsStop
  <2>1. cmd'[c] = cmd[c] /\ cmd'[d] = cmd[d]
    BY DEF Starts, Stops
  <2> QED BY <2>1 DEF StartMeetsStop, Started, Stopped
<1> QED BY <1>1, <1>2 DEF CallersInv

(* The joins, and the points of the commands, in a step of a caller.       *)
LEMMA CallersCallerStep ==
  ASSUME TypeOK, CallersInv, NEW c \in Callers, CallerStep(c)
  PROVE  CallersInv'
<1> USE BridgeAssumption, CallerAssumption
<1>1. (StartsMeet' => clash') /\ (StartMeetsStop' => crossed')
  BY StepsKeepHistory, NoNewMeeting
<1>2. \A d \in Callers : d # c => /\ pc'[d] = pc[d] /\ cmd'[d] = cmd[d]
                                  /\ Stopped(d)' = Stopped(d)
  BY OnlyOneMoves DEF Stopped
<1>3. /\ pc'[c] = "idle" <=> cmd'[c] = "none"
      /\ pc'[c] \in {"asked", "entered", "prepare", "raise", "launch"}
           => cmd'[c] \in Starts
      /\ pc'[c] = "prepare" => cmd'[c] = "startAcquisition"
      /\ pc'[c] # "idle" => cmd'[c] = cmd[c] /\ Stopped(c)' = Stopped(c)
  BY DEF TypeOK, CallersInv, CallerStep, AlreadyActive, CallBridge,
         EnterBridge, PrepareLine, PrepareRaces, Lower, ProbeNothing,
         ProbeThread, CallJoin, JoinRaises, JoinReturns, Raise, Launch,
         LaunchTerminates, LaunchRaises, AfterStop, Goto, Answer, Starts,
         Stops, Stopped
<1>4. \/ /\ CallJoin(c)
      \/ /\ JoinReturns(c)
      \/ /\ pc[c] # "joining" /\ pc'[c] # "joining" /\ joiner' = joiner
         /\ \A t \in Timers : Joinable(t) => Joinable(t)'
  BY DEF TypeOK, TimerTypeOK, CallerStep, AlreadyActive, CallBridge,
         EnterBridge, PrepareLine, PrepareRaces, Lower, LowerFlag,
         ProbeNothing, ProbeThread, JoinRaises, Raise, RaiseFlag, Launch,
         LaunchThread, LaunchTerminates, LaunchRaises, AfterStop, Goto, Answer,
         timerVars, Joinable
<1>5. \A d \in Callers : Stopped(d) \in Timers
  BY DEF Stopped
<1>9. \A d \in Callers :
        /\ pc'[d] = "idle" <=> cmd'[d] = "none"
        /\ pc'[d] \in {"asked", "entered", "prepare", "raise", "launch"}
             => cmd'[d] \in Starts
        /\ pc'[d] = "prepare" => cmd'[d] = "startAcquisition"
  BY <1>2, <1>3 DEF CallersInv
<1>10. ASSUME \A t \in Timers, e \in Callers :
                joiner'[t] = e => pc'[e] = "joining" /\ Stopped(e)' = t
       PROVE  (\A t \in Timers :
                 joiner[t] # NoCaller =>
                   pc[joiner[t]] = "joining" /\ Stopped(joiner[t]) = t)'
  <2>1. joiner' \in [Timers -> Callers \cup {NoCaller}]
    BY <1>4, <1>5 DEF CallJoin, BeginJoin, JoinReturns, EndJoin, TypeOK, TimerTypeOK
  <2> QED BY <1>10, <2>1 DEF Stopped
<1>6. CASE CallJoin(c)
  <2>1. /\ pc[c] = "join" /\ pc'[c] = "joining" /\ loop' = loop
        /\ joiner[Stopped(c)] = NoCaller /\ Joinable(Stopped(c))
        /\ joiner' = [joiner EXCEPT ![Stopped(c)] = c]
    BY <1>6 DEF CallJoin, BeginJoin, Goto, TypeOK
  <2>2. \A d \in Callers :
          pc'[d] = "joining" =>
            joiner'[Stopped(d)'] = d /\ Joinable(Stopped(d))'
    BY <1>2, <1>3, <1>5, <2>1 DEF CallersInv, TypeOK, TimerTypeOK, Joinable
  <2>3. ASSUME NEW t \in Timers, NEW e \in Callers, joiner'[t] = e
        PROVE  pc'[e] = "joining" /\ Stopped(e)' = t
    <3>1. CASE t = Stopped(c)
      BY <1>3, <1>5, <2>1, <2>3, <3>1 DEF TypeOK, TimerTypeOK
    <3>2. CASE t # Stopped(c)
      <4>1. joiner[t] = e
        BY <1>5, <2>1, <2>3, <3>2 DEF TypeOK, TimerTypeOK
      <4>2. pc[e] = "joining" /\ Stopped(e) = t
        BY <2>3, <4>1 DEF CallersInv
      <4> QED BY <1>2, <3>2, <4>1, <4>2
    <3> QED BY <3>1, <3>2
  <2> QED BY <1>1, <1>9, <1>10, <2>2, <2>3 DEF CallersInv
<1>7. CASE JoinReturns(c)
  <2>1. /\ pc[c] = "joining" /\ pc'[c] # "joining"
        /\ joiner[Stopped(c)] = c
        /\ joiner' = [joiner EXCEPT ![Stopped(c)] = NoCaller]
        /\ \A t \in Timers : t # Stopped(c) => loop'[t] = loop[t]
    BY <1>7 DEF JoinReturns, AfterStop, EndJoin, Goto, Answer, TypeOK, TimerTypeOK
  <2>2. \A d \in Callers :
          pc'[d] = "joining" =>
            joiner'[Stopped(d)'] = d /\ Joinable(Stopped(d))'
    BY <1>2, <1>3, <1>5, <2>1 DEF CallersInv, TypeOK, TimerTypeOK, Joinable
  <2>3. ASSUME NEW t \in Timers, NEW e \in Callers, joiner'[t] = e
        PROVE  pc'[e] = "joining" /\ Stopped(e)' = t
    <3>1. t # Stopped(c)
      BY <1>5, <2>1, <2>3 DEF TypeOK, TimerTypeOK
    <3>2. joiner[t] = e
      BY <1>5, <2>1, <2>3, <3>1 DEF TypeOK, TimerTypeOK
    <3>3. pc[e] = "joining" /\ Stopped(e) = t
      BY <2>3, <3>2 DEF CallersInv
    <3> QED BY <1>2, <3>1, <3>2, <3>3
  <2> QED BY <1>1, <1>9, <1>10, <2>2, <2>3 DEF CallersInv
<1>8. CASE /\ pc[c] # "joining" /\ pc'[c] # "joining" /\ joiner' = joiner
           /\ \A t \in Timers : Joinable(t) => Joinable(t)'
  <2>2. \A d \in Callers :
          pc'[d] = "joining" =>
            joiner'[Stopped(d)'] = d /\ Joinable(Stopped(d))'
    BY <1>2, <1>3, <1>5, <1>8 DEF CallersInv, TypeOK, TimerTypeOK, Joinable
  <2>3. ASSUME NEW t \in Timers, NEW e \in Callers, joiner'[t] = e
        PROVE  pc'[e] = "joining" /\ Stopped(e)' = t
    <3>1. joiner[t] = e
      BY <1>8, <2>3 DEF TypeOK, TimerTypeOK
    <3>2. pc[e] = "joining" /\ Stopped(e) = t
      BY <2>3, <3>1 DEF CallersInv
    <3> QED BY <1>2, <1>8, <3>1, <3>2
  <2> QED BY <1>1, <1>9, <1>10, <2>2, <2>3 DEF CallersInv
<1> QED BY <1>4, <1>6, <1>7, <1>8

(* Two starts that have not met are one, and none is beside a stop of its  *)
(* own timer.                                                              *)
LEMMA StartAlone ==
  ASSUME CallersInv, NEW c \in Callers, cmd[c] \in Starts,
         NEW d \in Callers, d # c
  PROVE  /\ ~ clash => cmd[d] \notin Starts
         /\ (~ crossed /\ cmd[d] \in Stops) => Started(c) # Stopped(d)
BY DEF CallersInv, StartsMeet, StartMeetsStop

LEMMA NoClashCallerStep ==
  ASSUME TypeOK, CallersInv, ~ clash, NoClashInv,
         NEW c \in Callers, CallerStep(c)
  PROVE  NoClashInv'
<1> USE BridgeAssumption DEF Joinable
<1>1. \A d \in Callers : d # c => /\ pc'[d] = pc[d] /\ cmd'[d] = cmd[d]
                                  /\ Stopped(d)' = Stopped(d)
  BY OnlyOneMoves DEF Stopped
<1>2. pc'[c] # "idle" => Stopped(c)' = Stopped(c)
  BY DEF TypeOK, CallersInv, CallerStep, AlreadyActive, CallBridge,
         EnterBridge, PrepareLine, PrepareRaces, Lower, ProbeNothing,
         ProbeThread, CallJoin, JoinRaises, JoinReturns, Raise, Launch,
         LaunchTerminates, LaunchRaises, AfterStop, Goto, Answer, Starts,
         Stops, Stopped
<1>3. CASE Launch(c)
  <2>1. /\ pc[c] = "launch" /\ pc'[c] = "idle" /\ cmd[c] \in Starts
        /\ loop' = [loop EXCEPT ![Started(c)] = "cond"]
    BY <1>3 DEF Launch, LaunchThread, Answer, Goto, TypeOK, CallersInv
  <2>2. Timers = {Started(c), Stopped(c)} /\ Started(c) # Stopped(c)
    BY <2>1 DEF Started, Stopped, Starts
  <2>3. loop[Stopped(c)] = "none" /\ loop'[Stopped(c)] = "none"
    BY <2>1, <2>2 DEF NoClashInv, TypeOK, TimerTypeOK
  <2>4. \A d \in Callers : d # c => pc[d] \notin {"raise", "launch"}
    BY <2>1, StartAlone DEF CallersInv
  <2> QED BY <1>1, <2>1, <2>2, <2>3, <2>4 DEF NoClashInv
<1>4. CASE pc'[c] = "raise" /\ pc[c] # "raise"
  <2>1. /\ loop'[Stopped(c)] = "none"
        /\ \A t \in Timers : loop[t] = "none" => loop'[t] = "none"
    BY <1>4 DEF CallerStep, AlreadyActive, CallBridge, EnterBridge,
         PrepareLine, PrepareRaces, Lower, ProbeNothing, ProbeThread, CallJoin,
         JoinRaises, JoinReturns, EndJoin, Raise, Launch, LaunchTerminates,
         LaunchRaises, AfterStop, Goto, Answer, TypeOK, TimerTypeOK, timerVars,
         Stopped
  <2> QED BY <1>1, <1>2, <1>4, <2>1 DEF NoClashInv, Stopped
<1>5. CASE ~ Launch(c) /\ ~ (pc'[c] = "raise" /\ pc[c] # "raise")
  <2>1. \A t \in Timers : loop[t] = "none" => loop'[t] = "none"
    BY <1>5 DEF CallerStep, AlreadyActive, CallBridge, EnterBridge,
         PrepareLine, PrepareRaces, Lower, LowerFlag, ProbeNothing,
         ProbeThread, CallJoin, BeginJoin, JoinRaises, JoinReturns, EndJoin,
         Raise, RaiseFlag, LaunchTerminates, LaunchRaises, TypeOK, TimerTypeOK,
         timerVars
  <2>2. pc'[c] \in {"raise", "launch"} => pc[c] \in {"raise", "launch"}
    BY <1>5 DEF CallerStep, AlreadyActive, CallBridge, EnterBridge,
         PrepareLine, PrepareRaces, Lower, ProbeNothing, ProbeThread, CallJoin,
         JoinRaises, JoinReturns, Raise, LaunchTerminates, LaunchRaises,
         AfterStop, Goto, Answer, TypeOK
  <2>3. \A d \in Callers : Stopped(d) \in Timers
    BY DEF Stopped
  <2> QED BY <1>1, <1>2, <2>1, <2>2, <2>3 DEF NoClashInv
<1> QED BY <1>3, <1>4, <1>5

(* A thread in loop[t] is wanted, or somebody is inside the stop of it.    *)
BeingStopped(t) == \E c \in Callers : pc[c] \in StopPoints /\ Stopped(c) = t

LEMMA NotMetCallerStep ==
  ASSUME TypeOK, CallersInv, ~ clash, ~ crossed, NotMetInv,
         NEW c \in Callers, CallerStep(c)
  PROVE  NotMetInv'
<1> USE BridgeAssumption, CallerAssumption DEF Joinable
<1>1. \A d \in Callers : d # c => /\ pc'[d] = pc[d] /\ cmd'[d] = cmd[d]
                                  /\ Stopped(d)' = Stopped(d)
                                  /\ Started(d)' = Started(d)
  BY OnlyOneMoves DEF Stopped, Started
<1>2. /\ pc'[c] # "idle" => /\ cmd'[c] = cmd[c]
                            /\ Stopped(c)' = Stopped(c)
                            /\ Started(c)' = Started(c)
      /\ pc'[c] = "idle" => cmd'[c] = "none"
  BY DEF TypeOK, CallersInv, CallerStep, AlreadyActive, CallBridge,
         EnterBridge, PrepareLine, PrepareRaces, Lower, ProbeNothing,
         ProbeThread, CallJoin, JoinRaises, JoinReturns, Raise, Launch,
         LaunchTerminates, LaunchRaises, AfterStop, Goto, Answer, Starts,
         Stops, Stopped, Started
<1>3. \A d \in Callers : Stopped(d) \in Timers /\ Started(d) \in Timers
  BY DEF Stopped, Started
<1>4. \A d \in Callers : cmd[d] \in Starts => Started(d) # Stopped(d)
  BY DEF Started, Stopped, Starts
(* Nobody but c stops the timer that c starts, or starts one.              *)
<1>5. cmd[c] \in Starts =>
        \A d \in Callers :
          /\ d # c => cmd[d] \notin Starts
          /\ (pc[d] \in StopPoints \cup {"lower"}) => Stopped(d) # Started(c)
  <2> SUFFICES ASSUME cmd[c] \in Starts, NEW d \in Callers
               PROVE  /\ d # c => cmd[d] \notin Starts
                      /\ (pc[d] \in StopPoints \cup {"lower"})
                           => Stopped(d) # Started(c)
    OBVIOUS
  <2>1. d # c => cmd[d] \notin Starts
    BY StartAlone
  <2>2. CASE d # c /\ pc[d] \in StopPoints \cup {"lower"}
    <3>1. cmd[d] \in Stops
      BY <2>1, <2>2 DEF CallersInv, TypeOK, StopPoints
    <3> QED BY <2>1, <2>2, <3>1, StartAlone
  <2> QED BY <1>4, <2>1, <2>2
<1>6. \A t \in Timers : loop[t] # "none" =>
        IF active[t] THEN loop[t] # "exited" ELSE BeingStopped(t)
  BY DEF NotMetInv, BeingStopped
<1>7. ASSUME ~ terminated',
             pc'[c] \in StopPoints => ~ active'[Stopped(c)],
             \A d \in Callers : (d # c /\ pc[d] \in StopPoints)
                                  => ~ active'[Stopped(d)],
             (cmd'[c] \in Starts /\ pc'[c] \notin {"asked", "entered"})
               => loop'[Started(c)] = "none",
             \A d \in Callers :
               (d # c /\ cmd[d] \in Starts /\ pc[d] \notin {"asked", "entered"})
                 => loop'[Started(d)] = "none",
             pc'[c] = "launch" => active'[Started(c)],
             \A d \in Callers :
               (d # c /\ pc[d] = "launch") => active'[Started(d)],
             \A t \in Timers : loop'[t] # "none" =>
               IF active'[t] THEN loop'[t] # "exited" ELSE BeingStopped(t)'
      PROVE  NotMetInv'
  <2>1. ASSUME NEW d \in Callers
        PROVE  /\ pc'[d] \in StopPoints => ~ active'[Stopped(d)']
               /\ (cmd'[d] \in Starts /\ pc'[d] \notin {"asked", "entered"})
                    => loop'[Started(d)'] = "none"
               /\ pc'[d] = "launch" => active'[Started(d)']
    <3>1. CASE d # c
      BY <1>1, <1>7, <3>1
    <3>2. CASE d = c /\ pc'[c] # "idle"
      BY <1>2, <1>7, <3>2
    <3>3. CASE d = c /\ pc'[c] = "idle"
      BY <1>2, <3>3 DEF StopPoints, Starts
    <3> QED BY <3>1, <3>2, <3>3
  <2> QED BY <1>7, <2>1 DEF NotMetInv, BeingStopped
<1>8. ASSUME NEW t \in Timers, BeingStopped(t),
             t # Stopped(c) \/ pc[c] \notin StopPoints \/ pc'[c] \in StopPoints
      PROVE  BeingStopped(t)'
  <2>1. PICK d \in Callers : pc[d] \in StopPoints /\ Stopped(d) = t
    BY <1>8 DEF BeingStopped
  <2>2. CASE d # c
    BY <1>1, <2>1, <2>2 DEF BeingStopped
  <2>3. CASE d = c
    BY <1>2, <1>8, <2>1, <2>3 DEF BeingStopped, StopPoints
  <2> QED BY <2>2, <2>3
<1> USE DEF TypeOK, TimerTypeOK, timerVars, Goto
<1>10. CASE AlreadyActive(c) \/ CallBridge(c)
  <2>1. /\ UNCHANGED <<active, loop, terminated>>
        /\ pc[c] \in {"asked", "entered"}
        /\ pc'[c] \in {"entered", "idle"}
    BY <1>10 DEF AlreadyActive, CallBridge, Answer
  <2> QED BY <1>2, <1>6, <1>7, <1>8, <2>1 DEF NotMetInv, StopPoints, Starts
<1>11. CASE EnterBridge(c)
  <2>1. /\ UNCHANGED <<active, loop, terminated>> /\ ~ active[Started(c)]
        /\ pc[c] = "entered" /\ pc'[c] \in {"prepare", "lower"}
    BY <1>11 DEF EnterBridge
  <2>2. cmd[c] \in Starts
    BY <2>1 DEF CallersInv
  <2>3. loop[Started(c)] = "none"
    BY <1>3, <1>5, <1>6, <2>1, <2>2 DEF BeingStopped
  <2> QED BY <1>2, <1>6, <1>7, <1>8, <2>1, <2>3 DEF NotMetInv, StopPoints
<1>12. CASE PrepareLine(c)
  <2>1. /\ UNCHANGED <<active, loop, terminated>>
        /\ pc[c] = "prepare" /\ pc'[c] = "lower"
    BY <1>12 DEF PrepareLine
  <2> QED BY <1>2, <1>6, <1>7, <1>8, <2>1 DEF NotMetInv, StopPoints
<1>13. ~ PrepareRaces(c)
  <2>1. ASSUME pc[c] = "prepare"
        PROVE  /\ loop["acquire"] # "slot"
               /\ \A d \in Callers \ {c} : pc[d] # "prepare"
    <3>1. cmd[c] = "startAcquisition" /\ cmd[c] \in Starts
      BY <2>1 DEF CallersInv, Starts
    <3>2. loop["acquire"] # "slot"
      BY <2>1, <3>1 DEF NotMetInv, Started
    <3> QED BY <1>5, <3>1, <3>2 DEF CallersInv, Starts
  <2> QED BY <2>1 DEF PrepareRaces, Goto
<1>14. CASE Lower(c)
  <2>1. /\ UNCHANGED <<loop, terminated>>
        /\ active' = [active EXCEPT ![Stopped(c)] = FALSE]
        /\ pc[c] = "lower" /\ pc'[c] = "probe"
    BY <1>14 DEF Lower, LowerFlag
  <2>2. ASSUME NEW t \in Timers, t = Stopped(c) PROVE BeingStopped(t)'
    BY <1>2, <2>1, <2>2 DEF BeingStopped, StopPoints
  <2>3. \A d \in Callers : (d # c /\ pc[d] = "launch") => Started(d) # Stopped(c)
    <3> SUFFICES ASSUME NEW d \in Callers, d # c, pc[d] = "launch"
                 PROVE  Started(d) # Stopped(c)
      OBVIOUS
    <3>1. cmd[d] \in Starts
      BY DEF CallersInv
    <3>2. cmd[c] \in Stops
      BY <2>1, <3>1, StartAlone DEF CallersInv
    <3> QED BY <3>1, <3>2, StartAlone
  <2>4. \A t \in Timers : loop'[t] # "none" =>
          IF active'[t] THEN loop'[t] # "exited" ELSE BeingStopped(t)'
    BY <1>3, <1>6, <1>8, <2>1, <2>2 DEF StopPoints
  <2>5. \A d \in Callers : pc[d] \in StopPoints => ~ active'[Stopped(d)]
    BY <1>3, <2>1 DEF NotMetInv
  <2> QED BY <1>2, <1>3, <1>7, <2>1, <2>3, <2>4, <2>5 DEF NotMetInv, StopPoints
<1>15. CASE ProbeNothing(c)
  <2>1. /\ UNCHANGED <<active, loop, terminated>> /\ loop[Stopped(c)] = "none"
        /\ pc[c] = "probe" /\ pc'[c] \in {"raise", "idle"}
    BY <1>15 DEF ProbeNothing, AfterStop, Answer
  <2>2. \A t \in Timers : loop'[t] # "none" =>
          IF active'[t] THEN loop'[t] # "exited" ELSE BeingStopped(t)'
    BY <1>6, <1>8, <2>1
  <2> QED BY <1>2, <1>7, <2>1, <2>2 DEF NotMetInv, StopPoints, Starts
<1>16. CASE ProbeThread(c) \/ CallJoin(c)
  <2>1. /\ UNCHANGED <<active, loop, terminated>>
        /\ pc[c] \in {"probe", "join"} /\ pc'[c] \in {"join", "joining"}
    BY <1>16 DEF ProbeThread, CallJoin, BeginJoin
  <2> QED BY <1>2, <1>6, <1>7, <1>8, <2>1 DEF NotMetInv, StopPoints
<1>17. CASE JoinRaises(c)
  <2>1. /\ UNCHANGED <<active, loop, terminated>>
        /\ pc[c] = "join" /\ pc'[c] = "idle"
        /\ loop[Stopped(c)] = "none" \/ joiner[Stopped(c)] # NoCaller
    BY <1>17 DEF JoinRaises, JoinThrows, Answer
  <2>2. ASSUME NEW t \in Timers, t = Stopped(c), loop[t] # "none"
        PROVE  BeingStopped(t)'
    <3>1. PICK d \in Callers : joiner[t] = d
      BY <2>1, <2>2
    <3>2. pc[d] = "joining" /\ Stopped(d) = t /\ d # c
      BY <2>1, <3>1 DEF CallersInv
    <3> QED BY <1>1, <3>2 DEF BeingStopped, StopPoints
  <2> QED BY <1>2, <1>6, <1>7, <1>8, <2>1, <2>2 DEF NotMetInv, StopPoints, Starts
<1>18. CASE JoinReturns(c)
  <2>1. /\ UNCHANGED <<active, terminated>>
        /\ loop' = [loop EXCEPT ![Stopped(c)] = "none"]
        /\ pc[c] = "joining" /\ pc'[c] \in {"raise", "idle"}
    BY <1>18 DEF JoinReturns, AfterStop, EndJoin, Answer
  <2>2. \A t \in Timers : loop'[t] # "none" =>
          /\ t # Stopped(c) /\ loop'[t] = loop[t]
    BY <1>3, <2>1
  <2>3. \A t \in Timers : loop'[t] # "none" =>
          IF active'[t] THEN loop'[t] # "exited" ELSE BeingStopped(t)'
    BY <1>6, <1>8, <2>1, <2>2
  <2>4. \A d \in Callers :
          loop[Started(d)] = "none" => loop'[Started(d)] = "none"
    BY <1>3, <2>1
  <2> QED BY <1>2, <1>7, <2>1, <2>3, <2>4 DEF NotMetInv, StopPoints, Starts
<1>19. CASE Raise(c)
  <2>1. /\ UNCHANGED <<loop, terminated>>
        /\ active' = [active EXCEPT ![Started(c)] = TRUE]
        /\ pc[c] = "raise" /\ pc'[c] = "launch" /\ cmd[c] \in Starts
    BY <1>19 DEF Raise, RaiseFlag, CallersInv
  <2>2. loop[Started(c)] = "none"
    BY <2>1 DEF NotMetInv
  <2>3. \A t \in Timers : loop'[t] # "none" =>
          IF active'[t] THEN loop'[t] # "exited" ELSE BeingStopped(t)'
    BY <1>3, <1>6, <1>8, <2>1, <2>2 DEF StopPoints
  <2>4. \A d \in Callers : pc[d] \in StopPoints => ~ active'[Stopped(d)]
    BY <1>3, <1>5, <2>1 DEF NotMetInv
  <2> QED BY <1>2, <1>3, <1>7, <2>1, <2>2, <2>3, <2>4 DEF NotMetInv, StopPoints
<1>20. CASE Launch(c)
  <2>1. /\ UNCHANGED <<active, terminated>>
        /\ loop' = [loop EXCEPT ![Started(c)] = "cond"]
        /\ pc[c] = "launch" /\ pc'[c] = "idle" /\ cmd[c] \in Starts
    BY <1>20 DEF Launch, LaunchThread, Answer, CallersInv
  <2>2. active[Started(c)]
    BY <2>1 DEF NotMetInv
  <2>3. \A t \in Timers : loop'[t] # "none" =>
          IF active'[t] THEN loop'[t] # "exited" ELSE BeingStopped(t)'
    BY <1>3, <1>6, <1>8, <2>1, <2>2 DEF StopPoints
  <2> QED BY <1>2, <1>5, <1>7, <2>1, <2>3 DEF NotMetInv, StopPoints, Starts
<1>21. ~ LaunchTerminates(c)
  BY DEF LaunchTerminates, NotMetInv, CallersInv
<1>22. CASE LaunchRaises(c)
  <2>1. /\ UNCHANGED <<active, loop, terminated>>
        /\ pc[c] = "launch" /\ pc'[c] = "idle"
    BY <1>22 DEF LaunchRaises, Answer
  <2> QED BY <1>2, <1>6, <1>7, <1>8, <2>1 DEF NotMetInv, StopPoints, Starts
<1> QED
  BY <1>10, <1>11, <1>12, <1>13, <1>14, <1>15, <1>16, <1>17, <1>18, <1>19,
     <1>20, <1>21, <1>22 DEF CallerStep

(* A command is received.                                                  *)
LEMMA ControlReceive ==
  ASSUME TypeOK, ControlInv,
         NEW c \in Clients, NEW k \in Starts \cup Stops, Receive(c, k)
  PROVE  ControlInv'
<1> USE BridgeAssumption, CallerAssumption DEF TypeOK, TimerTypeOK, Joinable
<1>1. /\ c \in Callers /\ pc[c] = "idle" /\ cmd[c] = "none"
      /\ pc' = [pc EXCEPT ![c] = IF k \in Starts THEN "asked" ELSE "lower"]
      /\ cmd' = [cmd EXCEPT ![c] = k]
      /\ UNCHANGED <<active, loop, joiner, terminated>>
      /\ clash' = (clash \/ StartsMeet')
      /\ crossed' = (crossed \/ StartMeetsStop')
  BY DEF Receive, Goto, timerVars, ControlInv, CallersInv
<1>2. \A d \in Callers : d # c => /\ pc'[d] = pc[d] /\ cmd'[d] = cmd[d]
                                  /\ Stopped(d)' = Stopped(d)
                                  /\ Started(d)' = Started(d)
  BY <1>1 DEF Stopped, Started
<1>3. /\ pc'[c] \in {"asked", "lower"} /\ cmd'[c] = k
      /\ pc'[c] = "asked" => k \in Starts
      /\ pc'[c] = "lower" => k \notin Starts
  BY <1>1
<1>4. CallersInv'
  <2>1. \A d \in Callers :
          /\ pc'[d] = "idle" <=> cmd'[d] = "none"
          /\ pc'[d] \in {"asked", "entered", "prepare", "raise", "launch"}
               => cmd'[d] \in Starts
          /\ pc'[d] = "prepare" => cmd'[d] = "startAcquisition"
          /\ pc'[d] = "joining" =>
               joiner'[Stopped(d)'] = d /\ Joinable(Stopped(d))'
    BY <1>1, <1>2, <1>3 DEF ControlInv, CallersInv, Starts, Stops
  <2>2. ASSUME NEW t \in Timers, NEW e \in Callers, joiner[t] = e
        PROVE  pc'[e] = "joining" /\ Stopped(e)' = t
    BY <1>1, <1>2, <2>2 DEF ControlInv, CallersInv
  <2>3. (\A t \in Timers :
           joiner[t] # NoCaller =>
             pc[joiner[t]] = "joining" /\ Stopped(joiner[t]) = t)'
    BY <1>1, <2>2 DEF Stopped
  <2> QED BY <1>1, <2>1, <2>3 DEF CallersInv
<1>5. ~ clash' => NoClashInv'
  BY <1>1, <1>2, <1>3 DEF ControlInv, NoClashInv
<1>6. ASSUME ~ clash', ~ crossed'
      PROVE  NotMetInv'
  <2>1. NotMetInv
    BY <1>1, <1>6 DEF ControlInv
  <2>2. \A t \in Timers : BeingStopped(t) => BeingStopped(t)'
    BY <1>1, <1>2 DEF BeingStopped, StopPoints
  <2>3. \A t \in Timers : loop'[t] # "none" =>
          IF active'[t] THEN loop'[t] # "exited" ELSE BeingStopped(t)'
    BY <1>1, <2>1, <2>2 DEF NotMetInv, BeingStopped
  <2>4. \A d \in Callers :
          /\ pc'[d] \in StopPoints => ~ active'[Stopped(d)']
          /\ (cmd'[d] \in Starts /\ pc'[d] \notin {"asked", "entered"})
               => loop'[Started(d)'] = "none"
          /\ pc'[d] = "launch" => active'[Started(d)']
    BY <1>1, <1>2, <1>3, <2>1 DEF NotMetInv, StopPoints
  <2> QED BY <1>1, <2>1, <2>3, <2>4 DEF NotMetInv, BeingStopped
<1> QED BY <1>4, <1>5, <1>6 DEF ControlInv

(* A timer thread takes a step.                                            *)
LEMMA ControlTimerStep ==
  ASSUME TypeOK, ControlInv, NEW t \in Timers, TimerStep(t)
  PROVE  ControlInv'
<1> USE BridgeAssumption
    DEF TypeOK, TimerTypeOK, LoopPoints, Joinable, StopPoints, Started, Stopped
<1>1. UNCHANGED <<active, joiner, pc, cmd, terminated, clash, crossed>>
  BY DEF TimerStep, TimerTests, TimerWakes, TickEnds, TestLoop, Wake,
         SlotReturns, history
<1>2. \A u \in Timers : Joinable(u)' <=> Joinable(u)
  BY DEF TimerStep, TimerTests, TimerWakes, TickEnds, TestLoop, Wake, SlotReturns
<1>3. CallersInv'
  BY <1>1, <1>2 DEF ControlInv, CallersInv, StartsMeet, StartMeetsStop
<1>4. NoClashInv => NoClashInv'
  BY <1>1, <1>2 DEF NoClashInv
<1>5. NotMetInv => NotMetInv'
  <2>1. \A u \in Timers :
          (active[u] /\ loop[u] # "exited") => loop'[u] # "exited"
    BY DEF TimerStep, TimerTests, TimerWakes, TickEnds, TestLoop, Wake, SlotReturns
  <2> QED BY <1>1, <1>2, <2>1 DEF NotMetInv
<1> QED BY <1>1, <1>3, <1>4, <1>5 DEF ControlInv

(* The inductive invariant.                                                *)
LEMMA ControlInvariance == Spec => []ControlInv
<1>1. TypeOK /\ ControlInv /\ [Next]_vars => ControlInv'
  <2> SUFFICES ASSUME TypeOK, ControlInv, [Next]_vars PROVE ControlInv'
    OBVIOUS
  <2>1. ASSUME NEW c \in Callers, CallerStep(c) PROVE ControlInv'
    BY <2>1, StepsKeepHistory, CallersCallerStep, NoClashCallerStep,
       NotMetCallerStep DEF ControlInv
  <2>2. CASE UNCHANGED vars
    BY <2>2
    DEF vars, timerVars, history, ControlInv, CallersInv, NoClashInv,
        NotMetInv, StartsMeet, StartMeetsStop, Joinable, Started, Stopped
  <2> QED BY <2>1, <2>2, ControlReceive, ControlTimerStep DEF Next
<1> QED BY <1>1, ControlInit, TypeCorrect, PTL DEF Spec

----------------------------------------------------------------------------
(* The two timer threads run together only if two start commands have been *)
(* under way at once: for every number of clients, whatever they send and  *)
(* however their commands interleave, also when threads cannot be created. *)
THEOREM Exclusion == Spec => []ExclusiveUntilClash
<1>1. ControlInv => ExclusiveUntilClash
  BY DEF ControlInv, NoClashInv, Joinable, Alive, ExclusiveUntilClash,
         TimersExclusive
<1> QED BY <1>1, ControlInvariance, PTL

(* Commands end the process only if a start has met another start or a     *)
(* stop of its own timer.                                                  *)
THEOREM EndsWhenMet == Spec => []EndsOnlyWhenMet
<1>1. ControlInv => EndsOnlyWhenMet
  BY DEF ControlInv, NotMetInv, EndsOnlyWhenMet
<1> QED BY <1>1, ControlInvariance, PTL

(* Until then startAcquisition() resizes m_realDataBufferLine only between *)
(* two ticks of the acquisition.                                           *)
THEOREM LineSafe == Spec => []LineNotShared
<1>1. ControlInv => LineNotShared
  BY DEF ControlInv, CallersInv, NotMetInv, Starts, Started, Joinable,
         LineNotShared
<1> QED BY <1>1, ControlInvariance, PTL

(* A stop command answers only when the thread it stops is gone, or while  *)
(* another caller is still waiting for that thread: without any condition. *)
THEOREM StopCompletes == Spec => StopIsComplete
<1> DEFINE Step == \A c \in Callers :
                     (cmd[c] \in Stops /\ pc[c] # "idle" /\ pc'[c] = "idle")
                       => \/ loop'[Stopped(c)] = "none"
                          \/ \E d \in Callers \ {c} :
                               pc'[d] = "joining" /\ Stopped(d)' = Stopped(c)
<1>1. TypeOK /\ ControlInv /\ [Next]_vars => [Step]_vars
  <2> SUFFICES ASSUME TypeOK, ControlInv, Next,
                      NEW c \in Callers, cmd[c] \in Stops,
                      pc[c] # "idle", pc'[c] = "idle",
                      loop'[Stopped(c)] # "none"
               PROVE  \E d \in Callers \ {c} :
                        pc'[d] = "joining" /\ Stopped(d)' = Stopped(c)
    OBVIOUS
  <2>1. CASE CallerStep(c)
    <3>1. ProbeNothing(c) \/ JoinRaises(c) \/ JoinReturns(c)
      BY <2>1
      DEF CallerStep, AlreadyActive, CallBridge, EnterBridge, PrepareLine,
          PrepareRaces, Lower, ProbeThread, CallJoin, Raise, Launch,
          LaunchTerminates, LaunchRaises, Answer, Goto, TypeOK, Starts, Stops,
          ControlInv, CallersInv
    <3>2. Stopped(c) \in Timers
      BY BridgeAssumption DEF Stopped
    <3>3. ~ ProbeNothing(c)
      BY DEF ProbeNothing, Joinable, timerVars
    <3>4. ~ JoinReturns(c)
      BY <3>2 DEF JoinReturns, EndJoin, TypeOK, TimerTypeOK
    <3>5. CASE JoinRaises(c)
      <4>1. pc[c] = "join" /\ joiner[Stopped(c)] # NoCaller
        BY <3>5 DEF JoinRaises, JoinThrows, Answer, Goto, Joinable, timerVars
      <4>2. PICK d \in Callers : d = joiner[Stopped(c)]
        BY <3>2, <4>1 DEF TypeOK, TimerTypeOK
      <4>3. pc[d] = "joining" /\ Stopped(d) = Stopped(c) /\ d # c
        BY <3>2, <4>1, <4>2 DEF ControlInv, CallersInv
      <4>4. pc'[d] = "joining" /\ cmd'[d] = cmd[d]
        BY <2>1, <4>3, OnlyOneMoves
      <4> QED BY <4>3, <4>4 DEF Stopped
    <3> QED BY <3>1, <3>3, <3>4, <3>5
  <2>2. ASSUME NEW d \in Callers, d # c, CallerStep(d) PROVE FALSE
    BY <2>2, OnlyOneMoves
  <2>3. ASSUME NEW d \in Clients, NEW k \in Starts \cup Stops, Receive(d, k)
        PROVE FALSE
    BY <2>3, BridgeAssumption DEF Receive, Goto, TypeOK, Starts
  <2>4. ASSUME NEW t \in Timers, TimerStep(t) PROVE FALSE
    BY <2>4 DEF TimerStep, TimerTests, TimerWakes, TickEnds
  <2> QED BY <2>1, <2>2, <2>3, <2>4 DEF Next
<1> QED BY <1>1, ControlInvariance, TypeCorrect, PTL DEF Spec, StopIsComplete

----------------------------------------------------------------------------
(* The bridge implements BridgeMode.                                       *)

Ticking == \E t \in Timers : loop[t] = "slot"

(* The thread of timer t runs, so its source is the one in force.          *)
LEMMA ModeOfAlive ==
  ASSUME TypeOK, NoClashInv, NEW t \in Timers, Alive(t)
  PROVE  /\ ModeInForce = t
         /\ Ticking <=> loop[t] = "slot"
         /\ \A u \in Timers : u # t => loop[u] = "none"
BY BridgeAssumption DEF NoClashInv, Joinable, Alive, ModeInForce, Ticking

(* Until two starts have met, a step of a caller is a step of BridgeMode   *)
(* or leaves its state alone.                                              *)
LEMMA CallerStepMode ==
  ASSUME TypeOK, NoClashInv, NoClashInv', ~ clash, ~ clash',
         NEW c \in Callers, CallerStep(c)
  PROVE  [Mode!Next]_Mode!modeVars
<1> USE BridgeAssumption DEF TypeOK, TimerTypeOK, LoopPoints
<1>1. UNCHANGED <<published, clash>>
  BY StepsKeepHistory
  DEF CallerStep, AlreadyActive, CallBridge, EnterBridge, PrepareLine,
      PrepareRaces, Lower, ProbeNothing, ProbeThread, CallJoin, JoinRaises,
      JoinReturns, Raise, Launch, LaunchTerminates, LaunchRaises
<1>2. CASE Launch(c)
  <2>1. Started(c) \in Timers /\ loop[Started(c)] = "none"
    BY <1>2 DEF Launch, LaunchThread, Joinable, Started
  <2>2. loop' = [loop EXCEPT ![Started(c)] = "cond"]
    BY <1>2 DEF Launch, LaunchThread
  <2>3. \A u \in Timers : loop'[u] # "none" => u = Started(c)
    BY <2>1, <2>2 DEF NoClashInv, Joinable
  <2>4. ModeInForce = "idle" /\ ~ Ticking
    BY <2>1, <2>2, <2>3 DEF ModeInForce, Joinable, Ticking
  <2>5. ModeInForce' = Started(c) /\ ~ Ticking'
    BY <2>1, <2>2, <2>3 DEF ModeInForce, Joinable, Ticking
  <2> QED BY <1>1, <2>1, <2>4, <2>5 DEF Mode!Next, Mode!Enter, Ticking
<1>3. CASE JoinReturns(c)
  <2>1. \A u \in Timers :
          \/ loop'[u] = loop[u]
          \/ loop[u] = "exited" /\ loop'[u] = "none"
    BY <1>3 DEF JoinReturns, EndJoin, Stopped
  <2>2. ModeInForce' = ModeInForce /\ (Ticking' <=> Ticking)
    BY <2>1 DEF ModeInForce, Joinable, Ticking
  <2> QED BY <1>1, <2>2 DEF Mode!modeVars, Ticking
<1>4. CASE ~ Launch(c) /\ ~ JoinReturns(c)
  <2>1. loop' = loop
    BY <1>4 DEF CallerStep, AlreadyActive, CallBridge, EnterBridge,
         PrepareLine, PrepareRaces, Lower, LowerFlag, ProbeNothing,
         ProbeThread, CallJoin, BeginJoin, JoinRaises, Raise, RaiseFlag,
         LaunchTerminates, LaunchRaises, timerVars
  <2> QED BY <1>1, <2>1 DEF Mode!modeVars, ModeInForce, Joinable
<1> QED BY <1>2, <1>3, <1>4

(* So is a step of a timer thread.                                         *)
LEMMA TimerStepMode ==
  ASSUME TypeOK, TypeOK', NoClashInv, NoClashInv', ~ clash, ~ clash',
         NEW t \in Timers, TimerStep(t)
  PROVE  [Mode!Next]_Mode!modeVars
<1> USE BridgeAssumption DEF TypeOK, TimerTypeOK, LoopPoints
<1>1. /\ Alive(t) /\ loop' = [loop EXCEPT ![t] = loop'[t]]
      /\ clash' = clash
  BY DEF TimerStep, TimerTests, TimerWakes, TickEnds, TestLoop, Wake,
         SlotReturns, Alive, history
<1>2. /\ ModeInForce = t
      /\ Ticking <=> loop[t] = "slot"
      /\ \A u \in Timers : u # t => loop[u] = "none" /\ loop'[u] = "none"
  BY <1>1, ModeOfAlive
<1>3. CASE TimerTests(t)
  <2>1. loop[t] = "cond" /\ loop'[t] \in {"sleep", "exited"} /\ published' = published
    BY <1>3 DEF TimerTests, TestLoop
  <2>2. CASE loop'[t] = "sleep"
    <3>1. ModeInForce' = t /\ ~ Ticking'
      BY <1>2, <2>2 DEF ModeInForce, Joinable, Ticking
    <3> QED BY <1>1, <1>2, <2>1, <3>1 DEF Mode!modeVars, Ticking
  <2>3. CASE loop'[t] = "exited"
    <3>1. ModeInForce' = "idle" /\ ~ Ticking'
      BY <1>2, <2>3 DEF ModeInForce, Joinable, Ticking
    <3> QED BY <1>2, <2>1, <3>1 DEF Mode!Next, Mode!Leave, Ticking
  <2> QED BY <2>1, <2>2, <2>3
<1>4. CASE TimerWakes(t)
  <2>1. loop[t] = "sleep" /\ loop'[t] \in {"slot", "cond"} /\ published' = published
    BY <1>4 DEF TimerWakes, Wake
  <2>2. ModeInForce' = t /\ (Ticking' <=> loop'[t] = "slot")
    BY <1>2, <2>1 DEF ModeInForce, Joinable, Ticking
  <2> QED
    BY <1>1, <1>2, <2>1, <2>2
    DEF Mode!Next, Mode!BeginTick, Mode!modeVars, Ticking
<1>5. CASE TickEnds(t)
  <2>1. loop[t] = "slot" /\ loop'[t] = "cond" /\ published' \in {t, published}
    BY <1>5 DEF TickEnds, SlotReturns
  <2>2. ModeInForce' = t /\ ~ Ticking'
    BY <1>2, <2>1 DEF ModeInForce, Joinable, Ticking
  <2> QED BY <1>2, <2>1, <2>2 DEF Mode!Next, Mode!EndTick, Ticking
<1> QED BY <1>3, <1>4, <1>5 DEF TimerStep

(* Once two starts have met they have met for ever.                        *)
LEMMA ClashStays ==
  ASSUME TypeOK, clash, [Next]_vars
  PROVE  clash'
<1>1. ASSUME NEW c \in Callers, CallerStep(c) PROVE clash'
  BY <1>1, StepsKeepHistory
<1>2. ASSUME NEW t \in Timers, TimerStep(t) PROVE clash'
  BY <1>2 DEF TimerStep, TimerTests, TimerWakes, TickEnds, history
<1> QED BY <1>1, <1>2 DEF Next, Receive, vars, history

(* One source at a time feeds the registers, and it changes between ticks, *)
(* until two start commands meet: every behaviour of the bridge, with any  *)
(* callers and any interleaving, implements the abstract specification.    *)
THEOREM Refinement == Spec => ImplementsMode
<1>1. Init => Mode!Init
  BY BridgeAssumption DEF Init, TimerInit, Mode!Init, ModeInForce, Joinable
<1>2. /\ TypeOK /\ TypeOK' /\ ControlInv /\ ControlInv' /\ [Next]_vars
      => [Mode!Next]_Mode!modeVars
  <2> SUFFICES ASSUME TypeOK, TypeOK', ControlInv, ControlInv', [Next]_vars
               PROVE  [Mode!Next]_Mode!modeVars
    OBVIOUS
  <2>1. CASE clash'
    BY <2>1 DEF Mode!Next, Mode!Disturb
  <2>2. CASE ~ clash'
    <3>1. ~ clash /\ NoClashInv /\ NoClashInv'
      BY <2>2, ClashStays DEF ControlInv
    <3>2. ASSUME NEW c \in Clients, NEW k \in Starts \cup Stops, Receive(c, k)
          PROVE  UNCHANGED Mode!modeVars
      <4>1. clash' = clash
        BY <2>2, <3>1 DEF TypeOK
      <4>2. UNCHANGED <<loop, published>>
        BY <3>2 DEF Receive, timerVars
      <4> QED BY <4>1, <4>2 DEF Mode!modeVars, ModeInForce, Joinable
    <3>3. CASE UNCHANGED vars
      BY <3>3 DEF vars, timerVars, history, Mode!modeVars, ModeInForce, Joinable
    <3> QED BY <2>2, <3>1, <3>2, <3>3, CallerStepMode, TimerStepMode DEF Next
  <2> QED BY <2>1, <2>2
<1>3. QED
  BY <1>1, <1>2, TypeCorrect, ControlInvariance, PTL
  DEF Spec, ImplementsMode, Mode!Spec

============================================================================
