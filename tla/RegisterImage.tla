--------------------------- MODULE RegisterImage ---------------------------
(***************************************************************************)
(* The input registers of mb_mapping, shared by the timer thread that      *)
(* publishes a tick and by the Modbus server thread that answers reads.    *)
(*                                                                         *)
(* reMapInputRegisterValuesForAnalogics() copies a tick register by        *)
(* register under mb_mapping_mutex; modbus_reply(), called by              *)
(* handleClientRequest(), reads them register by register and takes no     *)
(* mutex. No other function that runs takes it, so the mutex orders        *)
(* nothing and is not a variable here.                                     *)
(*                                                                         *)
(* The run control of the bridge enters through its abstract specification *)
(* BridgeMode, as long as no two start commands have met: one source at a  *)
(* time, switched between ticks.                                           *)
(***************************************************************************)
EXTENDS Naturals

CONSTANTS
  NRegs,     \* registers of mb_mapping that are looked at
  Width,     \* Width[s]: registers in a tick of source s; 0 for "zeros"
  Pair,      \* the two registers of one 32-bit counter, high word first
  MaxTick    \* bound: number of ticks

Sources == {"simulate", "acquire"}
Regs == 0 .. NRegs - 1

ASSUME ImageAssumption ==
  /\ NRegs \in Nat \ {0}
  /\ Width \in [Sources \cup {"zeros"} -> 0 .. NRegs]
  /\ Width["zeros"] = 0
  /\ Pair \in Regs \X Regs
  /\ MaxTick \in Nat

VARIABLES
  mode, ticking, published,   \* the run control
  tick,      \* number of the current tick, or of the last one
  done,      \* the last tick that was published: its source and number
  last,      \* history: last[s]: the last tick of source s that was
             \* published, and zeros, which were there before them
  image,     \* image[r]: the tick that wrote register r last
  wpos,      \* next register to write, or NRegs when nothing is written
  rpos,      \* next register to read, or NRegs when no read is served
  reply,     \* reply[r]: what the read in progress has found
  before     \* the last tick published when that read began

runVars == <<mode, ticking, published>>
tickVars == <<tick, done, last, image, wpos>>
readVars == <<rpos, reply, before>>
vars == <<runVars, tickVars, readVars>>

Control == INSTANCE BridgeMode WITH disturbed <- FALSE

Stamp == [src : Sources \cup {"zeros"}, n : 0 .. MaxTick]
Zeros == [src |-> "zeros", n |-> 0]

TypeOK ==
  /\ mode \in Sources \cup {"idle"}
  /\ ticking \in BOOLEAN
  /\ published \in Sources \cup {"zeros"}
  /\ tick \in 0 .. MaxTick
  /\ done \in Stamp
  /\ last \in [Sources \cup {"zeros"} -> Stamp]
  /\ image \in [Regs -> Stamp]
  /\ wpos \in 0 .. NRegs
  /\ rpos \in 0 .. NRegs
  /\ reply \in [Regs -> Stamp]
  /\ before \in Stamp

Init_NotZeroed ==   \* mutant: modbus_mapping_new() does not clear the registers
  /\ Control!Init
  /\ tick = 0
  /\ done = Zeros
  /\ last = [s \in Sources \cup {"zeros"} |-> Zeros]
  /\ image \in [Regs -> {[src |-> "unset", n |-> 0]}]
  /\ wpos = NRegs
  /\ rpos = NRegs
  /\ reply = [r \in Regs |-> Zeros]
  /\ before = Zeros

Init ==
  /\ Control!Init
  /\ tick = 0
  /\ done = Zeros
  /\ last = [s \in Sources \cup {"zeros"} |-> Zeros]
  /\ image = [r \in Regs |-> Zeros]
  /\ wpos = NRegs
  /\ rpos = NRegs
  /\ reply = [r \in Regs |-> Zeros]
  /\ before = Zeros

----------------------------------------------------------------------------
(* The run control.                                                        *)

EnterSource(s) == Control!Enter(s) /\ UNCHANGED <<tickVars, readVars>>

LeaveSource == Control!Leave /\ UNCHANGED <<tickVars, readVars>>

TickBegins ==
  /\ Control!BeginTick
  /\ tick < MaxTick
  /\ tick' = tick + 1
  /\ UNCHANGED <<done, last, image, wpos, readVars>>

----------------------------------------------------------------------------
(* The end of a tick: reMapInputRegisterValuesForAnalogics().              *)

Publishing == ticking /\ tick # done.n

PublishBegins ==
  /\ Publishing
  /\ wpos = NRegs
  /\ Width[mode] > 0
  /\ wpos' = 0
  /\ UNCHANGED <<runVars, tick, done, last, image, readVars>>

WriteRegister ==
  /\ Publishing
  /\ wpos + 1 < Width[mode]
  /\ image' = [image EXCEPT ![wpos] = [src |-> mode, n |-> tick]]
  /\ wpos' = wpos + 1
  /\ UNCHANGED <<runVars, tick, done, last, readVars>>

PublishEnds_Short ==   \* mutant: the copy stops one register early
  /\ Publishing
  /\ wpos + 1 = Width[mode]
  /\ UNCHANGED image
  /\ wpos' = NRegs
  /\ done' = [src |-> mode, n |-> tick]
  /\ last' = [last EXCEPT ![mode] = [src |-> mode, n |-> tick]]
  /\ Control!EndTick
  /\ published' = mode
  /\ UNCHANGED <<tick, readVars>>

PublishEnds_Relays ==   \* mutant: an acquired tick leaves its last register out
  /\ Publishing
  /\ wpos + 1 = Width[mode]
  /\ image' = IF mode = "acquire" THEN image
              ELSE [image EXCEPT ![wpos] = [src |-> mode, n |-> tick]]
  /\ wpos' = NRegs
  /\ done' = [src |-> mode, n |-> tick]
  /\ last' = [last EXCEPT ![mode] = [src |-> mode, n |-> tick]]
  /\ Control!EndTick
  /\ published' = mode
  /\ UNCHANGED <<tick, readVars>>

PublishEnds ==
  /\ Publishing
  /\ wpos + 1 = Width[mode]
  /\ image' = [image EXCEPT ![wpos] = [src |-> mode, n |-> tick]]
  /\ wpos' = NRegs
  /\ done' = [src |-> mode, n |-> tick]
  /\ last' = [last EXCEPT ![mode] = [src |-> mode, n |-> tick]]
  /\ Control!EndTick
  /\ published' = mode
  /\ UNCHANGED <<tick, readVars>>

(* acquireData() leaves its loop by an exception and publishes nothing.    *)
TickFails ==
  /\ mode = "acquire"
  /\ wpos = NRegs
  /\ Control!EndTick
  /\ published' = published
  /\ UNCHANGED <<tickVars, readVars>>

----------------------------------------------------------------------------
(* modbus_reply() to a read of all the registers.                          *)

ReadBegins ==
  /\ rpos = NRegs
  /\ rpos' = 0
  /\ before' = done
  /\ UNCHANGED <<runVars, tickVars, reply>>

ReadRegister ==
  /\ rpos < NRegs
  /\ reply' = [reply EXCEPT ![rpos] = image[rpos]]
  /\ rpos' = rpos + 1
  /\ UNCHANGED <<runVars, tickVars, before>>

----------------------------------------------------------------------------

Next ==
  \/ \E s \in Sources : EnterSource(s)
  \/ LeaveSource \/ TickBegins
  \/ PublishBegins \/ WriteRegister \/ PublishEnds \/ TickFails
  \/ ReadBegins \/ ReadRegister

Spec == Init /\ [][Next]_vars

----------------------------------------------------------------------------
(* Properties.                                                             *)

(* Between two publications the registers that the last tick covers all    *)
(* hold that tick; during one, those already written hold the new tick and *)
(* the others still the last one: no register is skipped or written twice. *)
PublishedPrefix ==
  \A r \in Regs :
    IF wpos < NRegs /\ r < wpos THEN image[r] = [src |-> mode, n |-> tick]
    ELSE r < Width[done.src] => image[r] = done

(* A read never goes back in time: no register of a reply is older than    *)
(* the last tick that was published before the read began.                 *)
FreshReply ==
  \A r \in Regs :
    (r < rpos /\ r < Width[before.src]) => reply[r].n >= before.n

(* The class says of its mutex: "Mutex for thread-safe access to           *)
(* mb_mapping". The two words of a counter in a reply are of one tick.     *)
PairIsConsistent ==
  rpos = NRegs => reply[Pair[1]].n = reply[Pair[2]].n

(* Nothing clears a register but a tick that reaches it. A register that   *)
(* is not being overwritten holds the newest of the published ticks that   *)
(* are wide enough for it, or zero: what a wider simulated tick has left   *)
(* beyond the acquired ones is its last value, and no other.               *)
Reaches(s, r) == s = "zeros" \/ r < Width[s]

NewestReaching ==
  \A r \in Regs :
    (wpos = NRegs \/ r >= wpos) =>
      \E s \in Sources \cup {"zeros"} :
        /\ Reaches(s, r)
        /\ image[r] = last[s]
        /\ \A u \in Sources : Reaches(u, r) => last[u].n <= last[s].n

(* No simulated value is left among the registers once an acquisition tick *)
(* is published. Whether this holds depends on the two widths alone: see   *)
(* the theorems SlateIsClean and WidthsCompare.                            *)
CleanSlate ==
  (wpos = NRegs /\ done.src = "acquire") =>
    \A r \in Regs : image[r].src # "simulate"

============================================================================
