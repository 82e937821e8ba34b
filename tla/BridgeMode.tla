----------------------------- MODULE BridgeMode -----------------------------
(***************************************************************************)
(* What the bridge promises about its two data sources: the registers are  *)
(* fed by one source at a time. A source is entered only from "idle", it   *)
(* is left only between two ticks, and only the source in force publishes. *)
(* This holds until two start commands meet: from then on nothing is       *)
(* promised any more.                                                      *)
(***************************************************************************)

CONSTANT Sources

VARIABLES
  mode,       \* the source in force, or "idle"
  ticking,    \* a tick of that source is running
  published,  \* the source of the registers' content, or "zeros"
  disturbed   \* two start commands have met

modeVars == <<mode, ticking, published, disturbed>>

Init ==
  /\ mode = "idle"
  /\ ticking = FALSE
  /\ published = "zeros"
  /\ disturbed = FALSE

Enter(s) ==
  /\ mode = "idle"
  /\ mode' = s
  /\ UNCHANGED <<ticking, published>>

Leave ==
  /\ mode \in Sources
  /\ ~ ticking
  /\ mode' = "idle"
  /\ UNCHANGED <<ticking, published>>

BeginTick ==
  /\ mode \in Sources
  /\ ~ ticking
  /\ ticking' = TRUE
  /\ UNCHANGED <<mode, published>>

EndTick ==
  /\ ticking
  /\ ticking' = FALSE
  /\ published' \in {mode, published}
  /\ UNCHANGED mode

Disturb == disturbed' = TRUE

Next ==
  \/ /\ (\E s \in Sources : Enter(s)) \/ Leave \/ BeginTick \/ EndTick
     /\ ~ disturbed /\ ~ disturbed'
  \/ Disturb

Spec == Init /\ [][Next]_modeVars

=============================================================================
