------------------------------ MODULE MCHelpers ------------------------------
(***************************************************************************)
(* The helpers that keep no link to a device, each by itself: grouping on  *)
(* every selection of registers, and the delays and intervals of timing.ts.*)
(* A behaviour uses one of them; the other stays as it started.            *)
(***************************************************************************)
EXTENDS MCReadGroups, Timing

HelpersInit == TimingInit /\ (NothingToGroup \/ AnySelection)

\* Delays and polls, in the behaviours that group nothing.
UseTiming == selection = <<>> /\ ~ grouped /\ TimingNext /\ UNCHANGED groupVars

UseGrouping == selection # <<>> /\ Group /\ UNCHANGED timingVars

HelpersSpec == HelpersInit /\ [][UseTiming \/ UseGrouping]_<<timingVars, groupVars>>
=============================================================================
