------------------------------- MODULE Planning -------------------------------
(***************************************************************************)
(* The recommendations and the study plan, as the part of Engines that has *)
(* a request and its plan for a state.                                     *)
(***************************************************************************)
CONSTANTS MaxWeeks, Inputs

VARIABLES request, solve, skip, stages, days, tutorials, year, hours, planPc

Guide == INSTANCE Guidance WITH input <- request, pc <- planPc

plan == <<request, solve, skip, stages, days, tutorials, year, hours, planPc>>

ASSUME PlanningAssumption == Guide!GuidanceAssumption /\ Guide!StudyPlanAssumption
=============================================================================
