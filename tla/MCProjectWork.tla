---------------------------- MODULE MCProjectWork ----------------------------
(***************************************************************************)
(* Small instances of what the members of a project do to its rows: the    *)
(* creation of projects, one schedule, the plan, the search for circles in *)
(* its dependencies, and the editors of a schedule's row. These parts share no   *)
(* row and wait for no lock of each other, so that a behaviour is of one,  *)
(* chosen at its start, and the variables of the others stay as they begin.*)
(***************************************************************************)
EXTENDS ProjectCreation, ScheduleService, ProjectPlan, PlanCycleSearch,
        ScheduleForm, ScheduleValues, ScheduleTimeDialog, TLC

VARIABLE part

Symmetry == Permutations(Threads)

WorkInit ==
  /\ part \in {"creation", "schedule", "plan", "search", "form", "values", "dialog"}
  /\ CreationInit /\ ScheduleInit /\ PlanInit /\ FormInit /\ ValuesInit /\ TimeInit
  /\ SearchInit
  /\ part # "search" => graph = [i \in Nodes |-> {}]
  /\ part # "values" => place = "card"
  /\ part # "dialog" => timeRow = <<[f \in Fields |-> IF f = "start" THEN 0 ELSE 1]>>

WorkNext ==
  /\ UNCHANGED part
  /\ \/ /\ part = "creation" /\ CreationNext
        /\ UNCHANGED <<scheduleVars, vars, searchVars, formVars, valueVars, timeVars>>
     \/ /\ part = "schedule" /\ ScheduleNext
        /\ UNCHANGED <<creationVars, vars, searchVars, formVars, valueVars, timeVars>>
     \/ /\ part = "plan" /\ PlanNext
        /\ UNCHANGED <<creationVars, scheduleVars, searchVars, formVars, valueVars, timeVars>>
     \/ /\ part = "search" /\ SearchNext
        /\ UNCHANGED <<creationVars, scheduleVars, vars, formVars, valueVars, timeVars>>
     \/ /\ part = "form" /\ FormNext
        /\ UNCHANGED <<creationVars, scheduleVars, vars, searchVars, valueVars, timeVars>>
     \/ /\ part = "values" /\ ValuesNext
        /\ UNCHANGED <<creationVars, scheduleVars, vars, searchVars, formVars, timeVars>>
     \/ /\ part = "dialog" /\ TimeNext
        /\ UNCHANGED <<creationVars, scheduleVars, vars, searchVars, formVars, valueVars>>

WorkSpec == WorkInit /\ [][WorkNext]_<<part, creationVars, scheduleVars, vars, searchVars,
                                       formVars, valueVars, timeVars>>
==============================================================================
