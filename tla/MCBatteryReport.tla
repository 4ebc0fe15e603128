--------------------------- MODULE MCBatteryReport ---------------------------
(* Instances for TLC of where battery readings go to: the Matter attributes   *)
(* (BatteryReport) and the recorded history (PowerHistory).  These share      *)
(* nothing but the reading, so TLC explores them side by side and not in each *)
(* other's every state.                                                       *)
EXTENDS BatteryReport, PowerHistory
Good == [valid |-> TRUE, present |-> TRUE, estimated |-> FALSE, usb |-> FALSE,
         charging |-> FALSE, full |-> FALSE, percent |-> 15, millivolts |-> 3700]
MCEdges == {[Good EXCEPT !.percent = 14, !.usb = TRUE, !.charging = TRUE],
            [Good EXCEPT !.estimated = TRUE, !.millivolts = 2499],
            [Good EXCEPT !.present = FALSE],
            [Good EXCEPT !.percent = 101, !.usb = TRUE, !.full = TRUE, !.millivolts = 4350]}

VARIABLE part   \* which of the two a behaviour is about

powerVars == <<vars, historyVars, part>>

PowerInit == part \in {"report", "history"} /\ Init /\ HistoryInit

PowerNext ==
  \/ part = "report" /\ Next /\ UNCHANGED <<historyVars, part>>
  \/ part = "history" /\ HistoryNext /\ UNCHANGED <<vars, part>>

\* FairSpec and HistoryFairSpec, each for the behaviours that are about it.
On(p, A) == part = p /\ A

PowerSpec ==
  /\ PowerInit /\ [][PowerNext]_powerVars
  /\ WF_vars(On("report", Start)) /\ WF_vars(On("report", Watchdog))
  /\ WF_vars(On("report", Publish)) /\ WF_vars(On("report", SomeReport))
  /\ \A a \in Failing : SF_vars(On("report", ReportDoes(a)))
  /\ \A t \in Tasks :
       WF_vars(On("report", Request(t))) /\ SF_vars(On("report", ScheduleWorks(t)))
  /\ WF_historyVars(On("history", ServeRow)) /\ WF_historyVars(On("history", ToolSteps))
  /\ SF_historyVars(On("history", AskWorks))
==============================================================================
