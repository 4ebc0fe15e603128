---------------------------- MODULE BatteryReport ----------------------------
(***************************************************************************)
(* How battery readings become Matter attributes (matter_battery.cpp and   *)
(* its model header).  The UI's power timer leaves the latest reading      *)
(* behind a spinlock and asks for a publication; so does a watchdog; the   *)
(* CHIP event loop carries publications out.  The updates of a publication *)
(* touch only what that loop owns, so they are one step, in which any of   *)
(* them may fail.                                                          *)
(*                                                                         *)
(* One unit of time is a period of the watchdog.  A reading is stale after *)
(* Stale of them, and a voltage is not replaced by another one sooner than *)
(* Stale after the last (60 s in the code for both).                       *)
(***************************************************************************)
EXTENDS Integers, FiniteSets

CONSTANTS
  Readings,    \* what the power chip reports: records as below
  Failing,     \* bound: the attributes whose update may fail
  Stale,       \* 60 s in periods of the watchdog
  MaxReadings, \* bound: readings taken
  MaxTime      \* bound: time units

ASSUME BatteryAssumption ==
  /\ Readings \subseteq [valid : BOOLEAN, present : BOOLEAN, estimated : BOOLEAN,
                         usb : BOOLEAN, charging : BOOLEAN, full : BOOLEAN,
                         percent : Int, millivolts : Int]
  /\ Failing \subseteq {"percent", "millivolts", "status", "charge", "level"}
  /\ Stale \in Nat \ {0} /\ MaxReadings \in Nat /\ MaxTime \in Nat

VARIABLES
  now,         \* time
  sample,      \* s_sample
  at,          \* s_sample.at_ms
  ready,       \* s_ready
  pending,     \* s_pending
  requester,   \* per requesting task: inside request_publish
  jobs,        \* external: publications scheduled and not begun
  publishing,  \* the CHIP event loop is inside publish
  sent,        \* s_sent
  shown,       \* external: the attributes of the endpoint
  voltageAt,   \* s_voltage_at
  readings     \* bound

vars == <<now, sample, at, ready, pending, requester, jobs, publishing, sent, shown,
          voltageAt, readings>>

Tasks == {"timer", "watchdog", "main"}
Attributes == {"percent", "millivolts", "status", "charge", "level"}
Null == -1
Unset == -2

-----------------------------------------------------------------------------
(* matter_battery_convert. *)

Unknown == [percent |-> Null, millivolts |-> Null, status |-> 0, charge |-> 0, level |-> Null]

Level(percent) == IF percent <= 5 THEN 2 ELSE IF percent < 15 THEN 1 ELSE 0

\* Nothing is known of an invalid or stale reading; of a battery that is not
\* there, only that; an estimated percentage is not reported.
Convert(s, age) ==
  LET known == ~s.estimated /\ s.percent \in 0..100 IN
  IF ~s.valid \/ age >= Stale THEN Unknown
  ELSE IF ~s.present THEN [Unknown EXCEPT !.status = 3]
  ELSE [percent |-> IF known THEN 2 * s.percent ELSE Null,
        millivolts |-> IF s.millivolts \in 2500..4350 THEN s.millivolts ELSE Null,
        status |-> IF s.usb THEN 2 ELSE 1,
        charge |-> IF s.usb /\ s.full THEN 2 ELSE IF s.usb /\ s.charging THEN 1 ELSE 3,
        level |-> IF known THEN Level(s.percent) ELSE Null]

\* matter_battery_voltage_due.
VoltageDue(previous, next, age) ==
  /\ previous # next
  /\ previous < 0 \/ next < 0 \/ age >= Stale

-----------------------------------------------------------------------------

NoReading == [valid |-> FALSE, present |-> FALSE, estimated |-> FALSE, usb |-> FALSE,
              charging |-> FALSE, full |-> FALSE, percent |-> 0, millivolts |-> 0]

TypeOK ==
  /\ now \in 0..MaxTime /\ at \in 0..MaxTime /\ voltageAt \in 0..MaxTime
  /\ sample \in Readings \cup {NoReading}
  /\ ready \in BOOLEAN /\ pending \in BOOLEAN
  /\ requester \in [Tasks -> {"idle", "claim", "schedule", "withdraw"}]
  /\ jobs \in Nat
  /\ publishing \in BOOLEAN
  /\ readings \in 0..MaxReadings

Init ==
  /\ now = 0 /\ sample = NoReading /\ at = 0
  /\ ready = FALSE /\ pending = FALSE /\ requester = [t \in Tasks |-> "idle"]
  /\ jobs = 0 /\ publishing = FALSE
  /\ sent = [a \in Attributes |-> Unset]
  /\ shown = [a \in Attributes |-> Unset] /\ voltageAt = 0
  /\ readings = 0

Tick ==
  /\ now < MaxTime /\ now' = now + 1
  /\ UNCHANGED <<sample, at, ready, pending, requester, jobs, publishing, sent, shown,
                 voltageAt, readings>>

\* matter_battery_start, with a first publication.
Start ==
  /\ ~ready /\ ready' = TRUE
  /\ requester' = [requester EXCEPT !["main"] = "claim"]
  /\ UNCHANGED <<now, sample, at, pending, jobs, publishing, sent, shown, voltageAt, readings>>

\* matter_note_power: the reading is kept even if nobody can publish it now.
NotePower(r) ==
  /\ requester["timer"] = "idle" /\ readings < MaxReadings
  /\ readings' = readings + 1
  /\ sample' = r /\ at' = now
  /\ requester' = [requester EXCEPT !["timer"] = "claim"]
  /\ UNCHANGED <<now, ready, pending, jobs, publishing, sent, shown, voltageAt>>

Watchdog ==
  /\ ready /\ requester["watchdog"] = "idle"
  /\ requester' = [requester EXCEPT !["watchdog"] = "claim"]
  /\ UNCHANGED <<now, sample, at, ready, pending, jobs, publishing, sent, shown, voltageAt,
                 readings>>

-----------------------------------------------------------------------------
(* request_publish. *)

Moves(t, from, to) == requester[t] = from /\ requester' = [requester EXCEPT ![t] = to]

\* Fault: a claim does not care whether there is one.
ClaimAlways(t) ==
  /\ Moves(t, "claim", IF ready THEN "schedule" ELSE "idle")
  /\ pending' = (pending \/ ready)
  /\ UNCHANGED <<now, sample, at, ready, jobs, publishing, sent, shown, voltageAt, readings>>

\* Nothing before the start; then s_pending.exchange(true).
Claim(t) ==
  /\ Moves(t, "claim", IF ready /\ ~pending THEN "schedule" ELSE "idle")
  /\ pending' = (pending \/ ready)
  /\ UNCHANGED <<now, sample, at, ready, jobs, publishing, sent, shown, voltageAt, readings>>

\* ScheduleWork, which fails when the event queue is full.
Schedule(t) ==
  /\ \/ Moves(t, "schedule", "idle") /\ jobs' = jobs + 1
     \/ Moves(t, "schedule", "withdraw") /\ UNCHANGED jobs
  /\ UNCHANGED <<now, sample, at, ready, pending, publishing, sent, shown, voltageAt, readings>>

Withdraw(t) ==
  /\ Moves(t, "withdraw", "idle")
  /\ pending' = FALSE
  /\ UNCHANGED <<now, sample, at, ready, jobs, publishing, sent, shown, voltageAt, readings>>

-----------------------------------------------------------------------------
(* publish, on the CHIP event loop. *)

\* Fault: the flag is released when the publication is over.
PublishKeepsFlag ==
  /\ ~publishing /\ jobs > 0 /\ publishing' = TRUE
  /\ jobs' = jobs - 1
  /\ UNCHANGED <<now, sample, at, ready, pending, requester, sent, shown, voltageAt, readings>>

\* The flag is released first ...
Publish ==
  /\ ~publishing /\ jobs > 0 /\ publishing' = TRUE
  /\ jobs' = jobs - 1 /\ pending' = FALSE
  /\ UNCHANGED <<now, sample, at, ready, requester, sent, shown, voltageAt, readings>>

\* Which attributes are worth an update.
Due(next) ==
  {a \in Attributes :
     CASE a = "millivolts" -> VoltageDue(sent[a], next[a], now - voltageAt)
       [] a = "level" -> next[a] >= 0 /\ next[a] # sent[a]
       [] OTHER -> next[a] # sent[a]}

\* Fault: an update that failed is taken for sent.
ReportFailsAsSent(failed) ==
  LET next == Convert(sample, now - at)
      done == Due(next) \ failed IN
  /\ publishing /\ publishing' = FALSE
  /\ failed \subseteq Due(next)
  /\ shown' = [a \in Attributes |-> IF a \in done THEN next[a] ELSE shown[a]]
  /\ sent' = [a \in Attributes |-> IF a \in Due(next) THEN next[a] ELSE sent[a]]
  /\ voltageAt' = IF "millivolts" \in done THEN now ELSE voltageAt
  /\ UNCHANGED <<now, sample, at, ready, pending, requester, jobs, readings>>

\* ... then the reading is copied and converted, and what is due updated: what
\* failed is not taken for sent.
Report(failed) ==
  LET next == Convert(sample, now - at)
      done == Due(next) \ failed IN
  /\ publishing /\ publishing' = FALSE
  /\ failed \subseteq Due(next)
  /\ shown' = [a \in Attributes |-> IF a \in done THEN next[a] ELSE shown[a]]
  /\ sent' = [a \in Attributes |-> IF a \in done THEN next[a] ELSE sent[a]]
  /\ voltageAt' = IF "millivolts" \in done THEN now ELSE voltageAt
  /\ UNCHANGED <<now, sample, at, ready, pending, requester, jobs, readings>>

-----------------------------------------------------------------------------
(* The specification. *)

Request(t) == Claim(t) \/ Schedule(t) \/ Withdraw(t)

Next ==
  \/ Tick \/ Start \/ (\E r \in Readings : NotePower(r)) \/ Watchdog
  \/ \E t \in Tasks : Request(t)
  \/ Publish \/ \E failed \in SUBSET Failing : Report(failed)

Spec == Init /\ [][Next]_vars

SomeReport == \E failed \in SUBSET Failing : Report(failed)
ReportDoes(a) == \E failed \in SUBSET (Failing \ {a}) : Report(failed)
ScheduleWorks(t) == Schedule(t) /\ jobs' = jobs + 1

\* The watchdog, the tasks and the CHIP loop are scheduled; scheduling and the
\* update of an attribute, tried again and again, do not fail for ever.
FairSpec ==
  /\ Spec
  /\ WF_vars(Start) /\ WF_vars(Watchdog) /\ WF_vars(Publish) /\ WF_vars(SomeReport)
  /\ \A a \in Failing : SF_vars(ReportDoes(a))
  /\ \A t \in Tasks : WF_vars(Request(t)) /\ SF_vars(ScheduleWorks(t))

-----------------------------------------------------------------------------
(* Properties. *)

\* s_pending passes between the requesting tasks and the event loop without a
\* lock: set means that exactly one publication is scheduled or about to be
\* scheduled or withdrawn, so it never gets stuck and a burst of readings is one job.
HandOff ==
  LET holders == {t \in Tasks : requester[t] \in {"schedule", "withdraw"}} IN
  jobs + Cardinality(holders) = IF pending THEN 1 ELSE 0

\* s_sent is what the controllers were really told, also after failed updates: an
\* attribute taken for sent would never be corrected.  And they were never told that
\* the charge level, which is not nullable, is unknown: the last known one stands.
CacheIsTruth == sent = shown /\ shown["level"] # Null

\* Once readings stop, and whatever failed before, the controllers end up with the
\* latest reading, and with nothing once that is stale.
LatestIsShown ==
  <>[](ready => \A a \in {"percent", "status", "charge"} :
                  shown[a] = Convert(sample, now - at)[a])
=============================================================================
