--------------------------- MODULE DischargeRate ---------------------------
(***************************************************************************)
(* The discharge rate of the power page and `power` (power_note_sample and *)
(* power_discharge_rate in power.c).  The chip cannot measure current; the *)
(* rate is the fall of the gauge over the readings in a small ring, which  *)
(* starts over whenever the run they belong to is interrupted.             *)
(*                                                                         *)
(* Both functions are one step under a spinlock.  The unit of time is what *)
(* lies between two polls (10 s in the code).                              *)
(***************************************************************************)
EXTENDS Integers

CONSTANTS
  HistN,       \* HIST_N: entries of the ring (12)
  MinStep,     \* 60 s: an entry is not followed by another one sooner
  MaxGap,      \* 90 s: later than that, the run is over
  MinSpan,     \* ten minutes: what a rate has to be taken over
  MinDrop,     \* two points: what the gauge has to have fallen
  Percents,    \* readings of the gauge on battery
  Horizon      \* bound: time

ASSUME RateAssumption ==
  /\ HistN \in Nat /\ HistN > 1 /\ Percents \subseteq 0..100
  /\ MinStep \in Nat \ {0} /\ MaxGap \in Nat /\ MinSpan \in Nat /\ MinDrop \in Nat \ {0}
  /\ MinStep <= MaxGap /\ MinSpan <= (HistN - 1) * MinStep /\ Horizon \in Nat

VARIABLES
  clock,     \* esp_timer_get_time
  hist,      \* s_hist
  histN,     \* s_hist_n
  histHead,  \* s_hist_head
  noted      \* history: what the poll at each time said

rateVars == <<clock, hist, histN, histHead, noted>>

Off == -1       \* not on battery, or no reading of the gauge
Missing == -2   \* no poll at that time

HistSlots == 0..HistN - 1

RateTypeOK ==
  /\ clock \in 0..Horizon
  /\ hist \in [HistSlots -> [t : 0..Horizon, pct : 0..100]]
  /\ histN \in 0..HistN /\ histHead \in HistSlots
  /\ noted \in [0..Horizon -> Percents \cup {Off, Missing}]

RateInit ==
  /\ clock = 0
  /\ hist = [i \in HistSlots |-> [t |-> 0, pct |-> 0]] /\ histN = 0 /\ histHead = 0
  /\ noted = [t \in 0..Horizon |-> Missing]

NewestEntry == hist[(histHead + HistN - 1) % HistN]

\* Fault: the slot to be written next, whether or not it has been written yet.
OldestInFullRing == hist[histHead]

\* The slot to be written next in a full ring, the first one until then.
OldestEntry == IF histN = HistN THEN hist[histHead] ELSE hist[0]

-----------------------------------------------------------------------------
(* power_note_sample. *)

Interrupted(percent) == clock - NewestEntry.t > MaxGap \/ percent > NewestEntry.pct

Put(n, head, percent) ==
  /\ hist' = [hist EXCEPT ![head] = [t |-> clock, pct |-> percent]]
  /\ histHead' = (head + 1) % HistN
  /\ histN' = IF n < HistN THEN n + 1 ELSE n

Sees(reading) ==
  /\ noted[clock] = Missing
  /\ noted' = [noted EXCEPT ![clock] = reading]
  /\ UNCHANGED clock

\* USB, no battery, an estimate or a failed read: nothing of the run is left.
NoteOff == Sees(Off) /\ histN' = 0 /\ histHead' = 0 /\ UNCHANGED hist

\* The first entry of a run: of none, after a gap, after a correction upwards.
NoteFirst(percent) ==
  /\ histN = 0 \/ Interrupted(percent)
  /\ Sees(percent) /\ Put(0, 0, percent)

NoteTooSoon(percent) ==
  /\ histN > 0 /\ ~Interrupted(percent) /\ clock - NewestEntry.t < MinStep
  /\ Sees(percent) /\ UNCHANGED <<hist, histN, histHead>>

NoteNext(percent) ==
  /\ histN > 0 /\ ~Interrupted(percent) /\ clock - NewestEntry.t >= MinStep
  /\ Sees(percent) /\ Put(histN, histHead, percent)

TimePasses == clock < Horizon /\ clock' = clock + 1 /\ UNCHANGED <<hist, histN, histHead, noted>>

RateNext ==
  \/ TimePasses \/ NoteOff
  \/ \E percent \in Percents : NoteFirst(percent) \/ NoteTooSoon(percent) \/ NoteNext(percent)

RateSpec == RateInit /\ [][RateNext]_rateVars

-----------------------------------------------------------------------------
(* power_discharge_rate. *)

\* A rate is given; it is (OldestEntry.pct - NewestEntry.pct) over (NewestEntry.t - OldestEntry.t).
RateGiven ==
  /\ histN >= 2
  /\ NewestEntry.t - OldestEntry.t >= MinSpan
  /\ OldestEntry.pct - NewestEntry.pct >= MinDrop
  /\ clock - NewestEntry.t <= MaxGap

-----------------------------------------------------------------------------
(* Properties. *)

\* The run is over at t: off battery, or read higher than when the run was at b.
Breaks(t, percent) == noted[t] = Off \/ noted[t] > percent

\* The last poll before u was at t.
PollBefore(t, u) == noted[t] # Missing /\ \A v \in t + 1..u - 1 : noted[v] = Missing

\* The entry is the first of its run: the poll before it was off battery or lower, or
\* too long ago for the two to be of one run.
FirstOfRun(entry) ==
  \A t \in 0..entry.t - 1 :
    PollBefore(t, entry.t) /\ entry.t - t + MinStep <= MaxGap => noted[t] < entry.pct

\* A rate is one of discharging: both its ends were really read, in that order, the
\* later one just now; between them no poll was off battery or above the first,
\* and none was missing for longer than the longest gap; and it reaches back to the
\* start of the run or as far as the ring does.
RateOfRun ==
  RateGiven =>
    /\ noted[OldestEntry.t] = OldestEntry.pct /\ noted[NewestEntry.t] = NewestEntry.pct
    /\ \A t \in OldestEntry.t..NewestEntry.t : ~Breaks(t, OldestEntry.pct)
    /\ \A t \in OldestEntry.t..NewestEntry.t - MaxGap : \E u \in t + 1..t + MaxGap : noted[u] # Missing
    /\ \/ NewestEntry.t - OldestEntry.t >= (HistN - 1) * MinStep
       \/ FirstOfRun(OldestEntry)
=============================================================================
