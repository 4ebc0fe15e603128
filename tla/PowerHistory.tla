---------------------------- MODULE PowerHistory ----------------------------
(***************************************************************************)
(* The battery history: a ring of samples in the device's memory           *)
(* (power_log.c), served page by page while samples go on being taken      *)
(* (h_power_history in otbr_rest.c), and drained into a CSV file by a tool *)
(* on another machine (Recorder in tools/battery_record.py) that may be    *)
(* killed and started again, while the device may restart and requests     *)
(* fail.                                                                   *)
(*                                                                         *)
(* A sample is its number.  The random boot id of 64 bits is taken to be   *)
(* another one at every boot.  A row is flushed to the disk before the     *)
(* next one is written, and what a kill leaves of a row is cut off at the  *)
(* next start, so a row is there or is not.                                *)
(***************************************************************************)
EXTENDS Naturals, Sequences, SequencesExt

CONSTANTS
  Capacity,   \* POWER_LOG_CAPACITY: samples in the ring (8640)
  PageRows,   \* limit=: rows in a page (120)
  MaxSamples, \* bound: samples taken in one boot
  MaxStarts,  \* bound: boots of the device
  MaxKills    \* bound: times the tool is killed

ASSUME HistoryAssumption ==
  /\ Capacity \in Nat \ {0} /\ PageRows \in Nat \ {0}
  /\ MaxSamples \in Nat /\ MaxStarts \in Nat \ {0} /\ MaxKills \in Nat

VARIABLES
  device,   \* s_boot_id
  latest,   \* s_latest; of boots that are over, the last value
  slots,    \* s_samples
  page,     \* the page being served, then the page the tool has got
  pc,       \* where the tool is
  known,    \* Recorder.boot_id, 0 for None
  lastSeq,  \* Recorder.last_seq
  csv,      \* external: the rows on disk
  events,   \* external: the events on disk
  kills     \* bound

deviceVars == <<device, latest, slots>>
toolVars == <<pc, known, lastSeq, csv, events, kills>>
historyVars == <<deviceVars, page, toolVars>>

NoPage == [boot |-> 0, oldest |-> 0, latest |-> 0, next |-> 0, rows |-> <<>>]

Smaller(a, b) == IF a < b THEN a ELSE b

HistoryInit ==
  /\ device = 1 /\ latest = [b \in 1..MaxStarts |-> 0]
  /\ slots = [i \in 0..Capacity - 1 |-> 0]
  /\ page = NoPage /\ pc = "fetch" /\ known = 0 /\ lastSeq = 0
  /\ csv = <<>> /\ events = {} /\ kills = 0

-----------------------------------------------------------------------------
(* The device. *)

\* power_log_note.
TakeSample ==
  LET seq == latest[device] + 1 IN
  /\ seq <= MaxSamples
  /\ latest' = [latest EXCEPT ![device] = seq]
  /\ slots' = [slots EXCEPT ![(seq - 1) % Capacity] = seq]
  /\ UNCHANGED <<device, page, toolVars>>

\* power_log_init at the next boot; a request under way fails.
DeviceStarts ==
  /\ device < MaxStarts /\ device' = device + 1
  /\ slots' = [i \in 0..Capacity - 1 |-> 0]
  /\ page' = IF pc = "wait" THEN NoPage ELSE page
  /\ UNCHANGED <<latest, toolVars>>

\* power_log_info: s_count counts up to the capacity.
Count == Smaller(latest[device], Capacity)
OldestSeq == IF Count = 0 THEN 0 ELSE latest[device] - Count + 1

\* power_log_get.
Has(seq) == seq <= latest[device] /\ seq + Count > latest[device]

\* h_power_history from its first line on: the state of the ring, taken once.
PageAfter(after) ==
  [boot |-> device, oldest |-> OldestSeq, latest |-> latest[device], rows |-> <<>>,
   next |-> IF after >= latest[device] THEN 0
            ELSE IF after + 1 < OldestSeq THEN OldestSeq ELSE after + 1]

Served == page.next = 0 \/ page.next > page.latest \/ Len(page.rows) = PageRows

\* One turn of its loop: a row, or none because it was overwritten meanwhile.
ServeRow ==
  /\ pc = "wait" /\ page # NoPage /\ ~Served
  /\ page' = [page EXCEPT
       !.next = @ + 1,
       !.rows = IF Has(page.next) THEN Append(@, slots[(page.next - 1) % Capacity]) ELSE @]
  /\ UNCHANGED <<deviceVars, toolVars>>

-----------------------------------------------------------------------------
(* The tool. *)

\* fetch: the request reaches the device, or it is one of those that fail.
Ask ==
  /\ pc = "fetch" /\ pc' = "wait"
  /\ page' \in {PageAfter(lastSeq), NoPage}
  /\ UNCHANGED <<deviceVars, known, lastSeq, csv, events, kills>>

\* OSError; asked again after the interval.
FetchFails ==
  /\ pc = "wait" /\ page = NoPage /\ pc' = "fetch"
  /\ UNCHANGED <<deviceVars, page, known, lastSeq, csv, events, kills>>

\* validate_page: the rows ascend and are within the bounds.
Valid ==
  LET n == Len(page.rows) IN
  \A i \in 1..n :
    /\ page.rows[i] \in page.oldest..page.latest
    /\ i < n => page.rows[i] < page.rows[i + 1]

Deliver ==
  /\ pc = "wait" /\ page # NoPage /\ Served
  /\ pc' = IF Valid THEN "ingest" ELSE "fetch"
  /\ UNCHANGED <<deviceVars, page, known, lastSeq, csv, events, kills>>

\* Fault: the page that shows the new boot is used, whatever it was asked after.
SeesBootAndGoesOn ==
  /\ pc = "ingest" /\ page.boot # known
  /\ events' = events \cup {[kind |-> "boot", boot |-> page.boot]}
  /\ known' = page.boot /\ lastSeq' = 0 /\ pc' = "ingest"
  /\ UNCHANGED <<deviceVars, page, csv, kills>>

\* Fault: the cursor goes on from the boot before.
SeesBootKeepsCursor ==
  /\ pc = "ingest" /\ page.boot # known
  /\ events' = events \cup {[kind |-> "boot", boot |-> page.boot]}
  /\ known' = page.boot /\ pc' = IF lastSeq > 0 THEN "fetch" ELSE "ingest"
  /\ UNCHANGED <<deviceVars, page, lastSeq, csv, kills>>

\* Another boot: the cursor was about the one before, so ask again from the start.
SeesBoot ==
  /\ pc = "ingest" /\ page.boot # known
  /\ events' = events \cup {[kind |-> "boot", boot |-> page.boot]}
  /\ known' = page.boot /\ lastSeq' = 0
  /\ pc' = IF lastSeq > 0 THEN "fetch" ELSE "ingest"
  /\ UNCHANGED <<deviceVars, page, csv, kills>>

\* Where the rows are that the cursor has not passed, and the first of them: rows of a
\* valid page ascend, so the cursor passes one after the other.
ToSave == {i \in DOMAIN page.rows : page.rows[i] > lastSeq}
IsNext(i) == i \in ToSave /\ \A k \in ToSave : i <= k

\* "history page made no progress" ends the tool.
Ingest ==
  /\ pc = "ingest" /\ page.boot = known
  /\ pc' = IF ToSave = {} /\ lastSeq < page.latest THEN "dead" ELSE "save"
  /\ UNCHANGED <<deviceVars, page, known, lastSeq, csv, events, kills>>

Gap(seq) == [kind |-> "missing", boot |-> known, from |-> lastSeq + 1, next |-> seq]
AtGap(seq) == seq # lastSeq + 1

NoteGap ==
  \E i \in ToSave :
    /\ pc = "save" /\ IsNext(i) /\ AtGap(page.rows[i]) /\ Gap(page.rows[i]) \notin events
    /\ events' = events \cup {Gap(page.rows[i])}
    /\ UNCHANGED <<deviceVars, page, pc, known, lastSeq, csv, kills>>

\* The row, flushed, then the cursor.
SaveRow ==
  \E i \in ToSave :
    /\ pc = "save" /\ IsNext(i) /\ (AtGap(page.rows[i]) => Gap(page.rows[i]) \in events)
    /\ csv' = Append(csv, [boot |-> known, seq |-> page.rows[i]]) /\ lastSeq' = page.rows[i]
    /\ UNCHANGED <<deviceVars, page, pc, known, events, kills>>

\* At once for more, or after the interval.
PageDone ==
  /\ pc = "save" /\ ToSave = {} /\ pc' = "fetch"
  /\ UNCHANGED <<deviceVars, page, known, lastSeq, csv, events, kills>>

Killed ==
  /\ kills < MaxKills /\ kills' = kills + 1
  /\ pc # "dead" /\ pc' = "dead"
  /\ UNCHANGED <<deviceVars, page, known, lastSeq, csv, events>>

\* Started again on the same file: the cursor is that of its last row.
StartAgain ==
  /\ pc = "dead" /\ pc' = "fetch" /\ page' = NoPage
  /\ known' = (IF csv = <<>> THEN 0 ELSE Last(csv).boot)
  /\ lastSeq' = (IF csv = <<>> THEN 0 ELSE Last(csv).seq)
  /\ UNCHANGED <<deviceVars, csv, events, kills>>

-----------------------------------------------------------------------------

ToolSteps ==
  Ask \/ FetchFails \/ Deliver \/ SeesBoot \/ Ingest \/ NoteGap \/ SaveRow \/ PageDone \/ StartAgain

HistoryNext == TakeSample \/ DeviceStarts \/ ServeRow \/ ToolSteps \/ Killed

HistorySpec == HistoryInit /\ [][HistoryNext]_historyVars

AskWorks == Ask /\ page' # NoPage

\* The server and the tool go on, a tool that ended is started again, and not every
\* request fails.
HistoryFairSpec ==
  /\ HistorySpec
  /\ WF_historyVars(ServeRow) /\ WF_historyVars(ToolSteps) /\ SF_historyVars(AskWorks)

-----------------------------------------------------------------------------
(* Properties. *)

\* Across overwritten rows, restarts of the device and kills of the tool the file
\* says what it has: the boots in their order, each announced; the samples of a boot
\* once and in order; what is missing before a row noted; and nothing noted missing
\* that the ring had not overwritten.
HistoryIsTrue ==
  /\ \A i \in 1..Len(csv) :
       LET row == csv[i]
           before == IF i > 1 /\ csv[i - 1].boot = row.boot THEN csv[i - 1].seq ELSE 0
       IN  /\ [kind |-> "boot", boot |-> row.boot] \in events
           /\ i > 1 => csv[i - 1].boot <= row.boot
           /\ row.seq \in before + 1..latest[row.boot]
           /\ row.seq # before + 1 =>
                [kind |-> "missing", boot |-> row.boot, from |-> before + 1, next |-> row.seq]
                  \in events
  /\ \A e \in events : e.kind = "missing" => e.next - 1 + Capacity <= latest[e.boot]

\* Whenever the device stops taking samples, the file gets the last one.
RecorderCatchesUp ==
  <>[](\/ latest[device] = 0
       \/ csv # <<>> /\ Last(csv) = [boot |-> device, seq |-> latest[device]])
=============================================================================
