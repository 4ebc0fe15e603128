------------------------- MODULE BatteryReportProofs -------------------------
(***************************************************************************)
(* For any readings, failing updates and bounds: s_pending is handed from  *)
(* the requesting tasks to the event loop and back without being lost or   *)
(* doubled, and the cache is what the controllers were told.  For any      *)
(* ring, pages, restarts and kills: the recorder's file of the history is  *)
(* true.                                                                   *)
(***************************************************************************)
EXTENDS BatteryReport, PowerHistory, Integers, FiniteSetTheorems, TLAPS

\* The tasks past the exchange of s_pending that have not scheduled or withdrawn yet.
PastExchange == {t \in Tasks : requester[t] \in {"schedule", "withdraw"}}

\* Nobody gets past the exchange before matter_battery_start.
NothingBeforeStart == ~ready => ~pending

HandInv == TypeOK /\ HandOff /\ NothingBeforeStart

-----------------------------------------------------------------------------

\* The state by sort: the clock and the counters, the reading, the tasks, the flags.
TypeOfNumbers ==
  /\ now \in 0..MaxTime /\ at \in 0..MaxTime /\ voltageAt \in 0..MaxTime
  /\ jobs \in Nat /\ readings \in 0..MaxReadings

TypeOfReading == sample \in Readings \cup {NoReading}

TypeOfTasks == requester \in [Tasks -> {"idle", "claim", "schedule", "withdraw"}]

TypeOfFlags == ready \in BOOLEAN /\ pending \in BOOLEAN /\ publishing \in BOOLEAN

\* Steps keep the clock and the counters within their bounds.
LEMMA NumbersTyped == ASSUME TypeOfNumbers, [Next]_vars PROVE TypeOfNumbers'
<1>. USE BatteryAssumption DEF TypeOfNumbers
<1>1. CASE Tick
  BY <1>1 DEF Tick
<1>2. CASE Start \/ Watchdog
  BY <1>2 DEF Start, Watchdog
<1>3. ASSUME NEW r \in Readings, NotePower(r) PROVE TypeOfNumbers'
  BY <1>3 DEF NotePower
<1>4. ASSUME NEW t \in Tasks, Claim(t) \/ Withdraw(t) PROVE TypeOfNumbers'
  BY <1>4 DEF Claim, Withdraw
<1>5. ASSUME NEW t \in Tasks, Schedule(t) PROVE TypeOfNumbers'
  BY <1>5 DEF Schedule
<1>6. CASE Publish
  BY <1>6 DEF Publish
<1>7. ASSUME NEW failed \in SUBSET Failing, Report(failed) PROVE TypeOfNumbers'
  <2>1. voltageAt' = now \/ voltageAt' = voltageAt
    BY <1>7, Zenon DEF Report
  <2>2. UNCHANGED <<now, at, jobs, readings>>
    BY <1>7, Zenon DEF Report
  <2>. QED
    BY <2>1, <2>2
<1>8. CASE UNCHANGED vars
  BY <1>8 DEF vars
<1>. QED
  BY <1>1, <1>2, <1>3, <1>4, <1>5, <1>6, <1>7, <1>8 DEF Next, Request

\* Only the power timer leaves a reading behind, and it is one of the chip's.
LEMMA ReadingTyped == ASSUME TypeOfReading, [Next]_vars PROVE TypeOfReading'
BY Zenon
DEF TypeOfReading, Next, Tick, Start, NotePower, Watchdog, Request, Claim, Schedule, Withdraw,
    Publish, Report, vars

\* Steps of the tasks lead to steps of the tasks.
LEMMA TasksTyped == ASSUME TypeOfTasks, [Next]_vars PROVE TypeOfTasks'
<1>. USE DEF TypeOfTasks
<1>1. ASSUME NEW t \in Tasks, NEW s \in {"idle", "claim", "schedule", "withdraw"},
             requester' = [requester EXCEPT ![t] = s]
      PROVE TypeOfTasks'
  BY <1>1
<1>2. CASE UNCHANGED requester
  BY <1>2
<1>3. CASE Start \/ Watchdog \/ \E r \in Readings : NotePower(r)
  BY <1>1, <1>3 DEF Start, Watchdog, NotePower, Tasks
<1>4. ASSUME NEW t \in Tasks, Request(t) PROVE TypeOfTasks'
  BY <1>1, <1>4 DEF Request, Claim, Schedule, Withdraw, Moves
<1>. QED
  BY <1>2, <1>3, <1>4, Zenon DEF Next, Tick, Publish, Report, vars

\* Steps keep the flags flags.
LEMMA FlagsTyped == ASSUME TypeOfFlags, [Next]_vars PROVE TypeOfFlags'
<1>. USE DEF TypeOfFlags
<1>1. CASE Tick \/ Start \/ Watchdog \/ Publish
  BY <1>1, Zenon DEF Tick, Start, Watchdog, Publish
<1>2. ASSUME NEW r \in Readings, NotePower(r) PROVE TypeOfFlags'
  BY <1>2, Zenon DEF NotePower
<1>3. ASSUME NEW t \in Tasks, Request(t) PROVE TypeOfFlags'
  BY <1>3, Zenon DEF Request, Claim, Schedule, Withdraw
<1>4. ASSUME NEW failed \in SUBSET Failing, Report(failed) PROVE TypeOfFlags'
  BY <1>4, Zenon DEF Report
<1>5. CASE UNCHANGED vars
  BY <1>5, Zenon DEF vars
<1>. QED
  BY <1>1, <1>2, <1>3, <1>4, <1>5, Zenon DEF Next

\* Steps keep the state well typed.
LEMMA TypeStep == TypeOK /\ [Next]_vars => TypeOK'
<1>1. TypeOK <=> TypeOfNumbers /\ TypeOfReading /\ TypeOfTasks /\ TypeOfFlags
  BY Zenon DEF TypeOK, TypeOfNumbers, TypeOfReading, TypeOfTasks, TypeOfFlags
<1>2. TypeOK' <=> TypeOfNumbers' /\ TypeOfReading' /\ TypeOfTasks' /\ TypeOfFlags'
  BY Zenon DEF TypeOK, TypeOfNumbers, TypeOfReading, TypeOfTasks, TypeOfFlags
<1>. QED
  BY <1>1, <1>2, NumbersTyped, ReadingTyped, TasksTyped, FlagsTyped, Zenon

\* There are three tasks, so the count of those past the exchange is a number.
LEMMA PastExchangeIsFinite ==
  /\ IsFiniteSet(PastExchange) /\ IsFiniteSet(PastExchange')
  /\ Cardinality(PastExchange) \in Nat /\ Cardinality(PastExchange') \in Nat
<1>1. IsFiniteSet(Tasks)
  <2>1. IsFiniteSet({"timer"}) /\ IsFiniteSet({"watchdog"}) /\ IsFiniteSet({"main"})
    BY FS_Singleton
  <2>2. Tasks = ({"timer"} \cup {"watchdog"}) \cup {"main"}
    BY DEF Tasks
  <2>. QED
    BY <2>1, <2>2, FS_Union, Zenon
<1>2. PastExchange \subseteq Tasks /\ PastExchange' \subseteq Tasks
  BY DEF PastExchange
<1>. QED
  BY <1>1, <1>2, FS_Subset, FS_CardinalityType

\* s_pending is worth one publication, in the queue or in the hands of one task.
LEMMA HandOffIsCount == HandOff <=> jobs + Cardinality(PastExchange) = IF pending THEN 1 ELSE 0
BY DEF HandOff, PastExchange

LEMMA HandStep == HandInv /\ [Next]_vars => HandInv'
<1>. SUFFICES ASSUME HandInv, [Next]_vars PROVE HandInv'
  OBVIOUS
<1>. DEFINE n == Cardinality(PastExchange)
<1>0. TypeOK' /\ jobs \in Nat /\ n \in Nat /\ n' \in Nat
      /\ jobs + n = (IF pending THEN 1 ELSE 0)
  BY TypeStep, PastExchangeIsFinite, HandOffIsCount DEF HandInv, TypeOK
<1>. SUFFICES jobs' + n' = (IF pending' THEN 1 ELSE 0) /\ NothingBeforeStart'
  BY <1>0 DEF HandInv, HandOff, PastExchange
<1>. USE DEF HandInv, TypeOK, NothingBeforeStart
\* A task that does not pass the exchange.
<1>1. ASSUME PastExchange' = PastExchange, UNCHANGED <<jobs, pending>>, ready => ready'
      PROVE jobs' + n' = (IF pending' THEN 1 ELSE 0) /\ NothingBeforeStart'
  BY <1>0, <1>1
<1>2. CASE Tick \/ (\E r \in Readings : NotePower(r)) \/ Watchdog
  BY <1>1, <1>2 DEF Tick, NotePower, Watchdog, PastExchange, Tasks
<1>3. CASE Start
  <2>1. n = 0
    BY <1>0, <1>3 DEF Start
  <2>2. PastExchange = {}
    BY <2>1, PastExchangeIsFinite, FS_EmptySet
  <2>3. PastExchange' = {}
    BY <1>3, <2>2 DEF Start, PastExchange, Tasks
  <2>. QED
    BY <1>1, <1>3, <2>2, <2>3 DEF Start
<1>4. ASSUME NEW t \in Tasks, Claim(t)
      PROVE jobs' + n' = (IF pending' THEN 1 ELSE 0) /\ NothingBeforeStart'
  <2>1. CASE ready /\ ~pending
    <3>1. PastExchange' = PastExchange \cup {t} /\ t \notin PastExchange
      BY <1>4, <2>1 DEF Claim, Moves, PastExchange
    <3>2. n' = n + 1
      BY <3>1, PastExchangeIsFinite, FS_AddElement
    <3>3. pending' /\ ready' /\ jobs' = jobs
      BY <1>4, <2>1, Zenon DEF Claim
    <3>. QED
      BY <1>0, <2>1, <3>2, <3>3
  <2>2. CASE ~(ready /\ ~pending)
    <3>1. PastExchange' = PastExchange
      BY <1>4, <2>2 DEF Claim, Moves, PastExchange
    <3>2. pending' = pending
      BY <1>4, <2>2, Zenon DEF Claim
    <3>3. UNCHANGED <<jobs, ready>>
      BY <1>4 DEF Claim
    <3>. QED
      BY <1>1, <3>1, <3>2, <3>3
  <2>. QED
    BY <2>1, <2>2
\* A task that gives up what it holds.
<1>5. ASSUME NEW t \in Tasks, Moves(t, "schedule", "idle") \/ Moves(t, "withdraw", "idle")
      PROVE n' = n - 1
  <2>1. PastExchange' = PastExchange \ {t} /\ t \in PastExchange
    BY <1>5 DEF Moves, PastExchange
  <2>. QED
    BY <2>1, PastExchangeIsFinite, FS_RemoveElement
<1>6. ASSUME NEW t \in Tasks, Schedule(t)
      PROVE jobs' + n' = (IF pending' THEN 1 ELSE 0) /\ NothingBeforeStart'
  <2>1. CASE Moves(t, "schedule", "idle") /\ jobs' = jobs + 1
    BY <1>0, <1>5, <1>6, <2>1 DEF Schedule
  <2>2. CASE Moves(t, "schedule", "withdraw") /\ UNCHANGED jobs
    <3>1. PastExchange' = PastExchange
      BY <2>2 DEF Moves, PastExchange
    <3>. QED
      BY <1>1, <1>6, <2>2, <3>1 DEF Schedule
  <2>. QED
    BY <1>6, <2>1, <2>2 DEF Schedule
<1>7. ASSUME NEW t \in Tasks, Withdraw(t)
      PROVE jobs' + n' = (IF pending' THEN 1 ELSE 0) /\ NothingBeforeStart'
  BY <1>0, <1>5, <1>7 DEF Withdraw
<1>8. CASE Publish
  <2>1. n' = n
    BY <1>8 DEF Publish, PastExchange
  <2>. QED
    BY <1>0, <1>8, <2>1 DEF Publish
<1>9. ASSUME NEW failed \in SUBSET Failing, Report(failed)
      PROVE jobs' + n' = (IF pending' THEN 1 ELSE 0) /\ NothingBeforeStart'
  BY <1>1, <1>9 DEF Report, PastExchange
<1>10. CASE UNCHANGED vars
  BY <1>1, <1>10 DEF vars, PastExchange
<1>. QED
  BY <1>2, <1>3, <1>4, <1>6, <1>7, <1>8, <1>9, <1>10 DEF Next, Request

\* The invariant holds from power-on.
LEMMA HandInvAlways == Spec => []HandInv
<1>1. Init => HandInv
  <2>. SUFFICES ASSUME Init PROVE HandInv
    OBVIOUS
  <2>1. TypeOK
    <3>1. TypeOfNumbers /\ TypeOfTasks
      BY BatteryAssumption DEF Init, TypeOfNumbers, TypeOfTasks
    <3>2. TypeOfReading /\ TypeOfFlags
      BY Zenon DEF Init, TypeOfReading, TypeOfFlags
    <3>. QED
      BY <3>1, <3>2, Zenon DEF TypeOK, TypeOfNumbers, TypeOfReading, TypeOfTasks, TypeOfFlags
  <2>2. PastExchange = {}
    BY DEF Init, PastExchange
  <2>3. HandOff
    BY <2>2, HandOffIsCount, FS_EmptySet DEF Init
  <2>. QED
    BY <2>1, <2>3 DEF HandInv, NothingBeforeStart, Init
<1>. QED
  BY <1>1, HandStep, PTL DEF Spec

-----------------------------------------------------------------------------

\* Every reachable state of battery reporting is well typed.
THEOREM BatteryTyped == Spec => []TypeOK
<1>1. HandInv => TypeOK
  BY DEF HandInv
<1>. QED
  BY <1>1, HandInvAlways, PTL

\* request_publish and publish pass s_pending between four tasks without a lock: while
\* it is set exactly one publication is scheduled, or is about to be scheduled or
\* withdrawn; while it is clear there is none.
THEOREM PendingIsHandedOff == Spec => []HandOff
<1>1. HandInv => HandOff
  BY DEF HandInv
<1>. QED
  BY <1>1, HandInvAlways, PTL

\* Whichever updates of publish fail, s_sent stays what the controllers were told, and
\* they are never told that the charge level is unknown.
THEOREM CacheAlwaysTrue == Spec => []CacheIsTruth
<1>1. Init => CacheIsTruth
  BY DEF Init, CacheIsTruth, Attributes, Unset, Null
<1>2. CacheIsTruth /\ [Next]_vars => CacheIsTruth'
  <2>. SUFFICES ASSUME CacheIsTruth, [Next]_vars PROVE CacheIsTruth'
    OBVIOUS
  <2>1. ASSUME NEW failed \in SUBSET Failing, Report(failed) PROVE CacheIsTruth'
    <3>. DEFINE next == Convert(sample, now - at)
                done == Due(next) \ failed
    <3>1. /\ shown' = [a \in Attributes |-> IF a \in done THEN next[a] ELSE shown[a]]
          /\ sent' = [a \in Attributes |-> IF a \in done THEN next[a] ELSE sent[a]]
      BY <2>1 DEF Report
    <3>2. "level" \in done => next["level"] >= 0
      BY DEF Due
    <3>3. sent = shown /\ shown["level"] # Null
      BY DEF CacheIsTruth
    <3>. HIDE DEF next, done
    <3>4. sent' = shown'
      BY <3>1, <3>3
    <3>5. shown'["level"] # Null
      BY <3>1, <3>2, <3>3 DEF Attributes, Null
    <3>. QED
      BY <3>4, <3>5 DEF CacheIsTruth
  <2>2. CASE UNCHANGED <<sent, shown>>
    BY <2>2 DEF CacheIsTruth
  <2>. QED
    BY <2>1, <2>2, Zenon
    DEF Next, Tick, Start, NotePower, Watchdog, Request, Claim, Schedule, Withdraw, Publish, vars
<1>. QED
  BY <1>1, <1>2, PTL DEF Spec

-----------------------------------------------------------------------------
(* The history and its recorder (PowerHistory).                            *)

Boots == 1..MaxStarts
RowType == [boot : Boots, seq : Nat \ {0}]
PageType == [boot : Nat, oldest : Nat, latest : Nat, next : Nat, rows : Seq(Nat)]
EventType == [kind : {"boot"}, boot : Boots]
               \cup [kind : {"missing"}, boot : Boots, from : Nat, next : Nat]

DeviceTyped ==
  /\ device \in Boots /\ latest \in [Boots -> Nat]
  /\ slots \in [0..Capacity - 1 -> Nat]

ToolTyped ==
  /\ pc \in {"fetch", "wait", "ingest", "save", "dead"}
  /\ known \in 0..device /\ lastSeq \in Nat
  /\ csv \in Seq(RowType) /\ events \subseteq EventType

HistoryTyped == DeviceTyped /\ ToolTyped /\ page \in PageType

\* A sample that has not been overwritten is in its slot; of boots to come there is none.
RingHolds ==
  /\ \A seq \in 1..latest[device] :
       seq + Capacity > latest[device] => slots[(seq - 1) % Capacity] = seq
  /\ \A b \in Boots : b > device => latest[b] = 0

Overwritten(boot, seq) == seq + Capacity <= latest[boot]

\* The page the tool waits for or works off.
InHand == pc \in {"wait", "ingest", "save"} /\ page # NoPage

\* It is of the boot it was asked in, ascends, and lacks what is behind the cursor only where
\* the ring had lost it.
PageInv ==
  InHand =>
    /\ page.boot \in 1..device /\ known <= page.boot
    /\ pc = "wait" => page.boot = device
    /\ page.latest <= latest[page.boot]
    /\ page.next <= page.latest + 1 /\ (page.next = 0 => page.rows = <<>>)
    /\ \A i \in DOMAIN page.rows :
         /\ page.rows[i] \in 1..page.latest /\ page.rows[i] < page.next
         /\ \A k \in DOMAIN page.rows : i <= k => page.rows[i] <= page.rows[k]
    /\ \A seq \in lastSeq + 1..page.latest : seq < page.next =>
         \/ \E i \in DOMAIN page.rows : page.rows[i] = seq
         \/ Overwritten(page.boot, seq)

\* The cursor is that of the last row, or at the start of a boot of which there is none.
CursorInv ==
  /\ pc \in {"ingest", "save"} => page # NoPage
  /\ pc = "save" => page.boot = known
  /\ known = 0 => lastSeq = 0
  /\ known # 0 => [kind |-> "boot", boot |-> known] \in events
  /\ csv # <<>> => csv[Len(csv)].boot <= known
  /\ IF lastSeq = 0 THEN csv # <<>> => csv[Len(csv)].boot < known
     ELSE csv # <<>> /\ csv[Len(csv)] = [boot |-> known, seq |-> lastSeq]

RecorderInv == HistoryTyped /\ RingHolds /\ PageInv /\ CursorInv /\ HistoryIsTrue

LEMMA Multiples ==
  ASSUME NEW b \in Nat \ {0}, NEW p \in Int, NEW q \in Int, p < q
  PROVE  b * p + b <= b * q
OBVIOUS

LEMMA Division ==
  ASSUME NEW b \in Nat \ {0}, NEW a \in Nat
  PROVE  a \div b \in Int /\ a % b \in 0 .. b - 1 /\ a = b * (a \div b) + (a % b)
OBVIOUS

LEMMA Apart ==
  ASSUME NEW b \in Nat \ {0}, NEW m \in Nat, NEW n \in Nat, m < n, m % b = n % b
  PROVE  m + b <= n
<1>. DEFINE p == m \div b
            q == n \div b
            r == m % b
<1>1. p \in Int /\ q \in Int /\ r \in Nat
  BY Division
<1>2. m = b * p + r /\ n = b * q + r
  BY Division
<1>. HIDE DEF p, q, r
<1>3. p < q
  <2>1. CASE q < p
    BY <1>1, <1>2, <2>1, Multiples
  <2>2. CASE p = q
    BY <1>1, <1>2, <2>2
  <2>. QED
    BY <1>1, <2>1, <2>2
<1>. QED
  BY <1>1, <1>2, <1>3, Multiples

\* Samples of one slot are a whole ring apart.
LEMMA SlotApart ==
  ASSUME NEW m \in Nat \ {0}, NEW n \in Nat, m < n + 1, (m - 1) % Capacity = n % Capacity
  PROVE  m + Capacity <= n + 1
<1>1. Capacity \in Nat \ {0}
  BY HistoryAssumption
<1>2. CASE m = n + 1
  BY <1>2
<1>. DEFINE a == m - 1
<1>3. a \in Nat /\ a < n /\ m = a + 1
  OBVIOUS
<1>4. a % Capacity = n % Capacity
  OBVIOUS
<1>. HIDE DEF a
<1>5. a + Capacity <= n
  BY <1>1, <1>3, <1>4, Apart
<1>. QED
  BY <1>1, <1>3, <1>5

-----------------------------------------------------------------------------

\* Before(i) and the rest of HistoryIsTrue, by its two parts.
Before(i) == IF i > 1 /\ csv[i - 1].boot = csv[i].boot THEN csv[i - 1].seq ELSE 0
Missing(boot, from, next) == [kind |-> "missing", boot |-> boot, from |-> from, next |-> next]
RowTrue(i) ==
  /\ [kind |-> "boot", boot |-> csv[i].boot] \in events
  /\ i > 1 => csv[i - 1].boot <= csv[i].boot
  /\ csv[i].seq \in Before(i) + 1..latest[csv[i].boot]
  /\ csv[i].seq # Before(i) + 1 => Missing(csv[i].boot, Before(i) + 1, csv[i].seq) \in events
GapsTrue == \A e \in events : e.kind = "missing" => e.next - 1 + Capacity <= latest[e.boot]

LEMMA ByParts == HistoryIsTrue <=> (\A i \in 1..Len(csv) : RowTrue(i)) /\ GapsTrue
BY DEF HistoryIsTrue, RowTrue, GapsTrue, Before, Missing

LEMMA CsvTyped ==
  ASSUME HistoryTyped
  PROVE  /\ Len(csv) \in Nat /\ DOMAIN csv = 1..Len(csv)
         /\ \A i \in 1..Len(csv) :
              /\ csv[i].boot \in Boots /\ csv[i].seq \in Nat \ {0}
              /\ csv[i] = [boot |-> csv[i].boot, seq |-> csv[i].seq]
              /\ i > 1 => i - 1 \in 1..Len(csv)
<1>1. csv \in Seq(RowType)
  BY DEF HistoryTyped, ToolTyped
<1>2. \A i \in 1..Len(csv) : csv[i] \in RowType
  BY <1>1
<1>. QED
  BY <1>1, <1>2 DEF RowType

\* What has been said stays true when samples come in and boots are noted.
LEMMA StaysTrue ==
  ASSUME HistoryTyped, HistoryTyped', HistoryIsTrue, UNCHANGED csv, events \subseteq events',
         \A e \in events' : e \in events \/ e.kind = "boot",
         \A b \in Boots : latest[b] <= latest'[b]
  PROVE  HistoryIsTrue'
<1>1. \A i \in 1..Len(csv) : RowTrue(i)'
  <2>. SUFFICES ASSUME NEW i \in 1..Len(csv) PROVE RowTrue(i)'
    OBVIOUS
  <2>1. RowTrue(i) /\ csv[i].boot \in Boots /\ csv[i].seq \in Nat
    BY ByParts, CsvTyped
  <2>2. Before(i) \in Nat /\ Before(i)' = Before(i)
    BY CsvTyped DEF Before
  <2>3. latest[csv[i].boot] \in Nat /\ latest'[csv[i].boot] \in Nat
        /\ latest[csv[i].boot] <= latest'[csv[i].boot]
    BY <2>1 DEF HistoryTyped, DeviceTyped
  <2>4. csv[i].seq \in Before(i) + 1..latest'[csv[i].boot]
    BY <2>1, <2>2, <2>3, SMTT(30) DEF RowTrue
  <2>. QED
    BY <2>1, <2>2, <2>4 DEF RowTrue
<1>2. GapsTrue'
  <2>. SUFFICES ASSUME NEW e \in events', e.kind = "missing"
                PROVE  e.next - 1 + Capacity <= latest'[e.boot]
    BY DEF GapsTrue
  <2>1. e \in events /\ e.boot \in Boots /\ e.next \in Nat
    BY DEF HistoryTyped, ToolTyped, EventType
  <2>2. e.next - 1 + Capacity <= latest[e.boot]
    BY <2>1, ByParts DEF GapsTrue
  <2>. QED
    <3>1. /\ latest[e.boot] \in Nat /\ latest'[e.boot] \in Nat /\ Capacity \in Nat \ {0}
          /\ latest[e.boot] <= latest'[e.boot]
      BY <2>1, HistoryAssumption DEF HistoryTyped, DeviceTyped
    <3>. QED
      BY <2>1, <2>2, <3>1, SMTT(30)
<1>3. HistoryIsTrue' <=> (\A i \in 1..Len(csv)' : RowTrue(i)') /\ GapsTrue'
  BY DEF HistoryIsTrue, RowTrue, GapsTrue, Before, Missing
<1>. QED
  BY <1>1, <1>2, <1>3

LEMMA InHandTyped ==
  ASSUME HistoryTyped
  PROVE  /\ page.boot \in Nat /\ page.latest \in Nat /\ page.next \in Nat /\ page.oldest \in Nat
         /\ Len(page.rows) \in Nat /\ DOMAIN page.rows = 1..Len(page.rows)
         /\ \A i \in DOMAIN page.rows : page.rows[i] \in Nat
         /\ \A b \in Boots : latest[b] \in Nat
         /\ \A i \in 1..device : i \in Boots
         /\ latest[device] \in Nat /\ Capacity \in Nat \ {0} /\ device \in Nat
<1>1. /\ page.boot \in Nat /\ page.latest \in Nat /\ page.next \in Nat /\ page.oldest \in Nat
      /\ page.rows \in Seq(Nat)
  BY DEF HistoryTyped, PageType
<1>2. device \in Boots /\ \A b \in Boots : latest[b] \in Nat
  BY DEF HistoryTyped, DeviceTyped
<1>3. device \in Nat /\ \A i \in 1..device : i \in Boots
  BY <1>2, HistoryAssumption DEF Boots
<1>4. Len(page.rows) \in Nat /\ DOMAIN page.rows = 1..Len(page.rows)
  BY <1>1
<1>5. \A i \in DOMAIN page.rows : page.rows[i] \in Nat
  BY <1>1
<1>. QED
  BY <1>1, <1>2, <1>3, <1>4, <1>5, HistoryAssumption

LEMMA Appended ==
  ASSUME NEW S, NEW s \in Seq(S), NEW e \in S
  PROVE  /\ Append(s, e) \in Seq(S) /\ Len(Append(s, e)) = Len(s) + 1
         /\ Append(s, e)[Len(s) + 1] = e /\ Append(s, e) # <<>>
         /\ \A j \in 1..Len(s) : Append(s, e)[j] = s[j]
<1>. Len(s) \in Nat
  OBVIOUS
<1>1. Append(s, e) \in Seq(S) /\ Len(Append(s, e)) = Len(s) + 1
  OBVIOUS
<1>2. Append(s, e)[Len(s) + 1] = e /\ \A j \in 1..Len(s) : Append(s, e)[j] = s[j]
  OBVIOUS
<1>3. Append(s, e) # <<>>
  BY <1>1
<1>. QED
  BY <1>1, <1>2, <1>3

-----------------------------------------------------------------------------
(* The device. *)

LEMMA TakeSampleKeeps ==
  ASSUME RecorderInv, TakeSample
  PROVE  RecorderInv'
<1>. USE InHandTyped DEF RecorderInv
<1>. DEFINE seq == latest[device] + 1
<1>1. seq \in Nat /\ latest' = [latest EXCEPT ![device] = seq]
  BY SMTT(30) DEF TakeSample
<1>2. /\ latest'[device] = latest[device] + 1
      /\ \A b \in Boots : latest'[b] \in Nat /\ latest[b] <= latest'[b]
      /\ latest' \in [Boots -> Nat]
  BY <1>1, SMTT(30) DEF HistoryTyped, DeviceTyped
<1>3. (seq - 1) % Capacity = latest[device] % Capacity
  BY <1>1
<1>4. latest[device] % Capacity \in 0..Capacity - 1
  BY Division
<1>5. slots' = [slots EXCEPT ![latest[device] % Capacity] = latest[device] + 1]
  BY <1>3 DEF TakeSample
<1>6. HistoryTyped'
  <2>1. slots' \in [0..Capacity - 1 -> Nat]
    BY <1>4, <1>5, SMTT(30) DEF HistoryTyped, DeviceTyped
  <2>. QED
    BY <1>2, <2>1 DEF TakeSample, HistoryTyped, DeviceTyped, ToolTyped, toolVars
<1>7. RingHolds'
  <2>. SUFFICES ASSUME NEW s \in 1..latest[device] + 1, s + Capacity > latest[device] + 1
                PROVE  slots'[(s - 1) % Capacity] = s
    <3>1. \A b \in Boots : b > device => latest'[b] = 0
      BY <1>1, SMTT(30) DEF RingHolds, HistoryTyped, DeviceTyped
    <3>. QED
      BY <1>2, <3>1, SMTT(30) DEF RingHolds, TakeSample
  <2>1. CASE s = latest[device] + 1
    <3>1. s - 1 = latest[device]
      BY <2>1
    <3>. QED
      BY <1>4, <1>5, <2>1, <3>1 DEF HistoryTyped, DeviceTyped
  <2>2. CASE s # latest[device] + 1
    <3>1. s \in 1..latest[device] /\ s + Capacity > latest[device] /\ s \in Nat \ {0}
          /\ s < latest[device] + 1 /\ s - 1 \in Nat
      BY <2>2, SMTT(30)
    <3>2. slots[(s - 1) % Capacity] = s
      BY <3>1 DEF RingHolds
    <3>3. (s - 1) % Capacity # latest[device] % Capacity
      BY <3>1, SlotApart
    <3>4. (s - 1) % Capacity \in 0..Capacity - 1
      BY <3>1, Division
    <3>. QED
      BY <1>5, <3>2, <3>3, <3>4 DEF HistoryTyped, DeviceTyped
  <2>. QED
    BY <2>1, <2>2
<1>8. PageInv'
  <2>. SUFFICES ASSUME InHand PROVE PageInv'
    BY DEF PageInv, InHand, TakeSample, toolVars
  <2>1. page.boot \in Boots /\ page.latest <= latest'[page.boot]
    BY <1>2, SMTT(30) DEF PageInv
  <2>2. \A s \in lastSeq + 1..page.latest :
          Overwritten(page.boot, s) => s + Capacity <= latest'[page.boot]
    <3>. SUFFICES ASSUME NEW s \in lastSeq + 1..page.latest, Overwritten(page.boot, s)
                  PROVE  s + Capacity <= latest'[page.boot]
      OBVIOUS
    <3>1. /\ s + Capacity <= latest[page.boot] /\ latest[page.boot] <= latest'[page.boot]
          /\ latest[page.boot] \in Nat /\ latest'[page.boot] \in Nat
      BY <1>2, <2>1 DEF Overwritten
    <3>2. s \in Nat
      BY DEF HistoryTyped, ToolTyped
    <3>. QED
      BY <3>1, <3>2
  <2>3. UNCHANGED <<page, device, lastSeq, known, pc>>
    BY DEF TakeSample, toolVars
  <2>. QED
    BY <2>1, <2>2, <2>3 DEF PageInv, Overwritten
<1>9. CursorInv'
  BY DEF CursorInv, TakeSample, toolVars
<1>10. HistoryIsTrue'
  BY <1>2, <1>6, StaysTrue DEF TakeSample, toolVars
<1>. QED
  BY <1>6, <1>7, <1>8, <1>9, <1>10

LEMMA DeviceStartsKeeps ==
  ASSUME RecorderInv, DeviceStarts
  PROVE  RecorderInv'
<1>. USE InHandTyped DEF RecorderInv
<1>1. HistoryTyped'
  <2>1. device' \in Boots /\ known \in 0..device'
    BY HistoryAssumption DEF DeviceStarts, HistoryTyped, DeviceTyped, ToolTyped, Boots
  <2>3. slots' \in [0..Capacity - 1 -> Nat]
    BY DEF DeviceStarts
  <2>2. page' \in PageType
    BY DEF DeviceStarts, HistoryTyped, PageType, NoPage
  <2>. QED
    BY <2>1, <2>2, <2>3 DEF DeviceStarts, HistoryTyped, DeviceTyped, ToolTyped, toolVars
<1>2. RingHolds'
  <2>1. latest'[device'] = 0
    BY <1>1 DEF DeviceStarts, RingHolds, HistoryTyped, DeviceTyped
  <2>2. \A b \in Boots : b > device' => latest'[b] = 0
    BY SMTT(30) DEF DeviceStarts, RingHolds, Boots
  <2>3. \A seq \in 1..latest'[device'] : FALSE
    BY <2>1
  <2>. QED
    BY <2>2, <2>3 DEF RingHolds
<1>3. PageInv'
  <2>1. InHand' => InHand /\ pc # "wait" /\ page' = page
    BY DEF InHand, DeviceStarts, toolVars
  <2>2. \A b \in 1..device : b \in 1..device'
    BY <1>1 DEF DeviceStarts
  <2>. QED
    BY <2>1, <2>2 DEF PageInv, Overwritten, DeviceStarts, toolVars
<1>4. CursorInv'
  BY DEF CursorInv, DeviceStarts, toolVars
<1>5. HistoryIsTrue'
  BY <1>1, StaysTrue DEF DeviceStarts, toolVars
<1>. QED
  BY <1>1, <1>2, <1>3, <1>4, <1>5

LEMMA ServeRowKeeps ==
  ASSUME RecorderInv, ServeRow
  PROVE  RecorderInv'
<1>. USE InHandTyped DEF RecorderInv
<1>. DEFINE n == page.next
            rows == page.rows
<1>1. /\ InHand /\ page.boot = device /\ n \in Nat /\ n # 0 /\ n <= page.latest
      /\ page.latest <= latest[device]
  BY SMTT(30) DEF ServeRow, InHand, Served, PageInv
<1>2. page' = [boot |-> page.boot, oldest |-> page.oldest, latest |-> page.latest,
               next |-> n + 1, rows |-> page'.rows]
  <2>1. page = [boot |-> page.boot, oldest |-> page.oldest, latest |-> page.latest,
                next |-> n, rows |-> rows]
    BY DEF HistoryTyped, PageType
  <2>. QED
    BY <2>1 DEF ServeRow
<1>3. Has(n) <=> n + Capacity > latest[device]
  BY <1>1 DEF Has, Count, Smaller
<1>4. slots[(n - 1) % Capacity] \in Nat
  <2>. DEFINE m == n - 1
  <2>1. m \in Nat
    BY <1>1
  <2>2. m % Capacity \in 0..Capacity - 1
    BY <2>1, Division
  <2>. QED
    BY <2>2 DEF HistoryTyped, DeviceTyped
<1>5. /\ page'.rows = IF Has(n) THEN Append(rows, slots[(n - 1) % Capacity]) ELSE rows
      /\ Has(n) => slots[(n - 1) % Capacity] = n
  BY <1>1, <1>3, SMTT(30) DEF ServeRow, HistoryTyped, PageType, RingHolds
<1>6. page'.rows = IF Has(n) THEN Append(rows, n) ELSE rows
  BY <1>5
<1>7. rows \in Seq(Nat) /\ page'.rows \in Seq(Nat)
  BY <1>1, <1>6 DEF HistoryTyped, PageType
<1>8. /\ page' \in PageType /\ page'.boot = page.boot /\ page'.latest = page.latest
      /\ page'.next = n + 1 /\ page'.oldest = page.oldest
  <2>1. n + 1 \in Nat /\ page.boot \in Nat
    BY <1>1, SMTT(30)
  <2>. QED
    BY <1>2, <1>7, <2>1 DEF PageType
<1>9. UNCHANGED <<deviceVars, toolVars>> /\ UNCHANGED <<device, latest, slots>>
      /\ UNCHANGED <<pc, known, lastSeq, csv, events, kills>>
  BY DEF ServeRow, deviceVars, toolVars
<1>10. HistoryTyped' /\ RingHolds'
  BY <1>8, <1>9 DEF HistoryTyped, DeviceTyped, ToolTyped, RingHolds
<1>11. \A i \in DOMAIN page'.rows :
         page'.rows[i] \in 1..page.latest /\ page'.rows[i] < n + 1
         /\ \A k \in DOMAIN page'.rows : i <= k => page'.rows[i] <= page'.rows[k]
  <2>0. n \in 1..page.latest /\ \A r \in 1..page.latest : r < n => r < n + 1 /\ r <= n
    BY <1>1
  <2>1. \A i \in DOMAIN rows :
          /\ rows[i] \in 1..page.latest /\ rows[i] < n
          /\ \A k \in DOMAIN rows : i <= k => rows[i] <= rows[k]
    BY <1>1 DEF PageInv
  <2>2. CASE ~ Has(n)
    BY <1>1, <1>6, <2>1, <2>2, SMTT(30)
  <2>3. CASE Has(n)
    <3>1. /\ DOMAIN page'.rows = 1..Len(rows) + 1 /\ page'.rows[Len(rows) + 1] = n
          /\ \A i \in 1..Len(rows) : page'.rows[i] = rows[i]
      BY <1>1, <1>6, <1>7, <2>3
    <3>2. \A i \in 1..Len(rows) : i \in DOMAIN rows
      OBVIOUS
    <3>3. \A i \in 1..Len(rows) + 1 : i \in 1..Len(rows) \/ i = Len(rows) + 1
      OBVIOUS
    <3>4. \A i \in 1..Len(rows) : ~ (Len(rows) + 1 <= i)
      OBVIOUS
    <3>5. \A i \in DOMAIN page'.rows : page'.rows[i] \in 1..page.latest /\ page'.rows[i] < n + 1
      <4>1. n < n + 1
        BY <1>1
      <4>. QED
        BY <2>0, <2>1, <3>1, <3>2, <3>3, <4>1
    <3>6. ASSUME NEW i \in DOMAIN page'.rows, NEW k \in DOMAIN page'.rows, i <= k
          PROVE  page'.rows[i] <= page'.rows[k]
      <4>1. CASE i \in 1..Len(rows) /\ k \in 1..Len(rows)
        BY <2>1, <3>1, <3>2, <3>6, <4>1
      <4>2. CASE k = Len(rows) + 1
        BY <1>1, <3>1, <3>5, <4>2, SMTT(30)
      <4>. QED
        BY <3>1, <3>3, <3>4, <3>6, <4>1, <4>2
    <3>. QED
      BY <3>5, <3>6
  <2>. QED
    BY <2>2, <2>3
<1>12. \A seq \in lastSeq + 1..page.latest : seq < n + 1 =>
         (\E i \in DOMAIN page'.rows : page'.rows[i] = seq) \/ Overwritten(page.boot, seq)
  <2>. SUFFICES ASSUME NEW seq \in lastSeq + 1..page.latest, seq < n + 1,
                       ~ Overwritten(page.boot, seq)
                PROVE  \E i \in DOMAIN page'.rows : page'.rows[i] = seq
    OBVIOUS
  <2>0. seq \in Nat
    BY DEF HistoryTyped, ToolTyped
  <2>1. CASE seq = n
    <3>1. Has(n)
      BY <1>1, <1>3, <2>0, <2>1 DEF Overwritten
    <3>2. Len(rows) + 1 \in DOMAIN page'.rows /\ page'.rows[Len(rows) + 1] = n
      BY <1>1, <1>6, <1>7, <3>1
    <3>. QED
      BY <2>1, <3>2
  <2>2. CASE seq # n
    <3>1. PICK i \in DOMAIN rows : rows[i] = seq
      BY <1>1, <2>0, <2>2, SMTT(30) DEF PageInv
    <3>2. i \in DOMAIN page'.rows /\ page'.rows[i] = rows[i]
      BY <1>1, <1>6, <1>7, SMTT(30)
    <3>. QED
      BY <3>1, <3>2
  <2>. QED
    BY <2>1, <2>2
<1>13. PageInv'
  <2>1. /\ page.boot \in 1..device /\ known <= page.boot /\ page.boot = device
        /\ page.latest <= latest[page.boot] /\ n + 1 <= page.latest + 1 /\ n + 1 # 0
    BY <1>1 DEF PageInv
  <2>. QED
    BY <1>8, <1>9, <1>11, <1>12, <2>1 DEF PageInv, Overwritten
<1>14. CursorInv'
  BY <1>1, <1>9 DEF CursorInv, ServeRow
<1>15. HistoryIsTrue'
  BY <1>9 DEF HistoryIsTrue
<1>. QED
  BY <1>10, <1>13, <1>14, <1>15

-----------------------------------------------------------------------------
(* The tool. *)

\* The tool's steps that leave the ring and the files alone.
Reads == UNCHANGED <<device, latest, slots, csv, events>>

LEMMA FilesKept ==
  ASSUME RecorderInv, Reads
  PROVE  RingHolds' /\ HistoryIsTrue' /\ DeviceTyped'
BY DEF RecorderInv, Reads, RingHolds, HistoryIsTrue, DeviceTyped, HistoryTyped

LEMMA AskKeeps ==
  ASSUME RecorderInv, Ask
  PROVE  RecorderInv'
<1>. USE InHandTyped DEF RecorderInv
<1>1. Reads /\ UNCHANGED <<known, lastSeq>> /\ pc' = "wait"
  BY DEF Ask, Reads, deviceVars
<1>2. lastSeq \in Nat
  BY DEF HistoryTyped, ToolTyped
<1>3. CursorInv'
  BY <1>1 DEF CursorInv, Reads
<1>4. CASE page' = NoPage
  <2>1. page' \in PageType
    BY <1>4 DEF NoPage, PageType
  <2>2. HistoryTyped'
    BY <1>1, <2>1, FilesKept DEF HistoryTyped, ToolTyped, Reads
  <2>3. PageInv'
    BY <1>4 DEF PageInv, InHand
  <2>. QED
    BY <1>1, <1>3, <2>2, <2>3, FilesKept
<1>5. CASE page' = PageAfter(lastSeq)
  <2>1. Count \in Nat /\ Count <= latest[device] /\ Count <= Capacity
        /\ (Count = latest[device] \/ Count = Capacity)
    BY DEF Count, Smaller
  <2>2. OldestSeq \in Nat /\ (Count # 0 => OldestSeq = latest[device] - Count + 1)
        /\ (Count = 0 => latest[device] = 0 /\ OldestSeq = 0)
    BY <2>1 DEF OldestSeq
  <2>3. /\ page'.boot = device /\ page'.latest = latest[device] /\ page'.rows = <<>>
        /\ page'.oldest = OldestSeq
        /\ page'.next = IF lastSeq >= latest[device] THEN 0
                        ELSE IF lastSeq + 1 < OldestSeq THEN OldestSeq ELSE lastSeq + 1
    BY <1>5 DEF PageAfter
  <2>4. page' \in PageType
    BY <1>2, <1>5, <2>2 DEF PageAfter, PageType
  <2>5. HistoryTyped'
    BY <1>1, <2>4, FilesKept DEF HistoryTyped, ToolTyped, Reads
  <2>6. page'.next <= latest[device] + 1 /\ DOMAIN page'.rows = {}
    BY <1>2, <2>1, <2>2, <2>3
  <2>7. \A seq \in lastSeq + 1..latest[device] : seq < page'.next => Overwritten(device, seq)
    <3>. SUFFICES ASSUME NEW seq \in lastSeq + 1..latest[device], seq < page'.next
                  PROVE  seq + Capacity <= latest[device]
      BY DEF Overwritten
    <3>0. seq \in Nat /\ seq >= lastSeq + 1 /\ seq <= latest[device]
      BY <1>2
    <3>1. seq < OldestSeq /\ page'.next = OldestSeq
      BY <1>2, <2>2, <2>3, <3>0
    <3>. QED
      BY <1>2, <2>1, <2>2, <3>0, <3>1
  <2>8. known <= device /\ device \in 1..device
    BY DEF HistoryTyped, ToolTyped, DeviceTyped, Boots
  <2>9. PageInv'
    BY <1>1, <2>3, <2>6, <2>7, <2>8 DEF PageInv, Overwritten, Reads
  <2>. QED
    BY <1>1, <1>3, <2>5, <2>9, FilesKept
<1>. QED
  BY <1>4, <1>5 DEF Ask

\* The steps that wait, that read the page, or that stop.
LEMMA QuietSteps ==
  ASSUME RecorderInv, FetchFails \/ Deliver \/ Ingest \/ PageDone \/ Killed
  PROVE  RecorderInv'
<1>. USE DEF RecorderInv
<1>1. Reads /\ UNCHANGED <<page, known, lastSeq>>
  BY DEF Reads, deviceVars, FetchFails, Deliver, Ingest, PageDone, Killed
<1>2. pc' \in {"fetch", "wait", "ingest", "save", "dead"}
  BY DEF FetchFails, Deliver, Ingest, PageDone, Killed
<1>3. HistoryTyped'
  BY <1>1, <1>2, FilesKept DEF HistoryTyped, ToolTyped, Reads
<1>4. InHand' => InHand /\ pc' # "wait"
  BY <1>1 DEF InHand, FetchFails, Deliver, Ingest, PageDone, Killed
<1>5. PageInv'
  BY <1>1, <1>4 DEF PageInv, Overwritten, Reads
<1>6. /\ pc' \in {"ingest", "save"} => page # NoPage
      /\ pc' = "save" => page.boot = known
  BY DEF CursorInv, FetchFails, Deliver, Ingest, PageDone, Killed
<1>7. CursorInv'
  BY <1>1, <1>6 DEF CursorInv, Reads
<1>. QED
  BY <1>3, <1>5, <1>7, <1>1, FilesKept

LEMMA SeesBootKeeps ==
  ASSUME RecorderInv, SeesBoot
  PROVE  RecorderInv'
<1>. USE InHandTyped DEF RecorderInv
<1>1. UNCHANGED <<device, latest, slots, page, csv>>
      /\ events' = events \cup {[kind |-> "boot", boot |-> page.boot]}
      /\ known' = page.boot /\ lastSeq' = 0
      /\ pc' = IF lastSeq > 0 THEN "fetch" ELSE "ingest"
  BY DEF SeesBoot, deviceVars
<1>2. InHand /\ page.boot \in 1..device /\ known <= page.boot /\ page.boot # known
  BY DEF SeesBoot, CursorInv, InHand, PageInv
<1>3. lastSeq \in Nat /\ known \in Nat /\ page.boot \in Boots
  BY <1>2 DEF HistoryTyped, ToolTyped
<1>4. HistoryTyped'
  <2>1. events' \subseteq EventType
    BY <1>1, <1>3 DEF HistoryTyped, ToolTyped, EventType
  <2>2. page.boot \in 0..device
    BY <1>2
  <2>. QED
    BY <1>1, <2>1, <2>2 DEF HistoryTyped, ToolTyped, DeviceTyped
<1>5. RingHolds'
  BY <1>1 DEF RingHolds
<1>6. PageInv'
  <2>. SUFFICES ASSUME InHand' PROVE PageInv'
    BY DEF PageInv
  <2>1. lastSeq' = lastSeq /\ pc' = "ingest" /\ page.boot <= page.boot
    BY <1>1, <1>3 DEF InHand, Boots
  <2>. QED
    BY <1>1, <1>2, <2>1 DEF PageInv, Overwritten
<1>7. CursorInv'
  <2>1. page # NoPage /\ page.boot # 0 /\ pc' # "save"
    BY <1>1, <1>2 DEF InHand
  <2>2. csv # <<>> => csv[Len(csv)].boot < page.boot
    <3>. SUFFICES ASSUME csv # <<>> PROVE csv[Len(csv)].boot < page.boot
      OBVIOUS
    <3>1. csv \in Seq(RowType) /\ Len(csv) \in 1..Len(csv)
      BY DEF HistoryTyped, ToolTyped
    <3>2. csv[Len(csv)].boot \in Nat
      BY <3>1, CsvTyped DEF Boots
    <3>. QED
      BY <1>2, <1>3, <3>2, SMTT(30) DEF CursorInv
  <2>3. [kind |-> "boot", boot |-> page.boot] \in events' /\ page' # NoPage
    BY <1>1, <2>1
  <2>4. csv' # <<>> => csv'[Len(csv')].boot <= page.boot
    <3>1. csv # <<>> => csv[Len(csv)].boot \in Nat
      <4>1. csv # <<>> => Len(csv) \in 1..Len(csv)
        BY DEF HistoryTyped, ToolTyped
      <4>. QED
        BY <4>1, CsvTyped DEF Boots
    <3>. QED
      BY <1>1, <1>3, <2>2, <3>1 DEF Boots
  <2>. QED
    BY <1>1, <2>1, <2>2, <2>3, <2>4 DEF CursorInv
<1>8. HistoryIsTrue'
  <2>1. \A e \in events' : e \in events \/ e.kind = "boot"
    BY <1>1
  <2>2. \A b \in Boots : latest[b] <= latest'[b]
    BY <1>1
  <2>. QED
    BY <1>1, <1>4, <2>1, <2>2, StaysTrue
<1>. QED
  BY <1>4, <1>5, <1>6, <1>7, <1>8

LEMMA StartAgainKeeps ==
  ASSUME RecorderInv, StartAgain
  PROVE  RecorderInv'
<1>. USE DEF RecorderInv
<1>1. Reads /\ pc' = "fetch" /\ page' = NoPage
  BY DEF StartAgain, Reads, deviceVars
<1>2. page' \in PageType
  BY <1>1 DEF NoPage, PageType
<1>3. PageInv'
  BY <1>1 DEF PageInv, InHand
<1>4. CASE csv = <<>>
  <2>1. known' = 0 /\ lastSeq' = 0
    BY <1>4 DEF StartAgain
  <2>2. HistoryTyped'
    <3>1. 0 \in 0..device
      BY DEF HistoryTyped, DeviceTyped, Boots
    <3>. QED
      BY <1>1, <1>2, <2>1, <3>1, FilesKept DEF HistoryTyped, ToolTyped, Reads
  <2>3. CursorInv'
    BY <1>1, <1>4, <2>1 DEF CursorInv, Reads
  <2>. QED
    BY <1>1, <1>3, <2>2, <2>3, FilesKept
<1>5. CASE csv # <<>>
  <2>. DEFINE n == Len(csv)
  <2>1. n \in 1..Len(csv)
    BY <1>5 DEF HistoryTyped, ToolTyped
  <2>2. known' = csv[n].boot /\ lastSeq' = csv[n].seq
    BY <1>5 DEF StartAgain, Last
  <2>3. /\ csv[n].boot \in Nat \ {0} /\ csv[n].seq \in Nat \ {0}
        /\ csv[n] = [boot |-> csv[n].boot, seq |-> csv[n].seq]
    BY <2>1, CsvTyped DEF Boots
  <2>4. [kind |-> "boot", boot |-> csv[n].boot] \in events
    BY <2>1, ByParts DEF RowTrue
  <2>5. csv[n].boot \in 0..device
    BY <1>5, <2>3 DEF CursorInv, HistoryTyped, ToolTyped, DeviceTyped, Boots
  <2>6. HistoryTyped'
    BY <1>1, <1>2, <2>2, <2>3, <2>5, FilesKept DEF HistoryTyped, ToolTyped, Reads
  <2>7. CursorInv'
    BY <1>1, <1>5, <2>2, <2>3, <2>4 DEF CursorInv, Reads
  <2>. QED
    BY <1>1, <1>3, <2>6, <2>7, FilesKept
<1>. QED
  BY <1>4, <1>5

\* A sample between two rows is one the page covers.
LEMMA Skipped ==
  ASSUME NEW from \in Nat, NEW to \in Nat, NEW last \in Nat, NEW next \in Nat,
         to \in 1..last, to < next, NEW seq \in from + 1..to - 1
  PROVE  /\ seq \in Nat /\ seq > from /\ seq < to /\ seq < next
         /\ seq \in from + 1..last
OBVIOUS

\* What the steps that write know about the row that comes next.
LEMMA NextRow ==
  ASSUME RecorderInv, pc = "save", NEW i \in ToSave, IsNext(i)
  PROVE  /\ InHand /\ page.boot = known /\ known \in Boots /\ known # 0
         /\ page.rows[i] \in Nat /\ page.rows[i] > lastSeq
         /\ page.rows[i] <= latest[known]
         /\ \A seq \in lastSeq + 1..page.rows[i] - 1 : seq + Capacity <= latest[known]
<1>. USE InHandTyped DEF RecorderInv
<1>1. InHand /\ page.boot = known /\ known \in Boots /\ known # 0 /\ lastSeq \in Nat
  BY DEF CursorInv, InHand, PageInv, HistoryTyped, ToolTyped, Boots
<1>2. i \in DOMAIN page.rows /\ page.rows[i] > lastSeq /\ page.rows[i] \in 1..page.latest
      /\ page.rows[i] < page.next /\ page.latest <= latest[known]
  BY <1>1 DEF ToSave, PageInv
<1>3. page.rows[i] \in Nat /\ page.rows[i] <= latest[known]
  BY <1>1, <1>2
<1>4. ASSUME NEW seq \in lastSeq + 1..page.rows[i] - 1
      PROVE  seq + Capacity <= latest[known]
  <2>1. seq \in Nat /\ seq > lastSeq /\ seq < page.rows[i] /\ seq < page.next
        /\ seq \in lastSeq + 1..page.latest
    BY <1>1, <1>2, <1>3, Skipped
  <2>2. ~ \E k \in DOMAIN page.rows : page.rows[k] = seq
    <3>. SUFFICES ASSUME NEW k \in DOMAIN page.rows, page.rows[k] = seq PROVE FALSE
      OBVIOUS
    <3>1. k \in ToSave
      BY <2>1 DEF ToSave
    <3>2. i <= k
      BY <3>1 DEF IsNext
    <3>3. page.rows[i] <= page.rows[k]
      BY <1>1, <1>2, <3>2 DEF PageInv
    <3>. QED
      BY <1>3, <2>1, <3>3
  <2>. QED
    BY <1>1, <2>1, <2>2 DEF PageInv, Overwritten
<1>. QED
  BY <1>1, <1>2, <1>3, <1>4

LEMMA NoteGapKeeps ==
  ASSUME RecorderInv, NoteGap
  PROVE  RecorderInv'
<1>. USE InHandTyped DEF RecorderInv
<1>1. PICK i \in ToSave :
        /\ pc = "save" /\ IsNext(i) /\ AtGap(page.rows[i])
        /\ events' = events \cup {Gap(page.rows[i])}
        /\ UNCHANGED <<deviceVars, page, pc, known, lastSeq, csv, kills>>
  BY DEF NoteGap
<1>. DEFINE row == page.rows[i]
            gap == Gap(row)
<1>2. UNCHANGED <<device, latest, slots, page, pc, known, lastSeq, csv>>
  BY <1>1 DEF deviceVars
<1>3. lastSeq \in Nat /\ row \in Nat /\ row > lastSeq /\ known \in Boots
  BY <1>1, NextRow DEF HistoryTyped, ToolTyped
<1>4. gap \in EventType /\ gap.kind = "missing" /\ gap.next = row /\ gap.boot = known
  BY <1>3 DEF Gap, EventType
<1>5. HistoryTyped'
  BY <1>1, <1>2, <1>4 DEF HistoryTyped, ToolTyped, DeviceTyped
<1>6. RingHolds' /\ PageInv'
  BY <1>2 DEF RingHolds, PageInv, InHand, Overwritten
<1>7. CursorInv'
  BY <1>1, <1>2 DEF CursorInv
<1>8. row - 1 + Capacity <= latest[known]
  <2>1. row # lastSeq + 1
    BY <1>1 DEF AtGap
  <2>2. row - 1 \in lastSeq + 1..row - 1
    BY <1>3, <2>1, SMTT(30)
  <2>. HIDE DEF row
  <2>. QED
    BY <1>1, <2>2, NextRow DEF row
<1>9. HistoryIsTrue'
  <2>1. \A j \in 1..Len(csv) : RowTrue(j)'
    BY <1>1, <1>2, ByParts DEF RowTrue, Before
  <2>2. GapsTrue'
    BY <1>1, <1>2, <1>4, <1>8, ByParts DEF GapsTrue
  <2>3. HistoryIsTrue' <=> (\A j \in 1..Len(csv)' : RowTrue(j)') /\ GapsTrue'
    BY DEF HistoryIsTrue, RowTrue, GapsTrue, Before, Missing
  <2>. QED
    BY <1>2, <2>1, <2>2, <2>3
<1>. QED
  BY <1>5, <1>6, <1>7, <1>9

LEMMA SaveRowKeeps ==
  ASSUME RecorderInv, SaveRow
  PROVE  RecorderInv'
<1>. USE InHandTyped DEF RecorderInv
<1>1. PICK i \in ToSave :
        /\ pc = "save" /\ IsNext(i) /\ (AtGap(page.rows[i]) => Gap(page.rows[i]) \in events)
        /\ csv' = Append(csv, [boot |-> known, seq |-> page.rows[i]]) /\ lastSeq' = page.rows[i]
        /\ UNCHANGED <<deviceVars, page, pc, known, events, kills>>
  BY DEF SaveRow
<1>. DEFINE row == page.rows[i]
            new == [boot |-> known, seq |-> row]
<1>0. PICK n \in Nat : n = Len(csv)
  BY DEF HistoryTyped, ToolTyped
<1>2. UNCHANGED <<device, latest, slots, page, pc, known, events>>
  BY <1>1 DEF deviceVars
<1>3. /\ lastSeq \in Nat /\ row \in Nat /\ row > lastSeq /\ row # 0 /\ row <= latest[known]
      /\ known \in Boots /\ known # 0 /\ new \in RowType /\ InHand /\ page.boot = known
  BY <1>1, NextRow DEF HistoryTyped, ToolTyped, RowType
<1>4. csv \in Seq(RowType) /\ n = Len(csv) /\ csv' = Append(csv, new)
  BY <1>0, <1>1 DEF HistoryTyped, ToolTyped
<1>5. /\ csv' \in Seq(RowType) /\ Len(csv') = n + 1 /\ csv'[n + 1] = new /\ csv' # <<>>
      /\ \A j \in 1..n : csv'[j] = csv[j]
  <2>. HIDE DEF new
  <2>. QED
    BY <1>3, <1>4, Appended, SMTT(30)
<1>6. HistoryTyped'
  BY <1>1, <1>2, <1>3, <1>5 DEF HistoryTyped, ToolTyped, DeviceTyped
<1>7. RingHolds'
  BY <1>2 DEF RingHolds
<1>8. PageInv'
  <2>1. \A seq \in row + 1..page.latest : seq \in lastSeq + 1..page.latest
    BY <1>3
  <2>. QED
    BY <1>1, <1>2, <1>3, <2>1 DEF PageInv, InHand, Overwritten
<1>9. CursorInv'
  <2>1. csv'[Len(csv')].boot = known /\ csv'[Len(csv')] = new /\ known <= known
    BY <1>3, <1>5 DEF Boots
  <2>. QED
    BY <1>1, <1>2, <1>3, <1>5, <2>1 DEF CursorInv
\* What comes before the new row is the cursor's.
<1>10. Before(n + 1)' = lastSeq /\ (n + 1 > 1 => csv'[n].boot <= known)
  <2>1. CASE csv = <<>>
    <3>1. n = 0 /\ lastSeq = 0
      BY <1>4, <2>1 DEF CursorInv
    <3>. QED
      BY <3>1 DEF Before
  <2>2. CASE csv # <<>>
    <3>1. n \in 1..n /\ n + 1 > 1 /\ (n + 1) - 1 = n
      BY <1>4, <2>2
    <3>2. csv'[(n + 1) - 1] = csv[n] /\ csv'[n + 1].boot = known
      BY <1>5, <3>1
    <3>3. Before(n + 1)' = IF csv[n].boot = known THEN csv[n].seq ELSE 0
      BY <3>1, <3>2 DEF Before
    <3>4. csv[n].boot \in Nat /\ csv[n].boot <= known
      <4>1. csv[n].boot \in Boots
        BY <1>4, <3>1, CsvTyped
      <4>. QED
        BY <1>4, <2>2, <4>1 DEF CursorInv, Boots
    <3>5. IF lastSeq = 0 THEN csv[n].boot < known
          ELSE csv[n].boot = known /\ csv[n].seq = lastSeq
      BY <1>4, <2>2 DEF CursorInv
    <3>6. Before(n + 1)' = lastSeq
      BY <1>3, <3>3, <3>4, <3>5 DEF Boots
    <3>. QED
      BY <3>1, <3>2, <3>4, <3>6
  <2>. QED
    BY <2>1, <2>2
<1>11. RowTrue(n + 1)'
  <2>1. [kind |-> "boot", boot |-> known] \in events
    BY <1>3 DEF CursorInv
  <2>2. row \in lastSeq + 1..latest[known]
    BY <1>3
  <2>3. row # lastSeq + 1 => Missing(known, lastSeq + 1, row) \in events
    BY <1>1 DEF AtGap, Gap, Missing
  <2>4. csv'[n + 1].boot = known /\ csv'[n + 1].seq = row /\ (n + 1) - 1 = n
    BY <1>4, <1>5
  <2>. QED
    BY <1>2, <1>10, <2>1, <2>2, <2>3, <2>4 DEF RowTrue
<1>12. \A j \in 1..n : RowTrue(j)'
  <2>. SUFFICES ASSUME NEW j \in 1..n PROVE RowTrue(j)'
    OBVIOUS
  <2>1. csv'[j] = csv[j] /\ (j > 1 => csv'[j - 1] = csv[j - 1])
    BY <1>4, <1>5
  <2>2. Before(j)' = Before(j)
    BY <2>1 DEF Before
  <2>. QED
    BY <1>2, <1>4, <2>1, <2>2, ByParts DEF RowTrue
<1>13. HistoryIsTrue'
  <2>1. HistoryIsTrue' <=> (\A j \in 1..Len(csv)' : RowTrue(j)') /\ GapsTrue'
    BY DEF HistoryIsTrue, RowTrue, GapsTrue, Before, Missing
  <2>2. GapsTrue'
    BY <1>2, ByParts DEF GapsTrue
  <2>3. \A j \in 1..n + 1 : j \in 1..n \/ j = n + 1
    BY <1>4
  <2>. QED
    BY <1>5, <1>11, <1>12, <2>1, <2>2, <2>3
<1>. QED
  BY <1>6, <1>7, <1>8, <1>9, <1>13

-----------------------------------------------------------------------------

LEMMA RecorderStep ==
  ASSUME RecorderInv, [HistoryNext]_historyVars
  PROVE  RecorderInv'
<1>1. CASE UNCHANGED historyVars
  <2>1. UNCHANGED <<device, latest, slots, page, pc, known, lastSeq, csv, events>>
    BY <1>1 DEF historyVars, deviceVars, toolVars
  <2>. QED
    BY <2>1 DEF RecorderInv, HistoryTyped, DeviceTyped, ToolTyped, RingHolds, PageInv, InHand,
                Overwritten, CursorInv, HistoryIsTrue
<1>2. CASE HistoryNext
  BY <1>2, TakeSampleKeeps, DeviceStartsKeeps, ServeRowKeeps, AskKeeps, QuietSteps,
     SeesBootKeeps, StartAgainKeeps, NoteGapKeeps, SaveRowKeeps
  DEF HistoryNext, ToolSteps
<1>. QED
  BY <1>1, <1>2

LEMMA RecorderInvAlways == HistorySpec => []RecorderInv
<1>1. HistoryInit => RecorderInv
  <2>. SUFFICES ASSUME HistoryInit PROVE RecorderInv
    OBVIOUS
  <2>1. HistoryTyped
    BY HistoryAssumption
    DEF HistoryInit, HistoryTyped, DeviceTyped, ToolTyped, Boots, PageType, NoPage
  <2>2. RingHolds
    <3>1. latest[device] = 0 /\ \A b \in Boots : latest[b] = 0
      BY HistoryAssumption DEF HistoryInit, Boots
    <3>. QED
      BY <3>1 DEF RingHolds
  <2>3. PageInv /\ CursorInv /\ HistoryIsTrue
    BY DEF HistoryInit, PageInv, InHand, CursorInv, HistoryIsTrue
  <2>. QED
    BY <2>1, <2>2, <2>3 DEF RecorderInv
<1>. QED
  BY <1>1, RecorderStep, PTL DEF HistorySpec

\* For any sizes of ring and page, and whenever the device restarts, requests fail and the
\* tool is killed: every row in the file is of an announced boot and in order, what is missing
\* before it is noted, and nothing is noted missing that the ring had not overwritten.
THEOREM RecordedHistoryIsTrue == HistorySpec => []HistoryIsTrue
<1>1. RecorderInv => HistoryIsTrue
  BY DEF RecorderInv
<1>. QED
  BY <1>1, RecorderInvAlways, PTL

=============================================================================
