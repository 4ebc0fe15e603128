---------------------------- MODULE ThreadProofs ----------------------------
(***************************************************************************)
(* What the modules of thread.c promise, for any networks, routers, queue, *)
(* renamers and bounds.                                                    *)
(*                                                                         *)
(* ThreadDataset: the inductive invariant adds to the two properties what  *)
(* an operation in progress knows (OperationInv): its interface is down,   *)
(* so the network that runs cannot get out of step with the flash it is    *)
(* changing, and the copy it took is still what flash holds when the erase *)
(* fails.                                                                  *)
(*                                                                         *)
(* Topology: ScanInv ties the published counters to the answers of the     *)
(* query in progress; it is needed because a callback only ever sees the   *)
(* bit mask.  That the answers are of the stored network, and that no scan *)
(* is left when an operation has begun, is what carries the counts over    *)
(* dataset changes; that the network running is the one stored comes from  *)
(* ThreadDataset.                                                          *)
(*                                                                         *)
(* BorderRouter: it is started, and once; a rename reported as applied is  *)
(* in effect; the ephemeral-key record follows the key.                    *)
(***************************************************************************)
EXTENDS Topology, BorderRouter, FiniteSetTheorems, TLAPS

-----------------------------------------------------------------------------
(* ThreadDataset. *)

Inv == TypeOK /\ OperationInv /\ RunsWhatIsStored /\ ReportIsTrue

\* Every reachable state of the model is well typed.
THEOREM TypeCorrect == Spec => []TypeOK
<1> USE DatasetAssumption DEF DatasetAssumption
<1>1. Init => TypeOK
  <2> SUFFICES ASSUME Init PROVE TypeOK
    OBVIOUS
  <2>1. ready \in BOOLEAN /\ attached \in BOOLEAN
    BY Zenon DEF Init
  <2>2. op \in [step : Steps, net : Maybe, previous : Maybe]
    BY DEF Init, Nothing, Steps, JoinSteps, Maybe
  <2>3. outcome \in Outcomes
    BY DEF Init, NoOutcome, Outcomes, Maybe
  <2>4. stored \in Maybe /\ running \in Maybe /\ ops \in 0..MaxOps /\ resets \in 0..MaxResets
    BY DEF Init, Maybe
  <2> QED
    BY <2>1, <2>2, <2>3, <2>4 DEF TypeOK
<1>2. TypeOK /\ [Next]_vars => TypeOK'
  <2> SUFFICES ASSUME TypeOK, [Next]_vars PROVE TypeOK'
    OBVIOUS
  <2> USE DEF TypeOK, Maybe, Outcomes, JoinSteps, Steps, Free, At, Goes, Returns
  <2>1. ASSUME NEW n \in Networks, Join(n) PROVE TypeOK'
    BY <2>1 DEF Join
  <2>2. ASSUME NEW n \in Networks, JoinRefused(n) PROVE TypeOK'
    BY <2>2 DEF JoinRefused
  <2>3. CASE EraseOld
    BY <2>3 DEF EraseOld, Erased, NotErased, Nothing
  <2>4. CASE Resume
    BY <2>4 DEF Resume, Started, NotStarted, Nothing
  <2>5. CASE Apply
    BY <2>5 DEF Apply, Started, NotStarted, Nothing
  <2>6. CASE Rollback
    BY <2>6 DEF Rollback, Started, NotStarted, Nothing
  <2>7. CASE Wipe
    BY <2>7 DEF Wipe, Erased, NotErased, Nothing
  <2>8. CASE Forget
    BY <2>8 DEF Forget
  <2>9. CASE EraseForgotten
    BY <2>9 DEF EraseForgotten, Erased, NotErased, Nothing
  <2>10. ASSUME NEW on \in BOOLEAN, SetEnabled(on) PROVE TypeOK'
    BY <2>10 DEF SetEnabled
  <2>11. CASE Attach
    BY <2>11 DEF Attach, Started, NotStarted
  <2>12. CASE Reset
    <3>1. (ready \in BOOLEAN /\ attached \in BOOLEAN)'
      BY <2>12, Zenon DEF Reset
    <3>2. (op \in [step : Steps, net : Maybe, previous : Maybe] /\ outcome \in Outcomes)'
      BY <2>12 DEF Reset, NoOutcome, Nothing
    <3>3. (stored \in Maybe /\ running \in Maybe /\ ops \in 0..MaxOps
             /\ resets \in 0..MaxResets)'
      BY <2>12 DEF Reset
    <3> QED
      BY <3>1, <3>2, <3>3
  <2>13. CASE UNCHANGED vars
    BY <2>13 DEF vars
  <2>14. CASE ThreadInit
    BY <2>14 DEF ThreadInit
  <2> QED
    BY <2>1, <2>2, <2>3, <2>4, <2>5, <2>6, <2>7, <2>8, <2>9, <2>10, <2>11, <2>12, <2>13, <2>14
    DEF Next, JoinStep
<1> QED
  BY <1>1, <1>2, PTL DEF Spec

\* No step of an operation, failing or not, breaks the inductive invariant.
LEMMA InvInductive == Spec => []Inv
<1> USE DatasetAssumption DEF DatasetAssumption
<1>1. Init => OperationInv /\ RunsWhatIsStored /\ ReportIsTrue
  BY DEF Init, OperationInv, RunsWhatIsStored, ReportIsTrue, NoOutcome, Nothing, Free
<1>2. Inv /\ [Next]_vars => (OperationInv /\ RunsWhatIsStored /\ ReportIsTrue)'
  <2> SUFFICES ASSUME Inv, [Next]_vars
               PROVE (OperationInv /\ RunsWhatIsStored /\ ReportIsTrue)'
    OBVIOUS
  <2> USE DEF Inv, OperationInv, RunsWhatIsStored, ReportIsTrue, TypeOK, Free, At, Goes,
              Returns, JoinSteps, Steps, Nothing, Outcomes, Maybe
  <2>1. ASSUME NEW n \in Networks, Join(n)
        PROVE (OperationInv /\ RunsWhatIsStored /\ ReportIsTrue)'
    BY <2>1 DEF Join
  <2>2. ASSUME NEW n \in Networks, JoinRefused(n)
        PROVE (OperationInv /\ RunsWhatIsStored /\ ReportIsTrue)'
    BY <2>2 DEF JoinRefused
  <2>3. CASE EraseOld
    BY <2>3 DEF EraseOld, Erased, NotErased
  <2>4. CASE Resume
    BY <2>4 DEF Resume, Started, NotStarted
  <2>5. CASE Apply
    BY <2>5 DEF Apply, Started, NotStarted
  <2>6. CASE Rollback
    BY <2>6 DEF Rollback, Started, NotStarted
  <2>7. CASE Wipe
    BY <2>7 DEF Wipe, Erased, NotErased
  <2>8. CASE Forget
    BY <2>8 DEF Forget
  <2>9. CASE EraseForgotten
    BY <2>9 DEF EraseForgotten, Erased, NotErased
  <2>10. ASSUME NEW on \in BOOLEAN, SetEnabled(on)
         PROVE (OperationInv /\ RunsWhatIsStored /\ ReportIsTrue)'
    BY <2>10 DEF SetEnabled
  <2>11. CASE Attach
    BY <2>11 DEF Attach, Started, NotStarted
  <2>12. CASE Reset
    BY <2>12 DEF Reset, NoOutcome, Nothing
  <2>13. CASE UNCHANGED vars
    BY <2>13 DEF vars
  <2>14. CASE ThreadInit
    BY <2>14 DEF ThreadInit
  <2> QED
    BY <2>1, <2>2, <2>3, <2>4, <2>5, <2>6, <2>7, <2>8, <2>9, <2>10, <2>11, <2>12, <2>13, <2>14
    DEF Next, JoinStep
<1> QED
  BY <1>1, <1>2, TypeCorrect, PTL DEF Spec, Inv

\* The interface never runs on a network other than the one in flash, whichever
\* calls of thread_join fail and wherever a reset falls.
THEOREM RunsStored == Spec => []RunsWhatIsStored
<1>1. Inv => RunsWhatIsStored
  BY DEF Inv
<1> QED
  BY <1>1, InvInductive, PTL

\* What thread_join and thread_forget report is what they left in flash.
THEOREM ReportsAreTrue == Spec => []ReportIsTrue
<1>1. Inv => ReportIsTrue
  BY DEF Inv
<1> QED
  BY <1>1, InvInductive, PTL

\* Flash changes only in an operation, to its network, its copy, or nothing.
THEOREM ChangesByOperation == Spec => OnlyByOperation
<1> USE DatasetAssumption DEF DatasetAssumption
<1>1. ASSUME TypeOK, [Next]_vars, stored' # stored
      PROVE ~Free /\ stored' \in {NoNet, op.net, op.previous}
  <2> USE <1>1 DEF TypeOK, At, Free, Steps, JoinSteps
  <2>1. CASE EraseOld
    BY <2>1 DEF EraseOld, Erased, NotErased
  <2>2. CASE Resume
    BY <2>2 DEF Resume, Started, NotStarted
  <2>3. CASE Apply
    BY <2>3 DEF Apply, Started, NotStarted
  <2>4. CASE Rollback
    BY <2>4 DEF Rollback, Started, NotStarted
  <2>5. CASE Wipe
    BY <2>5 DEF Wipe, Erased, NotErased
  <2>6. CASE EraseForgotten
    BY <2>6 DEF EraseForgotten, Erased, NotErased
  <2>7. CASE Attach
    BY <2>7 DEF Attach, Started, NotStarted
  <2>8. CASE Forget \/ ThreadInit \/ Reset \/ UNCHANGED vars
    BY <2>8 DEF Forget, ThreadInit, Reset, vars
  <2>9. ASSUME NEW n \in Networks, Join(n) \/ JoinRefused(n) PROVE FALSE
    BY <2>9 DEF Join, JoinRefused
  <2>10. ASSUME NEW on \in BOOLEAN, SetEnabled(on) PROVE FALSE
    BY <2>10 DEF SetEnabled
  <2> QED
    BY <2>1, <2>2, <2>3, <2>4, <2>5, <2>6, <2>7, <2>8, <2>9, <2>10 DEF Next, JoinStep
<1>2. TypeOK /\ [Next]_vars =>
        [stored' # stored => ~Free /\ stored' \in {NoNet, op.net, op.previous}]_vars
  BY <1>1
<1> QED
  BY <1>2, TypeCorrect, PTL DEF Spec, OnlyByOperation

-----------------------------------------------------------------------------
(* Topology. *)

Scans == ScanInv /\ ScanIsAlive /\ CountsAreOfThisScan

\* With the mesh scan beside them, the dataset operations behave as without.
LEMMA ScanImplementsDataset == ScanSpec => Spec
<1>1. ScanInit => Init
  BY DEF ScanInit
<1>2. [ScanNext]_allVars => [Next]_vars
  <2> SUFFICES ASSUME [ScanNext]_allVars PROVE [Next]_vars
    OBVIOUS
  <2>1. CASE Operation
    <3>1. SetEnabled(TRUE) \/ SetEnabled(FALSE) => \E on \in BOOLEAN : SetEnabled(on)
      OBVIOUS
    <3> QED
      BY <2>1, <3>1 DEF Operation, Next
  <2>2. CASE RefreshTooEarly \/ Refresh \/ UNCHANGED allVars
    BY <2>2 DEF RefreshTooEarly, Refresh, allVars
  <2>3. CASE Callback
    BY <2>3 DEF Callback, Answer, LastAnswer, LastCallback
  <2> QED
    BY <2>1, <2>2, <2>3 DEF ScanNext
<1> QED
  BY <1>1, <1>2, PTL DEF ScanSpec, Spec

\* What an operation does to the scan: nothing, or it cancels it.
LEMMA OperationOnScan == Operation => Cancel \/ UNCHANGED scanVars
  BY DEF Operation

\* Every reachable state of the scan is well typed.
THEOREM ScanTypeCorrect == ScanSpec => []ScanTypeOK
<1> USE TopologyAssumption DEF TopologyAssumption
<1>1. ScanInit => ScanTypeOK
  <2> SUFFICES ASSUME ScanInit PROVE ScanTypeOK
    OBVIOUS
  <2>1. missing \in BOOLEAN /\ query \in BOOLEAN
    BY Zenon DEF ScanInit
  <2>2. table \in [Routers -> 0..2]
    BY DEF ScanInit
  <2>3. /\ status \in Statuses /\ seen \subseteq Routers /\ routers \in Nat /\ children \in Nat
        /\ scans \in 0..MaxScans /\ answers \in 0..MaxAnswers /\ answered \subseteq Record
    BY DEF ScanInit, Statuses
  <2> QED
    BY <2>1, <2>2, <2>3, Zenon DEF ScanTypeOK
<1>2. TypeOK /\ ScanTypeOK /\ [ScanNext]_allVars => ScanTypeOK'
  <2> SUFFICES ASSUME TypeOK, ScanTypeOK, [ScanNext]_allVars PROVE ScanTypeOK'
    OBVIOUS
  <2> USE DEF ScanTypeOK, Statuses, Clear
  <2>1. ASSUME Cancel PROVE ScanTypeOK'
    <3>1. (missing \in BOOLEAN /\ query \in BOOLEAN)'
      BY <2>1, Zenon DEF Cancel
    <3>2. /\ (status \in Statuses /\ seen \subseteq Routers /\ routers \in Nat)'
          /\ (children \in Nat /\ table \in [Routers -> 0..2])'
          /\ (scans \in 0..MaxScans /\ answers \in 0..MaxAnswers /\ answered \subseteq Record)'
      BY <2>1 DEF Cancel
    <3> QED
      BY <3>1, <3>2, Zenon DEF ScanTypeOK
  <2>2. CASE RefreshTooEarly
    <3>1. (missing \in BOOLEAN /\ query \in BOOLEAN)'
      BY <2>2, Zenon DEF RefreshTooEarly
    <3>2. /\ (status \in Statuses /\ seen \subseteq Routers /\ routers \in Nat)'
          /\ (children \in Nat /\ table \in [Routers -> 0..2])'
          /\ (scans \in 0..MaxScans /\ answers \in 0..MaxAnswers /\ answered \subseteq Record)'
      BY <2>2 DEF RefreshTooEarly
    <3> QED
      BY <3>1, <3>2, Zenon DEF ScanTypeOK
  <2>3. CASE Refresh
    <3>1. (missing \in BOOLEAN /\ query \in BOOLEAN)'
      BY <2>3, Zenon DEF Refresh
    <3>2. /\ (status \in Statuses /\ seen \subseteq Routers /\ routers \in Nat)'
          /\ (children \in Nat /\ table \in [Routers -> 0..2])'
          /\ (scans \in 0..MaxScans /\ answers \in 0..MaxAnswers /\ answered \subseteq Record)'
      BY <2>3, SMTT(30) DEF Refresh
    <3> QED
      BY <3>1, <3>2, Zenon DEF ScanTypeOK
  <2>4. CASE UNCHANGED scanVars
    BY <2>4 DEF scanVars, published
  <2>5. ASSUME NEW r \in Routers, NEW known \in BOOLEAN,
               Answer(r, known) \/ LastAnswer(r, known)
        PROVE  ScanTypeOK'
    <3>0. /\ Heard(r, known)
          /\ Counts(r, known) \/ UNCHANGED <<seen, missing, routers, children>>
          /\ UNCHANGED <<table, scans>>
      BY <2>5, Zenon DEF Answer, LastAnswer, published
    <3>1. (answered \subseteq Record)' /\ (answers \in 0..MaxAnswers)'
      BY <3>0, SMTT(30) DEF Heard, Record, TypeOK
    <3>2. (seen \subseteq Routers /\ routers \in Nat /\ children \in Nat)'
      <4>1. table[r] \in Nat
        OBVIOUS
      <4> QED
        BY <3>0, <4>1, SMTT(30) DEF Counts
    <3>3. missing' \in BOOLEAN
      BY <2>5, Zenon DEF Answer, LastAnswer, Counts, published
    <3>4. query' \in BOOLEAN
      BY <2>5, Zenon DEF Answer, LastAnswer
    <3>5. (status \in Statuses)'
      BY <2>5, Zenon DEF Answer, LastAnswer, Verdict, published
    <3>6. (table \in [Routers -> 0..2] /\ scans \in 0..MaxScans)'
      BY <3>0
    <3> QED
      BY <3>1, <3>2, <3>3, <3>4, <3>5, <3>6, Zenon DEF ScanTypeOK
  <2>6. ASSUME NEW error \in BOOLEAN, LastCallback(error) PROVE ScanTypeOK'
    BY <2>6 DEF LastCallback, Verdict
  <2>7. UNCHANGED allVars => UNCHANGED scanVars
    BY DEF allVars
  <2> QED
    BY <2>1, <2>2, <2>3, <2>4, <2>5, <2>6, <2>7, OperationOnScan DEF ScanNext, Callback
<1> QED
  BY <1>1, <1>2, TypeCorrect, ScanImplementsDataset, PTL DEF ScanSpec

\* A step of the dataset's operations disturbs no scan it has not cancelled: where
\* the dataset changes, an operation is in progress and no scan is left.
LEMMA OperationKeepsScans ==
  Inv /\ ScanTypeOK /\ Scans /\ Operation => Scans'
<1> SUFFICES ASSUME Inv, ScanTypeOK, Scans, Operation PROVE Scans'
  OBVIOUS
<1> USE DEF Inv, Scans, ScanInv, ScanIsAlive, CountsAreOfThisScan, TypeOK, Answerers, Counted
<1>1. CASE Cancel
  BY <1>1 DEF Cancel, Clear
<1>2. CASE UNCHANGED scanVars
  <2> USE <1>2 DEF scanVars, published
  <2>1. /\ status' = status /\ seen' = seen /\ missing' = missing /\ routers' = routers
        /\ query' = query /\ answered' = answered /\ Answerers' = Answerers
    OBVIOUS
  <2>2. ASSUME NEW n \in Networks, JoinRefused(n) PROVE Scans'
    BY <2>1, <2>2, SMTT(30) DEF JoinRefused, Free
  <2>3. CASE JoinStep \/ EraseForgotten
    <3>1. ~Free
      BY <2>3 DEF JoinStep, EraseOld, Resume, Apply, Rollback, Wipe, EraseForgotten, At, Free
    <3>2. ~query /\ status \notin Counted /\ answered = {}
      BY <3>1
    <3> QED
      BY <2>1, <3>2
  <2>4. CASE Forget /\ ~ready
    <3>1. ~query /\ status \notin Counted /\ answered = {}
      BY <2>4
    <3> QED
      BY <2>1, <3>1
  <2>5. CASE SetEnabled(TRUE)
    <3>1. Free /\ op' = op /\ ready' = ready /\ stored' = stored /\ running' \in {running, stored}
      BY <2>5 DEF SetEnabled
    <3>2. ready
      BY <2>5 DEF SetEnabled
    <3> QED
      BY <2>1, <3>1, <3>2 DEF Free
  <2>6. CASE ThreadInit
    BY <2>1, <2>6 DEF ThreadInit, Free
  <2>7. CASE Attach
    <3>1. Free /\ op' = op /\ ready /\ ready' = ready /\ stored' = stored
          /\ running' \in {running, stored, NoNet}
      BY <2>7 DEF Attach, Started, NotStarted
    <3> QED
      BY <2>1, <3>1 DEF Free
  <2> QED
    BY <1>1, <2>2, <2>3, <2>4, <2>5, <2>6, <2>7 DEF Operation
<1> QED
  BY <1>1, <1>2, OperationOnScan

\* The counters stay those of the query in progress.
LEMMA ScansInductive == ScanSpec => []Scans
<1> USE TopologyAssumption DEF TopologyAssumption
<1>1. ScanInit => Scans
  BY DEF ScanInit, Init, Nothing, Free, Scans, ScanInv, ScanIsAlive, CountsAreOfThisScan, Counted
<1>2. Inv /\ ScanTypeOK /\ Scans /\ [ScanNext]_allVars => Scans'
  <2> SUFFICES ASSUME Inv, ScanTypeOK, Scans, [ScanNext]_allVars PROVE Scans'
    OBVIOUS
  <2>0. CASE Operation
    BY <2>0, OperationKeepsScans
  <2> USE DEF Scans, ScanInv, ScanIsAlive, CountsAreOfThisScan, ScanTypeOK, Answerers, Counted
  <2>1. CASE RefreshTooEarly
    BY <2>1 DEF RefreshTooEarly, Clear, vars
  <2>2. CASE Refresh
    <3>1. /\ seen' = {} /\ routers' = 0 /\ missing' = FALSE /\ (ready /\ Free)'
          /\ stored' = stored /\ running' = running
          /\ \/ status' = "SCANNING" /\ query' /\ answered' = {}
             \/ status' = "FAILED" /\ ~query' /\ answered' = answered
      BY <2>2 DEF Refresh, Clear, vars, Free
    <3>2. CASE answered' = {}
      <4>1. Cardinality({}) = 0
        BY FS_EmptySet
      <4>2. Answerers' = {}
        BY <3>2
      <4> QED
        BY <3>1, <3>2, <4>1, <4>2
    <3>3. CASE status' = "FAILED" /\ ~query' /\ answered' = answered
      BY <3>1, <3>3
    <3> QED
      BY <3>1, <3>2, <3>3
  <2>3. ASSUME NEW r \in Routers, NEW known \in BOOLEAN,
               Answer(r, known) \/ LastAnswer(r, known)
        PROVE  Scans'
    <3> DEFINE a == [router |-> r, network |-> running, table |-> known]
    <3>h. /\ Heard(r, known) /\ UNCHANGED vars
          /\ status = "SCANNING"
          /\ \/ status' = status /\ query' = query /\ Counts(r, known)
             \/ /\ ~query' /\ Counts(r, known)
                /\ status' = Verdict(FALSE, missing', TRUE)
      <4>1. status = "SCANNING"
        BY <2>3, Zenon DEF Answer, LastAnswer, Heard
      <4> QED
        BY <2>3, <4>1, Zenon DEF Answer, LastAnswer
    <3>i. Free /\ ready /\ query /\ answered' = answered \cup {a} /\ running = stored
      BY <3>h DEF Heard, Inv, RunsWhatIsStored
    <3>j. ready' = ready /\ op' = op /\ stored' = stored /\ running' = running
      BY <3>h DEF vars
    <3>1. /\ status = "SCANNING" /\ query /\ answered' = answered \cup {a}
          /\ Counts(r, known)
          /\ \/ status' = status /\ query' = query
             \/ ~query' /\ status' = Verdict(FALSE, missing', TRUE)
      BY <3>h, <3>i, Zenon
    <3>0. /\ status' = "SCANNING" <=> query'
          /\ status' \in {"SCANNING", "COMPLETE", "PARTIAL"}
          /\ status' = "COMPLETE" => ~missing'
      BY <3>1, Zenon DEF Verdict
    <3>2. Answerers' = seen \cup {r}
      <4>1. a.router = r
        OBVIOUS
      <4>2. seen = {b.router : b \in answered}
        BY <3>1
      <4>3. Answerers' = {b.router : b \in answered \cup {a}}
        BY <3>1
      <4> QED
        BY <4>1, <4>2, <4>3
    <3>3. seen' = seen \cup {r}
      BY <3>1 DEF Counts
    <3>4. routers' = Cardinality(seen')
      <4>1. IsFiniteSet(seen)
        BY FS_Subset
      <4>2. CASE r \in seen
        BY <4>2, <3>1 DEF Counts
      <4>3. CASE r \notin seen
        <5>1. Cardinality(seen \cup {r}) = Cardinality(seen) + 1
          BY <4>1, <4>3, FS_AddElement
        <5> QED
          BY <5>1, <4>3, <3>1, <3>3 DEF Counts
      <4> QED
        BY <4>2, <4>3
    <3>5. \A b \in answered' : b.network = stored'
      BY <3>1, <3>i, <3>j
    <3>6. ASSUME ~missing', NEW q \in seen'
          PROVE \E b \in answered' : b.router = q /\ b.table
      <4>1. CASE q \in seen
        <5>1. ~missing
          BY <3>1, <3>6, Zenon DEF Counts
        <5>2. PICK b \in answered : b.router = q /\ b.table
          BY <4>1, <5>1, <3>1
        <5> QED
          BY <5>2, <3>1
      <4>2. CASE q \notin seen
        <5>1. q = r /\ r \notin seen
          BY <4>2, <3>3, <3>6
        <5>2. known
          BY <5>1, <3>1, <3>6, Zenon DEF Counts
        <5>3. a \in answered' /\ a.router = q /\ a.table
          BY <5>1, <5>2, <3>1
        <5> QED
          BY <5>3
      <4> QED
        BY <4>1, <4>2
    <3>7. ScanInv'
      <4>1. (ready /\ Free)'
        BY <3>i, <3>j DEF Free
      <4> QED
        BY <4>1, <3>0, <3>2, <3>3, <3>4, <3>5, <3>6, <3>1
    <3>8. ScanIsAlive'
      BY <3>0
    <3>9. CountsAreOfThisScan'
      BY <3>2, <3>3, <3>4, <3>5, <3>i, <3>j
    <3> QED
      BY <3>7, <3>8, <3>9
  <2>4. ASSUME NEW error \in BOOLEAN, LastCallback(error) PROVE Scans'
    <3>1. /\ Free /\ status = "SCANNING" /\ query /\ ~query'
          /\ status' \in {"COMPLETE", "PARTIAL", "FAILED"}
          /\ status' = "COMPLETE" => ~missing
      BY <2>4, Zenon DEF LastCallback, Verdict
    <3>2. /\ seen' = seen /\ missing' = missing /\ routers' = routers /\ answered' = answered
          /\ stored' = stored /\ running' = running /\ ready' = ready /\ op' = op
      BY <2>4 DEF LastCallback, vars
    <3>3. ready /\ Answerers' = Answerers
      BY <3>1, <3>2
    <3> QED
      BY <3>1, <3>2, <3>3 DEF Free
  <2>5. CASE UNCHANGED allVars
    BY <2>5 DEF allVars, vars, scanVars, published, Free
  <2> QED
    BY <2>0, <2>1, <2>2, <2>3, <2>4, <2>5 DEF ScanNext, Callback
<1> QED
  BY <1>1, <1>2, InvInductive, ScanTypeCorrect, ScanImplementsDataset, PTL DEF ScanSpec

\* SCANNING always has a query that will end it, so a scan can always be asked
\* for again, however cancellations and callbacks interleave.
THEOREM ScansEnd == ScanSpec => []ScanIsAlive
<1>1. Scans => ScanIsAlive
  BY DEF Scans
<1> QED
  BY <1>1, ScansInductive, PTL

\* The counts on the screen are of this scan and of the present network.
THEOREM CountsAreExact == ScanSpec => []CountsAreOfThisScan
<1>1. Scans => CountsAreOfThisScan
  BY DEF Scans
<1> QED
  BY <1>1, ScansInductive, PTL

\* COMPLETE is only said of a scan with every answering router's child table.
THEOREM CompleteMeansAll == ScanSpec => []CompleteIsComplete
<1>1. Scans => CompleteIsComplete
  BY DEF Scans, ScanInv, CompleteIsComplete, Counted
<1> QED
  BY <1>1, ScansInductive, PTL

-----------------------------------------------------------------------------
(* BorderRouter: types. *)

Phases == {"none", "claimed", "named", "set", "up", "failed"}

TypeOfSteps ==
  /\ main \in {"init", "keys", "check", "defer", "fallback", "done"}
  /\ event \in {"idle", "defer", "fallback"} /\ events \in 0..MaxEvents
  /\ starter \in [Tasks -> Phases]
  /\ callback \in {"none", "library", "own"}

TypeOfJobs ==
  /\ jobs \in Seq(Names \cup {BrStart}) /\ Len(jobs) <= Depth
  /\ rename \in [name : Names \cup {NoName}, step : {"write", "apply"}]
  /\ renamer \in [Renamers -> Names \cup {NoName}]

TypeOfNames ==
  /\ saved \in Names /\ buffer \in Names \cup {NoName}
  /\ instance \in Names \cup {NoName} /\ promised \in Names \cup {NoName}
  /\ record \in Names \cup {NoName, Bare}

TypeOfFlags ==
  /\ adopted \in BOOLEAN /\ backbone \in BOOLEAN
  /\ starting \in BOOLEAN /\ started \in BOOLEAN /\ failed \in BOOLEAN
  /\ claimed \in BOOLEAN /\ keyOn \in BOOLEAN /\ notify \in BOOLEAN /\ advertised \in BOOLEAN

LEMMA TypeParts ==
  /\ RouterTypeOK <=> TypeOfSteps /\ TypeOfJobs /\ TypeOfNames /\ TypeOfFlags
  /\ RouterTypeOK' <=> TypeOfSteps' /\ TypeOfJobs' /\ TypeOfNames' /\ TypeOfFlags'
<1>1. RouterTypeOK <=> TypeOfSteps /\ TypeOfJobs /\ TypeOfNames /\ TypeOfFlags
  BY Zenon DEF RouterTypeOK, TypeOfSteps, TypeOfJobs, TypeOfNames, TypeOfFlags, Phases
<1>2. RouterTypeOK' <=> TypeOfSteps' /\ TypeOfJobs' /\ TypeOfNames' /\ TypeOfFlags'
  BY Zenon DEF RouterTypeOK, TypeOfSteps, TypeOfJobs, TypeOfNames, TypeOfFlags, Phases
<1>. QED
  BY <1>1, <1>2

\* What a request to start may do to the claims.
LEMMA StartTaskCases ==
  ASSUME StartTask
  PROVE  \/ adopted /\ Claim("own") /\ UNCHANGED failed
         \/ failed' = TRUE /\ UNCHANGED <<starting, starter>>
         \/ (~adopted \/ started \/ starting) /\ UNCHANGED <<starting, starter, failed>>
BY Zenon DEF StartTask

LEMMA StepsTyped == ASSUME TypeOfSteps, [RouterNext]_routerVars PROVE TypeOfSteps'
<1>. USE BorderRouterAssumption
     DEF TypeOfSteps, bootVars, startVars, nameVars, keyVars
<1>0. ASSUME NEW t \in Tasks, NEW s \in Phases, starter' = [starter EXCEPT ![t] = s],
             UNCHANGED <<main, event, events>>, callback' \in {callback, "library", "own"}
      PROVE TypeOfSteps'
  BY <1>0
<1>1. CASE GotIp \/ EventDefers
  BY <1>1 DEF GotIp, EventDefers
<1>2. CASE EventFallsBack \/ MainFallsBack
  <2>1. starter' = starter \/ starter' = [starter EXCEPT !["own"] = "claimed"]
    BY <1>2, Zenon DEF EventFallsBack, MainFallsBack, StartTask, Claim
  <2>2. starter' \in [Tasks -> Phases]
    BY <2>1 DEF Tasks, Phases
  <2>. QED
    BY <1>2, <2>2 DEF EventFallsBack, MainFallsBack
<1>3. CASE AdoptStack \/ EnableKeys \/ CheckBackbone \/ MainDefers
  BY <1>3 DEF AdoptStack, EnableKeys, CheckBackbone, MainDefers
<1>4. CASE WorkerTakesStart
  <2>1. starter' = starter \/ starter' = [starter EXCEPT !["worker"] = "claimed"]
    BY <1>4, Zenon DEF WorkerTakesStart, Claim
  <2>2. starter' \in [Tasks -> Phases]
    BY <2>1 DEF Tasks, Phases
  <2>. QED
    BY <1>4, <2>2 DEF WorkerTakesStart
<1>5. ASSUME NEW t \in Tasks, Start(t) PROVE TypeOfSteps'
  BY <1>0, <1>5 DEF Start, ReadName, SetInstanceName, InitRouter, Finish, Passes, Phases
<1>6. CASE Rename \/ (\E r \in Renamers : SaveName(r) \/ AskRename(r)) \/ KeyEnds \/ KeyCallback
  BY <1>6
  DEF Rename, WorkerTakesRename, WriteBuffer, ApplyName, SaveName, AskRename, KeyEnds, KeyCallback
<1>7. CASE KeyStarts
  BY <1>7 DEF KeyStarts
<1>8. CASE UNCHANGED routerVars
  BY <1>8 DEF routerVars
<1>. QED
  BY <1>1, <1>2, <1>3, <1>4, <1>5, <1>6, <1>7, <1>8, Zenon DEF RouterNext, Boot, Event

\* Only names that were saved, and requests to start, are ever queued.
LEMMA JobsTyped ==
  ASSUME TypeOfJobs, TypeOfNames, [RouterNext]_routerVars PROVE TypeOfJobs'
<1>. USE BorderRouterAssumption DEF TypeOfJobs, bootVars, startVars, nameVars, keyVars
<1>0. ASSUME NEW j \in Names \cup {BrStart}, Queue(j) \/ UNCHANGED jobs
      PROVE jobs' \in Seq(Names \cup {BrStart}) /\ Len(jobs') <= Depth
  BY <1>0 DEF Queue, HasRoom
<1>1. CASE EventDefers
  BY <1>0, <1>1 DEF EventDefers
<1>2. CASE MainDefers
  BY <1>0, <1>2 DEF MainDefers
<1>3. ASSUME jobs # <<>>, jobs' = Tail(jobs)
      PROVE /\ jobs' \in Seq(Names \cup {BrStart}) /\ Len(jobs') <= Depth
            /\ Head(jobs) \in Names \cup {BrStart}
  BY <1>3
<1>4. CASE WorkerTakesStart
  BY <1>3, <1>4 DEF WorkerTakesStart
<1>5. CASE WorkerTakesRename
  <2>1. Head(jobs) \in Names \cup {NoName}
    BY <1>3, <1>5 DEF WorkerTakesRename, BrStart
  <2>2. rename' \in [name : Names \cup {NoName}, step : {"write", "apply"}]
    BY <1>5, <2>1 DEF WorkerTakesRename
  <2>. QED
    BY <1>3, <1>5, <2>2 DEF WorkerTakesRename
<1>6. CASE WriteBuffer
  BY <1>6 DEF WriteBuffer
<1>7. CASE ApplyName
  BY <1>7 DEF ApplyName, NoRename
<1>8. ASSUME NEW r \in Renamers, SaveName(r) PROVE TypeOfJobs'
  <2>1. saved + 1 \in Names
    BY <1>8 DEF SaveName, TypeOfNames, Names
  <2>. QED
    BY <1>8, <2>1 DEF SaveName
<1>9. ASSUME NEW r \in Renamers, AskRename(r) PROVE TypeOfJobs'
  <2>1. renamer[r] \in Names \cup {BrStart}
    BY <1>9 DEF AskRename
  <2>2. Queue(renamer[r]) \/ UNCHANGED jobs
    BY <1>9, Zenon DEF AskRename
  <2>3. jobs' \in Seq(Names \cup {BrStart}) /\ Len(jobs') <= Depth
    BY <1>0, <2>1, <2>2
  <2>. QED
    BY <1>9, <2>3 DEF AskRename
<1>10. CASE UNCHANGED <<jobs, rename, renamer>>
  BY <1>10
<1>. QED
  BY <1>1, <1>2, <1>4, <1>5, <1>6, <1>7, <1>8, <1>9, <1>10, Zenon
  DEF RouterNext, routerVars, Boot, Event, GotIp, EventFallsBack, AdoptStack, EnableKeys,
      CheckBackbone, MainFallsBack, Start, ReadName, SetInstanceName, InitRouter, Finish, Rename,
      KeyStarts, KeyEnds, KeyCallback

\* The names a device can have, and those of its record.
LEMMA NamesTyped ==
  ASSUME TypeOfJobs, TypeOfNames, [RouterNext]_routerVars PROVE TypeOfNames'
<1>. USE BorderRouterAssumption DEF TypeOfNames, bootVars, startVars, nameVars, keyVars
<1>1. CASE UNCHANGED <<saved, buffer, instance, promised, record>>
  BY <1>1
<1>2. ASSUME NEW t \in Tasks, ReadName(t) \/ SetInstanceName(t) PROVE TypeOfNames'
  BY <1>2 DEF ReadName, SetInstanceName
<1>3. ASSUME NEW pub, NEW rec \in Names \cup {NoName, Bare}, NEW on,
             NEW name \in Names \cup {NoName}, ShareState(pub, rec, on, name)
      PROVE record' \in Names \cup {NoName, Bare}
  BY <1>3 DEF ShareState
<1>4. CASE KeyCallback
  <2>1. record' \in Names \cup {NoName, Bare}
    BY <1>3, <1>4 DEF KeyCallback
  <2>. QED
    BY <1>4, <2>1 DEF KeyCallback
<1>5. ASSUME NEW r \in Renamers, SaveName(r) PROVE TypeOfNames'
  BY <1>5 DEF SaveName, Names
<1>6. CASE WriteBuffer
  BY <1>6 DEF WriteBuffer, TypeOfJobs
<1>7. CASE ApplyName
  <2>1. promised' \in Names \cup {NoName}
    BY <1>7 DEF ApplyName, Promise, TypeOfJobs
  <2>2. UNCHANGED <<saved, buffer>>
    BY <1>7 DEF ApplyName
  <2>3. CASE UNCHANGED <<instance, advertised, record>>
    BY <2>1, <2>2, <2>3
  <2>4. CASE /\ instance' = buffer
             /\ ShareState(FALSE, IF advertised THEN NoName ELSE record, keyOn, instance')
    <3>1. (IF advertised THEN NoName ELSE record) \in Names \cup {NoName, Bare}
      OBVIOUS
    <3>2. record' \in Names \cup {NoName, Bare}
      BY <2>4, <3>1 DEF ShareState
    <3>. QED
      BY <2>1, <2>2, <2>4, <3>2
  <2>. QED
    BY <1>7, <2>3, <2>4, Zenon DEF ApplyName
<1>. QED
  BY <1>1, <1>2, <1>4, <1>5, <1>6, <1>7, Zenon
  DEF RouterNext, routerVars, Boot, Event, GotIp, EventDefers, EventFallsBack, AdoptStack,
      EnableKeys, CheckBackbone, MainDefers, MainFallsBack, WorkerTakesStart, Start, InitRouter,
      Finish, Rename, WorkerTakesRename, AskRename, KeyStarts, KeyEnds

\* Steps keep the flags flags.
LEMMA FlagsTyped == ASSUME TypeOfFlags, [RouterNext]_routerVars PROVE TypeOfFlags'
<1>. USE DEF TypeOfFlags, bootVars, startVars, keyVars
<1>0. CASE UNCHANGED <<bootVars, startVars, keyVars>>
  BY <1>0, Zenon
<1>a. StartTask \/ Claim("worker") => starting' \in BOOLEAN
  BY Zenon DEF StartTask, Claim
<1>1. CASE Boot
  <2>1. CASE AdoptStack
    BY <2>1, Zenon DEF AdoptStack
  <2>2. CASE EnableKeys
    BY <2>2, Zenon DEF EnableKeys
  <2>3. CASE CheckBackbone
    BY <2>3, Zenon DEF CheckBackbone
  <2>4. CASE MainDefers
    BY <2>4, Zenon DEF MainDefers
  <2>5. CASE MainFallsBack
    <3>1. failed' \in BOOLEAN
      BY <2>5, Zenon DEF MainFallsBack, StartTask, Claim
    <3>. QED
      BY <1>a, <2>5, <3>1, Zenon DEF MainFallsBack
  <2>. QED
    BY <1>1, <2>1, <2>2, <2>3, <2>4, <2>5, Zenon DEF Boot
<1>2. CASE Event
  <2>1. CASE GotIp
    BY <2>1, Zenon DEF GotIp
  <2>2. CASE EventDefers
    BY <2>2, Zenon DEF EventDefers
  <2>3. CASE EventFallsBack
    <3>1. failed' \in BOOLEAN
      BY <2>3, Zenon DEF EventFallsBack, StartTask, Claim
    <3>. QED
      BY <1>a, <2>3, <3>1, Zenon DEF EventFallsBack
  <2>. QED
    BY <1>2, <2>1, <2>2, <2>3, Zenon DEF Event
<1>3. CASE WorkerTakesStart
  <2>1. starting' \in BOOLEAN
    BY <1>3, <1>a, Zenon DEF WorkerTakesStart
  <2>. QED
    BY <1>3, <2>1, Zenon DEF WorkerTakesStart
<1>4. ASSUME NEW t \in Tasks, ReadName(t) \/ SetInstanceName(t) \/ InitRouter(t) PROVE TypeOfFlags'
  <2>1. CASE ReadName(t)
    BY <2>1, Zenon DEF ReadName
  <2>2. CASE SetInstanceName(t)
    BY <2>2, Zenon DEF SetInstanceName
  <2>3. CASE InitRouter(t)
    BY <2>3, Zenon DEF InitRouter
  <2>. QED
    BY <1>4, <2>1, <2>2, <2>3, Zenon
<1>5. ASSUME NEW t \in Tasks, Finish(t) PROVE TypeOfFlags'
  <2>1. started' \in BOOLEAN /\ failed' \in BOOLEAN
    BY <1>5 DEF Finish
  <2>. QED
    BY <1>5, <2>1, Zenon DEF Finish
<1>6. CASE KeyStarts \/ KeyEnds
  <2>1. CASE KeyStarts
    BY <2>1, Zenon DEF KeyStarts
  <2>2. CASE KeyEnds
    BY <2>2, Zenon DEF KeyEnds
  <2>. QED
    BY <1>6, <2>1, <2>2, Zenon
<1>7. ASSUME NEW pub, pub \in BOOLEAN, NEW rec, NEW on, NEW name, ShareState(pub, rec, on, name)
      PROVE advertised' \in BOOLEAN
  BY <1>7, Zenon DEF ShareState
<1>8. CASE KeyCallback
  <2>1. advertised' \in BOOLEAN
    BY <1>7, <1>8, Zenon DEF KeyCallback
  <2>. QED
    BY <1>8, <2>1, Zenon DEF KeyCallback
<1>9. CASE ApplyName
  <2>1. advertised' \in BOOLEAN
    BY <1>7, <1>9, Zenon DEF ApplyName
  <2>. QED
    BY <1>9, <2>1, Zenon DEF ApplyName
<1>10. CASE WorkerTakesRename \/ WriteBuffer \/ \E r \in Renamers : SaveName(r) \/ AskRename(r)
  <2>1. CASE WorkerTakesRename
    BY <2>1, <1>0, Zenon DEF WorkerTakesRename
  <2>2. CASE WriteBuffer
    BY <2>2, <1>0, Zenon DEF WriteBuffer
  <2>3. ASSUME NEW r \in Renamers, SaveName(r) PROVE TypeOfFlags'
    BY <2>3, <1>0, Zenon DEF SaveName
  <2>4. ASSUME NEW r \in Renamers, AskRename(r) PROVE TypeOfFlags'
    BY <2>4, <1>0, Zenon DEF AskRename
  <2>. QED
    BY <1>10, <2>1, <2>2, <2>3, <2>4, Zenon
<1>11. CASE UNCHANGED routerVars
  BY <1>11, Zenon DEF routerVars
<1>. QED
  BY <1>1, <1>2, <1>3, <1>4, <1>5, <1>6, <1>8, <1>9, <1>10, <1>11, Zenon
  DEF RouterNext, Start, Rename

LEMMA TypeStep == ASSUME RouterTypeOK, [RouterNext]_routerVars PROVE RouterTypeOK'
BY TypeParts, StepsTyped, JobsTyped, NamesTyped, FlagsTyped, Zenon

-----------------------------------------------------------------------------
(* Starts. *)

BrWaits == \E i \in DOMAIN jobs : jobs[i] = BrStart

\* Somebody will still ask: the event handler, app_main, or the worker.
Asked == event \in {"defer", "fallback"} \/ main \in {"keys", "check", "defer", "fallback"} \/ BrWaits

NotForgotten == adopted /\ backbone /\ ~failed => started \/ starting \/ Asked

StackFirst == (main = "init" => ~adopted) /\ (starting \/ started => adopted)

StartInv == OneStart /\ NotForgotten /\ StackFirst

LEMMA WaitsOn ==
  ASSUME TypeOfJobs
  PROVE  /\ \A j : Queue(j) /\ (BrWaits \/ j = BrStart) => BrWaits'
         /\ jobs # <<>> /\ jobs' = Tail(jobs) /\ Head(jobs) # BrStart /\ BrWaits => BrWaits'
<1>0. jobs \in Seq(Names \cup {BrStart}) /\ Len(jobs) \in Nat /\ DOMAIN jobs = 1..Len(jobs)
  BY DEF TypeOfJobs
<1>1. ASSUME NEW j, Queue(j), BrWaits \/ j = BrStart PROVE BrWaits'
  <2>1. /\ DOMAIN jobs' = 1..(Len(jobs) + 1) /\ jobs'[Len(jobs) + 1] = j
        /\ \A i \in 1..Len(jobs) : jobs'[i] = jobs[i]
    BY <1>0, <1>1 DEF Queue
  <2>. QED
    BY <1>0, <1>1, <2>1 DEF BrWaits
<1>2. ASSUME jobs # <<>>, jobs' = Tail(jobs), Head(jobs) # BrStart, BrWaits PROVE BrWaits'
  <2>1. /\ DOMAIN jobs' = 1..(Len(jobs) - 1)
        /\ \A i \in 1..(Len(jobs) - 1) : jobs'[i] = jobs[i + 1]
        /\ Head(jobs) = jobs[1]
    BY <1>0, <1>2
  <2>2. PICK i \in 1..Len(jobs) : jobs[i] = BrStart
    BY <1>0, <1>2 DEF BrWaits
  <2>3. i - 1 \in 1..(Len(jobs) - 1) /\ jobs'[i - 1] = BrStart
    BY <1>0, <1>2, <2>1, <2>2
  <2>. QED
    BY <2>1, <2>3 DEF BrWaits
<1>. QED
  BY <1>1, <1>2

\* A claim is made by one task, for all.
LEMMA ClaimStep ==
  ASSUME TypeOfSteps, OneStart, NEW t \in Tasks, Claim(t), UNCHANGED started
  PROVE  OneStart' /\ starting'
<1>1. \A u \in Tasks : starter[u] = "none"
  BY DEF OneStart, Claim
<1>2. starter'[t] = "claimed" /\ \A u \in Tasks : u # t => starter'[u] = "none"
  BY <1>1 DEF Claim, TypeOfSteps
<1>. QED
  BY <1>2 DEF OneStart, Claim

\* A request that finds a start claimed leaves it to that one.
LEMMA RequestStep ==
  ASSUME TypeOfSteps, StartInv, StartTask, UNCHANGED <<started, adopted, backbone>>
  PROVE  /\ OneStart' /\ (starting' => adopted)
         /\ adopted /\ ~failed' => started' \/ starting'
<1>1. CASE adopted /\ Claim("own")
  BY <1>1, ClaimStep DEF StartInv, Tasks
<1>2. CASE failed' = TRUE /\ UNCHANGED <<starting, starter>>
  BY <1>2 DEF StartInv, OneStart, StackFirst
<1>3. CASE (~adopted \/ started \/ starting) /\ UNCHANGED <<starting, starter, failed>>
  BY <1>3 DEF StartInv, OneStart, StackFirst
<1>. QED
  BY <1>1, <1>2, <1>3, StartTaskCases

LEMMA StartStep ==
  ASSUME RouterTypeOK, StartInv, [RouterNext]_routerVars PROVE StartInv'
<1>. USE DEF StartInv, bootVars, startVars, nameVars, keyVars
<1>0. TypeOfSteps /\ TypeOfJobs
  BY TypeParts
<1>1. ASSUME UNCHANGED <<starting, started, starter>> PROVE OneStart'
  BY <1>1 DEF OneStart
<1>2. CASE GotIp
  BY <1>1, <1>2 DEF GotIp, NotForgotten, Asked, StackFirst
<1>3. CASE EventDefers
  BY <1>0, <1>1, <1>3, WaitsOn DEF EventDefers, NotForgotten, Asked, StackFirst
<1>4. CASE EventFallsBack
  BY <1>0, <1>4, RequestStep DEF EventFallsBack, NotForgotten, StackFirst
<1>5. CASE AdoptStack
  BY <1>1, <1>5 DEF AdoptStack, NotForgotten, Asked, StackFirst
<1>6. CASE EnableKeys
  BY <1>1, <1>6 DEF EnableKeys, NotForgotten, Asked, StackFirst
<1>7. CASE CheckBackbone
  BY <1>1, <1>7 DEF CheckBackbone, NotForgotten, Asked, StackFirst, BrWaits
<1>8. CASE MainDefers
  BY <1>0, <1>1, <1>8, WaitsOn DEF MainDefers, NotForgotten, Asked, StackFirst
<1>9. CASE MainFallsBack
  BY <1>0, <1>9, RequestStep DEF MainFallsBack, NotForgotten, StackFirst
<1>10. CASE WorkerTakesStart
  <2>1. CASE adopted /\ Claim("worker")
    BY <1>0, <1>10, <2>1, ClaimStep DEF WorkerTakesStart, NotForgotten, StackFirst, Tasks
  <2>2. CASE (~adopted \/ started \/ starting) /\ UNCHANGED <<starting, starter>>
    BY <1>1, <1>10, <2>2 DEF WorkerTakesStart, NotForgotten, StackFirst
  <2>. QED
    BY <1>10, <2>1, <2>2, Zenon DEF WorkerTakesStart
<1>11. ASSUME NEW t \in Tasks, ReadName(t) \/ SetInstanceName(t) \/ InitRouter(t) PROVE StartInv'
  <2>1. /\ starter[t] # "none" /\ starter'[t] # "none"
        /\ \A u \in Tasks : u # t => starter'[u] = starter[u]
        /\ UNCHANGED <<bootVars, jobs, starting, started, failed>>
    BY <1>0, <1>11 DEF ReadName, SetInstanceName, InitRouter, Passes, TypeOfSteps
  <2>2. OneStart'
    BY <2>1 DEF OneStart
  <2>. QED
    BY <2>1, <2>2 DEF NotForgotten, Asked, StackFirst, BrWaits
<1>12. ASSUME NEW t \in Tasks, Finish(t) PROVE StartInv'
  <2>1. \A u \in Tasks : starter'[u] = "none"
    BY <1>0, <1>12 DEF Finish, OneStart, TypeOfSteps
  <2>2. /\ starting /\ ~starting' /\ UNCHANGED <<main, adopted>>
        /\ started' \/ failed'
    BY <1>0, <1>12 DEF Finish, OneStart, TypeOfSteps
  <2>. QED
    BY <2>1, <2>2 DEF OneStart, NotForgotten, StackFirst
<1>13. CASE WorkerTakesRename
  BY <1>0, <1>1, <1>13, WaitsOn DEF WorkerTakesRename, NotForgotten, Asked, StackFirst
<1>14. ASSUME NEW r \in Renamers, AskRename(r) PROVE StartInv'
  <2>1. BrWaits => BrWaits'
    BY <1>0, <1>14, WaitsOn DEF AskRename, BrWaits
  <2>. QED
    BY <1>1, <1>14, <2>1 DEF AskRename, NotForgotten, Asked, StackFirst
<1>15. CASE UNCHANGED <<bootVars, jobs, startVars>>
  BY <1>1, <1>15 DEF NotForgotten, Asked, StackFirst, BrWaits
<1>16. CASE WriteBuffer \/ ApplyName \/ KeyStarts \/ KeyEnds \/ KeyCallback
            \/ \E r \in Renamers : SaveName(r)
  BY <1>15, <1>16, Zenon DEF WriteBuffer, ApplyName, KeyStarts, KeyEnds, KeyCallback, SaveName
<1>17. CASE UNCHANGED routerVars
  BY <1>15, <1>17, Zenon DEF routerVars
<1>. QED
  BY <1>2, <1>3, <1>4, <1>5, <1>6, <1>7, <1>8, <1>9, <1>10, <1>11, <1>12, <1>13, <1>14, <1>16,
     <1>17, Zenon
  DEF RouterNext, Boot, Event, Start, Rename

-----------------------------------------------------------------------------
(* The key record. *)

\* A router that is up has our callback, and before there is one there are no keys.
CallbackIsOurs ==
  /\ started \/ (\E t \in Tasks : starter[t] = "up") => callback = "own" /\ claimed
  /\ ~started => ~keyOn /\ ~notify /\ ~advertised

\* s_meshcop_e_published says whether the responder has the record.
RecordIsKnown == record = IF advertised THEN instance ELSE NoName

KeyInv == CallbackIsOurs /\ RecordIsKnown /\ (advertised => keyOn \/ notify)

LEMMA KeyStep ==
  ASSUME RouterTypeOK, StartInv, KeyInv, [RouterNext]_routerVars PROVE KeyInv'
<1>. USE DEF KeyInv, bootVars, startVars, nameVars, keyVars
<1>0. TypeOfSteps
  BY TypeParts
<1>1. ASSUME UNCHANGED <<started, keyVars, instance>>,
             \A t \in Tasks : starter'[t] = "up" => starter[t] = "up"
      PROVE KeyInv'
  BY <1>1 DEF CallbackIsOurs, RecordIsKnown
<1>2. CASE EventFallsBack \/ MainFallsBack
  <2>1. \A t \in Tasks : starter'[t] = "up" => starter[t] = "up"
    BY <1>0, <1>2 DEF EventFallsBack, MainFallsBack, StartTask, Claim, TypeOfSteps
  <2>. QED
    BY <1>1, <1>2, <2>1, Zenon DEF EventFallsBack, MainFallsBack
<1>3. CASE WorkerTakesStart
  <2>1. \A t \in Tasks : starter'[t] = "up" => starter[t] = "up"
    BY <1>0, <1>3 DEF WorkerTakesStart, Claim, TypeOfSteps
  <2>. QED
    BY <1>1, <1>3, <2>1, Zenon DEF WorkerTakesStart
<1>4. CASE EnableKeys
  BY <1>4 DEF EnableKeys, CallbackIsOurs, RecordIsKnown
<1>5. ASSUME NEW t \in Tasks, ReadName(t) PROVE KeyInv'
  <2>1. \A u \in Tasks : starter'[u] = "up" => starter[u] = "up"
    BY <1>0, <1>5 DEF ReadName, Passes, TypeOfSteps
  <2>. QED
    BY <1>1, <1>5, <2>1 DEF ReadName
<1>6. ASSUME NEW t \in Tasks, SetInstanceName(t) PROVE KeyInv'
  <2>1. \A u \in Tasks : starter'[u] = "up" => starter[u] = "up"
    BY <1>0, <1>6 DEF SetInstanceName, Passes, TypeOfSteps
  <2>2. ~started
    BY <1>6 DEF SetInstanceName, Passes, StartInv, OneStart
  <2>. QED
    BY <1>6, <2>1, <2>2 DEF SetInstanceName, CallbackIsOurs, RecordIsKnown
<1>7. ASSUME NEW t \in Tasks, InitRouter(t) PROVE KeyInv'
  <2>1. ~started /\ \A u \in Tasks : starter[u] # "none" => u = t
    BY <1>7 DEF InitRouter, Passes, StartInv, OneStart
  <2>2. CASE Passes(t, "set", "up") /\ callback' = "own" /\ claimed' = TRUE
    BY <1>7, <2>1, <2>2 DEF InitRouter, CallbackIsOurs, RecordIsKnown
  <2>3. CASE Passes(t, "set", "failed")
    <3>1. \A u \in Tasks : starter'[u] # "up"
      BY <1>0, <2>1, <2>3 DEF Passes, TypeOfSteps
    <3>. QED
      BY <1>7, <2>1, <3>1 DEF InitRouter, CallbackIsOurs, RecordIsKnown
  <2>. QED
    BY <1>7, <2>2, <2>3, Zenon DEF InitRouter
<1>8. ASSUME NEW t \in Tasks, Finish(t) PROVE KeyInv'
  <2>1. ~started /\ \A u \in Tasks : starter'[u] = "none"
    BY <1>0, <1>8 DEF Finish, StartInv, OneStart, TypeOfSteps
  <2>. QED
    BY <1>8, <2>1 DEF Finish, CallbackIsOurs, RecordIsKnown
<1>9. CASE KeyStarts
  BY <1>9 DEF KeyStarts, CallbackIsOurs, RecordIsKnown
<1>10. CASE KeyEnds
  BY <1>10 DEF KeyEnds, CallbackIsOurs, RecordIsKnown
<1>11. CASE KeyCallback
  <2>1. started /\ callback = "own"
    BY <1>11 DEF KeyCallback, CallbackIsOurs
  <2>2. ShareState(advertised, record, keyOn, instance)
    BY <1>11, <2>1 DEF KeyCallback
  <2>. QED
    BY <1>11, <2>1, <2>2 DEF KeyCallback, ShareState, CallbackIsOurs, RecordIsKnown
<1>12. CASE ApplyName
  <2>1. CASE UNCHANGED <<instance, advertised, record>>
    BY <1>12, <2>1 DEF ApplyName, CallbackIsOurs, RecordIsKnown
  <2>2. CASE started /\ ShareState(FALSE, IF advertised THEN NoName ELSE record, keyOn, instance')
    <3>1. ShareState(FALSE, NoName, keyOn, instance')
      BY <2>2 DEF RecordIsKnown
    <3>2. record' = (IF advertised' THEN instance' ELSE NoName) /\ (advertised' => keyOn)
      BY <3>1 DEF ShareState
    <3>. QED
      BY <1>12, <2>2, <3>2 DEF ApplyName, CallbackIsOurs, RecordIsKnown
  <2>. QED
    BY <1>12, <2>1, <2>2, Zenon DEF ApplyName
<1>13. CASE UNCHANGED <<startVars, keyVars, instance>>
  BY <1>1, <1>13
<1>. QED
  BY <1>2, <1>3, <1>4, <1>5, <1>6, <1>7, <1>8, <1>9, <1>10, <1>11, <1>12, <1>13, Zenon
  DEF RouterNext, routerVars, Boot, Event, GotIp, EventDefers, AdoptStack, CheckBackbone,
      MainDefers,
      Start, Rename, WorkerTakesRename, WriteBuffer, SaveName, AskRename

-----------------------------------------------------------------------------
(* Names. *)

\* No name on its way is newer than the saved one.
NamesAreSaved ==
  /\ \A i \in DOMAIN jobs : jobs[i] # BrStart => jobs[i] <= saved
  /\ rename # NoRename => rename.name <= saved
  /\ \A r \in Renamers : renamer[r] # NoName => renamer[r] <= saved
  /\ promised # NoName => promised <= saved

\* The worker does one thing at a time; the name it applies is the one it wrote, or one
\* that a start in its own task has read since.
RenameIsOn ==
  /\ rename # NoRename => starter["worker"] = "none" /\ rename.name \in Names
  /\ rename.step = "apply" => rename.name \in Names /\ buffer \in rename.name..saved

\* What was promised before a start is in the name the start has read.
StartKeepsPromise ==
  promised # NoName /\ rename = NoRename =>
    \A t \in Tasks :
      /\ starter[t] = "named" => buffer \in promised..saved
      /\ starter[t] \in {"set", "up"} => instance \in promised..saved

NameInv == NamesAreSaved /\ RenameIsOn /\ StartKeepsPromise /\ NameInEffect

LEMMA NameStep ==
  ASSUME RouterTypeOK, StartInv, NameInv, [RouterNext]_routerVars PROVE NameInv'
<1>. USE BorderRouterAssumption DEF NameInv, bootVars, startVars, nameVars, keyVars
<1>0. TypeOfSteps /\ TypeOfJobs /\ TypeOfNames
  BY TypeParts
<1>a. /\ \A t \in Tasks : starter[t] \in Phases
      /\ saved \in Nat /\ saved \in Names /\ MaxName \in Nat /\ NoName \notin Names
      /\ jobs \in Seq(Names \cup {BrStart}) /\ DOMAIN jobs = 1..Len(jobs) /\ Len(jobs) \in Nat
      /\ rename.name \in Names \cup {NoName}
      /\ promised \in Names \cup {NoName}
  BY <1>0 DEF TypeOfSteps, TypeOfJobs, TypeOfNames, Names, NoName
\* Requests and claims.
<1>1. ASSUME UNCHANGED <<nameVars, started, jobs>>,
             \A t \in Tasks : starter'[t] = starter[t] \/ (starter'[t] = "claimed" /\ starter[t] = "none"),
             starter'["worker"] = starter["worker"] \/ rename = NoRename
      PROVE NameInv'
  BY <1>1 DEF NamesAreSaved, RenameIsOn, StartKeepsPromise, NameInEffect, Tasks
<1>2. ASSUME NamesAreSaved', UNCHANGED <<nameVars, started>>, UNCHANGED starter PROVE NameInv'
  BY <1>2 DEF RenameIsOn, StartKeepsPromise, NameInEffect
<1>3. ASSUME NEW j, Queue(j), j # BrStart => j <= saved, UNCHANGED <<saved, rename, promised>>,
             \A r \in Renamers : renamer'[r] \in {renamer[r], NoName}
      PROVE NamesAreSaved'
  <2>1. /\ DOMAIN jobs' = 1..(Len(jobs) + 1) /\ jobs'[Len(jobs) + 1] = j
        /\ \A i \in 1..Len(jobs) : jobs'[i] = jobs[i]
    BY <1>3, <1>a DEF Queue
  <2>. QED
    BY <1>3, <1>a, <2>1 DEF NamesAreSaved
<1>4. ASSUME jobs # <<>>, jobs' = Tail(jobs)
      PROVE /\ \A i \in DOMAIN jobs' : jobs'[i] # BrStart => jobs'[i] <= saved
            /\ Head(jobs) # BrStart => Head(jobs) <= saved /\ Head(jobs) \in Names
  <2>1. /\ DOMAIN jobs' = 1..(Len(jobs) - 1) /\ Len(jobs) > 0
        /\ \A i \in 1..(Len(jobs) - 1) : jobs'[i] = jobs[i + 1]
        /\ Head(jobs) = jobs[1]
    BY <1>4, <1>a
  <2>. QED
    BY <1>a, <2>1, SMTT(30) DEF NamesAreSaved
<1>5. CASE EventDefers \/ MainDefers
  <2>1. CASE Queue(BrStart)
    BY <1>2, <1>3, <1>5, <2>1 DEF EventDefers, MainDefers
  <2>2. CASE UNCHANGED jobs
    BY <1>1, <1>5, <2>2 DEF EventDefers, MainDefers
  <2>. QED
    BY <1>5, <2>1, <2>2, Zenon DEF EventDefers, MainDefers
<1>6. CASE EventFallsBack \/ MainFallsBack
  <2>1. \A t \in Tasks : starter'[t] = starter[t] \/ (starter'[t] = "claimed" /\ starter[t] = "none")
    BY <1>0, <1>6
    DEF EventFallsBack, MainFallsBack, StartTask, Claim, TypeOfSteps, StartInv, OneStart
  <2>2. starter'["worker"] = starter["worker"]
    BY <1>0, <1>6 DEF EventFallsBack, MainFallsBack, StartTask, Claim, TypeOfSteps, Tasks
  <2>. QED
    BY <1>1, <1>6, <2>1, <2>2 DEF EventFallsBack, MainFallsBack
<1>7. CASE WorkerTakesStart
  <2>1. \A t \in Tasks : starter'[t] = starter[t] \/ (starter'[t] = "claimed" /\ starter[t] = "none")
    BY <1>0, <1>7 DEF WorkerTakesStart, Claim, TypeOfSteps, StartInv, OneStart
  <2>2. rename = NoRename /\ UNCHANGED <<nameVars, started>>
    BY <1>7 DEF WorkerTakesStart, WorkerFree
  <2>3. NamesAreSaved'
    BY <1>4, <1>7, <2>2 DEF WorkerTakesStart, NamesAreSaved
  <2>. QED
    BY <2>1, <2>2, <2>3 DEF RenameIsOn, StartKeepsPromise, NameInEffect, NoRename
\* A start.
<1>8. ASSUME NEW t \in Tasks, ReadName(t) PROVE NameInv'
  <2>1. /\ buffer' = saved /\ starter'[t] = "named" /\ starter[t] = "claimed"
        /\ \A u \in Tasks : u # t => starter'[u] = "none"
        /\ UNCHANGED <<jobs, rename, renamer, saved, instance, promised, started>> /\ ~started
    BY <1>0, <1>8 DEF ReadName, Passes, TypeOfSteps, StartInv, OneStart
  <2>2. RenameIsOn'
    BY <1>a, <2>1 DEF RenameIsOn, NamesAreSaved, Names, NoRename, Tasks
  <2>3. StartKeepsPromise' /\ NameInEffect' /\ NamesAreSaved'
    BY <1>a, <2>1 DEF StartKeepsPromise, NamesAreSaved, NameInEffect, Names
  <2>. QED
    BY <2>2, <2>3
<1>9. ASSUME NEW t \in Tasks, SetInstanceName(t) PROVE NameInv'
  <2>1. /\ starter'[t] = "failed" \/ (starter'[t] = "set" /\ instance' = buffer)
        /\ starter[t] = "named"
        /\ \A u \in Tasks : u # t => starter'[u] = "none" /\ starter[u] = "none"
        /\ UNCHANGED <<jobs, rename, renamer, saved, buffer, promised, started>> /\ ~started
    BY <1>0, <1>9 DEF SetInstanceName, Passes, TypeOfSteps, StartInv, OneStart
  <2>2. RenameIsOn'
    BY <2>1 DEF RenameIsOn, Tasks
  <2>3. StartKeepsPromise' /\ NameInEffect' /\ NamesAreSaved'
    BY <2>1 DEF StartKeepsPromise, NamesAreSaved, NameInEffect
  <2>. QED
    BY <2>2, <2>3
<1>10. ASSUME NEW t \in Tasks, InitRouter(t) PROVE NameInv'
  <2>1. /\ starter'[t] \in {"up", "failed"} /\ starter[t] = "set"
        /\ \A u \in Tasks : u # t => starter'[u] = "none" /\ starter[u] = "none"
        /\ UNCHANGED <<jobs, nameVars, started>> /\ ~started
    BY <1>0, <1>10 DEF InitRouter, Passes, TypeOfSteps, StartInv, OneStart
  <2>2. RenameIsOn'
    BY <2>1 DEF RenameIsOn, Tasks
  <2>3. StartKeepsPromise' /\ NameInEffect' /\ NamesAreSaved'
    BY <2>1 DEF StartKeepsPromise, NamesAreSaved, NameInEffect
  <2>. QED
    BY <2>2, <2>3
<1>11. ASSUME NEW t \in Tasks, Finish(t) PROVE NameInv'
  <2>1. /\ \A u \in Tasks : starter'[u] = "none"
        /\ started' => starter[t] = "up"
        /\ UNCHANGED <<jobs, nameVars>>
    BY <1>0, <1>11 DEF Finish, TypeOfSteps, StartInv, OneStart
  <2>2. RenameIsOn'
    BY <2>1 DEF RenameIsOn, Tasks
  <2>3. StartKeepsPromise' /\ NameInEffect' /\ NamesAreSaved'
    BY <2>1 DEF StartKeepsPromise, NamesAreSaved, NameInEffect
  <2>. QED
    BY <2>2, <2>3
\* A rename.
<1>12. ASSUME NEW r \in Renamers, SaveName(r) PROVE NameInv'
  <2>1. /\ saved' = saved + 1 /\ UNCHANGED <<jobs, rename, buffer, instance, promised, startVars>>
        /\ \A q \in Renamers : renamer'[q] = renamer[q] \/ renamer'[q] = saved'
    BY <1>0, <1>12 DEF SaveName, TypeOfJobs
  <2>2. \A q \in Renamers : renamer[q] \in Names \cup {NoName}
    BY <1>0 DEF TypeOfJobs
  <2>3. \A i \in DOMAIN jobs : jobs[i] \in Names \cup {BrStart}
    BY <1>a
  <2>4. NamesAreSaved'
    BY <1>a, <2>1, <2>2, <2>3, SMTT(30) DEF NamesAreSaved, Names, NoName, BrStart
  <2>5. RenameIsOn'
    BY <1>a, <2>1 DEF RenameIsOn, Names
  <2>6. StartKeepsPromise' /\ NameInEffect'
    BY <1>a, <2>1 DEF StartKeepsPromise, NameInEffect, Names, NoName
  <2>. QED
    BY <2>4, <2>5, <2>6
<1>13. ASSUME NEW r \in Renamers, AskRename(r) PROVE NameInv'
  <2>1. /\ \A q \in Renamers : renamer'[q] \in {renamer[q], NoName}
        /\ renamer[r] <= saved
        /\ UNCHANGED <<startVars, rename, saved, buffer, instance, promised>>
    BY <1>0, <1>13 DEF AskRename, TypeOfJobs, NamesAreSaved
  <2>2. NamesAreSaved'
    <3>1. CASE Queue(renamer[r])
      BY <1>3, <2>1, <3>1
    <3>2. CASE UNCHANGED jobs
      BY <2>1, <3>2 DEF NamesAreSaved
    <3>. QED
      BY <1>13, <3>1, <3>2, Zenon DEF AskRename
  <2>. QED
    BY <2>1, <2>2 DEF RenameIsOn, StartKeepsPromise, NameInEffect
<1>14. CASE WorkerTakesRename
  <2>1. /\ Head(jobs) \in Names /\ Head(jobs) <= saved
        /\ rename'.name = Head(jobs) /\ rename'.step = "write" /\ rename' # NoRename
        /\ starter["worker"] = "none"
        /\ UNCHANGED <<startVars, renamer, saved, buffer, instance, promised>>
    BY <1>4, <1>14, <1>a DEF WorkerTakesRename, WorkerFree, NoRename
  <2>2. NamesAreSaved'
    BY <1>4, <1>14, <2>1 DEF WorkerTakesRename, NamesAreSaved
  <2>. QED
    BY <2>1, <2>2 DEF RenameIsOn, StartKeepsPromise, NameInEffect
<1>15. CASE WriteBuffer
  <2>1. /\ rename # NoRename /\ buffer' = rename.name
        /\ rename'.name = rename.name /\ rename' # NoRename
        /\ UNCHANGED <<jobs, startVars, renamer, saved, instance, promised>>
    BY <1>0, <1>15 DEF WriteBuffer, NoRename, TypeOfJobs
  <2>2. NamesAreSaved'
    BY <2>1 DEF NamesAreSaved
  <2>3. RenameIsOn'
    BY <1>a, <2>1 DEF RenameIsOn, NamesAreSaved, Names
  <2>. QED
    BY <2>1, <2>2, <2>3 DEF StartKeepsPromise, NameInEffect
<1>16. CASE ApplyName
  <2>1. /\ rename.step = "apply" /\ rename' = NoRename
        /\ promised' = IF starter["own"] = "none" THEN rename.name ELSE NoName
        /\ UNCHANGED <<jobs, startVars, renamer, saved, buffer>>
        /\ instance' = buffer \/ (~(adopted /\ started) /\ instance' = instance)
    BY <1>16 DEF ApplyName, Promise
  <2>2. /\ rename.name \in Names /\ buffer \in rename.name..saved
        /\ rename # NoRename /\ starter["worker"] = "none" /\ rename.name <= saved
    BY <1>a, <2>1 DEF RenameIsOn, NamesAreSaved, NoRename
  <2>3. NamesAreSaved' /\ RenameIsOn'
    BY <2>1, <2>2 DEF NamesAreSaved, RenameIsOn, NoRename
  <2>4. StartKeepsPromise'
    BY <2>1, <2>2 DEF StartKeepsPromise, Tasks
  <2>5. NameInEffect'
    BY <2>1, <2>2 DEF NameInEffect, StartInv, StackFirst
  <2>. QED
    BY <2>3, <2>4, <2>5
<1>17. CASE UNCHANGED <<nameVars, startVars, jobs>>
  BY <1>1, <1>17
<1>. QED
  BY <1>5, <1>6, <1>7, <1>8, <1>9, <1>10, <1>11, <1>12, <1>13, <1>14, <1>15, <1>16, <1>17, Zenon
  DEF RouterNext, routerVars, Boot, Event, GotIp, AdoptStack, EnableKeys, CheckBackbone, Start,
      Rename, KeyStarts, KeyEnds, KeyCallback

-----------------------------------------------------------------------------
(* The theorems. *)

RouterInv == RouterTypeOK /\ StartInv /\ KeyInv /\ NameInv

\* The invariant holds from power-on.
LEMMA RouterInvAlways == RouterSpec => []RouterInv
<1>1. RouterInit => RouterInv
  <2>. SUFFICES ASSUME RouterInit PROVE RouterInv
    OBVIOUS
  <2>. USE BorderRouterAssumption DEF RouterInit
  <2>1. TypeOfSteps
    BY DEF TypeOfSteps, Phases
  <2>2. TypeOfJobs
    BY DEF TypeOfJobs, NoRename
  <2>3. TypeOfNames
    BY DEF TypeOfNames, Names
  <2>4. TypeOfFlags
    BY Zenon DEF TypeOfFlags
  <2>5. StartInv
    BY DEF StartInv, OneStart, NotForgotten, StackFirst
  <2>6. KeyInv
    BY DEF KeyInv, CallbackIsOurs, RecordIsKnown
  <2>7. NameInv
    BY DEF NameInv, NamesAreSaved, RenameIsOn, StartKeepsPromise, NameInEffect, NoRename
  <2>. QED
    BY <2>1, <2>2, <2>3, <2>4, <2>5, <2>6, <2>7, TypeParts DEF RouterInv
<1>2. RouterInv /\ [RouterNext]_routerVars => RouterInv'
  BY TypeStep, StartStep, KeyStep, NameStep DEF RouterInv
<1>. QED
  BY <1>1, <1>2, PTL DEF RouterSpec

\* Every reachable state of the border router is well typed.
THEOREM RouterTyped == RouterSpec => []RouterTypeOK
<1>1. RouterInv => RouterTypeOK
  BY DEF RouterInv
<1>. QED
  BY <1>1, RouterInvAlways, PTL

\* However app_main, the Wi-Fi events and the worker ask, one start runs at a time, none
\* runs on a router that is up, and a router for which the stack and an address are there
\* is up once nobody is left to ask, unless a start failed.
THEOREM RouterStartsOnce == RouterSpec => []StartsExactlyOnce
<1>1. RouterInv => StartsExactlyOnce
  BY DEF RouterInv, StartInv, NotForgotten, Asked, BrWaits, StartsExactlyOnce, NoLostStart,
         NothingPending
<1>. QED
  BY <1>1, RouterInvAlways, PTL

\* A rename thread_set_border_router_name reports as applied is in effect once the router
\* runs, or a name saved after it is.
THEOREM RenameTakesEffect == RouterSpec => []NameInEffect
<1>1. RouterInv => NameInEffect
  BY DEF RouterInv, NameInv
<1>. QED
  BY <1>1, RouterInvAlways, PTL

\* Once the stack has called back, the record of the key is ours, there is one only with a
\* key, and it has the name of the device.
THEOREM RecordIsOfTheKey == RouterSpec => []RecordFollowsKey
<1>1. RouterInv => RecordFollowsKey
  BY DEF RouterInv, KeyInv, RecordIsKnown, RecordFollowsKey
<1>. QED
  BY <1>1, RouterInvAlways, PTL
=============================================================================
