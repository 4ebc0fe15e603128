------------------------------ MODULE Topology ------------------------------
(***************************************************************************)
(* The mesh scan of thread.c, next to the dataset operations that end it.  *)
(* A refresh starts a diagnostic query in OpenThread; its callback runs on *)
(* OpenThread's task for every answer and once at the end, and publishes   *)
(* counts behind a spinlock; joining, forgetting or disabling a network    *)
(* cancels the query and clears what was published.  Lock order:           *)
(* OpenThread's, then the spinlock; everything that holds the first from   *)
(* end to end is one action, and waits for an operation of ThreadDataset.  *)
(*                                                                         *)
(* External: a query can start on a running network; it answers for the    *)
(* network's routers, several times for one router if need be, with or     *)
(* without the router's child table; it ends with a last callback, or is   *)
(* cancelled and then calls back no more.                                  *)
(***************************************************************************)
EXTENDS ThreadDataset, FiniteSets

CONSTANTS
  Routers,     \* router ids
  MaxScans,    \* bound: scans
  MaxAnswers   \* bound: answers of one scan

ASSUME TopologyAssumption ==
  IsFiniteSet(Routers) /\ MaxScans \in Nat /\ MaxAnswers \in Nat

VARIABLES
  status,      \* s_topology.status
  seen,        \* s_topology_router_ids
  missing,     \* s_topology_missing_child_table
  routers,     \* s_topology.routers_seen
  children,    \* s_topology.children_seen
  query,       \* external: a query is in progress
  table,       \* external: the number of children of each router
  answered,    \* history: who answered the query in progress, and from where
  scans, answers   \* bounds

published == <<status, seen, missing, routers, children>>
scanVars == <<published, query, table, answered, scans, answers>>
allVars == <<vars, scanVars>>

Statuses == {"NEVER", "SCANNING", "COMPLETE", "PARTIAL", "FAILED"}
Record == [router : Routers, network : Maybe, table : BOOLEAN]

ScanTypeOK ==
  /\ status \in Statuses
  /\ seen \subseteq Routers /\ missing \in BOOLEAN
  /\ routers \in Nat /\ children \in Nat
  /\ query \in BOOLEAN
  /\ table \in [Routers -> 0..2]
  /\ answered \subseteq Record
  /\ scans \in 0..MaxScans /\ answers \in 0..MaxAnswers

ScanInit ==
  /\ Init
  /\ status = "NEVER" /\ seen = {} /\ missing = FALSE
  /\ routers = 0 /\ children = 0
  /\ query = FALSE /\ table \in [Routers -> 1..2] /\ answered = {}
  /\ scans = 0 /\ answers = 0

\* topology_reset and the two places that open-code it.
Clear(s) ==
  /\ status' = s /\ seen' = {} /\ missing' = FALSE
  /\ routers' = 0 /\ children' = 0

-----------------------------------------------------------------------------
(* Starting and cancelling. *)

\* thread_topology_refresh, without a stack.
RefreshTooEarly ==
  /\ ~ready /\ scans < MaxScans /\ scans' = scans + 1
  /\ Clear("FAILED")
  /\ UNCHANGED <<vars, query, table, answered, answers>>

\* thread_topology_refresh, unless a scan is in progress.
Refresh ==
  /\ Free /\ ready /\ status # "SCANNING" /\ scans < MaxScans
  /\ scans' = scans + 1
  /\ \/ /\ running # NoNet
        /\ Clear("SCANNING") /\ query' = TRUE /\ answered' = {} /\ answers' = 0
     \/ Clear("FAILED") /\ UNCHANGED <<query, answered, answers>>
  /\ UNCHANGED <<vars, table>>

\* Fault: the diagnostics are cancelled, and what they found is kept.
CancelKeepsCounts ==
  /\ query' = FALSE /\ answered' = {}
  /\ UNCHANGED <<published, table, scans, answers>>

\* otMeshDiagCancel and topology_reset; a reset of the device does as much.
Cancel ==
  /\ query' = FALSE /\ Clear("NEVER") /\ answered' = {}
  /\ UNCHANGED <<table, scans, answers>>

\* thread_join, thread_forget and thread_set_enabled(false) cancel before the
\* interface goes down; without a stack, a forget clears the counts only once it
\* has erased the dataset.
Operation ==
  \/ \E n \in Networks : (Join(n) /\ Cancel) \/ (JoinRefused(n) /\ UNCHANGED scanVars)
  \/ JoinStep /\ UNCHANGED scanVars
  \/ Forget /\ (Cancel \/ (~ready /\ UNCHANGED scanVars))
  \/ EraseForgotten /\ (UNCHANGED scanVars \/ (~ready /\ Cancel))
  \/ SetEnabled(FALSE) /\ Cancel
  \/ SetEnabled(TRUE) /\ UNCHANGED scanVars
  \/ (ThreadInit \/ Attach) /\ UNCHANGED scanVars
  \/ Reset /\ Cancel

-----------------------------------------------------------------------------
(* topology_discover_cb. *)

\* Fault: a router that answers again is counted again.
CountsAgain(r, children_known) ==
  /\ seen' = seen \cup {r} /\ routers' = routers + 1
  /\ missing' = (missing \/ ~children_known)
  /\ children' = children + (IF children_known THEN table[r] ELSE 0)

\* A router is counted the first time it answers.
Counts(r, children_known) ==
  IF r \in seen THEN UNCHANGED <<seen, routers, missing, children>>
  ELSE /\ seen' = seen \cup {r} /\ routers' = routers + 1
       /\ missing' = (missing \/ ~children_known)
       /\ children' = children + (IF children_known THEN table[r] ELSE 0)

Heard(r, children_known) ==
  /\ Free /\ query /\ running # NoNet
  /\ answers < MaxAnswers /\ answers' = answers + 1
  /\ answered' = answered \cup {[router |-> r, network |-> running, table |-> children_known]}

\* error = OT_ERROR_PENDING: one more answer.
Answer(r, children_known) ==
  /\ Heard(r, children_known)
  /\ IF status = "SCANNING"
     THEN Counts(r, children_known)
     ELSE UNCHANGED <<seen, missing, routers, children>>
  /\ UNCHANGED <<vars, status, query, table, scans>>

\* Fault: without an error a scan is complete.
VerdictTrusting(error, gap, any) ==
  IF error THEN IF any THEN "PARTIAL" ELSE "FAILED" ELSE "COMPLETE"

\* Complete only if the scan ended without error and no child table is missing.
Verdict(error, gap, any) ==
  IF ~error /\ ~gap THEN "COMPLETE" ELSE IF any THEN "PARTIAL" ELSE "FAILED"

\* OT_ERROR_NONE comes with the last router ...
LastAnswer(r, children_known) ==
  /\ Heard(r, children_known) /\ query' = FALSE
  /\ IF status = "SCANNING"
     THEN Counts(r, children_known) /\ status' = Verdict(FALSE, missing', TRUE)
     ELSE UNCHANGED published
  /\ UNCHANGED <<vars, table, scans>>

\* ... or the scan ends without one.
LastCallback(error) ==
  /\ Free /\ query /\ query' = FALSE
  /\ status' = IF status = "SCANNING"
               THEN Verdict(error, missing, routers # 0 \/ children # 0) ELSE status
  /\ UNCHANGED <<vars, seen, missing, routers, children, table, answered, scans, answers>>

-----------------------------------------------------------------------------
(* The specification. *)

Callback ==
  \/ \E r \in Routers, children_known \in BOOLEAN :
       Answer(r, children_known) \/ LastAnswer(r, children_known)
  \/ \E error \in BOOLEAN : LastCallback(error)

ScanNext == RefreshTooEarly \/ Refresh \/ Operation \/ Callback

ScanSpec == ScanInit /\ [][ScanNext]_allVars

-----------------------------------------------------------------------------
(* Properties. *)

\* Why they hold: while the scan goes on, the bit mask is the set of routers that
\* answered, the counter its size, and unless a table is missing each gave one;
\* an operation in progress has cancelled every scan of the dataset it changes.
Answerers == {a.router : a \in answered}
Counted == {"SCANNING", "COMPLETE", "PARTIAL"}
ScanInv ==
  /\ status \in Counted =>
       /\ seen = Answerers /\ routers = Cardinality(seen)
       /\ ~missing => \A r \in seen : \E a \in answered : a.router = r /\ a.table
  /\ status = "COMPLETE" => ~missing
  /\ ~ready \/ ~Free => ~query /\ status \notin Counted /\ answered = {}
  /\ \A a \in answered : a.network = stored

\* The screen offers no new scan while one is going on: SCANNING must mean that a
\* query is in progress and will end it, whoever cancels or fails it.
ScanIsAlive == status = "SCANNING" <=> query

\* The counts are those of the routers that answered this scan, once each, all of
\* them on the network the device is on now.
CountsAreOfThisScan ==
  status \in Counted =>
    /\ routers = Cardinality(Answerers)
    /\ running # NoNet => \A a \in answered : a.network = running

\* The screen says COMPLETE only if every router that answered told its children.
CompleteIsComplete ==
  status = "COMPLETE" =>
    \A r \in seen : \E a \in answered : a.router = r /\ a.table
=============================================================================
