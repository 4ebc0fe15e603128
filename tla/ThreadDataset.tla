---------------------------- MODULE ThreadDataset ----------------------------
(***************************************************************************)
(* Which Thread network the device is on: the dataset OpenThread keeps in  *)
(* flash and the network its interface runs, as thread.c changes them.     *)
(* Every operation holds the OpenThread lock from its first change to its  *)
(* last, so one operation is in progress at a time; each call that reaches *)
(* the flash or the radio is a step of its own, may fail, and may be the   *)
(* last one before a reset.                                                *)
(*                                                                         *)
(* External: esp_openthread_auto_start stores a dataset and then enables   *)
(* the interface, and may fail before or after it has stored it;           *)
(* otInstanceErasePersistentInfo erases all or nothing.                    *)
(***************************************************************************)
EXTENDS Naturals

CONSTANTS
  Networks,   \* datasets: found, typed in, fetched, or generated
  NoNet,      \* no dataset; the interface is down
  MaxOps,     \* bound: operations
  MaxResets   \* bound: resets

ASSUME DatasetAssumption == NoNet \notin Networks /\ MaxOps \in Nat /\ MaxResets \in Nat

VARIABLES
  ready,     \* s_ready: the stack came up in this boot
  attached,  \* run_border_router_start_claimed has looked for a dataset
  stored,    \* external: the active dataset in flash
  running,   \* external: the network the interface is enabled on
  op,        \* the operation that holds the lock, or Nothing
  outcome,   \* history: what the last operation of this boot reported
  ops, resets   \* bounds

vars == <<ready, attached, stored, running, op, outcome, ops, resets>>

Maybe == Networks \cup {NoNet}
Nothing == [step |-> "none", net |-> NoNet, previous |-> NoNet]
JoinSteps == {"erase", "resume", "apply", "rollback", "wipe"}
Steps == JoinSteps \cup {"none", "forget"}
NoOutcome == [kind |-> "none", result |-> "ok", net |-> NoNet, previous |-> NoNet]
Outcomes == [kind : {"none", "join", "forget"}, result : {"ok", "undone", "failed"},
             net : Maybe, previous : Maybe]

TypeOK ==
  /\ ready \in BOOLEAN /\ attached \in BOOLEAN
  /\ stored \in Maybe /\ running \in Maybe
  /\ op \in [step : Steps, net : Maybe, previous : Maybe]
  /\ outcome \in Outcomes
  /\ ops \in 0..MaxOps /\ resets \in 0..MaxResets

Init ==
  /\ ready = FALSE /\ attached = FALSE
  /\ stored \in Maybe /\ running = NoNet
  /\ op = Nothing /\ outcome = NoOutcome
  /\ ops = 0 /\ resets = 0

Free == op.step = "none"
At(step) == op.step = step
Goes(step) == op' = [op EXCEPT !.step = step]

\* The operation ends; "undone": it failed, and undoing it did not.
Returns(kind, result) ==
  /\ op' = Nothing
  /\ outcome' = [kind |-> kind, result |-> result, net |-> op.net, previous |-> op.previous]

-----------------------------------------------------------------------------
(* External calls. *)

\* esp_openthread_auto_start(n), when it succeeds and when it fails.
Started(n) == stored' = n /\ running' = n
NotStarted(n) == stored' \in {stored, n} /\ running' = NoNet

\* otInstanceErasePersistentInfo.
Erased == stored' = NoNet
NotErased == UNCHANGED stored

-----------------------------------------------------------------------------
(* thread_join, also reached from thread_form_network, thread_set_dataset_hex. *)

\* A dataset that does not parse or lacks a component touches nothing.
JoinRefused(n) ==
  /\ Free /\ ops < MaxOps /\ ops' = ops + 1
  /\ outcome' = [kind |-> "join", result |-> "undone", net |-> n, previous |-> stored]
  /\ UNCHANGED <<ready, attached, stored, running, op, resets>>

\* The rollback copy is taken and the interface disabled ...
Join(n) ==
  /\ Free /\ ready /\ ops < MaxOps
  /\ ops' = ops + 1
  /\ op' = [step |-> "erase", net |-> n, previous |-> stored]
  /\ running' = NoNet
  /\ UNCHANGED <<ready, attached, stored, outcome, resets>>

\* ... the old identity is erased, or what was there is resumed ...
EraseOld ==
  /\ At("erase")
  /\ \/ Erased /\ Goes("apply") /\ UNCHANGED outcome
     \/ NotErased /\ op.previous # NoNet /\ Goes("resume") /\ UNCHANGED outcome
     \/ NotErased /\ op.previous = NoNet /\ Returns("join", "undone")
  /\ UNCHANGED <<ready, attached, running, ops, resets>>

Resume ==
  /\ At("resume")
  /\ \/ Started(op.previous) /\ Returns("join", "undone")
     \/ NotStarted(op.previous) /\ Returns("join", "failed")
  /\ UNCHANGED <<ready, attached, ops, resets>>

\* ... the candidate is started ...
Apply ==
  /\ At("apply")
  /\ \/ Started(op.net) /\ Returns("join", "ok")
     \/ /\ NotStarted(op.net)
        /\ Goes(IF op.previous # NoNet THEN "rollback" ELSE "wipe")
        /\ UNCHANGED outcome
  /\ UNCHANGED <<ready, attached, ops, resets>>

\* ... and if that failed, the copy is, or nothing is left behind.
Rollback ==
  /\ At("rollback")
  /\ \/ Started(op.previous) /\ Returns("join", "undone")
     \/ NotStarted(op.previous) /\ Returns("join", "failed")
  /\ UNCHANGED <<ready, attached, ops, resets>>

\* Fault: a candidate that could not be enabled stays in flash.
WipeLeavesCandidate ==
  /\ At("wipe") /\ running' = NoNet
  /\ Returns("join", "undone")
  /\ UNCHANGED <<ready, attached, stored, ops, resets>>

Wipe ==
  /\ At("wipe") /\ running' = NoNet
  /\ \/ Erased /\ Returns("join", "undone")
     \/ NotErased /\ Returns("join", "failed")
  /\ UNCHANGED <<ready, attached, ops, resets>>

-----------------------------------------------------------------------------
(* thread_forget, thread_set_enabled, and the border-router start. *)

\* Fault: the interface is left up on the network that is erased.
ForgetKeepsRunning ==
  /\ Free /\ ops < MaxOps /\ ops' = ops + 1
  /\ op' = [step |-> "forget", net |-> NoNet, previous |-> stored]
  /\ UNCHANGED <<ready, attached, stored, running, outcome, resets>>

\* The interface is disabled first; without a stack only flash is erased.
Forget ==
  /\ Free /\ ops < MaxOps /\ ops' = ops + 1
  /\ op' = [step |-> "forget", net |-> NoNet, previous |-> stored]
  /\ running' = NoNet
  /\ UNCHANGED <<ready, attached, stored, outcome, resets>>

\* Then the dataset is erased, or stays.
EraseForgotten ==
  /\ At("forget")
  /\ \/ Erased /\ Returns("forget", "ok")
     \/ NotErased /\ Returns("forget", "failed")
  /\ UNCHANGED <<ready, attached, running, ops, resets>>

\* thread_init: the stack came up, or it never does.  That it does so in the middle
\* of the erase a forget makes without it is left out.
ThreadInit ==
  /\ Free /\ ~ready /\ ready' = TRUE
  /\ UNCHANGED <<attached, stored, running, op, outcome, ops, resets>>

\* thread_set_enabled: up on what is stored, or down; or it fails.
SetEnabled(on) ==
  /\ Free /\ ready /\ ops < MaxOps /\ ops' = ops + 1
  /\ running' \in {running, IF on THEN stored ELSE NoNet}
  /\ UNCHANGED <<ready, attached, stored, op, outcome, resets>>

\* Re-attach with what is stored; never start without a dataset.
Attach ==
  /\ Free /\ ready /\ ~attached /\ attached' = TRUE
  /\ \/ stored # NoNet /\ (Started(stored) \/ NotStarted(stored))
     \/ stored = NoNet /\ UNCHANGED <<stored, running>>
  /\ UNCHANGED <<ready, op, outcome, ops, resets>>

\* Power loss, panic or reboot at any point: only the flash survives.
Reset ==
  /\ resets < MaxResets /\ resets' = resets + 1
  /\ ready' = FALSE /\ attached' = FALSE
  /\ running' = NoNet /\ op' = Nothing /\ outcome' = NoOutcome
  /\ UNCHANGED <<stored, ops>>

-----------------------------------------------------------------------------
(* The specification. *)

JoinStep == EraseOld \/ Resume \/ Apply \/ Rollback \/ Wipe

Next ==
  \/ \E n \in Networks : Join(n) \/ JoinRefused(n)
  \/ JoinStep
  \/ Forget \/ EraseForgotten
  \/ \E on \in BOOLEAN : SetEnabled(on)
  \/ ThreadInit \/ Attach \/ Reset

Spec == Init /\ [][Next]_vars

-----------------------------------------------------------------------------
(* Properties. *)

\* Why the properties hold: an operation works on a disabled interface, its copy
\* is what is in flash until the erase, and a wipe has nothing to go back to.
OperationInv ==
  ~Free =>
    /\ running = NoNet
    /\ op.step = "erase" => stored = op.previous
    /\ op.step = "wipe" => op.previous = NoNet

\* The interface is never left running on a network other than the one the next
\* boot will attach to: what works now is what works after a power cycle.
RunsWhatIsStored == Free /\ running # NoNet => running = stored

\* What an operation reports is what it left in flash: a join that succeeded its
\* network, a forget that succeeded nothing, a join that failed what there was
\* before -- unless the undoing failed too -- so that a failure that was reported
\* cannot become the credentials of the next boot.
ReportIsTrue ==
  Free /\ outcome.kind # "none" =>
    /\ outcome.kind = "join" /\ outcome.result = "ok" => stored = outcome.net
    /\ outcome.kind = "forget" /\ outcome.result = "ok" => stored = NoNet
    /\ outcome.kind = "join" /\ outcome.result = "undone" => stored = outcome.previous

\* Flash takes on only the network of the operation in progress or the one that
\* operation has to restore: no boot, switch or failure makes up a network.
OnlyByOperation ==
  [][stored' # stored => ~Free /\ stored' \in {NoNet, op.net, op.previous}]_vars

\* A join interrupted by a reset leaves the device with its old network or with
\* the new one, as app_wifi_join does.
NeverStranded ==
  [][resets' # resets /\ op.step \in JoinSteps /\ op.previous # NoNet
       => stored' # NoNet]_vars
=============================================================================
