---------------------------- MODULE LogAssembly ----------------------------
(***************************************************************************)
(* How esp_log calls become the lines of LogRing (capture_vprintf, ingest  *)
(* and commit_locked in log_ring.c).  A call carries any mix of whole and  *)
(* partial lines; a task in the middle of a line holds one of a few slots  *)
(* until its newline, and loses it to another task when all are held.      *)
(*                                                                         *)
(* A call is taken apart item by item: a piece of text, an escape sequence *)
(* that cleaning removes, or a newline.  It holds s_lock all the while, so *)
(* calls of other tasks come before or after it; what the ring does with a *)
(* line is LogRing's.  The order of the lines of different tasks and the   *)
(* length at which a line is cut off are left out, as are lines with       *)
(* nothing in them.  log_ring_line commits a line past the slots and       *)
(* changes nothing of what is here.                                        *)
(***************************************************************************)
EXTENDS Naturals, Sequences, FiniteSetsExt

CONSTANTS
  Writers,       \* tasks that log
  Free,          \* NULL, for a slot nobody holds
  PendingSlots,  \* PENDING_SLOTS
  MaxText        \* bound: pieces of text the tasks write between them

ASSUME AssemblyAssumption ==
  Free \notin Writers /\ PendingSlots \in Nat \ {0} /\ MaxText \in Nat

VARIABLES
  held,     \* s_pending
  victim,   \* s_pending_victim
  call,     \* ingest under s_lock: its task, its slot p, and the segment so far, cleaned
  lines,    \* external: the lines in the ring, those of a task apart, the oldest first
  written,  \* history: pieces each task has written
  ends      \* history: the pieces a newline followed, and the task's latest one

assemblyVars == <<held, victim, call, lines, written, ends>>

Holders == 1..PendingSlots
NoHolder == 0
Empty == [task |-> Free, text |-> <<>>]
NoCall == [task |-> Free, p |-> NoHolder, any |-> FALSE, segment |-> <<>>]
Piece(t, n) == [task |-> t, n |-> n]

AssemblyInit ==
  /\ held = [i \in Holders |-> Empty] /\ victim = 0 /\ call = NoCall
  /\ lines = [t \in Writers |-> <<>>]
  /\ written = [t \in Writers |-> 0] /\ ends = {}

-----------------------------------------------------------------------------

\* commit_locked: a line, for the task whose text it begins with.
CommitLine(text, why) ==
  lines' = IF text = <<>> THEN lines
           ELSE [lines EXCEPT ![text[1].task] = Append(@, [text |-> text, why |-> why])]

\* find_pending_locked.
HolderOf(t) ==
  IF \E i \in Holders : held[i].task = t
  THEN CHOOSE i \in Holders : held[i].task = t /\ \A j \in 1..i - 1 : held[j].task # t
  ELSE NoHolder

TextOf(p) == IF p = NoHolder THEN <<>> ELSE held[p].text

\* Fault: the text of the task that loses its slot is dropped.
ClaimOver(t, text) ==
  LET i == IF HolderOf(Free) # NoHolder THEN HolderOf(Free) ELSE victim + 1 IN
  /\ held' = [held EXCEPT ![i] = [task |-> t, text |-> text]]
  /\ victim' = IF HolderOf(Free) # NoHolder THEN victim ELSE (victim + 1) % PendingSlots
  /\ UNCHANGED lines

\* claim_pending_locked, for some text: a free slot, or the next one in turn, whose
\* own text becomes a line.
Claim(t, text) ==
  \/ /\ HolderOf(Free) # NoHolder
     /\ held' = [held EXCEPT ![HolderOf(Free)] = [task |-> t, text |-> text]]
     /\ UNCHANGED <<victim, lines>>
  \/ /\ HolderOf(Free) = NoHolder
     /\ CommitLine(held[victim + 1].text, "evicted")
     /\ held' = [held EXCEPT ![victim + 1] = [task |-> t, text |-> text]]
     /\ victim' = (victim + 1) % PendingSlots

-----------------------------------------------------------------------------
(* capture_vprintf, which hands a call to ingest. *)

Capture(t) ==
  /\ call = NoCall
  /\ call' = [NoCall EXCEPT !.task = t, !.p = HolderOf(t)]
  /\ UNCHANGED <<held, victim, lines, written, ends>>

InCall == call.task # Free

Text ==
  /\ InCall /\ MapThenSumSet(LAMBDA t : written[t], Writers) < MaxText
  /\ written' = [written EXCEPT ![call.task] = @ + 1]
  /\ call' = [call EXCEPT !.any = TRUE,
                          !.segment = Append(@, Piece(call.task, written[call.task] + 1))]
  /\ UNCHANGED <<held, victim, lines, ends>>

\* append_clean drops it, but the segment is not an empty one.
Escape ==
  /\ InCall
  /\ call' = [call EXCEPT !.any = TRUE]
  /\ UNCHANGED <<held, victim, lines, written, ends>>

\* The end of a line: what the slot holds, if the task has one, and the segment.
Newline ==
  /\ InCall
  /\ IF call.any \/ TextOf(call.p) # <<>>
     THEN CommitLine(TextOf(call.p) \o call.segment, "newline")
     ELSE UNCHANGED lines
  /\ held' = IF call.p = NoHolder THEN held ELSE [held EXCEPT ![call.p] = Empty]
  /\ call' = [NoCall EXCEPT !.task = call.task]
  /\ ends' = ends \cup {Piece(call.task, written[call.task])}
  /\ UNCHANGED <<victim, written>>

\* The end of the call; what follows its last newline waits in a slot.
CallEnds ==
  /\ InCall
  /\ \/ ~call.any /\ UNCHANGED <<held, victim, lines>>
     \/ /\ call.any /\ call.p # NoHolder
        /\ held' = [held EXCEPT ![call.p].text = @ \o call.segment]
        /\ UNCHANGED <<victim, lines>>
     \/ call.any /\ call.p = NoHolder /\ Claim(call.task, call.segment)
  /\ call' = NoCall
  /\ UNCHANGED <<written, ends>>

AssemblyNext == (\E t \in Writers : Capture(t)) \/ Text \/ Escape \/ Newline \/ CallEnds

AssemblySpec == AssemblyInit /\ [][AssemblyNext]_assemblyVars

-----------------------------------------------------------------------------
(* Properties. *)

\* The text goes on after the n-th piece of t.
GoesOn(t, text, n) == \A k \in 1..Len(text) : text[k] = Piece(t, n + k)

\* What a task has written of the line it is in the middle of.
Unfinished(t) == TextOf(HolderOf(t)) \o (IF call.task = t THEN call.segment ELSE <<>>)

\* The last piece in the first i lines of t.
LastOf(t, i) == IF i = 0 THEN 0 ELSE lines[t][i].text[Len(lines[t][i].text)].n

\* However tasks interleave in the middle of their lines, and whoever loses a slot:
\* a line is of one task, every piece a task wrote is there once and in its order, a
\* line goes on over no newline, and short of one it ends only by losing its slot.
LinesAreWhole ==
  /\ \A t \in Writers :
       LET n == Len(lines[t]) IN
       /\ GoesOn(t, Unfinished(t), LastOf(t, n))
       /\ written[t] = LastOf(t, n) + Len(Unfinished(t))
       /\ \A i \in 1..n :
            LET line == lines[t][i]
                size == Len(line.text)
            IN  /\ GoesOn(t, line.text, LastOf(t, i - 1))
                /\ \A k \in 1..size - 1 : line.text[k] \notin ends
                /\ line.why = "newline" => line.text[size] \in ends
  /\ \A i, j \in Holders : i # j /\ held[i].task = held[j].task => held[i].task = Free
=============================================================================
