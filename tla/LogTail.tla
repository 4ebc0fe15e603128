------------------------------- MODULE LogTail -------------------------------
(***************************************************************************)
(* GET /logs (h_logs in otbr_rest.c) and tools/logtail.py --follow on top  *)
(* of LogRing.  The handler takes the state of the ring once, then reads   *)
(* line after line while the writers go on and skips what it can no longer *)
(* get; the tool turns pages into one stream of lines and notes the gaps.  *)
(*                                                                         *)
(* A reset in the middle of a poll makes its next request fail (an         *)
(* OSError): a boot takes longer than the time between two requests of one *)
(* poll.  The poll is then abandoned, with what it has printed printed.    *)
(***************************************************************************)
EXTENDS LogRing, Sequences, SequencesExt

CONSTANTS
  PageLimit,   \* PAGE_LIMIT of the tool, the handler's limit (200)
  Quiet        \* no line is logged while a page is being served

ASSUME LogTailAssumption == PageLimit \in Nat \ {0} /\ Quiet \in BOOLEAN

VARIABLES
  req,      \* the request h_logs is serving
  pc,       \* where poll() is
  bootId,   \* Tail.boot_id, 0 for None
  cursor,   \* Tail.cursor
  newId,    \* boot_id of the page that revealed a reboot
  out,      \* history: lines written to the output, of boots the device has
  again,    \* history: lines written to it when they were already there
  skipped   \* history: lines the last page passed without a line or a note

tailVars == <<pc, bootId, cursor, newId, out, again, skipped>>
allVars == <<vars, req, tailVars>>

NoRequest == [boot |-> "none", id |-> 0, latest |-> 0, next |-> 0, lines |-> <<>>]

TailInit ==
  /\ Init
  /\ req = NoRequest /\ pc = "sleep" /\ bootId = 0 /\ cursor = 0 /\ newId = 0
  /\ out = {} /\ again = {} /\ skipped = {}

-----------------------------------------------------------------------------
(* The handler. *)

HalfOf(boot) == IF boot = "previous" THEN prev ELSE Cur
LatestOf(boot) == IF boot = "previous" THEN prevLatest ELSE latest

\* A request for the lines of a boot after number n: log_ring_info.
Page(boot, n) ==
  LET last == LatestOf(boot)
      oldest == IF last = 0 THEN 0 ELSE IF last > Lines THEN last - Lines + 1 ELSE 1
  IN  [boot |-> boot, id |-> half[HalfOf(boot)].id, latest |-> last,
       next |-> IF n >= last THEN 0 ELSE IF n + 1 < oldest THEN oldest ELSE n + 1,
       lines |-> <<>>]

PageFull ==
  \/ req.next = 0 \/ req.next > req.latest
  \/ Len(req.lines) = PageLimit

\* One turn of the loop: log_ring_get, or continue.
ServeLine ==
  /\ req # NoRequest /\ ~PageFull
  /\ req' = [req EXCEPT
       !.next = @ + 1,
       !.lines = IF req.next \in Served(HalfOf(req.boot), LatestOf(req.boot))
                 THEN Append(@, req.next) ELSE @]
  /\ UNCHANGED <<vars, tailVars>>

-----------------------------------------------------------------------------
(* The tool. *)

\* fetch(): the request reaches a device that is running and has the boot.
Ask(boot, n) ==
  /\ phase = "run" /\ req = NoRequest
  /\ boot = "previous" => prev # None
  /\ req' = Page(boot, n)

\* The page is complete and comes back.
Answered(at) == pc = at /\ req # NoRequest /\ PageFull

Line(n) == [id |-> req.id, seq |-> n]

\* Numbers the page jumps over between its first and its last line, and those
\* of a page none of whose lines could be read.
InnerGap ==
  IF req.lines = <<>> THEN {}
  ELSE (Head(req.lines) .. Last(req.lines)) \ ToSet(req.lines)
EmptyTail == IF req.lines = <<>> THEN cursor + 1 .. req.latest ELSE {}

Printed == {Line(n) : n \in ToSet(req.lines)}

\* Fault: a gap in front of the first line is not noted either.
EmitWithoutNote(gap) ==
  /\ out' = out \cup Printed /\ again' = again \cup (out \cap Printed)
  /\ skipped' =
       {[line |-> Line(n), of |-> req.boot] :
          n \in gap \cup IF req.lines = <<>> THEN {} ELSE cursor + 1 .. Head(req.lines) - 1}

\* _consume: write the lines; a gap in front of the first is noted, others not.
Emit(gap) ==
  /\ out' = out \cup Printed /\ again' = again \cup (out \cap Printed)
  /\ skipped' = {[line |-> Line(n), of |-> req.boot] : n \in gap}

CursorAfter == IF req.lines = <<>> THEN cursor ELSE Last(req.lines)

\* There are more lines on the device than the page had.
More == req.lines # <<>> /\ Last(req.lines) < req.latest

\* poll(): the first request goes to the running boot.
Poll ==
  /\ pc = "sleep"
  /\ Ask("current", IF bootId = 0 THEN 0 ELSE cursor)
  /\ pc' = "poll"
  /\ UNCHANGED <<vars, bootId, cursor, newId, out, again, skipped>>

\* The same boot as before, or the first one: print, and drain what is left.
PollSameBoot ==
  /\ Answered("poll")
  /\ bootId \in {0, req.id}
  /\ bootId' = req.id
  /\ Emit(InnerGap) /\ cursor' = CursorAfter
  /\ pc' = IF More THEN "drain" ELSE "sleep"
  /\ req' = NoRequest
  /\ UNCHANGED <<vars, newId>>

\* Another boot: that page was cut at the old boot's cursor and is put aside.
PollNewBoot ==
  /\ Answered("poll")
  /\ bootId \notin {0, req.id}
  /\ newId' = req.id
  /\ pc' = "old"
  /\ req' = NoRequest
  /\ UNCHANGED <<vars, bootId, cursor, out, again, skipped>>

\* First its predecessor, whose last lines may be retained.
AskPrevious ==
  /\ pc \in {"old", "drain_old"}
  /\ Ask("previous", cursor)
  /\ UNCHANGED <<vars, tailVars>>

\* On to the boot that is running now, from its first line.
NextBoot ==
  /\ bootId' = newId /\ newId' = 0
  /\ cursor' = 0
  /\ pc' = "drain"
  /\ req' = NoRequest

\* Not the boot that was followed, or none: its last lines are noted as lost.
PreviousLost ==
  /\ \/ pc = "old" /\ phase = "run" /\ prev = None
     \/ Answered("old") /\ req.id # bootId
  /\ NextBoot
  /\ UNCHANGED <<vars, out, again, skipped>>

\* The boot that was followed: print, and drain it to its end.
PreviousMore ==
  /\ pc \in {"old", "drain_old"} /\ Answered(pc) /\ req.id = bootId
  /\ More
  /\ Emit(InnerGap) /\ cursor' = CursorAfter
  /\ pc' = "drain_old"
  /\ req' = NoRequest
  /\ UNCHANGED <<vars, bootId, newId>>

PreviousEnd ==
  /\ pc \in {"old", "drain_old"} /\ Answered(pc) /\ req.id = bootId
  /\ ~More
  /\ Emit(InnerGap \cup EmptyTail)
  /\ NextBoot
  /\ UNCHANGED vars

\* drain('current'): page after page until the cursor is at the newest line.
AskCurrent ==
  /\ pc = "drain"
  /\ Ask("current", cursor)
  /\ UNCHANGED <<vars, tailVars>>

Drain ==
  /\ Answered("drain")
  /\ Emit(InnerGap \cup EmptyTail)
  /\ cursor' = IF EmptyTail # {} THEN req.latest ELSE CursorAfter
  /\ pc' = IF More THEN "drain" ELSE "sleep"
  /\ req' = NoRequest
  /\ UNCHANGED <<vars, bootId, newId>>

-----------------------------------------------------------------------------
(* The specification. *)

Device ==
  /\ \/ Boot \/ Cache
     \/ \E t \in Tasks : Log(t) /\ (Quiet => req = NoRequest \/ latest' = latest)
  /\ UNCHANGED <<req, tailVars>>

\* The poll under way fails; the tool tries again after its interval.
\* Lines of a boot in neither half can never be served again: history forgets them.
DeviceResets ==
  /\ WarmReset \/ PowerCut
  /\ req' = NoRequest /\ pc' = "sleep" /\ newId' = 0
  /\ out' = {l \in out : \E h \in Halves : halfMem'[h].id = l.id} /\ skipped' = {}
  /\ UNCHANGED <<bootId, cursor, again>>

Tool ==
  \/ Poll \/ PollSameBoot \/ PollNewBoot
  \/ AskPrevious \/ PreviousLost \/ PreviousMore \/ PreviousEnd
  \/ AskCurrent \/ Drain

TailNext == Device \/ DeviceResets \/ ServeLine \/ Tool

TailSpec == TailInit /\ [][TailNext]_allVars

-----------------------------------------------------------------------------
(* Properties. *)

\* Lines overwritten before they were fetched are reported, and what the tool
\* jumps over without a note was never safe from the crash that ended a boot:
\* a line that had been written back and not overwritten is printed.
NeverSilentlySkipped ==
  \A s \in skipped :
    /\ s.of = "previous"
    /\ s.line.id = died.id => s.line.seq \notin died.durable

\* No line is printed twice, over pages, polls and reboots.
NoLineTwice == again = {}

\* So, but for the lines a note accounts for, each line is printed exactly once.
EachLineOnce == NeverSilentlySkipped /\ NoLineTwice
==============================================================================
