------------------------------- MODULE LogRing -------------------------------
(***************************************************************************)
(* The log ring (log_ring.c): 2 x LOG_RING_LINES slots in no-init PSRAM,   *)
(* one half per boot, behind a data cache that a reset throws away.        *)
(*                                                                         *)
(* hdr, half and slot are what the CPU sees, hdrMem, halfMem and slotMem   *)
(* what PSRAM holds.  Cache lines reach PSRAM when the code writes them    *)
(* back, or whenever the cache likes (the Evict actions); a slot spans     *)
(* three cache lines, so a dirty one may be found torn after a reset.      *)
(* A line is identified by its boot and its number: its text and time are  *)
(* left out, and the checksum is the boot ID a slot was written under (a   *)
(* random 64-bit value: a fresh number here).  The header of the ring and  *)
(* that of a half are one cache line each and change in one step.          *)
(***************************************************************************)
EXTENDS Naturals, FiniteSetsExt

CONSTANTS
  Lines,     \* LOG_RING_LINES (1024 in the code)
  Tasks,     \* tasks that log
  MaxBatch,  \* bound: lines of one esp_log call
  MaxSeq,    \* bound: lines of one boot
  MaxBoots   \* bound: boots that get as far as log_ring_init

ASSUME LogRingAssumption ==
  /\ Lines \in Nat \ {0}
  /\ MaxBatch \in Nat \ {0} /\ MaxSeq \in Nat /\ MaxBoots \in Nat

VARIABLES
  hdr, half, slot,           \* s_ring as the CPU sees it
  hdrMem, halfMem, slotMem,  \* s_ring in PSRAM
  phase,       \* how far log_ring_init has come
  prev,        \* s_prev: the retained half, or None
  prevLatest,  \* s_prev_latest
  latest,      \* s_latest
  unsynced,    \* per task: first and last line it has still to write back
  boots,       \* history: boot IDs drawn so far
  durable,     \* history: lines written back in this boot and not overwritten
  died         \* history: the boot that ran until the last reset, or Nobody

cacheVars == <<hdr, half, slot>>
psramVars == <<hdrMem, halfMem, slotMem>>
ramVars == <<phase, prev, prevLatest, latest, unsynced>>
vars == <<cacheVars, psramVars, ramVars, boots, durable, died>>

None == 2
Halves == {0, 1}
Slots == 0 .. Lines - 1
Clean == [first |-> 0, last |-> 0]
NoSlot == [id |-> 0, seq |-> 0]      \* never written, being rewritten, or torn
NoHalf == [ok |-> FALSE, count |-> 0, id |-> 0]
NoRing == [ok |-> FALSE, count |-> 0, active |-> 0]
Nobody == [id |-> 0, latest |-> 0, durable |-> {}]

SlotType == [id : 0..MaxBoots, seq : 0..MaxSeq]
HalfType == [ok : BOOLEAN, count : 0..MaxBoots, id : 0..MaxBoots]
RingType == [ok : BOOLEAN, count : 0..MaxBoots, active : Halves]

TypeOK ==
  /\ hdr \in RingType /\ hdrMem \in RingType
  /\ half \in [Halves -> HalfType] /\ halfMem \in [Halves -> HalfType]
  /\ slot \in [Halves -> [Slots -> SlotType]]
  /\ slotMem \in [Halves -> [Slots -> SlotType]]
  /\ phase \in {"boot", "sync_ring", "sync_half", "run"}
  /\ prev \in Halves \cup {None}
  /\ prevLatest \in 0..MaxSeq /\ latest \in 0..MaxSeq
  /\ unsynced \in [Tasks -> [first : 0..MaxSeq, last : 0..MaxSeq]]
  /\ boots \in 0..MaxBoots
  /\ durable \subseteq 1..MaxSeq
  /\ died \in [id : 0..MaxBoots, latest : 0..MaxSeq, durable : SUBSET (1..MaxSeq)]

-----------------------------------------------------------------------------
(* Slots. *)

IndexOf(seq) == (seq - 1) % Lines

\* slot_valid, against the ID of the half the slot is in.
Valid(h, i) == slot[h][i].seq # 0 /\ slot[h][i].id = half[h].id

\* The sequence numbers log_ring_get answers for a half whose newest is n.
Served(h, n) ==
  {seq \in 1..n : /\ n - seq < Lines
                  /\ slot[h][IndexOf(seq)].seq = seq
                  /\ Valid(h, IndexOf(seq))}

\* s_cur.
Cur == hdr.active

-----------------------------------------------------------------------------
(* Boot and reset. *)

Init ==
  /\ hdr = NoRing /\ hdrMem = NoRing
  /\ half = [h \in Halves |-> NoHalf] /\ halfMem = half
  /\ slot = [h \in Halves |-> [i \in Slots |-> NoSlot]] /\ slotMem = slot
  /\ phase = "boot" /\ prev = None /\ prevLatest = 0 /\ latest = 0
  /\ unsynced = [t \in Tasks |-> Clean]
  /\ boots = 0 /\ durable = {} /\ died = Nobody

\* The header of the ring and of the half it calls active agree.
Trusted ==
  /\ hdr.ok
  /\ half[hdr.active].ok
  /\ half[hdr.active].count = hdr.count

\* recover_previous: the newest line of a half that still validates.
Newest(h) == Max({0} \cup {slot[h][i].seq : i \in {j \in Slots : Valid(h, j)}})

\* log_ring_init: adopt the active half as the previous boot's and take the
\* other one, or start over; then stamp the half with a new boot ID ...
LogRingInit ==
  /\ phase = "boot"
  /\ boots < MaxBoots
  /\ \/ /\ Trusted
        /\ prev' = hdr.active
        /\ prevLatest' = Newest(hdr.active)
        /\ hdr' = [hdr EXCEPT !.count = @ + 1, !.active = 1 - @]
     \/ /\ ~Trusted
        /\ hdr' = [ok |-> TRUE, count |-> 1, active |-> 0]
        /\ UNCHANGED <<prev, prevLatest>>
  /\ boots' = boots + 1
  /\ half' = [half EXCEPT ![hdr'.active] =
                [ok |-> TRUE, count |-> hdr'.count, id |-> boots']]
  /\ phase' = "sync_ring"
  /\ UNCHANGED <<slot, psramVars, latest, unsynced, durable, died>>

\* Fault: the header of the ring is left to the cache.
SyncRingForgets ==
  /\ phase = "sync_ring"
  /\ phase' = "sync_half"
  /\ UNCHANGED <<cacheVars, psramVars, prev, prevLatest, latest, unsynced, boots,
                 durable, died>>

\* ... and write both headers back before the hook is installed.
SyncRing ==
  /\ phase = "sync_ring"
  /\ hdrMem' = hdr
  /\ phase' = "sync_half"
  /\ UNCHANGED <<cacheVars, halfMem, slotMem, prev, prevLatest, latest, unsynced,
                 boots, durable, died>>

SyncHalf ==
  /\ phase = "sync_half"
  /\ halfMem' = [halfMem EXCEPT ![Cur] = half[Cur]]
  /\ phase' = "run"
  /\ UNCHANGED <<cacheVars, hdrMem, slotMem, prev, prevLatest, latest, unsynced,
                 boots, durable, died>>

\* RAM starts over; the CPU sees what PSRAM holds.
Restart ==
  /\ hdr' = hdrMem' /\ half' = halfMem' /\ slot' = slotMem'
  /\ phase' = "boot" /\ prev' = None /\ prevLatest' = 0 /\ latest' = 0
  /\ unsynced' = [t \in Tasks |-> Clean]
  /\ durable' = {}
  /\ UNCHANGED boots

\* Slots a reset may tear: the dirty ones, and the one of a line that is just
\* being committed.
Tearable ==
  {i \in Slots : slot[Cur][i] # slotMem[Cur][i]}
    \cup IF phase = "run" THEN {IndexOf(latest + 1)} ELSE {}

\* Lines of a boot that ended at n lines and that no later line, not even one
\* caught in the middle of its commit, has overwritten.
Retained(n) == {seq \in 1..n : seq + Lines > n + 1}

\* A panic, a watchdog or esp_restart, at any moment.
WarmReset ==
  /\ \E torn \in SUBSET Tearable :
       slotMem' = [slotMem EXCEPT ![Cur] =
                     [i \in Slots |-> IF i \in torn THEN NoSlot ELSE @[i]]]
  /\ UNCHANGED <<hdrMem, halfMem>>
  /\ Restart
  /\ died' = CASE phase = "run"  -> [id |-> half[Cur].id, latest |-> latest,
                                     durable |-> durable \cap Retained(latest)]
               [] phase = "boot" -> died       \* nothing was touched yet
               [] OTHER          -> Nobody     \* it never ran

\* A power cut leaves garbage, which the magic numbers reject.
PowerCut ==
  /\ hdrMem' = NoRing
  /\ halfMem' = [h \in Halves |-> NoHalf]
  /\ slotMem' = [h \in Halves |-> [i \in Slots |-> NoSlot]]
  /\ Restart
  /\ died' = Nobody

-----------------------------------------------------------------------------
(* The cache. *)

EvictRing ==
  /\ hdrMem # hdr
  /\ hdrMem' = hdr
  /\ UNCHANGED <<cacheVars, halfMem, slotMem, ramVars, boots, durable, died>>

EvictHalf(h) ==
  /\ halfMem[h] # half[h]
  /\ halfMem' = [halfMem EXCEPT ![h] = half[h]]
  /\ UNCHANGED <<cacheVars, hdrMem, slotMem, ramVars, boots, durable, died>>

EvictSlot(h, i) ==
  /\ slotMem[h][i] # slot[h][i]
  /\ slotMem' = [slotMem EXCEPT ![h][i] = slot[h][i]]
  /\ UNCHANGED <<cacheVars, hdrMem, halfMem, ramVars, boots, durable, died>>

-----------------------------------------------------------------------------
(* Logging. *)

\* The lines k new ones leave in the slots of the current half.
Written(k) ==
  [i \in Slots |->
     LET new == {n \in latest + 1 .. latest + k : IndexOf(n) = i}
     IN  IF new = {} THEN slot[Cur][i] ELSE [id |-> half[Cur].id, seq |-> Max(new)]]

\* ingest or log_ring_line: k lines under s_lock, to be written back after it.
Commit(t, k) ==
  /\ phase = "run"
  /\ unsynced[t] = Clean
  /\ latest + k <= MaxSeq
  /\ latest' = latest + k
  /\ slot' = [slot EXCEPT ![Cur] = Written(k)]
  /\ unsynced' = [unsynced EXCEPT ![t] = [first |-> latest + 1, last |-> latest + k]]
  /\ durable' = {n \in durable : n + Lines > latest'}
  /\ UNCHANGED <<hdr, half, psramVars, phase, prev, prevLatest, boots, died>>

\* write_back, slot by slot: the slot may meanwhile hold a younger line.
WriteBack(t) ==
  LET w == unsynced[t]
      i == IndexOf(w.first)
  IN  /\ w # Clean /\ w.last - w.first < Lines
      /\ slotMem' = [slotMem EXCEPT ![Cur][i] = slot[Cur][i]]
      /\ durable' = durable \cup {slot[Cur][i].seq}
      /\ unsynced' = [unsynced EXCEPT ![t] =
                        IF w.first = w.last THEN Clean ELSE [w EXCEPT !.first = @ + 1]]
      /\ UNCHANGED <<cacheVars, hdrMem, halfMem, phase, prev, prevLatest, latest,
                     boots, died>>

\* More lines than the ring has: one call for the whole half.
WriteBackAll(t) ==
  /\ unsynced[t].last - unsynced[t].first >= Lines
  /\ slotMem' = [slotMem EXCEPT ![Cur] = slot[Cur]]
  /\ durable' = durable \cup {slot[Cur][i].seq : i \in Slots}
  /\ unsynced' = [unsynced EXCEPT ![t] = Clean]
  /\ UNCHANGED <<cacheVars, hdrMem, halfMem, phase, prev, prevLatest, latest, boots,
                 died>>

-----------------------------------------------------------------------------
(* The specification. *)

Boot == LogRingInit \/ SyncRing \/ SyncHalf

Cache ==
  \/ EvictRing
  \/ \E h \in Halves : EvictHalf(h) \/ \E i \in Slots : EvictSlot(h, i)

Log(t) ==
  \/ \E k \in 1..MaxBatch : Commit(t, k)
  \/ WriteBack(t) \/ WriteBackAll(t)

Next ==
  \/ Boot \/ WarmReset \/ PowerCut \/ Cache
  \/ \E t \in Tasks : Log(t)

Spec == Init /\ [][Next]_vars

-----------------------------------------------------------------------------
(* Properties. *)

\* A warm reset leaves the lines of the boot it ended for the next boot to
\* serve: the previous boot /logs shows is that boot, every line it had
\* written back and not overwritten is there, and none it did not write.
\* Whatever reset came before, the running boot serves every line of its own it
\* has not overwritten, and the two halves are never of one boot.
LastWords ==
  phase = "run" =>
    /\ Served(Cur, latest) = {seq \in 1..latest : seq + Lines > latest}
    /\ prev # None => prev # Cur /\ half[prev].id # half[Cur].id
    /\ died # Nobody =>
         /\ prev # None
         /\ half[prev].id = died.id
         /\ died.durable \subseteq Served(prev, prevLatest)
         /\ prevLatest <= died.latest
==============================================================================
