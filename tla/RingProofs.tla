----------------------------- MODULE RingProofs -----------------------------
(***************************************************************************)
(* The log ring and the ring of discharge samples.  LogRing: what a warm   *)
(* reset leaves in the log ring is served by the next boot.  LogTail: the  *)
(* reader of the ring's pages sees every line of a boot once and in order. *)
(* LogAssembly: the lines are those the tasks wrote.  DischargeRate: a     *)
(* drain rate is taken within one discharge.  All for any ring size, any   *)
(* number of tasks and of their slots, any page limit and history size.    *)
(***************************************************************************)
EXTENDS LogTail, LogAssembly, DischargeRate, Integers,
        FiniteSetTheorems, WellFoundedInduction, TLAPS

\* Types without the bounds, which only keep TLC's instances small.
AnySlot == [id : Nat, seq : Nat]
AnyHalf == [ok : BOOLEAN, count : Nat, id : Nat]
AnyRing == [ok : BOOLEAN, count : Nat, active : Halves]

RingTyped ==
  /\ hdr \in AnyRing /\ hdrMem \in AnyRing
  /\ half \in [Halves -> AnyHalf] /\ halfMem \in [Halves -> AnyHalf]
  /\ slot \in [Halves -> [Slots -> AnySlot]] /\ slotMem \in [Halves -> [Slots -> AnySlot]]
  /\ phase \in {"boot", "sync_ring", "sync_half", "run"}
  /\ prev \in Halves \cup {None}
  /\ prevLatest \in Nat /\ latest \in Nat /\ boots \in Nat
  /\ unsynced \in [Tasks -> [first : Nat, last : Nat]]
  /\ durable \subseteq Nat
  /\ died \in [id : Nat, latest : Nat, durable : SUBSET Nat]

\* Boot IDs are drawn once.
FreshIds ==
  /\ \A h \in Halves : half[h].id <= boots /\ halfMem[h].id <= boots
  /\ \A h \in Halves, i \in Slots : slot[h][i].id <= boots /\ slotMem[h][i].id <= boots
  /\ phase # "boot" =>
       /\ hdr.ok /\ half[Cur] = [ok |-> TRUE, count |-> hdr.count, id |-> boots]
       /\ boots # 0 /\ half[1 - Cur].id # boots
       /\ prev \in {1 - Cur, None}

\* What PSRAM holds of the headers: all of them while booting, those of this boot once
\* log_ring_init has written them back.
Headers ==
  /\ phase = "boot" => prev = None /\ hdrMem = hdr /\ halfMem = half /\ slotMem = slot
  /\ phase \in {"sync_half", "run"} => hdrMem = hdr
  /\ phase = "run" => halfMem[Cur] = half[Cur]
  /\ phase # "run" => latest = 0 /\ durable = {} /\ \A t \in Tasks : unsynced[t] = Clean

\* The slots of the running boot: one that carries its ID holds the newest line with that
\* index, and every line that was logged left the ID in its slot.
OwnSlots ==
  phase # "boot" =>
    /\ \A i \in Slots : slot[Cur][i].id = boots =>
         /\ slot[Cur][i].seq \in 1..latest
         /\ IndexOf(slot[Cur][i].seq) = i
         /\ slot[Cur][i].seq + Lines > latest
    /\ \A n \in 1..latest : slot[Cur][IndexOf(n)].id = boots
    /\ \A i \in Slots : slotMem[Cur][i].id = boots => slotMem[Cur][i].seq <= latest

Unsynced ==
  \A t \in Tasks : unsynced[t] # Clean =>
    1 <= unsynced[t].first /\ unsynced[t].first <= unsynced[t].last /\ unsynced[t].last <= latest

\* Lines that were written back are in PSRAM.
Durable ==
  \A n \in durable :
    /\ n \in 1..latest /\ n + Lines > latest
    /\ slot[Cur][IndexOf(n)] = [id |-> boots, seq |-> n]
    /\ slotMem[Cur][IndexOf(n)] = [id |-> boots, seq |-> n]

\* The boot that died, as the next log_ring_init finds it ...
Found ==
  phase = "boot" /\ died # Nobody =>
    /\ Trusted /\ half[Cur].id = died.id
    /\ \A n \in died.durable :
         n >= 1 /\ n <= died.latest /\ n + Lines > died.latest + 1
         /\ slot[Cur][IndexOf(n)] = [id |-> died.id, seq |-> n]
    /\ \A i \in Slots : Valid(Cur, i) => slot[Cur][i].seq <= died.latest

\* ... and as it is served after it.
ServedAgain ==
  phase # "boot" /\ died # Nobody =>
    /\ prev # None /\ half[prev].id = died.id
    /\ died.durable \subseteq Served(prev, prevLatest)
    /\ prevLatest <= died.latest

RingInv ==
  RingTyped /\ FreshIds /\ Headers /\ OwnSlots /\ Unsynced /\ Durable /\ Found /\ ServedAgain

-----------------------------------------------------------------------------
(* Remainders, which index the slots, and the maximum of a finite set.     *)

LEMMA Multiples ==
  ASSUME NEW b \in Nat \ {0}, NEW p \in Int, NEW q \in Int, p < q
  PROVE  b * p + b <= b * q
OBVIOUS

LEMMA Division ==
  ASSUME NEW b \in Nat \ {0}, NEW a \in Nat
  PROVE  a \div b \in Int /\ a % b \in 0 .. b - 1 /\ a = b * (a \div b) + (a % b)
OBVIOUS

LEMMA Unique ==
  ASSUME NEW b \in Nat \ {0}, NEW p \in Int, NEW q \in Int,
         NEW r \in 0 .. b - 1, NEW s \in 0 .. b - 1, b * p + r = b * q + s
  PROVE  r = s
<1>1. CASE p < q
  BY <1>1, Multiples
<1>2. CASE q < p
  BY <1>2, Multiples
<1>3. CASE p = q
  BY <1>3
<1>. QED
  BY <1>1, <1>2, <1>3

LEMMA Apart ==
  ASSUME NEW b \in Nat \ {0}, NEW m \in Nat, NEW n \in Nat, m < n, m % b = n % b
  PROVE  m + b <= n
<1>. DEFINE p == m \div b
            q == n \div b
            r == m % b
<1>1. p \in Int /\ q \in Int /\ r \in Nat
  BY Division
<1>2. m = b * p + r /\ n = b * q + r
  BY Division
<1>. HIDE DEF p, q, r
<1>3. p < q
  <2>1. CASE q < p
    BY <1>1, <1>2, <2>1, Multiples
  <2>2. CASE p = q
    BY <1>1, <1>2, <2>2
  <2>. QED
    BY <1>1, <2>1, <2>2
<1>. QED
  BY <1>1, <1>2, <1>3, Multiples

LEMMA OnceRound ==
  ASSUME NEW b \in Nat \ {0}, NEW m \in Nat
  PROVE  (m + b) % b = m % b
<1>. DEFINE p == m \div b
            q == (m + b) \div b
            r == m % b
            s == (m + b) % b
<1>1. p \in Int /\ q \in Int /\ r \in 0 .. b - 1 /\ s \in 0 .. b - 1
  BY Division
<1>2. m = b * p + r /\ m + b = b * q + s
  BY Division
<1>. HIDE DEF p, q, r, s
<1>3. b * (p + 1) = b * p + b
  BY <1>1
<1>4. b * (p + 1) + r = b * q + s
  BY <1>1, <1>2, <1>3
<1>5. r = s
  BY <1>1, <1>4, Unique
<1>. QED
  BY <1>5 DEF r, s

LEMMA Small ==
  ASSUME NEW b \in Nat \ {0}, NEW m \in 0 .. b - 1
  PROVE  m % b = m
<1>. DEFINE p == m \div b
            s == m % b
<1>1. p \in Int /\ s \in 0 .. b - 1 /\ m = b * p + s
  BY Division
<1>. HIDE DEF p, s
<1>2. b * 0 + m = b * p + s
  BY <1>1
<1>3. m = s
  BY <1>1, <1>2, Unique
<1>. QED
  BY <1>3 DEF s

\* The slot of a line: lines that share one are a whole ring apart.
LEMMA IndexIsSlot ==
  ASSUME NEW n \in Nat, n >= 1
  PROVE  IndexOf(n) \in Slots
<1>. DEFINE m == n - 1
<1>1. m \in Nat
  OBVIOUS
<1>2. m % Lines \in 0 .. Lines - 1
  BY <1>1, LogRingAssumption, Division
<1>. QED
  BY <1>2 DEF IndexOf, Slots

LEMMA IndexApart ==
  ASSUME NEW m \in Nat, NEW n \in Nat, 1 <= m, m < n, IndexOf(m) = IndexOf(n)
  PROVE  m + Lines <= n
<1>. DEFINE a == m - 1
            b == n - 1
<1>1. a \in Nat /\ b \in Nat /\ a < b /\ m = a + 1 /\ n = b + 1
  OBVIOUS
<1>2. a % Lines = b % Lines
  BY DEF IndexOf
<1>. HIDE DEF a, b
<1>3. a + Lines <= b
  BY <1>1, <1>2, LogRingAssumption, Apart
<1>. QED
  BY <1>1, <1>3, LogRingAssumption

LEMMA IndexAgain ==
  ASSUME NEW n \in Nat, n >= 1
  PROVE  IndexOf(n + Lines) = IndexOf(n)
<1>. DEFINE m == n - 1
<1>1. m \in Nat
  OBVIOUS
<1>2. (m + Lines) % Lines = m % Lines
  BY <1>1, LogRingAssumption, OnceRound
<1>3. n + Lines \in Nat /\ (n + Lines) - 1 = m + Lines
  BY LogRingAssumption
<1>4. \A q \in Nat : IndexOf(q) = (q - 1) % Lines
  BY DEF IndexOf
<1>5. IndexOf(n + Lines) = ((n + Lines) - 1) % Lines
  BY <1>3, <1>4
<1>6. IndexOf(n) = m % Lines
  BY <1>4
<1>. QED
  BY <1>2, <1>3, <1>5, <1>6

LEMMA IndexOfFirst ==
  ASSUME NEW i \in Slots
  PROVE  i + 1 \in Nat /\ IndexOf(i + 1) = i
<1>1. i \in 0 .. Lines - 1 /\ (i + 1) - 1 = i /\ i + 1 \in Nat
  BY LogRingAssumption DEF Slots
<1>2. i % Lines = i
  BY <1>1, LogRingAssumption, Small
<1>. QED
  BY <1>1, <1>2 DEF IndexOf

LEMMA Greatest ==
  ASSUME NEW S \in SUBSET Nat, IsFiniteSet(S), S # {}
  PROVE  Max(S) \in S /\ \A y \in S : y <= Max(S)
<1>. DEFINE Above(x) == {y \in S : x < y}
            T == {Above(x) : x \in S}
            R == StrictSubsetOrdering(S)
<1>1. IsWellFoundedOn(R, SUBSET S)
  BY FS_StrictSubsetOrderingWellFounded, FS_FiniteSubsetsOfFinite
<1>2. T \subseteq SUBSET S /\ T # {}
  OBVIOUS
<1>3. PICK m \in T : \A u \in T : <<u, m>> \notin R
  <2>. HIDE DEF T, R
  <2>. QED
    BY <1>1, <1>2, WFMin
<1>4. PICK x \in S : m = Above(x)
  OBVIOUS
<1>5. \A y \in S : ~ (x < y)
  <2>. SUFFICES ASSUME NEW y \in S, x < y  PROVE FALSE
    OBVIOUS
  <2>1. Above(y) \subseteq Above(x)
    <3>1. \A z \in S : y < z => x < z
      OBVIOUS
    <3>. QED
      BY <3>1
  <2>2. y \in Above(x) /\ y \notin Above(y)
    OBVIOUS
  <2>3. <<Above(y), Above(x)>> \in R
    <3>1. Above(y) # Above(x)
      BY <2>2
    <3>2. Above(x) \in SUBSET S /\ Above(y) \in SUBSET S
      OBVIOUS
    <3>. HIDE DEF Above
    <3>. QED
      BY <2>1, <3>1, <3>2 DEF StrictSubsetOrdering
  <2>. QED
    BY <1>3, <1>4, <2>3
<1>6. \A y \in S : x >= y
  BY <1>5
<1>7. Max(S) \in S /\ \A y \in S : Max(S) >= y
  <2>. HIDE DEF T, R, Above
  <2>. QED
    BY <1>6 DEF Max
<1>. QED
  BY <1>7

-----------------------------------------------------------------------------
(* Types, and the newest line recover_previous finds.                      *)

LEMMA TwoHalves ==
  ASSUME RingTyped
  PROVE  /\ Cur \in Halves /\ 1 - Cur \in Halves /\ 1 - Cur # Cur /\ 1 - (1 - Cur) = Cur
         /\ \A h \in Halves : h = Cur \/ h = 1 - Cur
<1>1. Cur \in {0, 1}
  BY DEF RingTyped, AnyRing, Cur, Halves
<1>. QED
  BY <1>1 DEF Halves

LEMMA OneSlot ==
  ASSUME RingTyped, NEW h \in Halves, NEW i \in Slots
  PROVE  /\ slot[h][i] \in AnySlot /\ slotMem[h][i] \in AnySlot
         /\ slot[h][i].seq \in Nat /\ slotMem[h][i].seq \in Nat
         /\ slot[h][i].id \in Nat /\ slotMem[h][i].id \in Nat
<1>1. slot[h][i] \in AnySlot /\ slotMem[h][i] \in AnySlot
  BY DEF RingTyped
<1>. QED
  BY <1>1 DEF AnySlot

LEMMA NewestIs ==
  ASSUME RingTyped, NEW h \in Halves
  PROVE  /\ Newest(h) \in Nat
         /\ \/ Newest(h) = 0
            \/ \E i \in Slots : Valid(h, i) /\ slot[h][i].seq = Newest(h)
         /\ \A i \in Slots : Valid(h, i) => slot[h][i].seq <= Newest(h)
<1>. DEFINE J == {j \in Slots : Valid(h, j)}
            Seqs == {slot[h][i].seq : i \in J}
            f == [i \in J |-> slot[h][i].seq]
            S == {0} \cup Seqs
<1>1. IsFiniteSet(Slots)
  <2>1. 0 \in Int /\ Lines - 1 \in Int
    BY LogRingAssumption
  <2>. QED
    BY <2>1, FS_Interval DEF Slots
<1>2. IsFiniteSet(J)
  BY <1>1, FS_Subset
<1>3. f \in Surjection(J, Seqs)
  BY DEF Surjection
<1>4. IsFiniteSet(Seqs)
  <2>. HIDE DEF f, J, Seqs
  <2>. QED
    BY <1>2, <1>3, FS_Surjection
<1>5. IsFiniteSet(S)
  <2>1. S = Seqs \cup {0}
    OBVIOUS
  <2>. HIDE DEF Seqs, S
  <2>. QED
    BY <1>4, <2>1, FS_AddElement
<1>6. S \in SUBSET Nat /\ S # {}
  BY OneSlot
<1>7. Max(S) \in S /\ \A y \in S : y <= Max(S)
  <2>. HIDE DEF S
  <2>. QED
    BY <1>5, <1>6, Greatest
<1>8. Newest(h) = Max(S)
  BY DEF Newest
<1>. HIDE DEF S
<1>9. Newest(h) \in S /\ Newest(h) \in Nat /\ \A y \in S : y <= Newest(h)
  BY <1>6, <1>7, <1>8
<1>. QED
  BY <1>9 DEF S

\* The line a commit leaves in a slot.
LEMMA LineOf ==
  ASSUME RingTyped, NEW k \in Nat, NEW i \in Slots
  PROVE  LET new == {n \in latest + 1 .. latest + k : IndexOf(n) = i}
         IN  /\ new = {} => Written(k)[i] = slot[Cur][i]
             /\ new # {} =>
                  /\ Written(k)[i] = [id |-> half[Cur].id, seq |-> Max(new)]
                  /\ Max(new) \in new
                  /\ \A n \in new : n <= Max(new)
<1>. DEFINE new == {n \in latest + 1 .. latest + k : IndexOf(n) = i}
<1>1. latest \in Nat
  BY DEF RingTyped
<1>2. new \in SUBSET Nat
  BY <1>1
<1>3. IsFiniteSet(new)
  <2>1. latest + 1 \in Int /\ latest + k \in Int
    BY <1>1
  <2>2. IsFiniteSet(latest + 1 .. latest + k)
    BY <2>1, FS_Interval
  <2>. QED
    BY <2>2, FS_Subset
<1>4. Written(k)[i] = IF new = {} THEN slot[Cur][i]
                      ELSE [id |-> half[Cur].id, seq |-> Max(new)]
  BY DEF Written
<1>5. new # {} => Max(new) \in new /\ \A n \in new : n <= Max(new)
  <2>. HIDE DEF new
  <2>. QED
    BY <1>2, <1>3, Greatest
<1>. QED
  BY <1>4, <1>5

LEMMA SlotsWritten ==
  ASSUME RingTyped, NEW k \in Nat, NEW i \in Slots
  PROVE  Written(k)[i] \in AnySlot
<1>. DEFINE new == {n \in latest + 1 .. latest + k : IndexOf(n) = i}
<1>1. half[Cur].id \in Nat
  <2>1. half[Cur] \in AnyHalf
    BY TwoHalves DEF RingTyped
  <2>. QED
    BY <2>1 DEF AnyHalf
<1>2. new \subseteq Nat
  BY DEF RingTyped
<1>3. slot[Cur][i] \in AnySlot
  BY TwoHalves, OneSlot
<1>4. CASE new = {}
  BY <1>3, <1>4, LineOf
<1>5. CASE new # {}
  <2>1. Max(new) \in Nat /\ Written(k)[i] = [id |-> half[Cur].id, seq |-> Max(new)]
    BY <1>2, <1>5, LineOf
  <2>. QED
    BY <1>1, <2>1 DEF AnySlot
<1>. QED
  BY <1>4, <1>5

LEMMA WrittenId ==
  ASSUME RingTyped, NEW k \in Nat, NEW i \in Slots
  PROVE  Written(k)[i].id = half[Cur].id \/ Written(k)[i] = slot[Cur][i]
<1>. DEFINE new == {n \in latest + 1 .. latest + k : IndexOf(n) = i}
<1>1. CASE new = {}
  BY <1>1, LineOf
<1>2. CASE new # {}
  <2>1. Written(k)[i] = [id |-> half[Cur].id, seq |-> Max(new)]
    BY <1>2, LineOf
  <2>. QED
    BY <2>1
<1>. QED
  BY <1>1, <1>2

LEMMA RingTypedNext ==
  ASSUME RingTyped, Unsynced, [Next]_vars
  PROVE  RingTyped'
<1>0. /\ Cur \in Halves /\ NoRing \in AnyRing /\ NoHalf \in AnyHalf /\ NoSlot \in AnySlot
      /\ Clean \in [first : Nat, last : Nat]
      /\ Nobody \in [id : Nat, latest : Nat, durable : SUBSET Nat]
  BY TwoHalves DEF NoRing, AnyRing, NoHalf, AnyHalf, NoSlot, AnySlot, Clean, Nobody, Halves
<1>1. CASE LogRingInit
  <2>1. hdr' \in AnyRing /\ prev' \in Halves \cup {None} /\ prevLatest' \in Nat
    <3>1. hdr \in AnyRing
      BY DEF RingTyped
    <3>2. CASE Trusted
      <4>1. /\ prev' = Cur /\ prevLatest' = Newest(Cur)
            /\ hdr' = [hdr EXCEPT !.count = @ + 1, !.active = 1 - @]
        BY <1>1, <3>2 DEF LogRingInit, Cur
      <4>2. hdr.count + 1 \in Nat /\ 1 - hdr.active \in Halves
        BY <3>1 DEF AnyRing, Halves
      <4>. QED
        BY <1>0, <3>1, <4>1, <4>2, NewestIs DEF AnyRing
    <3>3. CASE ~Trusted
      <4>1. hdr' = [ok |-> TRUE, count |-> 1, active |-> 0] /\ UNCHANGED <<prev, prevLatest>>
        BY <1>1, <3>3 DEF LogRingInit
      <4>. QED
        BY <4>1 DEF AnyRing, Halves, RingTyped
    <3>. QED
      BY <3>2, <3>3
  <2>2. half' \in [Halves -> AnyHalf] /\ boots' \in Nat
    <3>1. boots' \in Nat /\ hdr'.count \in Nat
      BY <1>1, <2>1 DEF LogRingInit, AnyRing, RingTyped
    <3>2. [ok |-> TRUE, count |-> hdr'.count, id |-> boots'] \in AnyHalf
      BY <3>1 DEF AnyHalf
    <3>. QED
      BY <1>1, <3>1, <3>2 DEF LogRingInit, RingTyped
  <2>3. /\ phase' = "sync_ring"
        /\ UNCHANGED <<slot, psramVars, latest, unsynced, durable, died>>
    BY <1>1 DEF LogRingInit
  <2>. QED
    BY <2>1, <2>2, <2>3 DEF RingTyped, psramVars
<1>2. CASE SyncRing
  BY <1>2 DEF SyncRing, RingTyped, cacheVars
<1>3. CASE SyncHalf
  BY <1>0, <1>3 DEF SyncHalf, RingTyped, cacheVars
<1>4. ASSUME Restart, hdrMem' \in AnyRing, halfMem' \in [Halves -> AnyHalf],
             slotMem' \in [Halves -> [Slots -> AnySlot]],
             died' \in [id : Nat, latest : Nat, durable : SUBSET Nat]
      PROVE  RingTyped'
  BY <1>0, <1>4 DEF Restart, RingTyped
<1>5. CASE WarmReset
  <2>1. hdrMem' \in AnyRing /\ halfMem' \in [Halves -> AnyHalf]
    BY <1>5 DEF WarmReset, RingTyped
  <2>2. slotMem' \in [Halves -> [Slots -> AnySlot]]
    <3>1. PICK torn \in SUBSET Tearable :
            slotMem' = [slotMem EXCEPT ![Cur] =
                          [i \in Slots |-> IF i \in torn THEN NoSlot ELSE @[i]]]
      BY <1>5 DEF WarmReset
    <3>2. [i \in Slots |-> IF i \in torn THEN NoSlot ELSE slotMem[Cur][i]] \in [Slots -> AnySlot]
      BY <1>0, OneSlot
    <3>. QED
      BY <3>1, <3>2 DEF RingTyped
  <2>3. died' \in [id : Nat, latest : Nat, durable : SUBSET Nat]
    <3>1. half[Cur] \in AnyHalf
      BY <1>0 DEF RingTyped
    <3>2. half[Cur].id \in Nat /\ latest \in Nat /\ durable \cap Retained(latest) \in SUBSET Nat
      BY <3>1 DEF AnyHalf, RingTyped
    <3>3. \/ died' = [id |-> half[Cur].id, latest |-> latest,
                      durable |-> durable \cap Retained(latest)]
          \/ died' = died \/ died' = Nobody
      BY <1>5 DEF WarmReset
    <3>. QED
      BY <1>0, <3>2, <3>3 DEF RingTyped
  <2>. QED
    BY <1>4, <1>5, <2>1, <2>2, <2>3 DEF WarmReset
<1>6. CASE PowerCut
  BY <1>0, <1>4, <1>6 DEF PowerCut
<1>7. CASE EvictRing
  BY <1>7 DEF EvictRing, RingTyped, cacheVars, ramVars
<1>8. ASSUME NEW h \in Halves, EvictHalf(h)  PROVE RingTyped'
  BY <1>8 DEF EvictHalf, RingTyped, cacheVars, ramVars
<1>9. ASSUME NEW h \in Halves, NEW i \in Slots, EvictSlot(h, i)  PROVE RingTyped'
  <2>1. slotMem' \in [Halves -> [Slots -> AnySlot]]
    BY <1>9, OneSlot DEF EvictSlot, RingTyped
  <2>. QED
    BY <1>9, <2>1 DEF EvictSlot, RingTyped, cacheVars, ramVars
<1>10. ASSUME NEW t \in Tasks, NEW k \in 1..MaxBatch, Commit(t, k)  PROVE RingTyped'
  <2>1. k \in Nat
    BY LogRingAssumption
  <2>2. Written(k) \in [Slots -> AnySlot]
    BY <2>1, SlotsWritten DEF Written
  <2>3. slot' \in [Halves -> [Slots -> AnySlot]]
    BY <1>0, <1>10, <2>2 DEF Commit, RingTyped
  <2>4. latest' \in Nat /\ [first |-> latest + 1, last |-> latest + k] \in [first : Nat, last : Nat]
    BY <1>10, <2>1 DEF Commit, RingTyped
  <2>5. unsynced' \in [Tasks -> [first : Nat, last : Nat]] /\ durable' \subseteq Nat
    BY <1>10, <2>4 DEF Commit, RingTyped
  <2>. QED
    BY <1>10, <2>3, <2>4, <2>5 DEF Commit, RingTyped, psramVars
<1>11. ASSUME NEW t \in Tasks, WriteBack(t)  PROVE RingTyped'
  <2>. DEFINE w == unsynced[t]
              i == IndexOf(w.first)
  <2>1. w \in [first : Nat, last : Nat]
    BY DEF RingTyped
  <2>2. w.first \in Nat /\ w.last \in Nat /\ w.first >= 1
    BY <1>11, <2>1 DEF WriteBack, Unsynced
  <2>3. i \in Slots
    BY <2>2, IndexIsSlot
  <2>4. slot[Cur][i] \in AnySlot /\ slot[Cur][i].seq \in Nat
    BY <1>0, <2>3, OneSlot
  <2>5. /\ slotMem' = [slotMem EXCEPT ![Cur][i] = slot[Cur][i]]
        /\ durable' = durable \cup {slot[Cur][i].seq}
        /\ unsynced' = [unsynced EXCEPT ![t] =
                          IF w.first = w.last THEN Clean ELSE [w EXCEPT !.first = @ + 1]]
    BY <1>11 DEF WriteBack
  <2>. HIDE DEF i
  <2>6. slotMem' \in [Halves -> [Slots -> AnySlot]] /\ durable' \subseteq Nat
    BY <1>0, <2>4, <2>5 DEF RingTyped
  <2>7. unsynced' \in [Tasks -> [first : Nat, last : Nat]]
    <3>1. [w EXCEPT !.first = @ + 1] \in [first : Nat, last : Nat]
      BY <2>1
    <3>. HIDE DEF w
    <3>. QED
      BY <1>0, <2>5, <3>1 DEF RingTyped
  <2>. QED
    BY <1>11, <2>6, <2>7 DEF WriteBack, RingTyped, cacheVars
<1>12. ASSUME NEW t \in Tasks, WriteBackAll(t)  PROVE RingTyped'
  <2>0. /\ slotMem' = [slotMem EXCEPT ![Cur] = slot[Cur]]
        /\ durable' = durable \cup {slot[Cur][i].seq : i \in Slots}
        /\ unsynced' = [unsynced EXCEPT ![t] = Clean]
    BY <1>12 DEF WriteBackAll
  <2>1. slotMem' \in [Halves -> [Slots -> AnySlot]]
    <3>1. slot[Cur] \in [Slots -> AnySlot] /\ slotMem \in [Halves -> [Slots -> AnySlot]]
      BY <1>0 DEF RingTyped
    <3>. QED
      BY <2>0, <3>1
  <2>2. durable' \subseteq Nat
    <3>1. durable \subseteq Nat
      BY DEF RingTyped
    <3>2. \A i \in Slots : slot[Cur][i].seq \in Nat
      BY <1>0, OneSlot
    <3>. QED
      BY <2>0, <3>1, <3>2
  <2>3. unsynced' \in [Tasks -> [first : Nat, last : Nat]]
    BY <1>0, <2>0 DEF RingTyped
  <2>. QED
    BY <1>12, <2>1, <2>2, <2>3 DEF WriteBackAll, RingTyped, cacheVars
<1>13. CASE UNCHANGED vars
  BY <1>13 DEF RingTyped, vars, cacheVars, psramVars, ramVars
<1>. QED
  BY <1>1, <1>2, <1>3, <1>5, <1>6, <1>7, <1>8, <1>9, <1>10, <1>11, <1>12, <1>13
  DEF Next, Boot, Cache, Log

-----------------------------------------------------------------------------
(* What the steps do to single slots and halves.                           *)

LEMMA HalfIds ==
  ASSUME RingTyped, NEW h \in Halves
  PROVE  /\ half[h] \in AnyHalf /\ half[h].id \in Nat /\ half[h].count \in Nat
         /\ halfMem[h] \in AnyHalf /\ halfMem[h].id \in Nat
<1>1. half[h] \in AnyHalf /\ halfMem[h] \in AnyHalf
  BY DEF RingTyped
<1>. QED
  BY <1>1 DEF AnyHalf

LEMMA AfterCommit ==
  ASSUME RingTyped, NEW t \in Tasks, NEW k \in Nat, Commit(t, k)
  PROVE  /\ phase = "run" /\ hdr' = hdr /\ Cur' = Cur /\ half' = half
         /\ \A i \in Slots : slot'[Cur][i] = Written(k)[i]
         /\ \A i \in Slots : slot'[1 - Cur][i] = slot[1 - Cur][i]
<1>1. slot' = [slot EXCEPT ![Cur] = Written(k)]
  BY DEF Commit
<1>. QED
  BY <1>1, TwoHalves DEF Commit, RingTyped, Cur

LEMMA AfterReset ==
  ASSUME RingTyped, WarmReset
  PROVE  /\ phase' = "boot" /\ hdr' = hdrMem /\ half' = halfMem /\ slot' = slotMem'
         /\ hdrMem' = hdrMem /\ halfMem' = halfMem
         /\ \A h \in Halves, i \in Slots :
              \/ slotMem'[h][i] = slotMem[h][i]
              \/ h = Cur /\ i \in Tearable /\ slotMem'[h][i] = NoSlot
<1>1. PICK torn \in SUBSET Tearable :
        slotMem' = [slotMem EXCEPT ![Cur] =
                      [i \in Slots |-> IF i \in torn THEN NoSlot ELSE @[i]]]
  BY DEF WarmReset
<1>2. phase' = "boot" /\ hdr' = hdrMem' /\ half' = halfMem' /\ slot' = slotMem'
  BY DEF WarmReset, Restart
<1>3. hdrMem' = hdrMem /\ halfMem' = halfMem
  BY DEF WarmReset
<1>4. \A h \in Halves, i \in Slots :
        /\ h # Cur \/ i \notin torn => slotMem'[h][i] = slotMem[h][i]
        /\ h = Cur /\ i \in torn => slotMem'[h][i] = NoSlot
  BY <1>1, TwoHalves DEF RingTyped
<1>5. \A i : i \in torn => i \in Tearable
  OBVIOUS
<1>6. \A h \in Halves, i \in Slots :
        \/ slotMem'[h][i] = slotMem[h][i]
        \/ h = Cur /\ i \in Tearable /\ slotMem'[h][i] = NoSlot
  BY <1>4, <1>5
<1>. QED
  BY <1>2, <1>3, <1>6

LEMMA AfterCut ==
  ASSUME PowerCut
  PROVE  /\ phase' = "boot" /\ hdr' = hdrMem' /\ half' = halfMem' /\ slot' = slotMem'
         /\ prev' = None /\ latest' = 0 /\ durable' = {} /\ died' = Nobody /\ boots' = boots
         /\ \A h \in Halves : halfMem'[h].id = 0
         /\ \A h \in Halves, i \in Slots : slotMem'[h][i].id = 0
BY DEF PowerCut, Restart, NoHalf, NoSlot

\* log_ring_init adopts a half it trusts; either way it starts a fresh one.
LEMMA AfterInit ==
  ASSUME RingTyped, FreshIds, Headers, LogRingInit
  PROVE  /\ phase = "boot" /\ phase' = "sync_ring" /\ hdr'.ok /\ boots' = boots + 1 /\ boots' # 0
         /\ Cur' \in Halves /\ 1 - Cur' \in Halves /\ 1 - Cur' # Cur'
         /\ half'[Cur'] = [ok |-> TRUE, count |-> hdr'.count, id |-> boots']
         /\ half'[1 - Cur'] = half[1 - Cur']
         /\ half[1 - Cur'].id <= boots /\ prev' \in {1 - Cur', None}
         /\ Trusted => prev' = Cur /\ Cur' = 1 - Cur /\ prevLatest' = Newest(Cur)
<1>1. phase = "boot" /\ phase' = "sync_ring" /\ boots' = boots + 1 /\ prev = None
  BY DEF LogRingInit, Headers
<1>2. boots \in Nat /\ boots' # 0
  BY <1>1 DEF RingTyped
<1>3. /\ hdr' \in AnyRing /\ hdr'.ok /\ prev' \in {1 - Cur', None}
      /\ Trusted => prev' = Cur /\ Cur' = 1 - Cur /\ prevLatest' = Newest(Cur)
  <2>1. hdr \in AnyRing
    BY DEF RingTyped
  <2>2. CASE Trusted
    <3>1. /\ prev' = Cur /\ prevLatest' = Newest(Cur)
          /\ hdr' = [hdr EXCEPT !.count = @ + 1, !.active = 1 - @]
      BY <2>2 DEF LogRingInit, Cur
    <3>2. hdr.count + 1 \in Nat /\ 1 - hdr.active \in Halves
      BY <2>1 DEF AnyRing, Halves
    <3>3. hdr' \in AnyRing /\ hdr'.active = 1 - hdr.active /\ hdr'.ok = hdr.ok
      BY <2>1, <3>1, <3>2 DEF AnyRing
    <3>4. hdr.ok
      BY <2>2 DEF Trusted
    <3>. QED
      BY <3>1, <3>3, <3>4, TwoHalves DEF Cur
  <2>3. CASE ~Trusted
    <3>1. hdr' = [ok |-> TRUE, count |-> 1, active |-> 0] /\ prev' = None
      BY <1>1, <2>3 DEF LogRingInit
    <3>. QED
      BY <2>3, <3>1 DEF AnyRing, Halves
  <2>. QED
    BY <2>2, <2>3
<1>4. Cur' \in Halves /\ 1 - Cur' \in Halves /\ 1 - Cur' # Cur'
  BY <1>3 DEF AnyRing, Cur, Halves
<1>5. half' = [half EXCEPT ![Cur'] = [ok |-> TRUE, count |-> hdr'.count, id |-> boots']]
  BY DEF LogRingInit, Cur
<1>6. /\ half'[Cur'] = [ok |-> TRUE, count |-> hdr'.count, id |-> boots']
      /\ half'[1 - Cur'] = half[1 - Cur']
  BY <1>4, <1>5 DEF RingTyped
<1>7. half[1 - Cur'].id <= boots
  BY <1>4 DEF FreshIds
<1>. QED
  BY <1>1, <1>2, <1>3, <1>4, <1>6, <1>7

-----------------------------------------------------------------------------
(* Boot IDs, headers and the lines still to write back.                    *)

LEMMA FreshIdsNext ==
  ASSUME RingTyped, FreshIds, Headers, OwnSlots, Unsynced, [Next]_vars
  PROVE  FreshIds'
<1>1. CASE LogRingInit
  <2>1. /\ half' = [half EXCEPT ![Cur'] = [ok |-> TRUE, count |-> hdr'.count, id |-> boots']]
        /\ boots' = boots + 1 /\ boots \in Nat
        /\ UNCHANGED <<slot, slotMem, halfMem>>
    BY <1>1 DEF LogRingInit, Cur, psramVars, RingTyped
  <2>2. \A h \in Halves : half'[h].id <= boots' /\ halfMem'[h].id <= boots'
    <3>. TAKE h \in Halves
    <3>1. half[h].id <= boots /\ halfMem[h].id <= boots
      BY DEF FreshIds
    <3>2. halfMem'[h].id <= boots'
      BY <2>1, <3>1, HalfIds
    <3>3. CASE h = Cur'
      BY <1>1, <2>1, <3>2, <3>3, AfterInit
    <3>4. CASE h # Cur'
      <4>1. half'[h] = half[h]
        BY <2>1, <3>4 DEF RingTyped
      <4>. QED
        BY <2>1, <3>1, <3>2, <4>1, HalfIds
    <3>. QED
      BY <3>3, <3>4
  <2>3. \A h \in Halves, i \in Slots : slot'[h][i].id <= boots' /\ slotMem'[h][i].id <= boots'
    <3>. TAKE h \in Halves, i \in Slots
    <3>1. slot[h][i].id <= boots /\ slotMem[h][i].id <= boots
      BY DEF FreshIds
    <3>. QED
      BY <2>1, <3>1, OneSlot
  <2>4. half'[1 - Cur'].id # boots'
    <3>1. /\ half'[1 - Cur'] = half[1 - Cur'] /\ half[1 - Cur'].id <= boots
          /\ half[1 - Cur'].id \in Nat
      BY <1>1, AfterInit, HalfIds
    <3>. QED
      BY <2>1, <3>1
  <2>. QED
    BY <1>1, <2>2, <2>3, <2>4, AfterInit DEF FreshIds
<1>2. CASE SyncRing
  BY <1>2 DEF SyncRing, FreshIds, Cur, cacheVars
<1>3. CASE SyncHalf
  <2>1. \A h \in Halves : halfMem'[h].id <= boots
    BY <1>3 DEF SyncHalf, FreshIds, RingTyped
  <2>. QED
    BY <1>3, <2>1 DEF SyncHalf, FreshIds, Cur, cacheVars
<1>4. CASE WarmReset
  <2>1. boots' = boots /\ boots \in Nat
    BY <1>4 DEF WarmReset, Restart, RingTyped
  <2>2. \A h \in Halves, i \in Slots : slotMem'[h][i].id <= boots
    <3>. TAKE h \in Halves, i \in Slots
    <3>1. slotMem[h][i].id <= boots
      BY DEF FreshIds
    <3>2. NoSlot.id <= boots
      BY <2>1 DEF NoSlot
    <3>. QED
      BY <1>4, <3>1, <3>2, AfterReset
  <2>. QED
    BY <1>4, <2>1, <2>2, AfterReset DEF FreshIds
<1>5. CASE PowerCut
  <2>1. 0 <= boots
    BY DEF RingTyped
  <2>. QED
    BY <1>5, <2>1, AfterCut DEF FreshIds
<1>6. CASE EvictRing
  BY <1>6 DEF EvictRing, FreshIds, Cur, cacheVars, ramVars
<1>7. ASSUME NEW h \in Halves, EvictHalf(h)  PROVE FreshIds'
  <2>1. \A g \in Halves : halfMem'[g].id <= boots
    BY <1>7 DEF EvictHalf, FreshIds, RingTyped
  <2>. QED
    BY <1>7, <2>1 DEF EvictHalf, FreshIds, Cur, cacheVars, ramVars
<1>8. ASSUME NEW h \in Halves, NEW i \in Slots, EvictSlot(h, i)  PROVE FreshIds'
  <2>1. \A g \in Halves, j \in Slots : slotMem'[g][j].id <= boots
    BY <1>8 DEF EvictSlot, FreshIds, RingTyped
  <2>. QED
    BY <1>8, <2>1 DEF EvictSlot, FreshIds, Cur, cacheVars, ramVars
<1>9. ASSUME NEW t \in Tasks, NEW k \in 1..MaxBatch, Commit(t, k)  PROVE FreshIds'
  <2>1. k \in Nat
    BY LogRingAssumption
  <2>2. \A h \in Halves, i \in Slots : slot'[h][i].id <= boots
    <3>. TAKE h \in Halves, i \in Slots
    <3>1. half[Cur].id <= boots /\ slot[h][i].id <= boots /\ slot[Cur][i].id <= boots
      BY TwoHalves DEF FreshIds
    <3>2. CASE h = Cur
      <4>1. slot'[h][i] = Written(k)[i]
        BY <1>9, <2>1, <3>2, AfterCommit
      <4>2. Written(k)[i].id = half[Cur].id \/ Written(k)[i] = slot[Cur][i]
        BY <2>1, WrittenId
      <4>. QED
        BY <3>1, <4>1, <4>2
    <3>3. CASE h = 1 - Cur
      BY <1>9, <2>1, <3>1, <3>3, AfterCommit
    <3>. QED
      BY <3>2, <3>3, TwoHalves
  <2>. QED
    BY <1>9, <2>2 DEF Commit, FreshIds, Cur, psramVars
<1>10. ASSUME NEW t \in Tasks, WriteBack(t)  PROVE FreshIds'
  <2>. DEFINE i == IndexOf(unsynced[t].first)
  <2>1. \A h \in Halves, j \in Slots : slotMem'[h][j].id <= boots
    <3>1. slotMem' = [slotMem EXCEPT ![Cur][i] = slot[Cur][i]]
      BY <1>10 DEF WriteBack
    <3>. HIDE DEF i
    <3>. QED
      BY <3>1, TwoHalves DEF FreshIds, RingTyped
  <2>. QED
    BY <1>10, <2>1 DEF WriteBack, FreshIds, Cur, cacheVars
<1>11. ASSUME NEW t \in Tasks, WriteBackAll(t)  PROVE FreshIds'
  <2>1. \A h \in Halves, j \in Slots : slotMem'[h][j].id <= boots
    BY <1>11, TwoHalves DEF WriteBackAll, FreshIds, RingTyped
  <2>. QED
    BY <1>11, <2>1 DEF WriteBackAll, FreshIds, Cur, cacheVars
<1>12. CASE UNCHANGED vars
  BY <1>12 DEF FreshIds, Cur, vars, cacheVars, psramVars, ramVars
<1>. QED
  BY <1>1, <1>2, <1>3, <1>4, <1>5, <1>6, <1>7, <1>8, <1>9, <1>10, <1>11, <1>12
  DEF Next, Boot, Cache, Log

LEMMA HeadersNext ==
  ASSUME RingTyped, Headers, Unsynced, [Next]_vars
  PROVE  Headers'
<1>1. CASE LogRingInit
  BY <1>1 DEF LogRingInit, Headers, psramVars
<1>2. CASE SyncRing
  BY <1>2 DEF SyncRing, Headers, cacheVars
<1>3. CASE SyncHalf
  BY <1>3, TwoHalves DEF SyncHalf, Headers, Cur, cacheVars, RingTyped
<1>4. ASSUME Restart  PROVE Headers'
  BY <1>4 DEF Restart, Headers
<1>5. CASE EvictRing
  BY <1>5 DEF EvictRing, Headers, Cur, cacheVars, ramVars
<1>6. ASSUME NEW h \in Halves, EvictHalf(h)  PROVE Headers'
  <2>1. phase # "boot" /\ (phase = "run" => halfMem'[Cur] = half[Cur])
    BY <1>6, TwoHalves DEF EvictHalf, Headers, RingTyped
  <2>. QED
    BY <1>6, <2>1 DEF EvictHalf, Headers, Cur, cacheVars, ramVars
<1>7. ASSUME NEW h \in Halves, NEW i \in Slots, EvictSlot(h, i)  PROVE Headers'
  BY <1>7 DEF EvictSlot, Headers, Cur, cacheVars, ramVars
<1>8. ASSUME NEW t \in Tasks, NEW k \in 1..MaxBatch, Commit(t, k)  PROVE Headers'
  BY <1>8 DEF Commit, Headers, Cur, psramVars
<1>9. ASSUME NEW t \in Tasks, WriteBack(t)  PROVE Headers'
  <2>1. phase = "run"
    BY <1>9 DEF WriteBack, Headers, RingTyped
  <2>. QED
    BY <1>9, <2>1 DEF WriteBack, Headers, Cur, cacheVars
<1>10. ASSUME NEW t \in Tasks, WriteBackAll(t)  PROVE Headers'
  <2>1. phase = "run"
    <3>1. unsynced[t] # Clean
      BY <1>10, LogRingAssumption DEF WriteBackAll, Clean
    <3>. QED
      BY <3>1 DEF Headers, RingTyped
  <2>. QED
    BY <1>10, <2>1 DEF WriteBackAll, Headers, Cur, cacheVars
<1>11. CASE UNCHANGED vars
  BY <1>11 DEF Headers, Cur, vars, cacheVars, psramVars, ramVars
<1>. QED
  BY <1>1, <1>2, <1>3, <1>4, <1>5, <1>6, <1>7, <1>8, <1>9, <1>10, <1>11
  DEF Next, Boot, WarmReset, PowerCut, Cache, Log

LEMMA UnsyncedNext ==
  ASSUME RingTyped, Headers, Unsynced, [Next]_vars
  PROVE  Unsynced'
<1>1. CASE LogRingInit
  BY <1>1 DEF LogRingInit, Unsynced
<1>2. CASE SyncRing \/ SyncHalf
  BY <1>2 DEF SyncRing, SyncHalf, Unsynced
<1>3. ASSUME Restart  PROVE Unsynced'
  BY <1>3 DEF Restart, Unsynced
<1>4. CASE Cache
  BY <1>4 DEF Cache, EvictRing, EvictHalf, EvictSlot, Unsynced, ramVars
<1>5. ASSUME NEW t \in Tasks, NEW k \in 1..MaxBatch, Commit(t, k)  PROVE Unsynced'
  <2>1. k \in Nat /\ k >= 1 /\ latest \in Nat /\ latest' = latest + k
    BY <1>5, LogRingAssumption DEF Commit, RingTyped
  <2>2. unsynced'[t] = [first |-> latest + 1, last |-> latest + k]
    BY <1>5 DEF Commit, RingTyped
  <2>3. \A u \in Tasks : u # t => unsynced'[u] = unsynced[u] /\ unsynced[u].last \in Nat
    BY <1>5 DEF Commit, RingTyped
  <2>4. 1 <= latest + 1 /\ latest + 1 <= latest + k /\ latest + k <= latest'
    BY <2>1
  <2>5. \A u \in Tasks : u # t => (unsynced[u].last <= latest => unsynced[u].last <= latest')
    BY <2>1, <2>3
  <2>6. \A u \in Tasks : unsynced'[u] # Clean =>
          1 <= unsynced'[u].first /\ unsynced'[u].first <= unsynced'[u].last
            /\ unsynced'[u].last <= latest'
    <3>. TAKE u \in Tasks
    <3>1. CASE u = t
      BY <2>2, <2>4, <3>1
    <3>2. CASE u # t
      BY <2>3, <2>5, <3>2 DEF Unsynced
    <3>. QED
      BY <3>1, <3>2
  <2>. QED
    BY <2>6 DEF Unsynced
<1>6. ASSUME NEW t \in Tasks, WriteBack(t)  PROVE Unsynced'
  <2>. DEFINE w == unsynced[t]
  <2>1. w \in [first : Nat, last : Nat] /\ w # Clean /\ latest' = latest
    BY <1>6 DEF WriteBack, RingTyped
  <2>2. 1 <= w.first /\ w.first <= w.last /\ w.last <= latest /\ w.first \in Nat /\ w.last \in Nat
    BY <2>1 DEF Unsynced
  <2>3. unsynced' = [unsynced EXCEPT ![t] =
                      IF w.first = w.last THEN Clean ELSE [w EXCEPT !.first = @ + 1]]
    BY <1>6 DEF WriteBack
  <2>4. \A u \in Tasks : u # t => unsynced'[u] = unsynced[u]
    BY <2>3 DEF RingTyped
  <2>5. \/ unsynced'[t] = Clean
        \/ /\ w.first # w.last
           /\ unsynced'[t].first = w.first + 1 /\ unsynced'[t].last = w.last
    <3>. HIDE DEF w
    <3>1. [w EXCEPT !.first = @ + 1].first = w.first + 1 /\ [w EXCEPT !.first = @ + 1].last = w.last
      BY <2>1
    <3>2. unsynced'[t] = IF w.first = w.last THEN Clean ELSE [w EXCEPT !.first = @ + 1]
      BY <2>3 DEF RingTyped
    <3>3. CASE w.first = w.last
      BY <3>2, <3>3
    <3>4. CASE w.first # w.last
      BY <3>1, <3>2, <3>4
    <3>. QED
      BY <3>3, <3>4
  <2>6. w.first # w.last => 1 <= w.first + 1 /\ w.first + 1 <= w.last
    BY <2>2
  <2>. HIDE DEF w
  <2>. QED
    BY <2>1, <2>2, <2>4, <2>5, <2>6 DEF Unsynced
<1>7. ASSUME NEW t \in Tasks, WriteBackAll(t)  PROVE Unsynced'
  BY <1>7 DEF WriteBackAll, Unsynced, RingTyped
<1>8. CASE UNCHANGED vars
  BY <1>8 DEF Unsynced, vars, ramVars
<1>. QED
  BY <1>1, <1>2, <1>3, <1>4, <1>5, <1>6, <1>7, <1>8
  DEF Next, Boot, WarmReset, PowerCut, Log

-----------------------------------------------------------------------------
(* The slots of the running boot.                                          *)

LEMMA OwnSlotsNext ==
  ASSUME RingTyped, FreshIds, Headers, OwnSlots, Unsynced, [Next]_vars
  PROVE  OwnSlots'
<1>0. /\ Cur \in Halves /\ latest \in Nat /\ boots \in Nat
      /\ phase # "boot" => half[Cur].id = boots
  BY TwoHalves, SMTT(30) DEF RingTyped, FreshIds
<1>1. CASE LogRingInit
  <2>1. latest' = 0 /\ boots' = boots + 1 /\ UNCHANGED <<slot, slotMem>>
    BY <1>1 DEF LogRingInit, Headers, psramVars
  <2>2. \A h \in Halves, i \in Slots : slot'[h][i].id # boots' /\ slotMem'[h][i].id # boots'
    <3>. TAKE h \in Halves, i \in Slots
    <3>1. slot[h][i].id <= boots /\ slotMem[h][i].id <= boots
      BY DEF FreshIds
    <3>. QED
      BY <1>0, <2>1, <3>1, OneSlot, SMTT(30)
  <2>3. 1..latest' = {}
    BY <2>1
  <2>. QED
    BY <1>1, <2>2, <2>3, AfterInit DEF OwnSlots
<1>2. CASE SyncRing \/ SyncHalf
  BY <1>2 DEF SyncRing, SyncHalf, OwnSlots, Cur, cacheVars
<1>3. ASSUME Restart  PROVE OwnSlots'
  BY <1>3 DEF Restart, OwnSlots
<1>4. ASSUME UNCHANGED <<hdr, slot, phase, latest, boots>>,
             \A i \in Slots : slotMem'[Cur][i] \in {slotMem[Cur][i], slot[Cur][i]}
      PROVE  OwnSlots'
  <2>. SUFFICES ASSUME phase # "boot"  PROVE OwnSlots'
    BY <1>4 DEF OwnSlots
  <2>1. \A i \in Slots : slot[Cur][i].id = boots => slot[Cur][i].seq <= latest
    <3>1. \A i \in Slots : slot[Cur][i].id = boots => slot[Cur][i].seq \in 1..latest
      BY DEF OwnSlots
    <3>. QED
      BY <1>0, <3>1
  <2>2. \A i \in Slots : slotMem'[Cur][i].id = boots => slotMem'[Cur][i].seq <= latest
    <3>1. \A i \in Slots : slotMem[Cur][i].id = boots => slotMem[Cur][i].seq <= latest
      BY DEF OwnSlots
    <3>. QED
      BY <1>4, <2>1, <3>1
  <2>3. Cur' = Cur
    BY <1>4 DEF Cur
  <2>. QED
    BY <1>4, <2>2, <2>3 DEF OwnSlots
<1>5. CASE EvictRing
  BY <1>4, <1>5 DEF EvictRing, cacheVars, ramVars
<1>6. ASSUME NEW h \in Halves, EvictHalf(h)  PROVE OwnSlots'
  BY <1>4, <1>6 DEF EvictHalf, cacheVars, ramVars
<1>7. ASSUME NEW h \in Halves, NEW i \in Slots, EvictSlot(h, i)  PROVE OwnSlots'
  <2>1. \A j \in Slots : slotMem'[Cur][j] \in {slotMem[Cur][j], slot[Cur][j]}
    BY <1>0, <1>7 DEF EvictSlot, RingTyped
  <2>. QED
    BY <1>4, <1>7, <2>1 DEF EvictSlot, cacheVars, ramVars
<1>8. ASSUME NEW t \in Tasks, NEW k \in 1..MaxBatch, Commit(t, k)  PROVE OwnSlots'
  <2>1. k \in Nat /\ latest' = latest + k /\ boots' = boots /\ UNCHANGED slotMem
    BY <1>8, LogRingAssumption DEF Commit, psramVars
  <2>2. /\ phase = "run" /\ Cur' = Cur /\ half[Cur].id = boots
        /\ \A i \in Slots : slot'[Cur][i] = Written(k)[i]
    BY <1>0, <1>8, <2>1, AfterCommit
  <2>3. ASSUME NEW i \in Slots, slot'[Cur][i].id = boots
        PROVE  /\ slot'[Cur][i].seq \in 1..latest' /\ IndexOf(slot'[Cur][i].seq) = i
               /\ slot'[Cur][i].seq + Lines > latest'
    <3>. DEFINE new == {n \in latest + 1 .. latest + k : IndexOf(n) = i}
    <3>1. \A n \in new : n \in Nat /\ n >= 1 /\ n <= latest' /\ IndexOf(n) = i
      BY <1>0, <2>1
    <3>2. CASE new = {}
      <4>. DEFINE s == slot[Cur][i].seq
      <4>1. slot'[Cur][i] = slot[Cur][i]
        BY <2>1, <2>2, <3>2, LineOf
      <4>2. s \in 1..latest /\ IndexOf(s) = i /\ s + Lines > latest
        BY <2>2, <2>3, <4>1 DEF OwnSlots
      <4>3. s \in Nat /\ s >= 1 /\ s \in 1..latest' /\ s + Lines \in Nat
        BY <1>0, <2>1, <4>2, LogRingAssumption, SMTT(30)
      <4>4. IndexOf(s + Lines) = i
        BY <4>2, <4>3, IndexAgain
      <4>5. ~ (s + Lines <= latest')
        <5>1. s + Lines \notin latest + 1 .. latest + k
          BY <3>2, <4>4
        <5>. HIDE DEF s
        <5>. QED
          BY <1>0, <2>1, <4>2, <4>3, <5>1
      <4>6. s + Lines > latest'
        <5>. HIDE DEF s
        <5>. QED
          BY <1>0, <2>1, <4>3, <4>5
      <4>. QED
        BY <4>1, <4>2, <4>3, <4>6
    <3>3. CASE new # {}
      <4>. DEFINE s == Max(new)
      <4>1. slot'[Cur][i] = [id |-> half[Cur].id, seq |-> s] /\ s \in new
            /\ \A n \in new : n <= s
        BY <2>1, <2>2, <3>3, LineOf
      <4>2. s \in Nat /\ s >= 1 /\ s <= latest' /\ IndexOf(s) = i /\ s > latest
        BY <1>0, <3>1, <4>1
      <4>. HIDE DEF s
      <4>3. s + Lines \in Nat /\ s + Lines > s
        BY <4>2, LogRingAssumption
      <4>4. IndexOf(s + Lines) = i
        BY <4>2, IndexAgain
      <4>5. ~ (s + Lines <= latest')
        <5>. SUFFICES ASSUME s + Lines <= latest'  PROVE FALSE
          OBVIOUS
        <5>1. s + Lines \in latest + 1 .. latest + k
          BY <1>0, <2>1, <4>2, <4>3
        <5>2. s + Lines \in new
          BY <4>4, <5>1
        <5>3. s + Lines <= s
          BY <4>1, <5>2
        <5>. QED
          BY <4>2, <4>3, <5>3
      <4>6. s + Lines > latest' /\ s \in 1..latest'
        BY <1>0, <2>1, <4>2, <4>3, <4>5
      <4>7. slot'[Cur][i].seq = s
        BY <4>1
      <4>. QED
        BY <4>2, <4>6, <4>7
    <3>. QED
      BY <3>2, <3>3
  <2>4. ASSUME NEW n \in 1..latest'  PROVE slot'[Cur][IndexOf(n)].id = boots
    <3>1. n \in Nat /\ n >= 1
      BY <1>0, <2>1
    <3>. DEFINE i == IndexOf(n)
    <3>2. i \in Slots
      BY <3>1, IndexIsSlot
    <3>3. CASE n <= latest
      <4>1. slot[Cur][i].id = boots
        <5>1. n \in 1..latest
          BY <1>0, <3>1, <3>3
        <5>. QED
          BY <2>2, <5>1 DEF OwnSlots
      <4>. HIDE DEF i
      <4>2. Written(k)[i].id = boots
        BY <2>1, <2>2, <3>2, <4>1, WrittenId
      <4>. QED
        BY <2>2, <3>2, <4>2 DEF i
    <3>4. CASE ~ (n <= latest)
      <4>. DEFINE new == {m \in latest + 1 .. latest + k : IndexOf(m) = i}
      <4>1. n \in latest + 1 .. latest + k
        BY <1>0, <2>1, <3>1, <3>4
      <4>2. new # {}
        BY <4>1
      <4>3. Written(k)[i] = [id |-> half[Cur].id, seq |-> Max(new)]
        BY <2>1, <3>2, <4>2, LineOf
      <4>. HIDE DEF i, new
      <4>4. slot'[Cur][i].id = boots
        BY <2>2, <3>2, <4>3
      <4>. QED
        BY <4>4 DEF i
    <3>. QED
      BY <3>3, <3>4
  <2>5. ASSUME NEW i \in Slots, slotMem'[Cur][i].id = boots
        PROVE  slotMem'[Cur][i].seq <= latest'
    <3>1. slotMem[Cur][i].seq <= latest /\ slotMem[Cur][i].seq \in Nat
      BY <1>0, <2>1, <2>2, <2>5, OneSlot DEF OwnSlots
    <3>. QED
      BY <1>0, <2>1, <3>1
  <2>. QED
    BY <2>1, <2>2, <2>3, <2>4, <2>5 DEF OwnSlots
<1>9. ASSUME NEW t \in Tasks, WriteBack(t)  PROVE OwnSlots'
  <2>. DEFINE i == IndexOf(unsynced[t].first)
  <2>1. slotMem' = [slotMem EXCEPT ![Cur][i] = slot[Cur][i]]
    BY <1>9 DEF WriteBack
  <2>. HIDE DEF i
  <2>2. \A j \in Slots : slotMem'[Cur][j] \in {slotMem[Cur][j], slot[Cur][j]}
    BY <1>0, <2>1 DEF RingTyped
  <2>. QED
    BY <1>4, <1>9, <2>2 DEF WriteBack, cacheVars
<1>10. ASSUME NEW t \in Tasks, WriteBackAll(t)  PROVE OwnSlots'
  <2>1. \A j \in Slots : slotMem'[Cur][j] \in {slotMem[Cur][j], slot[Cur][j]}
    BY <1>0, <1>10 DEF WriteBackAll, RingTyped
  <2>. QED
    BY <1>4, <1>10, <2>1 DEF WriteBackAll, cacheVars
<1>11. CASE UNCHANGED vars
  BY <1>4, <1>11 DEF vars, cacheVars, psramVars, ramVars
<1>. QED
  BY <1>1, <1>2, <1>3, <1>5, <1>6, <1>7, <1>8, <1>9, <1>10, <1>11
  DEF Next, Boot, WarmReset, PowerCut, Cache, Log

\* What the slot of a logged line holds: that line, or a later one a ring away.
LEMMA SlotOf ==
  ASSUME RingTyped, FreshIds, OwnSlots, phase # "boot", NEW n \in 1..latest
  PROVE  LET s == slot[Cur][IndexOf(n)].seq
         IN  /\ n \in Nat /\ n >= 1 /\ IndexOf(n) \in Slots
             /\ slot[Cur][IndexOf(n)] = [id |-> boots, seq |-> s]
             /\ s \in Nat /\ s >= 1 /\ s <= latest /\ s + Lines > latest /\ IndexOf(s) = IndexOf(n)
             /\ n + Lines > latest => s = n
<1>. DEFINE i == IndexOf(n)
            s == slot[Cur][i].seq
<1>0. latest \in Nat /\ n \in Nat /\ n >= 1 /\ n <= latest
  BY DEF RingTyped
<1>1. i \in Slots
  BY <1>0, IndexIsSlot
<1>2. slot[Cur][i].id = boots
  BY DEF OwnSlots
<1>3. s \in 1..latest /\ IndexOf(s) = i /\ s + Lines > latest
  BY <1>1, <1>2 DEF OwnSlots
<1>4. slot[Cur][i] = [id |-> boots, seq |-> s]
  <2>1. slot[Cur][i] \in AnySlot
    BY <1>1, TwoHalves, OneSlot
  <2>. HIDE DEF i
  <2>. QED
    BY <1>2, <2>1 DEF AnySlot
<1>5. s \in Nat /\ s >= 1 /\ s <= latest
  BY <1>0, <1>3
<1>6. ASSUME n + Lines > latest  PROVE s = n
  <2>. HIDE DEF s
  <2>1. ~ (s < n)
    <3>. SUFFICES ASSUME s < n  PROVE FALSE
      OBVIOUS
    <3>1. s + Lines <= n
      BY <1>0, <1>3, <1>5, IndexApart
    <3>. QED
      BY <1>0, <1>3, <1>5, <3>1, LogRingAssumption
  <2>2. ~ (n < s)
    <3>. SUFFICES ASSUME n < s  PROVE FALSE
      OBVIOUS
    <3>1. n + Lines <= s
      BY <1>0, <1>3, <1>5, IndexApart
    <3>. QED
      BY <1>0, <1>5, <1>6, <3>1, LogRingAssumption
  <2>. QED
    BY <1>0, <1>5, <2>1, <2>2
<1>. QED
  BY <1>0, <1>1, <1>3, <1>4, <1>5, <1>6

LEMMA DurableNext ==
  ASSUME RingTyped, FreshIds, Headers, OwnSlots, Unsynced, Durable, [Next]_vars
  PROVE  Durable'
<1>0. /\ Cur \in Halves /\ latest \in Nat /\ boots \in Nat /\ durable \subseteq Nat
      /\ \A n \in durable : n \in Nat /\ n >= 1 /\ n <= latest /\ IndexOf(n) \in Slots
  <2>1. \A n \in durable : n \in Nat /\ n >= 1 /\ n <= latest
    <3>1. latest \in Nat /\ \A n \in durable : n \in 1..latest
      BY DEF RingTyped, Durable
    <3>. QED
      BY <3>1
  <2>. QED
    BY <2>1, TwoHalves, IndexIsSlot DEF RingTyped
<1>1. CASE LogRingInit \/ SyncRing \/ SyncHalf
  <2>1. durable = {} /\ durable' = durable
    BY <1>1 DEF LogRingInit, SyncRing, SyncHalf, Headers
  <2>. QED
    BY <2>1 DEF Durable
<1>2. ASSUME Restart  PROVE Durable'
  BY <1>2 DEF Restart, Durable
<1>3. ASSUME UNCHANGED <<hdr, slot, latest, boots>>,
             \A i \in Slots : slotMem'[Cur][i] \in {slotMem[Cur][i], slot[Cur][i]},
             \A n \in durable' \ durable :
               /\ n \in 1..latest /\ n + Lines > latest
               /\ slot[Cur][IndexOf(n)] = [id |-> boots, seq |-> n]
               /\ slotMem'[Cur][IndexOf(n)] = [id |-> boots, seq |-> n]
      PROVE  Durable'
  <2>1. Cur' = Cur
    BY <1>3 DEF Cur
  <2>2. ASSUME NEW n \in durable
        PROVE  /\ n \in 1..latest /\ n + Lines > latest
               /\ slot[Cur][IndexOf(n)] = [id |-> boots, seq |-> n]
               /\ slotMem'[Cur][IndexOf(n)] = [id |-> boots, seq |-> n]
    <3>1. /\ n \in 1..latest /\ n + Lines > latest
          /\ slot[Cur][IndexOf(n)] = [id |-> boots, seq |-> n]
          /\ slotMem[Cur][IndexOf(n)] = [id |-> boots, seq |-> n]
      BY DEF Durable
    <3>2. slotMem'[Cur][IndexOf(n)] \in {slotMem[Cur][IndexOf(n)], slot[Cur][IndexOf(n)]}
      BY <1>0, <1>3
    <3>3. slotMem'[Cur][IndexOf(n)] = [id |-> boots, seq |-> n]
      BY <3>1, <3>2
    <3>. QED
      BY <3>1, <3>3
  <2>. QED
    BY <1>3, <2>1, <2>2 DEF Durable
<1>4. CASE EvictRing
  BY <1>3, <1>4 DEF EvictRing, cacheVars, ramVars
<1>5. ASSUME NEW h \in Halves, EvictHalf(h)  PROVE Durable'
  BY <1>3, <1>5 DEF EvictHalf, cacheVars, ramVars
<1>6. ASSUME NEW h \in Halves, NEW i \in Slots, EvictSlot(h, i)  PROVE Durable'
  <2>1. \A j \in Slots : slotMem'[Cur][j] \in {slotMem[Cur][j], slot[Cur][j]}
    BY <1>0, <1>6 DEF EvictSlot, RingTyped
  <2>. QED
    BY <1>3, <1>6, <2>1 DEF EvictSlot, cacheVars, ramVars
<1>7. ASSUME NEW t \in Tasks, NEW k \in 1..MaxBatch, Commit(t, k)  PROVE Durable'
  <2>1. /\ k \in Nat /\ latest' = latest + k /\ boots' = boots /\ UNCHANGED slotMem
        /\ durable' = {n \in durable : n + Lines > latest'}
    BY <1>7, LogRingAssumption DEF Commit, psramVars
  <2>2. Cur' = Cur /\ \A i \in Slots : slot'[Cur][i] = Written(k)[i]
    BY <1>7, <2>1, AfterCommit
  <2>3. ASSUME NEW n \in durable'
        PROVE  /\ n \in 1..latest' /\ n + Lines > latest'
               /\ slot'[Cur][IndexOf(n)] = [id |-> boots, seq |-> n]
               /\ slotMem'[Cur][IndexOf(n)] = [id |-> boots, seq |-> n]
    <3>. DEFINE i == IndexOf(n)
                new == {m \in latest + 1 .. latest + k : IndexOf(m) = i}
    <3>1. n \in durable /\ n + Lines > latest'
      BY <2>1
    <3>2. n \in Nat /\ n >= 1 /\ n <= latest /\ i \in Slots
      BY <1>0, <3>1
    <3>3. ASSUME NEW m \in new  PROVE FALSE
      <4>1. m \in Nat /\ n < m /\ m <= latest' /\ IndexOf(n) = IndexOf(m)
        BY <1>0, <2>1, <3>2
      <4>2. n + Lines <= m
        BY <3>2, <4>1, IndexApart
      <4>. QED
        BY <1>0, <2>1, <3>1, <3>2, <4>1, <4>2, LogRingAssumption
    <3>4. new = {}
      BY <3>3
    <3>5. Written(k)[i] = slot[Cur][i]
      BY <2>1, <3>2, <3>4, LineOf
    <3>6. /\ slot[Cur][IndexOf(n)] = [id |-> boots, seq |-> n]
          /\ slotMem[Cur][IndexOf(n)] = [id |-> boots, seq |-> n]
      BY <3>1 DEF Durable
    <3>7. n \in 1..latest'
      BY <1>0, <2>1, <3>2
    <3>. QED
      BY <2>1, <2>2, <3>1, <3>2, <3>5, <3>6, <3>7
  <2>. QED
    BY <2>1, <2>2, <2>3 DEF Durable
<1>8. ASSUME NEW t \in Tasks, WriteBack(t)  PROVE Durable'
  <2>. DEFINE f == unsynced[t].first
              i == IndexOf(f)
              s == slot[Cur][i].seq
  <2>1. unsynced[t] # Clean
    BY <1>8 DEF WriteBack
  <2>2. phase # "boot"
    BY <2>1 DEF Headers
  <2>3. f \in 1..latest
    <3>1. unsynced[t] \in [first : Nat, last : Nat]
      BY DEF RingTyped
    <3>2. f \in Nat /\ unsynced[t].last \in Nat
      BY <3>1
    <3>3. 1 <= f /\ f <= unsynced[t].last /\ unsynced[t].last <= latest
      BY <2>1 DEF Unsynced
    <3>. QED
      BY <1>0, <3>2, <3>3
  <2>4. /\ i \in Slots /\ slot[Cur][i] = [id |-> boots, seq |-> s]
        /\ s \in Nat /\ s >= 1 /\ s <= latest /\ s + Lines > latest /\ IndexOf(s) = i
    BY <2>2, <2>3, SlotOf
  <2>5. /\ slotMem' = [slotMem EXCEPT ![Cur][i] = slot[Cur][i]]
        /\ durable' = durable \cup {s} /\ UNCHANGED <<hdr, slot, latest, boots>>
    BY <1>8 DEF WriteBack, cacheVars
  <2>6. s \in 1..latest
    BY <1>0, <2>4, SMTT(30)
  <2>. HIDE DEF i, s, f
  <2>7. \A j \in Slots : slotMem'[Cur][j] \in {slotMem[Cur][j], slot[Cur][j]}
    BY <1>0, <2>5 DEF RingTyped
  <2>8. slotMem'[Cur][i] = slot[Cur][i]
    BY <1>0, <2>4, <2>5 DEF RingTyped
  <2>. QED
    BY <1>3, <2>4, <2>5, <2>6, <2>7, <2>8
<1>9. ASSUME NEW t \in Tasks, WriteBackAll(t)  PROVE Durable'
  <2>1. unsynced[t].last - unsynced[t].first >= Lines /\ unsynced[t] \in [first : Nat, last : Nat]
    BY <1>9 DEF WriteBackAll, RingTyped
  <2>2. unsynced[t] # Clean
    BY <2>1, LogRingAssumption DEF Clean
  <2>3. phase # "boot"
    BY <2>2 DEF Headers
  <2>4. latest > Lines
    <3>1. unsynced[t].last \in Nat /\ unsynced[t].first \in Nat
      BY <2>1
    <3>2. 1 <= unsynced[t].first /\ unsynced[t].last <= latest
      BY <2>2 DEF Unsynced
    <3>. QED
      BY <1>0, <2>1, <3>1, <3>2, LogRingAssumption
  <2>5. ASSUME NEW i \in Slots
        PROVE  /\ slot[Cur][i] = [id |-> boots, seq |-> slot[Cur][i].seq]
               /\ slot[Cur][i].seq \in 1..latest /\ slot[Cur][i].seq + Lines > latest
               /\ IndexOf(slot[Cur][i].seq) = i
    <3>1. i + 1 \in 1..latest
      BY <1>0, <2>4, LogRingAssumption DEF Slots
    <3>2. IndexOf(i + 1) = i
      BY IndexOfFirst
    <3>. DEFINE s == slot[Cur][i].seq
    <3>3. /\ slot[Cur][i] = [id |-> boots, seq |-> s]
          /\ s \in Nat /\ s >= 1 /\ s <= latest /\ s + Lines > latest /\ IndexOf(s) = i
      BY <2>3, <3>1, <3>2, SlotOf
    <3>4. s \in 1..latest
      BY <1>0, <3>3
    <3>. QED
      BY <3>3, <3>4
  <2>6. /\ slotMem' = [slotMem EXCEPT ![Cur] = slot[Cur]]
        /\ durable' = durable \cup {slot[Cur][i].seq : i \in Slots}
        /\ UNCHANGED <<hdr, slot, latest, boots>>
    BY <1>9 DEF WriteBackAll, cacheVars
  <2>7. \A j \in Slots : slotMem'[Cur][j] = slot[Cur][j]
    BY <1>0, <2>6 DEF RingTyped
  <2>8. \A j \in Slots : slotMem'[Cur][j] \in {slotMem[Cur][j], slot[Cur][j]}
    BY <2>7
  <2>9. ASSUME NEW n \in durable' \ durable
        PROVE  /\ n \in 1..latest /\ n + Lines > latest
               /\ slot[Cur][IndexOf(n)] = [id |-> boots, seq |-> n]
               /\ slotMem'[Cur][IndexOf(n)] = [id |-> boots, seq |-> n]
    <3>1. PICK i \in Slots : n = slot[Cur][i].seq
      BY <2>6
    <3>. QED
      BY <2>5, <2>7, <3>1
  <2>. QED
    BY <1>3, <2>6, <2>8, <2>9
<1>10. CASE UNCHANGED vars
  BY <1>3, <1>10 DEF vars, cacheVars, psramVars, ramVars
<1>. QED
  BY <1>1, <1>2, <1>4, <1>5, <1>6, <1>7, <1>8, <1>9, <1>10
  DEF Next, Boot, WarmReset, PowerCut, Cache, Log

-----------------------------------------------------------------------------
(* The boot that died.                                                     *)

LEMMA FoundNext ==
  ASSUME RingTyped, FreshIds, Headers, OwnSlots, Durable, Found, [Next]_vars
  PROVE  Found'
<1>1. CASE LogRingInit \/ SyncRing \/ SyncHalf
  BY <1>1 DEF LogRingInit, SyncRing, SyncHalf, Found
<1>2. CASE WarmReset /\ phase = "run"
  <2>1. /\ Cur \in Halves /\ latest \in Nat /\ boots \in Nat
        /\ half[Cur] = [ok |-> TRUE, count |-> hdr.count, id |-> boots] /\ boots # 0 /\ hdr.ok
        /\ hdrMem = hdr /\ halfMem[Cur] = half[Cur]
    BY <1>2, TwoHalves DEF RingTyped, FreshIds, Headers
  <2>2. /\ phase' = "boot" /\ hdr' = hdr /\ half' = halfMem /\ slot' = slotMem' /\ Cur' = Cur
        /\ \A i \in Slots :
             \/ slotMem'[Cur][i] = slotMem[Cur][i]
             \/ i \in Tearable /\ slotMem'[Cur][i] = NoSlot
    BY <1>2, <2>1, AfterReset DEF Cur
  <2>3. died' = [id |-> boots, latest |-> latest, durable |-> durable \cap Retained(latest)]
    <3>1. half[Cur].id = boots
      BY <2>1
    <3>. QED
      BY <1>2, <3>1 DEF WarmReset
  <2>4. Trusted'
    BY <2>1, <2>2 DEF Trusted, Cur
  <2>5. half'[Cur'].id = died'.id
    BY <2>1, <2>2, <2>3
  <2>6. ASSUME NEW n \in died'.durable
        PROVE  /\ n >= 1 /\ n <= died'.latest /\ n + Lines > died'.latest + 1
               /\ slot'[Cur'][IndexOf(n)] = [id |-> died'.id, seq |-> n]
    <3>. DEFINE i == IndexOf(n)
    <3>1. n \in durable /\ n \in 1..latest /\ n + Lines > latest + 1
      BY <2>3 DEF Retained
    <3>2. n \in Nat /\ n >= 1 /\ n <= latest /\ i \in Slots
      BY <2>1, <3>1, IndexIsSlot
    <3>3. slot[Cur][i] = [id |-> boots, seq |-> n] /\ slotMem[Cur][i] = [id |-> boots, seq |-> n]
      BY <3>1 DEF Durable
    <3>4. i # IndexOf(latest + 1)
      <4>. SUFFICES ASSUME i = IndexOf(latest + 1)  PROVE FALSE
        OBVIOUS
      <4>1. latest + 1 \in Nat /\ n < latest + 1
        BY <2>1, <3>2
      <4>2. n + Lines <= latest + 1
        BY <3>2, <4>1, IndexApart
      <4>. QED
        BY <2>1, <3>1, <3>2, <4>2, LogRingAssumption
    <3>5. i \notin Tearable
      BY <3>3, <3>4 DEF Tearable
    <3>. QED
      BY <2>2, <2>3, <3>1, <3>2, <3>3, <3>5
  <2>7. ASSUME NEW i \in Slots, Valid(Cur, i)'  PROVE slot'[Cur'][i].seq <= died'.latest
    <3>1. slot'[Cur][i].seq # 0 /\ slot'[Cur][i].id = boots
      BY <2>1, <2>2, <2>7 DEF Valid
    <3>2. slot'[Cur][i] = slotMem[Cur][i]
      BY <2>2, <3>1 DEF NoSlot
    <3>. QED
      BY <1>2, <2>2, <2>3, <3>1, <3>2 DEF OwnSlots
  <2>. QED
    BY <2>4, <2>5, <2>6, <2>7 DEF Found
<1>3. CASE WarmReset /\ phase = "boot"
  <2>1. /\ hdr' = hdr /\ half' = half /\ slot' = slotMem' /\ Cur' = Cur
        /\ hdrMem = hdr /\ slotMem = slot
    BY <1>3, AfterReset DEF Headers, Cur
  <2>2. Tearable = {}
    BY <1>3, <2>1 DEF Tearable
  <2>3. \A i \in Slots : slot'[Cur][i] = slot[Cur][i]
    BY <1>3, <2>1, <2>2, TwoHalves, AfterReset
  <2>4. died' = died
    BY <1>3 DEF WarmReset
  <2>5. ASSUME died # Nobody  PROVE Found'
    <3>1. Trusted /\ half[Cur].id = died.id
      BY <1>3, <2>5 DEF Found
    <3>2. Trusted' /\ half'[Cur'].id = died'.id
      BY <2>1, <2>4, <3>1 DEF Trusted
    <3>3. ASSUME NEW n \in died.durable
          PROVE  /\ n >= 1 /\ n <= died.latest /\ n + Lines > died.latest + 1
                 /\ slot'[Cur'][IndexOf(n)] = [id |-> died.id, seq |-> n]
      <4>1. /\ n >= 1 /\ n <= died.latest /\ n + Lines > died.latest + 1
            /\ slot[Cur][IndexOf(n)] = [id |-> died.id, seq |-> n]
        BY <1>3, <2>5 DEF Found
      <4>2. n \in Nat
        <5>1. died.durable \in SUBSET Nat
          BY DEF RingTyped
        <5>. QED
          BY <5>1
      <4>3. IndexOf(n) \in Slots
        BY <4>1, <4>2, IndexIsSlot
      <4>. QED
        BY <2>1, <2>3, <4>1, <4>3
    <3>4. ASSUME NEW i \in Slots, Valid(Cur, i)'  PROVE slot'[Cur'][i].seq <= died.latest
      <4>1. Valid(Cur, i)
        BY <2>1, <2>3, <3>4 DEF Valid
      <4>. QED
        BY <1>3, <2>1, <2>3, <2>5, <4>1 DEF Found
    <3>. QED
      BY <2>4, <3>2, <3>3, <3>4 DEF Found
  <2>. QED
    BY <2>4, <2>5 DEF Found
<1>4. CASE WarmReset /\ phase \notin {"run", "boot"}
  BY <1>4 DEF WarmReset, Found
<1>5. CASE PowerCut
  BY <1>5 DEF PowerCut, Found
<1>6. CASE Cache
  <2>1. phase # "boot" /\ phase' = phase
    BY <1>6 DEF Cache, EvictRing, EvictHalf, EvictSlot, Headers, ramVars
  <2>. QED
    BY <2>1 DEF Found
<1>7. ASSUME NEW t \in Tasks, Log(t)  PROVE Found'
  <2>1. CASE \E k \in 1..MaxBatch : Commit(t, k)
    BY <2>1 DEF Commit, Found
  <2>2. CASE WriteBack(t)
    BY <2>2 DEF WriteBack, Headers, Found
  <2>3. CASE WriteBackAll(t)
    <3>1. unsynced[t] # Clean
      BY <2>3, LogRingAssumption DEF WriteBackAll, Clean
    <3>. QED
      BY <2>3, <3>1 DEF WriteBackAll, Headers, Found
  <2>. QED
    BY <1>7, <2>1, <2>2, <2>3 DEF Log
<1>8. CASE UNCHANGED vars
  BY <1>8 DEF Found, Trusted, Valid, Cur, vars, cacheVars, ramVars
<1>. QED
  <2>1. phase \in {"run", "boot"} \/ phase \notin {"run", "boot"}
    OBVIOUS
  <2>. QED
    BY <1>1, <1>2, <1>3, <1>4, <1>5, <1>6, <1>7, <1>8, <2>1 DEF Next, Boot

LEMMA ServedAgainNext ==
  ASSUME RingTyped, FreshIds, Headers, Found, ServedAgain, [Next]_vars
  PROVE  ServedAgain'
<1>1. CASE LogRingInit /\ died # Nobody
  <2>1. phase = "boot" /\ died' = died /\ slot' = slot
    BY <1>1 DEF LogRingInit
  <2>2. Trusted /\ half[Cur].id = died.id
    BY <1>1, <2>1 DEF Found
  <2>3. prev' = Cur /\ Cur' = 1 - Cur /\ prevLatest' = Newest(Cur)
    BY <1>1, <2>2, AfterInit
  <2>4. Cur \in Halves /\ prev' # None /\ half'[prev'] = half[Cur]
    BY <1>1, <2>3, TwoHalves, AfterInit DEF None, Halves
  <2>5. died.latest \in Nat /\ died.id \in Nat /\ died.durable \subseteq Nat
    <3>1. died \in [id : Nat, latest : Nat, durable : SUBSET Nat]
      BY DEF RingTyped
    <3>. QED
      BY <3>1
  <2>6. Newest(Cur) \in Nat /\ Newest(Cur) <= died.latest
    <3>1. CASE Newest(Cur) = 0
      BY <2>5, <3>1
    <3>2. CASE \E i \in Slots : Valid(Cur, i) /\ slot[Cur][i].seq = Newest(Cur)
      <4>1. PICK i \in Slots : Valid(Cur, i) /\ slot[Cur][i].seq = Newest(Cur)
        BY <3>2
      <4>2. slot[Cur][i].seq <= died.latest
        BY <1>1, <2>1, <4>1 DEF Found
      <4>. QED
        BY <2>4, <4>1, <4>2, NewestIs
    <3>. QED
      BY <2>4, <3>1, <3>2, NewestIs
  <2>7. ASSUME NEW n \in died.durable  PROVE n \in Served(prev, prevLatest)'
    <3>. DEFINE i == IndexOf(n)
    <3>1. /\ n >= 1 /\ n <= died.latest /\ n + Lines > died.latest + 1
          /\ slot[Cur][i] = [id |-> died.id, seq |-> n]
      BY <1>1, <2>1 DEF Found
    <3>2. n \in Nat /\ i \in Slots
      BY <2>5, <3>1, IndexIsSlot
    <3>. HIDE DEF i
    <3>3. slot[Cur][i].seq = n /\ n # 0 /\ slot[Cur][i].id = half[Cur].id
      BY <2>2, <3>1, <3>2
    <3>4. Valid(Cur, i) /\ Valid(prev, i)'
      BY <2>1, <2>3, <2>4, <3>3 DEF Valid
    <3>5. n <= Newest(Cur)
      BY <2>4, <3>2, <3>3, <3>4, NewestIs
    <3>6. n \in 1..prevLatest' /\ prevLatest' - n < Lines
      BY <2>3, <2>5, <2>6, <3>1, <3>2, <3>5, LogRingAssumption
    <3>. QED
      BY <2>1, <2>3, <3>3, <3>4, <3>6 DEF Served, i
  <2>. QED
    BY <2>1, <2>2, <2>3, <2>4, <2>6, <2>7 DEF ServedAgain
<1>2. CASE LogRingInit /\ died = Nobody
  BY <1>2 DEF LogRingInit, ServedAgain
<1>3. CASE WarmReset \/ PowerCut
  BY <1>3 DEF WarmReset, PowerCut, Restart, ServedAgain
<1>4. ASSUME UNCHANGED <<half, prev, prevLatest, died>>, phase' # "boot" => phase # "boot",
             prev # None /\ phase # "boot" => \A i \in Slots : slot'[prev][i] = slot[prev][i]
      PROVE  ServedAgain'
  <2>. SUFFICES ASSUME phase # "boot", died # Nobody  PROVE ServedAgain'
    BY <1>4 DEF ServedAgain
  <2>1. /\ prev # None /\ half[prev].id = died.id
        /\ died.durable \subseteq Served(prev, prevLatest) /\ prevLatest <= died.latest
    BY DEF ServedAgain
  <2>2. ASSUME NEW n \in Served(prev, prevLatest)  PROVE n \in Served(prev, prevLatest)'
    <3>1. /\ n \in 1..prevLatest /\ prevLatest - n < Lines
          /\ slot[prev][IndexOf(n)].seq = n /\ Valid(prev, IndexOf(n))
      BY DEF Served
    <3>2. IndexOf(n) \in Slots
      <4>1. n \in Nat /\ n >= 1
        BY <3>1 DEF RingTyped
      <4>. QED
        BY <4>1, IndexIsSlot
    <3>3. slot'[prev][IndexOf(n)] = slot[prev][IndexOf(n)]
      BY <1>4, <2>1, <3>2
    <3>4. Valid(prev, IndexOf(n))'
      BY <1>4, <3>1, <3>3 DEF Valid
    <3>. QED
      BY <1>4, <3>1, <3>3, <3>4 DEF Served
  <2>. QED
    BY <1>4, <2>1, <2>2 DEF ServedAgain
<1>5. CASE SyncRing \/ SyncHalf
  BY <1>4, <1>5 DEF SyncRing, SyncHalf, cacheVars
<1>6. CASE Cache
  BY <1>4, <1>6 DEF Cache, EvictRing, EvictHalf, EvictSlot, cacheVars, ramVars
<1>7. ASSUME NEW t \in Tasks, NEW k \in 1..MaxBatch, Commit(t, k)  PROVE ServedAgain'
  <2>1. k \in Nat
    BY LogRingAssumption
  <2>2. phase = "run" /\ \A i \in Slots : slot'[1 - Cur][i] = slot[1 - Cur][i]
    BY <1>7, <2>1, AfterCommit
  <2>3. prev \in {1 - Cur, None}
    BY <2>2 DEF FreshIds
  <2>. QED
    BY <1>4, <1>7, <2>2, <2>3 DEF Commit
<1>8. ASSUME NEW t \in Tasks, WriteBack(t) \/ WriteBackAll(t)  PROVE ServedAgain'
  BY <1>4, <1>8 DEF WriteBack, WriteBackAll, cacheVars
<1>9. CASE UNCHANGED vars
  BY <1>4, <1>9 DEF vars, cacheVars, ramVars
<1>. QED
  BY <1>1, <1>2, <1>3, <1>5, <1>6, <1>7, <1>8, <1>9 DEF Next, Boot, Log

-----------------------------------------------------------------------------
(* The theorem.                                                            *)

LEMMA RingInit ==
  ASSUME Init
  PROVE  RingInv
<1>1. RingTyped
  <2>1. NoRing \in AnyRing /\ NoHalf \in AnyHalf /\ NoSlot \in AnySlot
    BY DEF NoRing, AnyRing, NoHalf, AnyHalf, NoSlot, AnySlot, Halves
  <2>2. Clean \in [first : Nat, last : Nat]
        /\ Nobody \in [id : Nat, latest : Nat, durable : SUBSET Nat]
    BY DEF Clean, Nobody
  <2>3. half \in [Halves -> AnyHalf] /\ slot \in [Halves -> [Slots -> AnySlot]]
    BY <2>1 DEF Init
  <2>. QED
    BY <2>1, <2>2, <2>3 DEF Init, RingTyped
<1>2. FreshIds
  BY DEF Init, FreshIds, NoHalf, NoSlot
<1>3. Headers /\ OwnSlots /\ Unsynced /\ Durable /\ Found /\ ServedAgain
  BY DEF Init, Headers, OwnSlots, Unsynced, Durable, Found, ServedAgain
<1>. QED
  BY <1>1, <1>2, <1>3 DEF RingInv

\* RingInv: the halves of the ring, their IDs and what PSRAM holds of them keep in step.
THEOREM RingInvariant == Spec => []RingInv
<1>1. Init => RingInv
  BY RingInit
<1>2. RingInv /\ [Next]_vars => RingInv'
  BY RingTypedNext, FreshIdsNext, HeadersNext, OwnSlotsNext, UnsyncedNext, DurableNext,
     FoundNext, ServedAgainNext DEF RingInv
<1>. QED
  BY <1>1, <1>2, PTL DEF Spec

LEMMA InvGivesLastWords ==
  ASSUME RingInv
  PROVE  LastWords
<1>. SUFFICES ASSUME phase = "run"  PROVE LastWords
  BY DEF LastWords
<1>1. RingTyped /\ FreshIds /\ OwnSlots /\ ServedAgain
  BY DEF RingInv
<1>2. latest \in Nat /\ half[Cur].id = boots /\ half[1 - Cur].id # boots /\ prev \in {1 - Cur, None}
  BY <1>1 DEF RingTyped, FreshIds
<1>3. Served(Cur, latest) = {n \in 1..latest : n + Lines > latest}
  <2>1. ASSUME NEW n \in 1..latest, n + Lines > latest  PROVE n \in Served(Cur, latest)
    <3>. DEFINE i == IndexOf(n)
    <3>1. n \in Nat /\ n >= 1 /\ slot[Cur][i] = [id |-> boots, seq |-> n]
      BY <1>1, <2>1, SlotOf
    <3>2. latest - n < Lines
      BY <1>2, <2>1, <3>1, LogRingAssumption
    <3>. HIDE DEF i
    <3>3. slot[Cur][i].seq = n /\ slot[Cur][i].id = boots /\ n # 0
      BY <3>1
    <3>4. Valid(Cur, i)
      BY <1>2, <3>3 DEF Valid
    <3>. QED
      BY <3>2, <3>3, <3>4 DEF Served, i
  <2>2. ASSUME NEW n \in Served(Cur, latest)  PROVE n \in 1..latest /\ n + Lines > latest
    <3>1. n \in 1..latest /\ latest - n < Lines
      BY DEF Served
    <3>. QED
      BY <1>2, <3>1, LogRingAssumption
  <2>. QED
    BY <2>1, <2>2
<1>4. prev # None => prev # Cur /\ half[prev].id # half[Cur].id
  BY <1>1, <1>2, TwoHalves
<1>5. died # Nobody =>
        /\ prev # None /\ half[prev].id = died.id
        /\ died.durable \subseteq Served(prev, prevLatest)
        /\ prevLatest <= died.latest
  BY <1>1 DEF ServedAgain
<1>. QED
  BY <1>3, <1>4, <1>5 DEF LastWords

\* LastWords: the running boot serves every line of its own it has not overwritten, and
\* after a warm reset every line the boot before had written back and not overwritten, under
\* that boot's ID and none beyond its last: for any ring size, any number of tasks caught
\* anywhere in ingest and write_back, and whatever the cache wrote back by itself.
THEOREM LastWordsSurvive == Spec => []LastWords
BY RingInvariant, InvGivesLastWords, PTL

-----------------------------------------------------------------------------
(* GET /logs and logtail.py on top of the ring (LogTail).                  *)

PageType == [boot : {"current", "previous"}, id : Nat, latest : Nat, next : Nat, lines : Seq(Nat)]
TailTyped ==
  /\ pc \in {"sleep", "poll", "old", "drain_old", "drain"}
  /\ bootId \in Nat /\ cursor \in Nat /\ newId \in Nat
  /\ req \in PageType \cup {NoRequest}
  /\ out \subseteq [id : Nat, seq : Nat]

\* A poll under way is one of a running device, and asks for the half it is about.
PollsRunning ==
  /\ pc # "sleep" => phase = "run"
  /\ req # NoRequest =>
       /\ pc # "sleep"
       /\ req.boot = IF pc \in {"poll", "drain"} THEN "current" ELSE "previous"

\* What was printed is of the boot that is followed, up to the cursor, or of earlier ones.
PrintedSoFar ==
  /\ bootId <= boots /\ (bootId = 0 => cursor = 0)
  /\ \A l \in out : 1 <= l.id /\ l.id <= bootId /\ (l.id = bootId => l.seq <= cursor)
  /\ pc \in {"old", "drain_old"} => bootId # 0 /\ bootId < newId /\ newId = boots
  /\ pc = "drain" => bootId = boots

\* The numbers a half of the ring can answer for the page being served.
Answers == Served(HalfOf(req.boot), LatestOf(req.boot))

\* A page holds what of the lines behind the cursor could be served so far.
PageSoFar ==
  req # NoRequest =>
    /\ req.boot = "previous" => prev # None
    /\ req.id = half[HalfOf(req.boot)].id /\ req.latest = LatestOf(req.boot)
    /\ IF req.next = 0 THEN cursor >= req.latest ELSE req.next > cursor
    /\ \A i \in 1..Len(req.lines) :
         /\ req.lines[i] > cursor /\ req.lines[i] < req.next
         /\ req.lines[i] <= req.lines[Len(req.lines)]
         /\ req.lines[i] \in Answers
    /\ \A n \in cursor + 1..req.latest :
         n < req.next => n \in ToSet(req.lines) \/ n \notin Answers

TailInv == TailTyped /\ PollsRunning /\ PrintedSoFar /\ PageSoFar /\ EachLineOnce

LEMMA ReqTyped ==
  ASSUME TailTyped, req # NoRequest
  PROVE  /\ req \in PageType /\ req.boot \in {"current", "previous"}
         /\ req.id \in Nat /\ req.latest \in Nat /\ req.next \in Nat /\ req.lines \in Seq(Nat)
<1>1. req \in PageType
  BY DEF TailTyped
<1>. QED
  BY <1>1 DEF PageType

\* What a step of the device leaves alone.
LEMMA DeviceFrame ==
  ASSUME RingTyped, Headers, Device
  PROVE  /\ UNCHANGED <<req, tailVars, died>> /\ boots <= boots'
         /\ phase = "run" =>
              /\ phase' = "run" /\ UNCHANGED <<boots, hdr, half, prev, prevLatest>>
              /\ latest' = latest => slot' = slot
<1>0. boots \in Nat /\ latest \in Nat
  BY DEF RingTyped
<1>1. UNCHANGED <<req, tailVars>>
  BY DEF Device
<1>2. CASE Boot
  <2>1. phase # "run" /\ died' = died /\ (boots' = boots \/ boots' = boots + 1)
    BY <1>2 DEF Boot, LogRingInit, SyncRing, SyncHalf
  <2>2. boots <= boots'
    BY <1>0, <2>1
  <2>. QED
    BY <1>1, <2>1, <2>2
<1>3. CASE Cache
  <2>1. UNCHANGED <<died, boots, phase, hdr, half, prev, prevLatest, slot>>
    BY <1>3 DEF Cache, EvictRing, EvictHalf, EvictSlot, cacheVars, ramVars
  <2>. QED
    BY <1>0, <1>1, <2>1
<1>4. ASSUME NEW t \in Tasks, Log(t)
      PROVE  /\ UNCHANGED <<died, boots, phase, hdr, half, prev, prevLatest>>
             /\ latest' = latest => slot' = slot
  <2>1. ASSUME NEW k \in 1..MaxBatch, Commit(t, k)
        PROVE  /\ UNCHANGED <<died, boots, phase, hdr, half, prev, prevLatest>>
               /\ latest' # latest
    <3>1. latest' = latest + k /\ k \in Nat /\ k >= 1
      BY <2>1, LogRingAssumption DEF Commit
    <3>2. latest' # latest
      BY <1>0, <3>1
    <3>. QED
      BY <2>1, <3>2 DEF Commit
  <2>2. CASE WriteBack(t)
    BY <2>2 DEF WriteBack, cacheVars
  <2>3. CASE WriteBackAll(t)
    BY <2>3 DEF WriteBackAll, cacheVars
  <2>. QED
    BY <1>4, <2>1, <2>2, <2>3 DEF Log
<1>5. CASE \E t \in Tasks : Log(t)
  BY <1>0, <1>1, <1>4, <1>5
<1>. QED
  BY <1>2, <1>3, <1>5 DEF Device

\* Every step of the tail is one of the ring or leaves it alone.
LEMMA TailStepIsRingStep ==
  ASSUME [TailNext]_allVars
  PROVE  [Next]_vars
<1>1. CASE Device
  BY <1>1 DEF Device, Next
<1>2. CASE DeviceResets
  BY <1>2 DEF DeviceResets, Next
<1>3. CASE ServeLine
  BY <1>3 DEF ServeLine
<1>4. CASE Tool
  BY <1>4 DEF Tool, Poll, PollSameBoot, PollNewBoot, AskPrevious, PreviousLost, PreviousMore,
              PreviousEnd, AskCurrent, Drain
<1>5. CASE UNCHANGED allVars
  BY <1>5 DEF allVars
<1>. QED
  BY <1>1, <1>2, <1>3, <1>4, <1>5 DEF TailNext

\* The handler and the tool only read the ring: what holds of it holds under them.
THEOREM TailOnRing == TailSpec => Spec
<1>1. TailInit => Init
  BY DEF TailInit
<1>2. [TailNext]_allVars => [Next]_vars
  BY TailStepIsRingStep
<1>. QED
  BY <1>1, <1>2, PTL DEF TailSpec, Spec

LEMMA DeviceKeepsTail ==
  ASSUME Quiet, RingInv, TailInv, Device
  PROVE  TailInv'
<1>1. RingTyped /\ Headers
  BY DEF RingInv
<1>2. /\ UNCHANGED <<req, pc, bootId, cursor, newId, out, again, skipped, died>>
      /\ boots \in Nat /\ boots' \in Nat /\ boots <= boots'
      /\ phase = "run" =>
           /\ phase' = "run" /\ UNCHANGED <<boots, hdr, half, prev, prevLatest>>
           /\ latest' = latest => slot' = slot
  <2>1. boots' \in Nat
    <3>1. [Next]_vars
      BY Zenon DEF Device, Next
    <3>. QED
      BY <1>1, <3>1, RingTypedNext DEF RingInv, RingTyped
  <2>. QED
    BY <1>1, <2>1, DeviceFrame DEF RingTyped, tailVars
<1>3. TailTyped'
  BY <1>2 DEF TailInv, TailTyped
<1>4. PollsRunning'
  BY <1>2 DEF TailInv, PollsRunning
<1>5. PrintedSoFar'
  <2>1. bootId <= boots'
    BY <1>2 DEF TailInv, TailTyped, PrintedSoFar
  <2>2. pc # "sleep" => boots' = boots
    BY <1>2 DEF TailInv, PollsRunning
  <2>. QED
    BY <1>2, <2>1, <2>2 DEF TailInv, PrintedSoFar
<1>6. PageSoFar'
  <2>. SUFFICES ASSUME req # NoRequest  PROVE PageSoFar'
    BY <1>2 DEF PageSoFar
  <2>1. phase = "run"
    BY DEF TailInv, PollsRunning
  <2>2. latest' = latest
    <3>1. CASE Boot
      BY <2>1, <3>1 DEF Boot, LogRingInit, SyncRing, SyncHalf
    <3>2. CASE Cache
      BY <3>2 DEF Cache, EvictRing, EvictHalf, EvictSlot, ramVars
    <3>3. CASE \E t \in Tasks : Log(t) /\ (Quiet => req = NoRequest \/ latest' = latest)
      BY <3>3
    <3>. QED
      BY <3>1, <3>2, <3>3 DEF Device
  <2>3. UNCHANGED <<hdr, half, prev, prevLatest, slot, req, cursor>>
    BY <1>2, <2>1, <2>2
  <2>. QED
    BY <2>2, <2>3 DEF TailInv, PageSoFar, Answers, Served, Valid, HalfOf, LatestOf, Cur
<1>7. EachLineOnce'
  BY <1>2 DEF TailInv, EachLineOnce, NeverSilentlySkipped, NoLineTwice
<1>. QED
  BY <1>3, <1>4, <1>5, <1>6, <1>7 DEF TailInv

LEMMA ResetKeepsTail ==
  ASSUME RingInv, TailInv, DeviceResets
  PROVE  TailInv'
<1>1. /\ req' = NoRequest /\ pc' = "sleep" /\ newId' = 0 /\ skipped' = {}
      /\ UNCHANGED <<bootId, cursor, again>> /\ out' \subseteq out /\ boots' = boots
  BY DEF DeviceResets, WarmReset, PowerCut, Restart
<1>2. TailTyped'
  BY <1>1 DEF TailInv, TailTyped
<1>3. PollsRunning' /\ PageSoFar'
  BY <1>1 DEF PollsRunning, PageSoFar
<1>4. PrintedSoFar'
  BY <1>1 DEF TailInv, PrintedSoFar
<1>5. EachLineOnce'
  BY <1>1 DEF TailInv, EachLineOnce, NeverSilentlySkipped, NoLineTwice
<1>. QED
  BY <1>2, <1>3, <1>4, <1>5 DEF TailInv

LEMMA HalfAsked ==
  ASSUME RingTyped, NEW boot \in {"current", "previous"}, boot = "previous" => prev # None
  PROVE  HalfOf(boot) \in Halves /\ LatestOf(boot) \in Nat /\ half[HalfOf(boot)].id \in Nat
<1>1. HalfOf(boot) \in Halves
  BY TwoHalves DEF HalfOf, RingTyped
<1>. QED
  BY <1>1, HalfIds DEF LatestOf, RingTyped

\* The page as log_ring_info has it: nothing before its first line can be served.
LEMMA PageStarts ==
  ASSUME RingTyped, cursor \in Nat, NEW boot \in {"current", "previous"}, Ask(boot, cursor),
         UNCHANGED <<vars, cursor>>
  PROVE  /\ req' \in PageType /\ req' # NoRequest /\ req'.boot = boot /\ PageSoFar'
<1>. DEFINE last == LatestOf(boot)
            oldest == IF last = 0 THEN 0 ELSE IF last > Lines THEN last - Lines + 1 ELSE 1
            next == IF cursor >= last THEN 0 ELSE IF cursor + 1 < oldest THEN oldest ELSE cursor + 1
<1>1. /\ boot = "previous" => prev # None
      /\ req' = [boot |-> boot, id |-> half[HalfOf(boot)].id, latest |-> last, next |-> next,
                 lines |-> <<>>]
  BY DEF Ask, Page
<1>2. HalfOf(boot) \in Halves /\ last \in Nat /\ half[HalfOf(boot)].id \in Nat
  BY <1>1, HalfAsked
<1>3. next \in Nat
  BY <1>2, LogRingAssumption
<1>4. IF next = 0 THEN cursor >= last ELSE next > cursor
  BY <1>2, LogRingAssumption
<1>5. ASSUME NEW n \in cursor + 1..last, n < next  PROVE n \notin Served(HalfOf(boot), last)
  <2>1. ~ (last - n < Lines)
    BY <1>2, <1>5, LogRingAssumption
  <2>. QED
    BY <2>1 DEF Served
<1>6. req' \in PageType /\ req' # NoRequest
  <2>1. <<>> \in Seq(Nat)
    OBVIOUS
  <2>. HIDE DEF last, next
  <2>2. req' \in PageType
    BY <1>1, <1>2, <1>3, <2>1 DEF PageType
  <2>3. req'.boot # "none"
    BY <1>1
  <2>. QED
    BY <2>2, <2>3 DEF NoRequest
<1>. HIDE DEF last, next
<1>7. req'.boot = boot /\ req'.id = half[HalfOf(boot)].id /\ req'.latest = last
      /\ req'.next = next /\ req'.lines = <<>>
  BY <1>1
<1>8. HalfOf(boot)' = HalfOf(boot) /\ LatestOf(boot)' = last /\ half' = half /\ prev' = prev
      /\ Served(HalfOf(boot), last)' = Served(HalfOf(boot), last)
  BY DEF vars, cacheVars, ramVars, HalfOf, LatestOf, Cur, Served, Valid, last
<1>9. Answers' = Served(HalfOf(boot), last)
  BY <1>7, <1>8 DEF Answers, HalfOf, LatestOf, last
<1>10. \A i \in 1..Len(req'.lines) : FALSE
  BY <1>7
<1>. QED
  BY <1>1, <1>4, <1>5, <1>6, <1>7, <1>8, <1>9, <1>10 DEF PageSoFar

LEMMA ServeKeepsTail ==
  ASSUME RingInv, TailInv, ServeLine
  PROVE  TailInv'
<1>. DEFINE c == cursor
            ls == req.lines
            n == req.next
            in == n \in Answers
<1>1. /\ TailTyped /\ req # NoRequest /\ PageSoFar /\ n # 0 /\ n <= req.latest
      /\ UNCHANGED <<vars, pc, bootId, cursor, newId, out, again, skipped>>
  <2>1. req.latest \in Nat /\ req.next \in Nat
    BY ReqTyped DEF TailInv, ServeLine
  <2>. QED
    BY <2>1 DEF TailInv, ServeLine, PageFull, tailVars
<1>2. /\ req \in PageType /\ req.latest \in Nat /\ n \in Nat /\ ls \in Seq(Nat) /\ c \in Nat
      /\ Len(ls) \in Nat /\ \A i \in 1..Len(ls) : ls[i] \in Nat
  BY <1>1, ReqTyped DEF TailTyped
<1>3. req' = [req EXCEPT !.next = n + 1, !.lines = IF in THEN Append(ls, n) ELSE ls]
  BY DEF ServeLine, Answers
<1>4. /\ req'.boot = req.boot /\ req'.id = req.id /\ req'.latest = req.latest
      /\ req'.next = n + 1 /\ req'.lines = IF in THEN Append(ls, n) ELSE ls
  <2>. HIDE DEF in
  <2>. QED
    BY <1>2, <1>3 DEF PageType
<1>5. req' \in PageType
  <2>1. n + 1 \in Nat /\ Append(ls, n) \in Seq(Nat)
    BY <1>2
  <2>. HIDE DEF in
  <2>. QED
    BY <1>2, <1>3, <2>1 DEF PageType
<1>6. req' # NoRequest
  <2>1. req'.boot # "none"
    BY <1>5 DEF PageType
  <2>. QED
    BY <2>1 DEF NoRequest
<1>7. Answers' = Answers
  BY <1>1, <1>4 DEF Answers, Served, Valid, HalfOf, LatestOf, Cur, vars, cacheVars, ramVars
<1>8. /\ n > c
      /\ \A i \in 1..Len(ls) : ls[i] > c /\ ls[i] < n /\ ls[i] <= ls[Len(ls)] /\ ls[i] \in Answers
      /\ \A m \in c + 1..req.latest : m < n => m \in ToSet(ls) \/ m \notin Answers
  BY <1>1 DEF PageSoFar
<1>9. CASE in
  <2>. DEFINE more == Append(ls, n)
  <2>1. /\ req'.lines = more /\ Len(more) = Len(ls) + 1 /\ more[Len(more)] = n
        /\ \A i \in 1..Len(ls) : more[i] = ls[i]
    BY <1>2, <1>4, <1>9
  <2>. HIDE DEF more
  <2>2. ASSUME NEW i \in 1..Len(more)
        PROVE  more[i] > c /\ more[i] < n + 1 /\ more[i] <= more[Len(more)] /\ more[i] \in Answers
    <3>1. CASE i \in 1..Len(ls)
      <4>1. more[i] = ls[i] /\ ls[i] \in Nat /\ ls[i] > c /\ ls[i] < n /\ ls[i] \in Answers
        BY <1>2, <1>8, <2>1, <3>1
      <4>2. ls[i] < n + 1 /\ ls[i] <= n
        BY <1>2, <4>1
      <4>. QED
        BY <2>1, <4>1, <4>2
    <3>2. CASE i \notin 1..Len(ls)
      <4>1. i = Len(more)
        BY <1>2, <2>1, <3>2
      <4>2. n < n + 1 /\ n <= n
        BY <1>2
      <4>. QED
        BY <1>8, <1>9, <2>1, <4>1, <4>2
    <3>. QED
      BY <3>1, <3>2
  <2>3. ASSUME NEW m \in c + 1..req.latest, m < n + 1  PROVE m \in ToSet(more) \/ m \notin Answers
    <3>1. CASE m = n
      <4>1. Len(more) \in DOMAIN more
        BY <1>2, <2>1 DEF more
      <4>. QED
        BY <2>1, <3>1, <4>1 DEF ToSet
    <3>2. CASE m # n
      <4>1. m < n
        BY <1>2, <2>3, <3>2
      <4>2. CASE m \in ToSet(ls)
        <5>1. PICK i \in 1..Len(ls) : ls[i] = m
          BY <1>2, <4>2 DEF ToSet
        <5>2. i \in DOMAIN more /\ more[i] = m
          BY <1>2, <2>1, <5>1 DEF more
        <5>. QED
          BY <5>2 DEF ToSet
      <4>3. CASE m \notin Answers
        BY <4>3
      <4>. QED
        BY <1>8, <4>1, <4>2, <4>3
    <3>. QED
      BY <3>1, <3>2
  <2>4. n + 1 # 0 /\ n + 1 > c
    BY <1>2, <1>8
  <2>. QED
    <3>. HIDE DEF in
    <3>1. PageSoFar'
      BY <1>1, <1>4, <1>7, <2>1, <2>2, <2>3, <2>4
      DEF PageSoFar, HalfOf, LatestOf, Cur, vars, cacheVars, ramVars
    <3>. QED
      BY <1>1, <1>4, <1>5, <1>6, <3>1
      DEF TailInv, TailTyped, PollsRunning, PrintedSoFar, EachLineOnce, NeverSilentlySkipped,
          NoLineTwice, vars, ramVars
<1>10. CASE ~in
  <2>1. req'.lines = ls
    BY <1>4, <1>10
  <2>2. \A i \in 1..Len(ls) :
          ls[i] > c /\ ls[i] < n + 1 /\ ls[i] <= ls[Len(ls)] /\ ls[i] \in Answers
    BY <1>2, <1>8
  <2>3. ASSUME NEW m \in c + 1..req.latest, m < n + 1  PROVE m \in ToSet(ls) \/ m \notin Answers
    <3>1. m = n \/ m < n
      BY <1>2, <2>3
    <3>. QED
      BY <1>8, <1>10, <3>1
  <2>4. n + 1 # 0 /\ n + 1 > c
    BY <1>2, <1>8
  <2>. QED
    <3>. HIDE DEF in
    <3>1. PageSoFar'
      BY <1>1, <1>4, <1>7, <2>1, <2>2, <2>3, <2>4
      DEF PageSoFar, HalfOf, LatestOf, Cur, vars, cacheVars, ramVars
    <3>. QED
      BY <1>1, <1>4, <1>5, <1>6, <3>1
      DEF TailInv, TailTyped, PollsRunning, PrintedSoFar, EachLineOnce, NeverSilentlySkipped,
          NoLineTwice, vars, ramVars
<1>. QED
  BY <1>9, <1>10

LEMMA PagePrinted ==
  ASSUME TailTyped, PageSoFar, req # NoRequest,
         \A l \in out : l.id = req.id => l.seq <= cursor
  PROVE  /\ out \cap Printed = {} /\ Printed \subseteq [id : Nat, seq : Nat]
         /\ CursorAfter \in Nat /\ cursor <= CursorAfter
         /\ \A l \in Printed : l.id = req.id /\ l.seq <= CursorAfter
<1>. DEFINE ls == req.lines
<1>1. ls \in Seq(Nat) /\ req.id \in Nat /\ cursor \in Nat /\ Len(ls) \in Nat
  BY ReqTyped DEF TailTyped
<1>2. \A i \in 1..Len(ls) : ls[i] \in Nat /\ ls[i] > cursor /\ ls[i] <= ls[Len(ls)]
  BY <1>1 DEF PageSoFar
<1>3. /\ CursorAfter \in Nat /\ cursor <= CursorAfter
      /\ \A i \in 1..Len(ls) : ls[i] <= CursorAfter
  <2>1. CASE ls = <<>>
    <3>1. CursorAfter = cursor /\ Len(ls) = 0
      BY <2>1 DEF CursorAfter
    <3>. QED
      BY <1>1, <3>1
  <2>2. CASE ls # <<>>
    <3>1. CursorAfter = ls[Len(ls)] /\ Len(ls) \in 1..Len(ls)
      BY <1>1, <2>2 DEF CursorAfter, Last
    <3>. QED
      BY <1>1, <1>2, <3>1
  <2>. QED
    BY <2>1, <2>2
<1>4. ASSUME NEW l \in Printed
      PROVE  /\ l \in [id : Nat, seq : Nat] /\ l.id = req.id
             /\ l.seq <= CursorAfter /\ ~ (l.seq <= cursor)
  <2>1. PICK n \in ToSet(ls) : l = Line(n)
    BY DEF Printed
  <2>2. PICK i \in 1..Len(ls) : ls[i] = n
    BY <1>1 DEF ToSet
  <2>3. n \in Nat /\ n <= CursorAfter /\ ~ (n <= cursor)
    BY <1>1, <1>2, <1>3, <2>2
  <2>. QED
    BY <1>1, <2>1, <2>3 DEF Line
<1>. QED
  BY <1>3, <1>4

\* What a complete page lacks could not be served when its turn came.
LEMMA GapsUnserved ==
  ASSUME TailTyped, PageSoFar, req # NoRequest, PageFull, PageLimit # 0,
         NEW n \in InnerGap \cup EmptyTail
  PROVE  /\ n \notin Answers /\ n \in cursor + 1..req.latest
         /\ req.lines = <<>> => \A m \in cursor + 1..req.latest : m \notin Answers
         /\ req.lines # <<>> => Head(req.lines) \in Answers /\ Head(req.lines) < n
<1>. DEFINE ls == req.lines
            c == cursor
<1>1. /\ ls \in Seq(Nat) /\ Len(ls) \in Nat /\ c \in Nat /\ req.latest \in Nat /\ req.next \in Nat
  BY ReqTyped DEF TailTyped
<1>2. /\ \A i \in 1..Len(ls) :
           ls[i] \in Nat /\ ls[i] > c /\ ls[i] < req.next /\ ls[i] <= ls[Len(ls)] /\ ls[i] \in Answers
      /\ \A m \in c + 1..req.latest : m < req.next => m \in ToSet(ls) \/ m \notin Answers
      /\ IF req.next = 0 THEN c >= req.latest ELSE req.next > c
  BY <1>1 DEF PageSoFar
<1>3. CASE ls = <<>>
  <2>1. n \in c + 1..req.latest /\ Len(ls) = 0
    BY <1>3 DEF InnerGap, EmptyTail
  <2>2. req.next # 0 /\ req.next > req.latest
    <3>1. req.next # 0
      BY <1>1, <1>2, <2>1
    <3>. QED
      BY <2>1, <3>1 DEF PageFull
  <2>3. \A m \in c + 1..req.latest : m < req.next /\ m \notin ToSet(ls)
    <3>1. \A m \in c + 1..req.latest : m < req.next
      BY <1>1, <2>2
    <3>2. ToSet(ls) = {}
      BY <1>3 DEF ToSet
    <3>. QED
      BY <3>1, <3>2
  <2>. QED
    BY <1>2, <1>3, <2>1, <2>3
<1>4. CASE ls # <<>>
  <2>1. /\ Len(ls) \in 1..Len(ls) /\ 1 \in 1..Len(ls) /\ Last(ls) = ls[Len(ls)] /\ Head(ls) = ls[1]
    BY <1>1, <1>4 DEF Last
  <2>2. n \in Head(ls) .. Last(ls) /\ n \notin ToSet(ls)
    BY <1>4 DEF InnerGap, EmptyTail
  <2>3. ls[1] \in ToSet(ls)
    BY <1>1, <2>1 DEF ToSet
  <2>4. ls[1] \in Nat /\ ls[1] > c /\ ls[1] \in Answers /\ ls[Len(ls)] \in Nat
        /\ ls[Len(ls)] < req.next /\ ls[Len(ls)] \in Answers
    BY <1>2, <2>1
  <2>5. ls[1] < n /\ n > c /\ n < req.next /\ n <= ls[Len(ls)] /\ n \in Nat
    BY <1>1, <2>1, <2>2, <2>3, <2>4
  <2>6. ls[Len(ls)] <= req.latest
    <3>1. ls[Len(ls)] \in 1..LatestOf(req.boot)
      BY <2>4 DEF Answers, Served
    <3>2. LatestOf(req.boot) = req.latest
      BY DEF PageSoFar
    <3>. QED
      BY <1>1, <3>1, <3>2
  <2>7. n \in c + 1..req.latest
    BY <1>1, <2>4, <2>5, <2>6
  <2>. QED
    BY <1>2, <1>4, <2>1, <2>2, <2>4, <2>5, <2>7
<1>. QED
  BY <1>3, <1>4

\* Nothing of the running boot can be skipped in the meantime if nobody logs.
LEMMA NoGapInCurrent ==
  ASSUME RingInv, TailInv, req # NoRequest, PageFull, PageLimit # 0, req.boot = "current"
  PROVE  InnerGap = {} /\ EmptyTail = {}
<1>. SUFFICES ASSUME NEW n \in InnerGap \cup EmptyTail  PROVE FALSE
  OBVIOUS
<1>1. RingTyped /\ TailTyped /\ PageSoFar /\ phase = "run"
  BY DEF RingInv, TailInv, PollsRunning
<1>2. latest \in Nat /\ cursor \in Nat /\ req.latest = latest /\ Answers = Served(Cur, latest)
  BY <1>1 DEF RingTyped, TailTyped, PageSoFar, Answers, HalfOf, LatestOf
<1>3. Answers = {m \in 1..latest : m + Lines > latest}
  BY <1>1, <1>2, InvGivesLastWords DEF LastWords
<1>4. /\ n \notin Answers /\ n \in cursor + 1..latest
      /\ req.lines = <<>> => \A m \in cursor + 1..latest : m \notin Answers
      /\ req.lines # <<>> => Head(req.lines) \in Answers /\ Head(req.lines) < n
  BY <1>1, <1>2, GapsUnserved
<1>5. CASE req.lines = <<>>
  <2>1. latest \in cursor + 1..latest /\ latest \in 1..latest /\ latest + Lines > latest
    BY <1>2, <1>4, LogRingAssumption
  <2>. QED
    BY <1>3, <1>4, <1>5, <2>1
<1>6. CASE req.lines # <<>>
  <2>. DEFINE h == Head(req.lines)
  <2>1. h \in 1..latest /\ h + Lines > latest /\ h < n
    BY <1>3, <1>4, <1>6
  <2>. HIDE DEF h
  <2>2. n \in 1..latest /\ n + Lines > latest
    BY <1>2, <1>4, <2>1, LogRingAssumption
  <2>. QED
    BY <1>3, <1>4, <2>2
<1>. QED
  BY <1>5, <1>6

\* Nor is anything of the boot that died which was safe from the reset.
LEMMA GapInPreviousWasLost ==
  ASSUME RingInv, TailInv, req # NoRequest, PageFull, PageLimit # 0, req.boot = "previous",
         NEW n \in InnerGap \cup EmptyTail
  PROVE  n \notin died.durable
<1>1. TailTyped /\ PageSoFar /\ phase = "run"
  BY DEF TailInv, PollsRunning
<1>2. n \notin Served(prev, prevLatest)
  BY <1>1, GapsUnserved DEF Answers, HalfOf, LatestOf
<1>3. CASE died = Nobody
  BY <1>3 DEF Nobody
<1>4. CASE died # Nobody
  BY <1>1, <1>2, <1>4 DEF RingInv, ServedAgain
<1>. QED
  BY <1>3, <1>4

\* Writing a page out repeats nothing and leaves out nothing without a note.
LEMMA EmitKeeps ==
  ASSUME RingInv, TailInv, req # NoRequest, PageFull, PageLimit # 0, UNCHANGED vars,
         NEW gap, gap \subseteq InnerGap \cup EmptyTail, Emit(gap),
         \A l \in out : l.id = req.id => l.seq <= cursor
  PROVE  /\ EachLineOnce' /\ out' \subseteq [id : Nat, seq : Nat]
         /\ CursorAfter \in Nat /\ cursor <= CursorAfter
         /\ \A l \in out' : l \in out \/ (l.id = req.id /\ l.seq <= CursorAfter)
<1>1. /\ out \cap Printed = {} /\ Printed \subseteq [id : Nat, seq : Nat]
      /\ CursorAfter \in Nat /\ cursor <= CursorAfter
      /\ \A l \in Printed : l.id = req.id /\ l.seq <= CursorAfter
  BY PagePrinted DEF TailInv
<1>2. out' = out \cup Printed /\ again' = {}
  BY <1>1 DEF Emit, TailInv, EachLineOnce, NoLineTwice
<1>3. ASSUME NEW s \in skipped'
      PROVE  s.of = "previous" /\ (s.line.id = died.id => s.line.seq \notin died.durable)
  <2>1. PICK n \in gap : s = [line |-> Line(n), of |-> req.boot]
    BY DEF Emit
  <2>2. req.boot # "current"
    BY <2>1, NoGapInCurrent
  <2>3. req.boot = "previous"
    BY <2>2, ReqTyped DEF TailInv
  <2>4. n \notin died.durable
    BY <2>1, <2>3, GapInPreviousWasLost
  <2>. QED
    BY <2>1, <2>3, <2>4 DEF Line
<1>4. died' = died
  BY DEF vars
<1>5. EachLineOnce'
  BY <1>2, <1>3, <1>4 DEF EachLineOnce, NeverSilentlySkipped, NoLineTwice
<1>6. out' \subseteq [id : Nat, seq : Nat]
  BY <1>1, <1>2 DEF TailInv, TailTyped
<1>. QED
  BY <1>1, <1>2, <1>5, <1>6

\* The half a page is of.
LEMMA PageOf ==
  ASSUME RingInv, TailInv, req # NoRequest
  PROVE  /\ phase = "run" /\ boots \in Nat /\ boots # 0 /\ req.id \in Nat
         /\ req.boot = "current" => req.id = boots
<1>1. phase = "run" /\ PageSoFar
  BY DEF TailInv, PollsRunning
<1>2. half[Cur].id = boots /\ boots # 0 /\ boots \in Nat
  BY <1>1 DEF RingInv, FreshIds, RingTyped
<1>3. req.boot = "current" => req.id = half[Cur].id
  BY <1>1 DEF PageSoFar, HalfOf
<1>. QED
  BY <1>1, <1>2, <1>3, ReqTyped DEF TailInv

LEMMA AskKeepsTail ==
  ASSUME RingInv, TailInv, Poll \/ AskPrevious \/ AskCurrent
  PROVE  TailInv'
<1>1. /\ UNCHANGED <<vars, bootId, cursor, newId, out, again, skipped>> /\ phase = "run"
      /\ TailTyped /\ RingTyped /\ cursor \in Nat
  BY DEF Poll, AskPrevious, AskCurrent, Ask, tailVars, TailInv, TailTyped, RingInv
<1>2. PICK boot \in {"current", "previous"} :
        /\ Ask(boot, cursor)
        /\ boot = IF pc' \in {"poll", "drain"} THEN "current" ELSE "previous"
        /\ pc' \in {"poll", "old", "drain_old", "drain"}
        /\ pc' = pc \/ (pc = "sleep" /\ pc' = "poll")
  <2>1. CASE Poll
    <3>1. Ask("current", cursor)
      BY <2>1 DEF Poll, TailInv, PrintedSoFar
    <3>. QED
      BY <2>1, <3>1 DEF Poll
  <2>2. CASE AskPrevious
    BY <2>2 DEF AskPrevious, tailVars
  <2>3. CASE AskCurrent
    BY <2>3 DEF AskCurrent, tailVars
  <2>. QED
    BY <2>1, <2>2, <2>3
<1>3. req' \in PageType /\ req' # NoRequest /\ req'.boot = boot /\ PageSoFar'
  BY <1>1, <1>2, PageStarts
<1>4. TailTyped'
  BY <1>1, <1>2, <1>3 DEF TailTyped
<1>5. PollsRunning'
  BY <1>1, <1>2, <1>3 DEF PollsRunning, vars, ramVars
<1>6. PrintedSoFar'
  BY <1>1, <1>2 DEF TailInv, PrintedSoFar, vars
<1>7. EachLineOnce'
  BY <1>1 DEF TailInv, EachLineOnce, NeverSilentlySkipped, NoLineTwice, vars
<1>. QED
  BY <1>3, <1>4, <1>5, <1>6, <1>7 DEF TailInv

LEMMA AnswerKeepsTail ==
  ASSUME RingInv, TailInv, PageLimit # 0,
         PollSameBoot \/ PollNewBoot \/ PreviousLost \/ PreviousMore \/ PreviousEnd \/ Drain
  PROVE  TailInv'
<1>0. /\ TailTyped /\ PollsRunning /\ PrintedSoFar /\ EachLineOnce
      /\ bootId \in Nat /\ cursor \in Nat /\ newId \in Nat /\ boots \in Nat
  BY DEF TailInv, TailTyped, RingInv, RingTyped
<1>1. /\ req' = NoRequest /\ boots' = boots /\ phase' = phase /\ died' = died /\ UNCHANGED vars
      /\ phase = "run"
  BY <1>0 DEF PollSameBoot, PollNewBoot, PreviousLost, PreviousMore, PreviousEnd, Drain, NextBoot,
     Answered, PollsRunning, vars, ramVars
<1>2. PageSoFar'
  BY <1>1 DEF PageSoFar
<1>3. ASSUME pc' \in {"sleep", "old", "drain_old", "drain"}  PROVE PollsRunning'
  BY <1>1, <1>3 DEF PollsRunning
<1>4. ASSUME out' = out, again' = again, skipped' = skipped  PROVE EachLineOnce'
  BY <1>0, <1>1, <1>4 DEF EachLineOnce, NeverSilentlySkipped, NoLineTwice
<1>5. CASE PollSameBoot
  <2>1. pc = "poll" /\ req # NoRequest /\ PageFull /\ bootId \in {0, req.id} /\ bootId' = req.id
    BY <1>5 DEF PollSameBoot, Answered
  <2>2. req.id = boots /\ boots # 0
    BY <1>0, <2>1, PageOf DEF PollsRunning
  <2>3. \A l \in out : l.id = req.id => l.seq <= cursor
    BY <1>0, <2>1, <2>2 DEF PrintedSoFar, TailTyped
  <2>4. /\ EachLineOnce' /\ out' \subseteq [id : Nat, seq : Nat]
        /\ CursorAfter \in Nat /\ cursor <= CursorAfter
        /\ \A l \in out' : l \in out \/ (l.id = req.id /\ l.seq <= CursorAfter)
    <3>1. PICK gap : gap = InnerGap
      OBVIOUS
    <3>. QED
      BY <1>1, <1>5, <2>1, <2>3, <3>1, EmitKeeps DEF PollSameBoot
  <2>5. cursor' = CursorAfter /\ pc' \in {"drain", "sleep"} /\ newId' = newId
    BY <1>5 DEF PollSameBoot
  <2>6. PrintedSoFar'
    <3>1. bootId' <= boots /\ bootId' # 0 /\ 1 <= boots
      BY <1>0, <2>1, <2>2
    <3>2. ASSUME NEW l \in out'
          PROVE  1 <= l.id /\ l.id <= bootId' /\ (l.id = bootId' => l.seq <= cursor')
      <4>1. CASE l \in out
        <5>1. 1 <= l.id /\ l.id <= bootId /\ bootId <= boots /\ l.id \in Nat /\ l.seq \in Nat
          BY <1>0, <4>1 DEF PrintedSoFar, TailTyped
        <5>2. l.id = bootId' => l.seq <= cursor
          BY <2>1, <2>3, <4>1
        <5>. QED
          BY <1>0, <2>1, <2>2, <2>4, <2>5, <5>1, <5>2
      <4>2. CASE l.id = req.id /\ l.seq <= CursorAfter
        BY <1>0, <2>1, <2>2, <2>5, <3>1, <4>2
      <4>. QED
        BY <2>4, <4>1, <4>2
    <3>. QED
      BY <1>1, <2>1, <2>2, <2>5, <3>1, <3>2 DEF PrintedSoFar
  <2>7. TailTyped'
    BY <1>0, <1>1, <2>1, <2>2, <2>4, <2>5 DEF TailTyped
  <2>. QED
    BY <1>2, <1>3, <2>4, <2>5, <2>6, <2>7 DEF TailInv
<1>6. CASE PollNewBoot
  <2>1. /\ pc = "poll" /\ req # NoRequest /\ bootId \notin {0, req.id} /\ newId' = req.id
        /\ pc' = "old" /\ UNCHANGED <<bootId, cursor, out, again, skipped>>
    BY <1>6 DEF PollNewBoot, Answered
  <2>2. req.id = boots /\ boots # 0
    BY <1>0, <2>1, PageOf DEF PollsRunning
  <2>3. bootId < boots
    BY <1>0, <2>1, <2>2 DEF PrintedSoFar
  <2>4. PrintedSoFar'
    BY <1>0, <1>1, <2>1, <2>2, <2>3 DEF PrintedSoFar
  <2>5. TailTyped'
    BY <1>0, <1>1, <2>1, <2>2 DEF TailTyped
  <2>. QED
    BY <1>2, <1>3, <1>4, <2>1, <2>4, <2>5 DEF TailInv
<1>7. ASSUME NextBoot, bootId # 0, bootId < newId, newId = boots,
             out' \subseteq [id : Nat, seq : Nat],
             \A l \in out' : 1 <= l.id /\ l.id <= bootId
      PROVE  TailTyped' /\ PollsRunning' /\ PrintedSoFar'
  <2>1. /\ bootId' = newId /\ newId' = 0 /\ cursor' = 0 /\ pc' = "drain"
    BY <1>7 DEF NextBoot
  <2>2. ASSUME NEW l \in out'
        PROVE  1 <= l.id /\ l.id <= bootId' /\ (l.id = bootId' => l.seq <= cursor')
    <3>1. 1 <= l.id /\ l.id <= bootId /\ l.id \in Nat
      BY <1>7
    <3>2. l.id <= newId /\ l.id # newId
      BY <1>0, <1>7, <3>1
    <3>. QED
      BY <2>1, <3>1, <3>2
  <2>3. PrintedSoFar'
    <3>1. newId <= boots /\ newId # 0
      BY <1>0, <1>7
    <3>. QED
      BY <1>1, <1>7, <2>1, <2>2, <3>1 DEF PrintedSoFar
  <2>4. TailTyped'
    BY <1>0, <1>1, <1>7, <2>1 DEF TailTyped
  <2>. QED
    BY <1>3, <2>1, <2>3, <2>4
<1>8. CASE PreviousLost
  <2>1. pc = "old" /\ NextBoot /\ UNCHANGED <<out, again, skipped>>
    BY <1>8 DEF PreviousLost, Answered
  <2>2. bootId # 0 /\ bootId < newId /\ newId = boots /\ \A l \in out : 1 <= l.id /\ l.id <= bootId
    BY <1>0, <2>1 DEF PrintedSoFar
  <2>3. out' \subseteq [id : Nat, seq : Nat]
    BY <1>0, <2>1 DEF TailTyped
  <2>. QED
    BY <1>2, <1>4, <1>7, <2>1, <2>2, <2>3 DEF TailInv
<1>9. ASSUME pc \in {"old", "drain_old"}, Answered(pc), req.id = bootId,
             NEW gap, gap \subseteq InnerGap \cup EmptyTail, Emit(gap)
      PROVE  /\ EachLineOnce' /\ out' \subseteq [id : Nat, seq : Nat]
             /\ CursorAfter \in Nat /\ cursor <= CursorAfter
             /\ bootId # 0 /\ bootId < newId /\ newId = boots
             /\ \A l \in out' :
                  1 <= l.id /\ l.id <= bootId /\ (l.id = bootId => l.seq <= CursorAfter)
  <2>1. req # NoRequest /\ PageFull
    BY <1>9 DEF Answered
  <2>2. \A l \in out :
          1 <= l.id /\ l.id <= bootId /\ (l.id = bootId => l.seq <= cursor) /\ l.seq \in Nat
    BY <1>0 DEF PrintedSoFar, TailTyped
  <2>3. /\ EachLineOnce' /\ out' \subseteq [id : Nat, seq : Nat]
        /\ CursorAfter \in Nat /\ cursor <= CursorAfter
        /\ \A l \in out' : l \in out \/ (l.id = req.id /\ l.seq <= CursorAfter)
    BY <1>1, <1>9, <2>1, <2>2, EmitKeeps
  <2>4. bootId # 0 /\ bootId < newId /\ newId = boots
    BY <1>0, <1>9 DEF PrintedSoFar
  <2>5. ASSUME NEW l \in out'
        PROVE  1 <= l.id /\ l.id <= bootId /\ (l.id = bootId => l.seq <= CursorAfter)
    <3>1. CASE l \in out
      BY <1>0, <2>2, <2>3, <3>1
    <3>2. CASE l.id = req.id /\ l.seq <= CursorAfter
      BY <1>0, <1>9, <2>4, <3>2
    <3>. QED
      BY <2>3, <3>1, <3>2
  <2>. QED
    BY <2>3, <2>4, <2>5
<1>10. CASE PreviousMore
  <2>1. /\ pc \in {"old", "drain_old"} /\ Answered(pc) /\ req.id = bootId /\ Emit(InnerGap)
        /\ cursor' = CursorAfter /\ pc' = "drain_old" /\ UNCHANGED <<bootId, newId>>
    BY <1>10 DEF PreviousMore
  <2>2. /\ EachLineOnce' /\ out' \subseteq [id : Nat, seq : Nat]
        /\ CursorAfter \in Nat /\ cursor <= CursorAfter
        /\ bootId # 0 /\ bootId < newId /\ newId = boots
        /\ \A l \in out' :
             1 <= l.id /\ l.id <= bootId /\ (l.id = bootId => l.seq <= CursorAfter)
    <3>1. PICK gap : gap = InnerGap
      OBVIOUS
    <3>. QED
      BY <1>9, <2>1, <3>1
  <2>3. PrintedSoFar'
    BY <1>0, <1>1, <2>1, <2>2 DEF PrintedSoFar
  <2>4. TailTyped'
    BY <1>0, <1>1, <2>1, <2>2 DEF TailTyped
  <2>. QED
    BY <1>2, <1>3, <2>1, <2>2, <2>3, <2>4 DEF TailInv
<1>11. CASE PreviousEnd
  <2>1. /\ pc \in {"old", "drain_old"} /\ Answered(pc) /\ req.id = bootId
        /\ Emit(InnerGap \cup EmptyTail) /\ NextBoot
    BY <1>11 DEF PreviousEnd
  <2>2. /\ EachLineOnce' /\ out' \subseteq [id : Nat, seq : Nat]
        /\ bootId # 0 /\ bootId < newId /\ newId = boots
        /\ \A l \in out' : 1 <= l.id /\ l.id <= bootId
    <3>1. PICK gap : gap = InnerGap \cup EmptyTail
      OBVIOUS
    <3>. QED
      BY <1>9, <2>1, <3>1
  <2>. QED
    BY <1>2, <1>7, <2>1, <2>2 DEF TailInv
<1>12. CASE Drain
  <2>1. pc = "drain" /\ req # NoRequest /\ PageFull /\ Emit(InnerGap \cup EmptyTail)
    BY <1>12 DEF Drain, Answered
  <2>2. req.boot = "current" /\ req.id = boots /\ boots # 0 /\ bootId = boots
    BY <1>0, <2>1, PageOf DEF PollsRunning, PrintedSoFar
  <2>3. \A l \in out :
          1 <= l.id /\ l.id <= bootId /\ (l.id = bootId => l.seq <= cursor) /\ l.seq \in Nat
    BY <1>0 DEF PrintedSoFar, TailTyped
  <2>4. /\ EachLineOnce' /\ out' \subseteq [id : Nat, seq : Nat]
        /\ CursorAfter \in Nat /\ cursor <= CursorAfter
        /\ \A l \in out' : l \in out \/ (l.id = req.id /\ l.seq <= CursorAfter)
    <3>1. PICK gap : gap = InnerGap \cup EmptyTail
      OBVIOUS
    <3>. QED
      BY <1>1, <2>1, <2>2, <2>3, <3>1, EmitKeeps
  <2>5. cursor' = CursorAfter /\ pc' \in {"drain", "sleep"} /\ UNCHANGED <<bootId, newId>>
    BY <1>12, <2>1, <2>2, NoGapInCurrent DEF Drain
  <2>6. PrintedSoFar'
    <3>1. ASSUME NEW l \in out'
          PROVE  1 <= l.id /\ l.id <= bootId /\ (l.id = bootId => l.seq <= CursorAfter)
      <4>1. CASE l \in out
        BY <1>0, <2>3, <2>4, <4>1
      <4>2. CASE l.id = req.id /\ l.seq <= CursorAfter
        BY <1>0, <2>2, <4>2
      <4>. QED
        BY <2>4, <4>1, <4>2
    <3>. QED
      BY <1>0, <1>1, <2>2, <2>5, <3>1 DEF PrintedSoFar
  <2>7. TailTyped'
    BY <1>0, <1>1, <2>4, <2>5 DEF TailTyped
  <2>. QED
    BY <1>2, <1>3, <2>4, <2>5, <2>6, <2>7 DEF TailInv
<1>. QED
  BY <1>5, <1>6, <1>8, <1>10, <1>11, <1>12

LEMMA TailInvInit ==
  ASSUME TailInit
  PROVE  TailInv
<1>1. TailTyped
  BY DEF TailInit, TailTyped
<1>2. PollsRunning /\ PageSoFar
  BY DEF TailInit, PollsRunning, PageSoFar
<1>3. PrintedSoFar
  BY DEF TailInit, Init, PrintedSoFar
<1>4. EachLineOnce
  BY DEF TailInit, EachLineOnce, NeverSilentlySkipped, NoLineTwice
<1>. QED
  BY <1>1, <1>2, <1>3, <1>4 DEF TailInv

LEMMA StutterKeepsTail ==
  ASSUME TailInv, UNCHANGED allVars
  PROVE  TailInv'
BY DEF TailInv, allVars, vars, cacheVars, ramVars, tailVars, TailTyped, PollsRunning,
       PrintedSoFar,
       PageSoFar, Answers, Served, Valid, HalfOf, LatestOf, Cur, EachLineOnce,
       NeverSilentlySkipped, NoLineTwice

\* EachLineOnce: for any ring, pages and resets, and if no line is logged while a page is
\* being served, the tool prints no line twice, and passes none without a note that a reset
\* could not have taken.
THEOREM EachLineExactlyOnce == ASSUME Quiet PROVE TailSpec => []EachLineOnce
<1>1. TailSpec => []RingInv
  BY TailOnRing, RingInvariant, PTL
<1>2. TailInit => TailInv
  BY TailInvInit
<1>3. RingInv /\ TailInv /\ [TailNext]_allVars => TailInv'
  <2>1. PageLimit # 0
    BY LogTailAssumption
  <2>. QED
    BY <2>1, DeviceKeepsTail, ResetKeepsTail, ServeKeepsTail, AskKeepsTail, AnswerKeepsTail,
       StutterKeepsTail DEF TailNext, Tool
<1>4. TailInv => EachLineOnce
  BY DEF TailInv
<1>. QED
  BY <1>1, <1>2, <1>3, <1>4, PTL DEF TailSpec

-----------------------------------------------------------------------------
(* The discharge rate (DischargeRate).                                     *)

Live == {i \in HistSlots : i < histN}

\* Entries from the one in slot i to the newest.
StepsFrom(i) == IF i < histHead THEN histHead - 1 - i ELSE histHead - 1 - i + HistN

\* An entry belongs to the run that has lasted since it was made.
OfThisRun(i) ==
  /\ hist[i].t <= NewestEntry.t /\ hist[i].pct >= NewestEntry.pct
  /\ noted[hist[i].t] = hist[i].pct
  /\ \A t \in hist[i].t..clock : ~Breaks(t, hist[i].pct)
  /\ \A t \in hist[i].t..NewestEntry.t - 1 :
       \E u \in t + 1..t + MaxGap : u <= NewestEntry.t /\ noted[u] # Missing
  /\ NewestEntry.t - hist[i].t >= StepsFrom(i) * MinStep

\* The last poll, if there was one: it ended the run, or came shortly after the newest
\* entry and was not above it.
LastPoll ==
  \A t \in 0..clock : PollBefore(t, clock + 1) =>
    IF histN = 0 THEN noted[t] = Off
    ELSE NewestEntry.t <= t /\ t - NewestEntry.t < MinStep /\ noted[t] <= NewestEntry.pct

RunInv ==
  /\ RateTypeOK
  /\ histN < HistN => histHead = histN
  /\ histN # 0 => NewestEntry.t <= clock
  /\ \A t \in clock + 1..Horizon : noted[t] = Missing
  /\ \A i \in Live : OfThisRun(i)
  /\ LastPoll
  /\ histN \in 1..HistN - 1 => FirstOfRun(hist[0])

LEMMA HeadSlots ==
  ASSUME NEW h \in HistSlots
  PROVE  /\ (h + 1) % HistN = IF h = HistN - 1 THEN 0 ELSE h + 1
         /\ (h + HistN - 1) % HistN = IF h = 0 THEN HistN - 1 ELSE h - 1
<1>. USE RateAssumption DEF HistSlots
<1>1. HistN \in Nat \ {0} /\ 0 \in 0..HistN - 1 /\ HistN - 1 \in 0..HistN - 1
  OBVIOUS
<1>2. CASE h = HistN - 1
  <2>1. (0 + HistN) % HistN = 0 % HistN /\ 0 % HistN = 0
    BY <1>1, OnceRound, Small
  <2>2. h + 1 = 0 + HistN
    BY <1>2
  <2>. QED
    BY <1>2, <2>1, <2>2
<1>3. CASE h # HistN - 1
  <2>1. h + 1 \in 0..HistN - 1
    BY <1>3
  <2>2. (h + 1) % HistN = h + 1
    BY <1>1, <2>1, Small
  <2>. QED
    BY <1>3, <2>2
<1>4. CASE h = 0
  <2>1. h + HistN - 1 = HistN - 1
    BY <1>4
  <2>2. (HistN - 1) % HistN = HistN - 1
    BY <1>1, Small
  <2>. QED
    BY <1>4, <2>1, <2>2
<1>5. CASE h # 0
  <2>. DEFINE m == h - 1
  <2>1. m \in Nat /\ m \in 0..HistN - 1 /\ h + HistN - 1 = m + HistN
    BY <1>5
  <2>. HIDE DEF m
  <2>2. (m + HistN) % HistN = m % HistN /\ m % HistN = m
    BY <1>1, <2>1, OnceRound, Small
  <2>3. (h + HistN - 1) % HistN = m
    BY <2>1, <2>2
  <2>. QED
    BY <1>5, <2>3 DEF m
<1>. QED
  <2>1. (h + 1) % HistN = IF h = HistN - 1 THEN 0 ELSE h + 1
    BY <1>2, <1>3
  <2>2. (h + HistN - 1) % HistN = IF h = 0 THEN HistN - 1 ELSE h - 1
    BY <1>4, <1>5
  <2>. QED
    BY <2>1, <2>2

LEMMA EntryTyped ==
  ASSUME RateTypeOK, NEW i \in HistSlots
  PROVE  /\ hist[i] \in [t : 0..Horizon, pct : 0..100]
         /\ hist[i].t \in 0..Horizon /\ hist[i].t \in Nat
         /\ hist[i].pct \in 0..100 /\ hist[i].pct \in Nat
<1>1. hist[i] \in [t : 0..Horizon, pct : 0..100]
  BY DEF RateTypeOK
<1>2. hist[i].t \in 0..Horizon /\ hist[i].pct \in 0..100
  BY <1>1
<1>. QED
  BY <1>1, <1>2, RateAssumption, SMTT(30)

\* Where the newest entry is.
LEMMA NewestSlot ==
  ASSUME RateTypeOK, histN < HistN => histHead = histN
  PROVE  LET w == IF histHead = 0 THEN HistN - 1 ELSE histHead - 1
         IN  w \in HistSlots /\ NewestEntry = hist[w] /\ (histN # 0 => w \in Live)
<1>. DEFINE w == IF histHead = 0 THEN HistN - 1 ELSE histHead - 1
<1>1. histHead \in HistSlots /\ histN \in 0..HistN
  BY DEF RateTypeOK
<1>2. w \in HistSlots /\ (histN # 0 => w < histN)
  BY <1>1, RateAssumption DEF HistSlots
<1>3. NewestEntry = hist[w]
  BY <1>1, HeadSlots DEF NewestEntry
<1>. QED
  BY <1>2, <1>3 DEF Live

LEMMA RunInvInit == RateInit => RunInv
<1>. SUFFICES ASSUME RateInit  PROVE RunInv
  OBVIOUS
<1>1. RateTypeOK
  <2>1. Missing \in Percents \cup {Off, Missing} /\ 0 \in 0..Horizon /\ 0 \in HistSlots
    BY RateAssumption DEF HistSlots
  <2>. QED
    BY <2>1, RateAssumption DEF RateInit, RateTypeOK
<1>2. \A t \in 0..Horizon : noted[t] = Missing
  BY DEF RateInit
<1>3. Live = {} /\ histN = 0 /\ histHead = 0 /\ clock = 0
  BY DEF RateInit, Live, HistSlots
<1>4. LastPoll
  BY <1>2, <1>3, RateAssumption DEF LastPoll, PollBefore
<1>5. \A t \in clock + 1..Horizon : noted[t] = Missing
  BY <1>2, <1>3, RateAssumption
<1>. QED
  BY <1>1, <1>3, <1>4, <1>5 DEF RunInv

LEMMA RateTyped ==
  ASSUME RateTypeOK, [RateNext]_rateVars
  PROVE  RateTypeOK'
<1>0. /\ clock \in 0..Horizon /\ 0 \in 0..Horizon /\ Off \in Percents \cup {Off, Missing}
      /\ Percents \subseteq 0..100
  BY RateAssumption DEF RateTypeOK
<1>1. ASSUME NEW r \in Percents \cup {Off}, Sees(r)
      PROVE  clock' = clock /\ noted' \in [0..Horizon -> Percents \cup {Off, Missing}]
  BY <1>0, <1>1 DEF Sees, RateTypeOK
<1>2. ASSUME NEW percent \in Percents, NEW n \in 0..HistN, NEW h \in HistSlots, Put(n, h, percent)
      PROVE  /\ hist' \in [HistSlots -> [t : 0..Horizon, pct : 0..100]]
             /\ histN' \in 0..HistN /\ histHead' \in HistSlots
  <2>1. [t |-> clock, pct |-> percent] \in [t : 0..Horizon, pct : 0..100]
    BY <1>0
  <2>2. hist' \in [HistSlots -> [t : 0..Horizon, pct : 0..100]]
    BY <1>2, <2>1 DEF Put, RateTypeOK
  <2>3. histN' \in 0..HistN
    BY <1>2, RateAssumption DEF Put
  <2>4. histHead' = IF h = HistN - 1 THEN 0 ELSE h + 1
    BY <1>2, HeadSlots DEF Put
  <2>5. histHead' \in HistSlots
    BY <2>4, RateAssumption DEF HistSlots
  <2>. QED
    BY <2>2, <2>3, <2>5
<1>3. CASE TimePasses
  BY <1>3, RateAssumption DEF TimePasses, RateTypeOK
<1>4. CASE NoteOff
  <2>1. 0 \in 0..HistN /\ 0 \in HistSlots
    BY RateAssumption DEF HistSlots
  <2>. QED
    BY <1>0, <1>1, <1>4, <2>1 DEF NoteOff, RateTypeOK
<1>5. ASSUME NEW percent \in Percents, NoteFirst(percent)  PROVE RateTypeOK'
  <2>1. 0 \in 0..HistN /\ 0 \in HistSlots
    BY RateAssumption DEF HistSlots
  <2>. QED
    BY <1>0, <1>1, <1>2, <1>5, <2>1 DEF NoteFirst, RateTypeOK
<1>6. ASSUME NEW percent \in Percents, NoteTooSoon(percent)  PROVE RateTypeOK'
  BY <1>0, <1>1, <1>6 DEF NoteTooSoon, RateTypeOK
<1>7. ASSUME NEW percent \in Percents, NoteNext(percent)  PROVE RateTypeOK'
  BY <1>0, <1>1, <1>2, <1>7 DEF NoteNext, RateTypeOK
<1>8. CASE UNCHANGED rateVars
  BY <1>8 DEF rateVars, RateTypeOK
<1>. QED
  BY <1>3, <1>4, <1>5, <1>6, <1>7, <1>8 DEF RateNext

LEMMA AfterSeeing ==
  ASSUME RateTypeOK, NEW r, Sees(r)
  PROVE  /\ clock \in 0..Horizon /\ clock \in Nat /\ clock' = clock
         /\ noted[clock] = Missing /\ noted'[clock] = r
         /\ \A t \in 0..Horizon : t # clock => noted'[t] = noted[t]
BY RateAssumption DEF Sees, RateTypeOK

\* What was said of the past stands.
LEMMA FirstStays ==
  ASSUME RateTypeOK, hist'[0] = hist[0], hist[0].t <= clock,
         \A t \in 0..Horizon : t < hist[0].t => noted'[t] = noted[t], FirstOfRun(hist[0])
  PROVE  FirstOfRun(hist[0])'
<1>. DEFINE e == hist[0]
<1>1. clock \in 0..Horizon /\ e.t \in Nat /\ e.t <= clock
  <2>1. 0 \in HistSlots
    BY RateAssumption DEF HistSlots
  <2>. QED
    BY <2>1, EntryTyped DEF RateTypeOK
<1>2. SUFFICES ASSUME NEW t \in 0..e.t - 1, PollBefore(t, e.t)', e.t - t + MinStep <= MaxGap
               PROVE  noted'[t] < e.pct
  BY DEF FirstOfRun
<1>3. t \in 0..Horizon /\ t < e.t /\ noted'[t] = noted[t]
  BY <1>1, RateAssumption
<1>4. \A v \in t + 1..e.t - 1 : noted'[v] = noted[v]
  BY <1>1, RateAssumption
<1>5. PollBefore(t, e.t)
  BY <1>2, <1>3, <1>4 DEF PollBefore
<1>. QED
  BY <1>2, <1>3, <1>5 DEF FirstOfRun

\* A poll just now is the last one.
LEMMA PollNow ==
  ASSUME RateTypeOK, NEW r, r # Missing, Sees(r), NEW t \in 0..clock, PollBefore(t, clock + 1)'
  PROVE  t = clock
<1>1. t < clock => clock \in t + 1..clock
  BY DEF RateTypeOK
<1>2. noted'[clock] # Missing /\ clock' = clock
  BY AfterSeeing
<1>3. \A v \in t + 1..clock : noted'[v] = Missing
  <2>1. \A v \in t + 1..clock : v \in t + 1..(clock + 1) - 1
    BY DEF RateTypeOK
  <2>. QED
    BY <1>2, <2>1 DEF PollBefore
<1>4. ~ (t < clock)
  BY <1>1, <1>2, <1>3
<1>. QED
  BY <1>4 DEF RateTypeOK

LEMMA PassesKeeps ==
  ASSUME RunInv, TimePasses
  PROVE  RunInv'
<1>1. /\ RateTypeOK /\ clock \in Nat /\ clock' = clock + 1 /\ clock' \in 0..Horizon
      /\ UNCHANGED <<hist, histN, histHead, noted>> /\ NewestEntry' = NewestEntry
      /\ noted[clock'] = Missing
  BY RateAssumption DEF RunInv, RateTypeOK, TimePasses, NewestEntry
<1>2. RateTypeOK'
  BY <1>1, RateTyped DEF RateNext
<1>3. /\ histN' < HistN => histHead' = histN'
      /\ \A t \in clock' + 1..Horizon : noted'[t] = Missing
      /\ histN' \in 1..HistN - 1 => FirstOfRun(hist[0])'
  <2>1. \A t \in clock' + 1..Horizon : t \in clock + 1..Horizon
    BY <1>1
  <2>. QED
    BY <1>1, <2>1 DEF RunInv, FirstOfRun, PollBefore
<1>4. histN' # 0 => NewestEntry'.t <= clock'
  <2>1. histN # 0 => NewestEntry.t \in Nat
    BY <1>1, NewestSlot, EntryTyped DEF RunInv
  <2>. QED
    BY <1>1, <2>1 DEF RunInv
<1>5. ASSUME NEW i \in Live'  PROVE OfThisRun(i)'
  <2>1. i \in Live /\ i \in HistSlots
    BY <1>1 DEF Live, HistSlots
  <2>2. OfThisRun(i) /\ hist[i].t \in Nat /\ hist[i].pct \in Nat
    BY <1>1, <2>1, EntryTyped DEF RunInv
  <2>3. ASSUME NEW t \in hist[i].t..clock'  PROVE ~Breaks(t, hist[i].pct)
    <3>1. CASE t = clock'
      BY <1>1, <2>2, <3>1 DEF Breaks, Missing, Off
    <3>2. CASE t # clock'
      <4>1. t \in hist[i].t..clock
        BY <1>1, <2>2, <3>2
      <4>. QED
        BY <2>2, <4>1 DEF OfThisRun
    <3>. QED
      BY <3>1, <3>2
  <2>. QED
    BY <1>1, <2>2, <2>3 DEF OfThisRun, StepsFrom, Breaks
<1>6. LastPoll'
  <2>. SUFFICES ASSUME NEW t \in 0..clock', PollBefore(t, clock + 1)'
                PROVE  IF histN = 0 THEN noted[t] = Off
                       ELSE NewestEntry.t <= t /\ t - NewestEntry.t < MinStep
                              /\ noted[t] <= NewestEntry.pct
    BY <1>1 DEF LastPoll
  <2>1. t # clock' /\ t \in 0..clock
    <3>1. noted[t] # Missing
      BY <1>1 DEF PollBefore
    <3>. QED
      BY <1>1, <3>1
  <2>2. \A v \in t + 1..(clock + 1) - 1 : v \in t + 1..(clock' + 1) - 1
    BY <1>1
  <2>3. PollBefore(t, clock + 1)
    BY <1>1, <2>2 DEF PollBefore
  <2>. QED
    BY <2>1, <2>3 DEF RunInv, LastPoll
<1>. QED
  BY <1>1, <1>2, <1>3, <1>4, <1>5, <1>6 DEF RunInv

LEMMA OffKeeps ==
  ASSUME RunInv, NoteOff
  PROVE  RunInv'
<1>1. RateTypeOK /\ RateTypeOK' /\ Sees(Off) /\ histN' = 0 /\ histHead' = 0 /\ hist' = hist
  BY RateTyped DEF RunInv, NoteOff, RateNext
<1>2. /\ clock \in Nat /\ clock' = clock /\ noted'[clock] = Off
      /\ \A t \in 0..Horizon : t # clock => noted'[t] = noted[t]
  BY <1>1, AfterSeeing
<1>3. Live' = {}
  BY <1>1 DEF Live, HistSlots
<1>4. LastPoll'
  BY <1>1, <1>2, PollNow DEF LastPoll, Off, Missing
<1>5. \A t \in clock' + 1..Horizon : noted'[t] = Missing
  <2>1. \A t \in clock + 1..Horizon : noted[t] = Missing
    BY DEF RunInv
  <2>2. \A t \in clock + 1..Horizon : t \in 0..Horizon /\ t # clock
    BY <1>2, RateAssumption
  <2>. QED
    BY <1>2, <2>1, <2>2
<1>. QED
  BY <1>1, <1>3, <1>4, <1>5 DEF RunInv

\* A poll that made no entry leaves the entries of the run what they are.
LEMMA EntryStays ==
  ASSUME RunInv, NEW r \in 0..100, Sees(r), r <= NewestEntry.pct, NEW i \in Live,
         hist' = hist, NewestEntry' = NewestEntry, histHead' = histHead
  PROVE  OfThisRun(i)'
<1>1. RateTypeOK /\ OfThisRun(i) /\ i \in HistSlots
  BY DEF RunInv, Live
<1>2. /\ hist[i].t \in Nat /\ hist[i].t \in 0..Horizon /\ hist[i].pct \in Nat
      /\ NewestEntry.t \in Nat /\ NewestEntry.pct \in Nat
  BY <1>1, EntryTyped, NewestSlot DEF RunInv
<1>3. /\ clock \in Nat /\ clock \in 0..Horizon /\ clock' = clock
      /\ noted[clock] = Missing /\ noted'[clock] = r
      /\ \A t \in 0..Horizon : t # clock => noted'[t] = noted[t]
  BY <1>1, AfterSeeing
<1>4. NewestEntry.t <= clock
  <2>1. histN # 0
    BY <1>1, RateAssumption DEF Live, HistSlots
  <2>. QED
    BY <2>1 DEF RunInv
<1>5. noted'[hist[i].t] = hist[i].pct
  <2>1. noted[hist[i].t] = hist[i].pct
    BY <1>1 DEF OfThisRun
  <2>2. hist[i].t # clock
    BY <1>2, <1>3, <2>1 DEF Missing
  <2>. QED
    BY <1>2, <1>3, <2>1, <2>2
<1>6. ASSUME NEW t \in hist[i].t..clock  PROVE ~Breaks(t, hist[i].pct)'
  <2>1. CASE t = clock
    <3>1. r # Off /\ r <= hist[i].pct
      BY <1>1, <1>2 DEF OfThisRun, Off
    <3>. QED
      BY <1>2, <1>3, <2>1, <3>1 DEF Breaks
  <2>2. CASE t # clock
    <3>1. t \in 0..Horizon
      BY <1>2, <1>3, RateAssumption
    <3>2. noted'[t] = noted[t] /\ ~Breaks(t, hist[i].pct)
      BY <1>1, <1>3, <2>2, <3>1 DEF OfThisRun
    <3>. QED
      BY <3>2 DEF Breaks
  <2>. QED
    BY <2>1, <2>2
<1>7. ASSUME NEW t \in hist[i].t..NewestEntry.t - 1
      PROVE  \E u \in t + 1..t + MaxGap : u <= NewestEntry.t /\ noted'[u] # Missing
  <2>1. PICK u \in t + 1..t + MaxGap : u <= NewestEntry.t /\ noted[u] # Missing
    BY <1>1 DEF OfThisRun
  <2>2. u \in 0..Horizon /\ u # clock
    BY <1>2, <1>3, <1>4, <2>1, RateAssumption
  <2>. QED
    BY <1>3, <2>1, <2>2
<1>. QED
  BY <1>1, <1>3, <1>5, <1>6, <1>7 DEF OfThisRun, StepsFrom

LEMMA TooSoonKeeps ==
  ASSUME RunInv, NEW percent \in Percents, NoteTooSoon(percent)
  PROVE  RunInv'
<1>1. /\ RateTypeOK /\ RateTypeOK' /\ Sees(percent)
      /\ UNCHANGED <<hist, histN, histHead>> /\ NewestEntry' = NewestEntry /\ Live' = Live
      /\ histN \in Nat /\ histN > 0 /\ clock - NewestEntry.t < MinStep
  BY RateTyped, SMTT(30) DEF RunInv, NoteTooSoon, RateNext, NewestEntry, Live, RateTypeOK
<1>2. percent \in 0..100 /\ percent # Missing /\ NewestEntry.pct \in Nat /\ NewestEntry.t \in Nat
  BY <1>1, RateAssumption, EntryTyped, NewestSlot DEF RunInv, Missing
<1>3. percent <= NewestEntry.pct /\ NewestEntry.t <= clock
  BY <1>1, <1>2 DEF RunInv, NoteTooSoon, Interrupted
<1>4. /\ clock \in Nat /\ clock \in 0..Horizon /\ clock' = clock
      /\ noted[clock] = Missing /\ noted'[clock] = percent
      /\ \A t \in 0..Horizon : t # clock => noted'[t] = noted[t]
  BY <1>1, AfterSeeing
<1>5. \A i \in Live' : OfThisRun(i)'
  BY <1>1, <1>2, <1>3, EntryStays
<1>6. LastPoll'
  <2>. SUFFICES ASSUME NEW t \in 0..clock, PollBefore(t, clock + 1)'
                PROVE  NewestEntry.t <= t /\ t - NewestEntry.t < MinStep
                         /\ noted'[t] <= NewestEntry.pct
    BY <1>1, <1>4 DEF LastPoll
  <2>1. t = clock
    BY <1>1, <1>2, PollNow
  <2>. QED
    BY <1>1, <1>3, <1>4, <2>1
<1>7. \A t \in clock' + 1..Horizon : noted'[t] = Missing
  <2>1. \A t \in clock + 1..Horizon : noted[t] = Missing
    BY DEF RunInv
  <2>2. \A t \in clock + 1..Horizon : t \in 0..Horizon /\ t # clock
    BY <1>4, RateAssumption
  <2>. QED
    BY <1>4, <2>1, <2>2
<1>8. ASSUME histN' \in 1..HistN - 1  PROVE FirstOfRun(hist[0])'
  <2>1. 0 \in Live /\ FirstOfRun(hist[0]) /\ hist'[0] = hist[0]
    BY <1>1, <1>8, RateAssumption DEF RunInv, Live, HistSlots
  <2>2. 0 \in HistSlots /\ OfThisRun(0)
    BY <2>1 DEF Live, RunInv
  <2>3. hist[0].t \in Nat /\ hist[0].t <= NewestEntry.t
    BY <1>1, <2>2, EntryTyped DEF OfThisRun
  <2>4. hist[0].t <= clock /\ \A t \in 0..Horizon : t < hist[0].t => noted'[t] = noted[t]
    BY <1>2, <1>3, <1>4, <2>3, RateAssumption
  <2>. QED
    BY <1>1, <2>1, <2>4, FirstStays
<1>9. /\ histN' < HistN => histHead' = histN'
      /\ histN' # 0 => NewestEntry'.t <= clock'
  BY <1>1, <1>3, <1>4 DEF RunInv
<1>. QED
  BY <1>1, <1>5, <1>6, <1>7, <1>8, <1>9 DEF RunInv

LEMMA FirstKeeps ==
  ASSUME RunInv, NEW percent \in Percents, NoteFirst(percent)
  PROVE  RunInv'
<1>0. RateTypeOK /\ RateTypeOK' /\ Sees(percent) /\ Put(0, 0, percent)
  BY RateTyped DEF RunInv, NoteFirst, RateNext
<1>1. /\ RateTypeOK /\ RateTypeOK' /\ Sees(percent) /\ histN \in Nat
      /\ hist' = [hist EXCEPT ![0] = [t |-> clock, pct |-> percent]]
      /\ histHead' = (0 + 1) % HistN /\ histN' = 1
  <2>1. histN \in Nat /\ 0 < HistN
    BY <1>0, RateAssumption DEF RateTypeOK
  <2>. QED
    BY <1>0, <2>1 DEF Put
<1>2. /\ clock \in Nat /\ clock \in 0..Horizon /\ clock' = clock
      /\ noted[clock] = Missing /\ noted'[clock] = percent
      /\ \A t \in 0..Horizon : t # clock => noted'[t] = noted[t]
  BY <1>1, AfterSeeing
<1>3. 0 \in HistSlots /\ histHead' = 1 /\ percent \in 0..100 /\ percent # Missing /\ percent # Off
  <2>1. 0 \in HistSlots /\ 0 # HistN - 1 /\ percent \in 0..100
    BY RateAssumption DEF HistSlots
  <2>2. (0 + 1) % HistN = 0 + 1
    BY <2>1, HeadSlots
  <2>. QED
    BY <1>1, <2>1, <2>2 DEF Missing, Off
<1>4. hist'[0].t = clock /\ hist'[0].pct = percent
  BY <1>1, <1>3 DEF RateTypeOK
<1>5. NewestEntry' = hist'[0] /\ Live' = {0}
  <2>1. 1 \in HistSlots /\ (1 + HistN - 1) % HistN = 0
    <3>1. 1 \in HistSlots /\ 1 # 0
      BY RateAssumption DEF HistSlots
    <3>. QED
      BY <3>1, HeadSlots
  <2>2. NewestEntry' = hist'[0]
    BY <1>3, <2>1 DEF NewestEntry
  <2>3. Live' = {0}
    BY <1>1, <1>3 DEF Live, HistSlots
  <2>. QED
    BY <2>2, <2>3
<1>6. OfThisRun(0)'
  <2>1. \A t \in clock..clock : t = clock
    BY <1>2
  <2>2. \A t \in clock..clock - 1 : FALSE
    BY <1>2
  <2>3. StepsFrom(0)' = 0
    BY <1>3 DEF StepsFrom
  <2>4. ~ (percent > percent) /\ percent >= percent /\ clock <= clock /\ clock - clock >= 0 * MinStep
    BY <1>2, <1>3, RateAssumption
  <2>5. ~Breaks(clock, percent)'
    BY <1>2, <1>3, <2>4 DEF Breaks
  <2>. QED
    BY <1>2, <1>4, <1>5, <2>1, <2>2, <2>3, <2>4, <2>5 DEF OfThisRun
<1>7. LastPoll'
  <2>. SUFFICES ASSUME NEW t \in 0..clock, PollBefore(t, clock + 1)'
                PROVE  clock <= t /\ t - clock < MinStep /\ noted'[t] <= percent
    BY <1>1, <1>2, <1>4, <1>5 DEF LastPoll
  <2>1. t = clock
    BY <1>1, <1>3, PollNow
  <2>. QED
    BY <1>2, <1>3, <2>1, RateAssumption
<1>8. \A t \in clock' + 1..Horizon : noted'[t] = Missing
  <2>1. \A t \in clock + 1..Horizon : noted[t] = Missing
    BY DEF RunInv
  <2>2. \A t \in clock + 1..Horizon : t \in 0..Horizon /\ t # clock
    BY <1>2, RateAssumption
  <2>. QED
    BY <1>2, <2>1, <2>2
<1>9. FirstOfRun(hist[0])'
  <2>. SUFFICES ASSUME NEW t \in 0..clock - 1, PollBefore(t, clock)', clock - t + MinStep <= MaxGap
                PROVE  noted'[t] < percent
    BY <1>2, <1>4 DEF FirstOfRun
  <2>1. t \in 0..clock /\ t \in 0..Horizon /\ t # clock /\ t \in Nat
    BY <1>2, RateAssumption
  <2>2. PollBefore(t, clock + 1)
    <3>1. noted[t] # Missing
      BY <1>2, <2>1 DEF PollBefore
    <3>2. ASSUME NEW v \in t + 1..(clock + 1) - 1  PROVE noted[v] = Missing
      <4>1. CASE v = clock
        BY <1>2, <4>1
      <4>2. CASE v # clock
        <5>1. v \in t + 1..clock - 1 /\ v \in 0..Horizon
          BY <1>2, <2>1, <4>2, RateAssumption
        <5>2. noted'[v] = Missing
          BY <1>2, <5>1 DEF PollBefore
        <5>. QED
          BY <1>2, <4>2, <5>1, <5>2
      <4>. QED
        BY <4>1, <4>2
    <3>. QED
      BY <3>1, <3>2 DEF PollBefore
  <2>3. noted'[t] = noted[t]
    BY <1>2, <2>1
  <2>4. CASE histN = 0
    <3>1. noted[t] = Off
      BY <2>1, <2>2, <2>4 DEF RunInv, LastPoll
    <3>. QED
      BY <1>3, <2>3, <3>1 DEF Off
  <2>5. CASE histN # 0
    <3>1. NewestEntry.t <= t /\ t - NewestEntry.t < MinStep /\ noted[t] <= NewestEntry.pct
      BY <2>1, <2>2, <2>5 DEF RunInv, LastPoll
    <3>2. NewestEntry.t \in Nat /\ NewestEntry.pct \in Nat
      BY <1>1, NewestSlot, EntryTyped DEF RunInv
    <3>3. clock - NewestEntry.t > MaxGap \/ percent > NewestEntry.pct
      BY <2>5 DEF NoteFirst, Interrupted
    <3>4. ~ (clock - NewestEntry.t > MaxGap)
      BY <1>2, <2>1, <3>1, <3>2, RateAssumption
    <3>5. noted[t] \in Int
      <4>1. noted[t] \in Percents \cup {Off, Missing}
        BY <1>1, <2>1 DEF RateTypeOK
      <4>2. \A x \in Percents : x \in Int
        BY RateAssumption
      <4>3. Off \in Int /\ Missing \in Int
        BY DEF Off, Missing
      <4>. QED
        BY <4>1, <4>2, <4>3
    <3>. QED
      BY <1>3, <2>3, <3>1, <3>2, <3>3, <3>4, <3>5
  <2>. QED
    BY <2>4, <2>5
<1>10. clock <= clock
  BY <1>2
<1>. QED
  BY <1>1, <1>2, <1>3, <1>4, <1>5, <1>6, <1>7, <1>8, <1>9, <1>10 DEF RunInv

LEMMA NextKeeps ==
  ASSUME RunInv, NEW percent \in Percents, NoteNext(percent)
  PROVE  RunInv'
<1>. DEFINE w == NewestEntry
            now == [t |-> clock, pct |-> percent]
<1>. PICK h \in HistSlots : h = histHead
  BY DEF RunInv, RateTypeOK
<1>0. RateTypeOK /\ RateTypeOK' /\ Sees(percent) /\ Put(histN, h, percent)
  BY RateTyped DEF RunInv, NoteNext, RateNext
<1>1. /\ h \in HistSlots /\ h \in Nat /\ histN \in 0..HistN /\ histN \in Nat /\ histN > 0
      /\ hist' = [hist EXCEPT ![h] = now]
      /\ histHead' = (h + 1) % HistN /\ histN' = IF histN < HistN THEN histN + 1 ELSE histN
  <2>1. h \in HistSlots /\ histN \in 0..HistN /\ histN > 0
    BY <1>0 DEF RateTypeOK, NoteNext
  <2>2. h \in Nat /\ histN \in Nat
    BY <2>1, RateAssumption DEF HistSlots
  <2>. QED
    BY <1>0, <2>1, <2>2 DEF Put
<1>2. /\ clock \in Nat /\ clock \in 0..Horizon /\ clock' = clock
      /\ noted[clock] = Missing /\ noted'[clock] = percent
      /\ \A t \in 0..Horizon : t # clock => noted'[t] = noted[t]
  BY <1>0, AfterSeeing
<1>3. percent \in 0..100 /\ percent \in Nat /\ percent # Missing /\ percent # Off
  <2>1. percent \in 0..100
    BY RateAssumption
  <2>. QED
    BY <2>1 DEF Missing, Off
<1>4. w.t \in Nat /\ w.pct \in Nat
  BY <1>0, EntryTyped, NewestSlot DEF RunInv
<1>5. clock - w.t <= MaxGap /\ percent <= w.pct /\ clock - w.t >= MinStep /\ w.t < clock
  <2>1. ~ (clock - w.t > MaxGap) /\ ~ (percent > w.pct) /\ clock - w.t >= MinStep
    BY DEF NoteNext, Interrupted
  <2>. QED
    BY <1>2, <1>3, <1>4, <2>1, RateAssumption
<1>6. histHead' = IF h = HistN - 1 THEN 0 ELSE h + 1
  BY <1>1, HeadSlots
<1>7. hist'[h] = now /\ \A i \in HistSlots : i # h => hist'[i] = hist[i]
  BY <1>0, <1>1 DEF RateTypeOK
<1>8. NewestEntry' = now
  <2>. DEFINE g == histHead'
  <2>1. g \in HistSlots /\ (g + HistN - 1) % HistN = IF g = 0 THEN HistN - 1 ELSE g - 1
    BY <1>0, HeadSlots DEF RateTypeOK
  <2>2. (g + HistN - 1) % HistN = h
    <3>. HIDE DEF g
    <3>1. g = IF h = HistN - 1 THEN 0 ELSE h + 1
      BY <1>6 DEF g
    <3>. QED
      BY <1>1, <2>1, <3>1
  <2>. QED
    BY <1>7, <2>2 DEF NewestEntry
<1>9. ASSUME NEW i \in Live', i # h  PROVE OfThisRun(i)'
  <2>1. i \in Live /\ i \in HistSlots /\ i \in Nat
    <3>1. i \in HistSlots /\ i < histN' /\ i \in Nat
      BY <1>9, RateAssumption DEF Live, HistSlots
    <3>2. histN < HistN => h = histN
      BY DEF RunInv
    <3>3. i < histN
      BY <1>1, <1>9, <3>1, <3>2 DEF HistSlots
    <3>. QED
      BY <3>1, <3>3 DEF Live
  <2>. DEFINE e == hist[i]
  <2>2. OfThisRun(i) /\ e.t \in Nat /\ e.t \in 0..Horizon /\ e.pct \in Nat /\ hist'[i] = e
    BY <1>0, <1>7, <1>9, <2>1, EntryTyped DEF RunInv
  <2>3. e.t <= w.t /\ e.pct >= w.pct /\ noted[e.t] = e.pct /\ w.t - e.t >= StepsFrom(i) * MinStep
    BY <2>2 DEF OfThisRun
  <2>4. e.t < clock /\ e.t <= clock /\ e.pct >= percent /\ noted'[e.t] = e.pct
    <3>1. e.t < clock /\ e.pct >= percent
      BY <1>2, <1>3, <1>4, <1>5, <2>2, <2>3
    <3>. QED
      BY <1>2, <2>2, <2>3, <3>1
  <2>5. ASSUME NEW t \in e.t..clock  PROVE ~Breaks(t, e.pct)'
    <3>1. CASE t = clock
      <4>1. ~ (percent > e.pct)
        BY <1>3, <2>2, <2>4
      <4>. QED
        BY <1>2, <1>3, <2>2, <3>1, <4>1 DEF Breaks
    <3>2. CASE t # clock
      <4>1. t \in 0..Horizon
        BY <1>2, <2>2, RateAssumption
      <4>2. noted'[t] = noted[t] /\ ~Breaks(t, e.pct)
        BY <1>2, <2>2, <3>2, <4>1 DEF OfThisRun
      <4>. QED
        BY <2>2, <4>2 DEF Breaks
    <3>. QED
      BY <3>1, <3>2
  <2>6. ASSUME NEW t \in e.t..clock - 1
        PROVE  \E u \in t + 1..t + MaxGap : u <= clock /\ noted'[u] # Missing
    <3>1. CASE t < w.t
      <4>1. t \in e.t..w.t - 1
        BY <1>4, <2>2, <3>1
      <4>2. PICK u \in t + 1..t + MaxGap : u <= w.t /\ noted[u] # Missing
        BY <2>2, <4>1 DEF OfThisRun
      <4>3. u \in 0..Horizon /\ u # clock /\ u <= clock
        BY <1>2, <1>4, <1>5, <2>2, <4>2, RateAssumption
      <4>. QED
        BY <1>2, <4>2, <4>3
    <3>2. CASE ~ (t < w.t)
      <4>1. clock \in t + 1..t + MaxGap /\ clock <= clock
        BY <1>2, <1>4, <1>5, <2>2, <3>2, RateAssumption
      <4>. QED
        BY <1>2, <1>3, <4>1
    <3>. QED
      BY <3>1, <3>2
  <2>7. StepsFrom(i) \in Nat /\ StepsFrom(i)' = StepsFrom(i) + 1
    <3>1. i \in 0..HistN - 1 /\ h \in 0..HistN - 1
      BY <1>1, <2>1 DEF HistSlots
    <3>2. CASE i < h
      BY <1>6, <1>9, <3>1, <3>2, RateAssumption DEF StepsFrom
    <3>3. CASE ~ (i < h)
      BY <1>6, <1>9, <3>1, <3>3, RateAssumption DEF StepsFrom
    <3>. QED
      BY <3>2, <3>3
  <2>8. clock - e.t >= StepsFrom(i)' * MinStep
    <3>. DEFINE d == StepsFrom(i)
    <3>1. d \in Nat /\ MinStep \in Nat
      BY <2>7, RateAssumption
    <3>. HIDE DEF d
    <3>2. (d + 1) * MinStep = d * MinStep + MinStep /\ d * MinStep \in Nat
      BY <3>1
    <3>3. w.t - e.t >= d * MinStep
      BY <2>3 DEF d
    <3>4. clock - e.t >= (d + 1) * MinStep
      BY <1>2, <1>4, <1>5, <2>2, <3>1, <3>2, <3>3
    <3>. QED
      BY <2>7, <3>4 DEF d
  <2>. QED
    BY <1>2, <1>8, <2>2, <2>4, <2>5, <2>6, <2>8 DEF OfThisRun
<1>10. OfThisRun(h)'
  <2>1. \A t \in clock..clock : t = clock
    BY <1>2
  <2>2. \A t \in clock..clock - 1 : FALSE
    BY <1>2
  <2>3. StepsFrom(h)' = 0
    <3>1. h \in 0..HistN - 1
      BY <1>1 DEF HistSlots
    <3>. QED
      BY <1>6, <3>1, RateAssumption DEF StepsFrom
  <2>4. ~ (percent > percent) /\ percent >= percent /\ clock <= clock /\ clock - clock >= 0 * MinStep
    BY <1>2, <1>3, RateAssumption
  <2>5. ~Breaks(clock, percent)'
    BY <1>2, <1>3, <2>4 DEF Breaks
  <2>. QED
    BY <1>2, <1>7, <1>8, <2>1, <2>2, <2>3, <2>4, <2>5 DEF OfThisRun
<1>11. LastPoll'
  <2>1. histN' # 0
    BY <1>1
  <2>. SUFFICES ASSUME NEW t \in 0..clock, PollBefore(t, clock + 1)'
                PROVE  clock <= t /\ t - clock < MinStep /\ noted'[t] <= percent
    BY <1>2, <1>8, <2>1 DEF LastPoll
  <2>2. t = clock
    BY <1>0, <1>3, PollNow
  <2>. QED
    BY <1>2, <1>3, <2>2, RateAssumption
<1>12. \A t \in clock' + 1..Horizon : noted'[t] = Missing
  <2>1. \A t \in clock + 1..Horizon : noted[t] = Missing
    BY DEF RunInv
  <2>2. \A t \in clock + 1..Horizon : t \in 0..Horizon /\ t # clock
    BY <1>2, RateAssumption
  <2>. QED
    BY <1>2, <2>1, <2>2
<1>13. ASSUME histN' \in 1..HistN - 1  PROVE FirstOfRun(hist[0])'
  <2>1. histN \in 1..HistN - 1 /\ h = histN /\ h # 0 /\ 0 \in HistSlots /\ 0 < histN
    <3>1. histN \in 1..HistN - 1 /\ histN < HistN
      BY <1>1, <1>13, RateAssumption
    <3>. QED
      BY <3>1, RateAssumption DEF RunInv, HistSlots
  <2>2. FirstOfRun(hist[0]) /\ hist'[0] = hist[0] /\ OfThisRun(0)
    BY <1>7, <2>1 DEF RunInv, Live
  <2>3. hist[0].t \in Nat /\ hist[0].t <= w.t
    BY <1>0, <2>1, <2>2, EntryTyped DEF OfThisRun
  <2>4. hist[0].t <= clock /\ \A t \in 0..Horizon : t < hist[0].t => noted'[t] = noted[t]
    BY <1>2, <1>4, <1>5, <2>3, RateAssumption
  <2>. QED
    BY <1>0, <2>2, <2>4, FirstStays
<1>14. ASSUME histN' < HistN  PROVE histHead' = histN'
  <2>1. histN < HistN /\ h = histN /\ h # HistN - 1
    <3>1. histN < HistN /\ histN + 1 < HistN
      BY <1>1, <1>14, RateAssumption
    <3>. QED
      BY <1>1, <3>1, RateAssumption DEF RunInv
  <2>. QED
    BY <1>1, <1>6, <2>1
<1>15. NewestEntry'.t <= clock'
  BY <1>2, <1>8
<1>. QED
  BY <1>0, <1>9, <1>10, <1>11, <1>12, <1>13, <1>14, <1>15 DEF RunInv

LEMMA StutterKeeps ==
  ASSUME RunInv, UNCHANGED rateVars
  PROVE  RunInv'
BY DEF RunInv, rateVars, RateTypeOK, Live, OfThisRun, LastPoll, FirstOfRun, PollBefore, Breaks,
       NewestEntry, StepsFrom

\* RunInv is an invariant of the sampler and its history for any size, steps and gaps.
THEOREM RunInvariant == RateSpec => []RunInv
<1>1. RunInv /\ [RateNext]_rateVars => RunInv'
  BY PassesKeeps, OffKeeps, FirstKeeps, TooSoonKeeps, NextKeeps, StutterKeeps DEF RateNext
<1>. QED
  BY <1>1, RunInvInit, PTL DEF RateSpec

LEMMA InvGivesRate ==
  ASSUME RunInv
  PROVE  RateOfRun
<1>. DEFINE o == OldestEntry
            w == NewestEntry
            i == IF histN = HistN THEN histHead ELSE 0
<1>. SUFFICES ASSUME RateGiven  PROVE RateOfRun
  BY DEF RateOfRun
<1>1. /\ RateTypeOK /\ histN \in 0..HistN /\ histHead \in HistSlots /\ histN >= 2
  BY DEF RunInv, RateTypeOK, RateGiven
<1>2. i \in Live /\ i \in HistSlots /\ o = hist[i]
  BY <1>1, RateAssumption DEF Live, HistSlots, OldestEntry
<1>3. PICK j \in Live : w = hist[j]
  BY <1>1, NewestSlot DEF RunInv
<1>4. OfThisRun(i) /\ OfThisRun(j) /\ j \in HistSlots
  BY <1>2, <1>3 DEF RunInv, Live
<1>5. o.t \in Nat /\ w.t \in Nat
  BY <1>1, <1>2, <1>3, <1>4, EntryTyped
<1>6. noted[o.t] = o.pct /\ noted[w.t] = w.pct
  BY <1>2, <1>3, <1>4 DEF OfThisRun
<1>7. \A t \in o.t..w.t : ~Breaks(t, o.pct)
  <2>1. w.t <= clock /\ clock \in Nat
    BY <1>1, RateAssumption DEF RunInv, RateTypeOK
  <2>2. \A t \in o.t..w.t : t \in o.t..clock
    BY <1>5, <2>1
  <2>3. \A t \in o.t..clock : ~Breaks(t, o.pct)
    BY <1>2, <1>4 DEF OfThisRun
  <2>. QED
    BY <2>2, <2>3
<1>8. \A t \in o.t..w.t - MaxGap : \E u \in t + 1..t + MaxGap : noted[u] # Missing
  <2>1. \A t \in o.t..w.t - MaxGap : t \in o.t..w.t - 1
    BY <1>5, RateAssumption
  <2>2. \A t \in o.t..w.t - 1 : \E u \in t + 1..t + MaxGap : u <= w.t /\ noted[u] # Missing
    BY <1>2, <1>4 DEF OfThisRun
  <2>. QED
    BY <2>1, <2>2
<1>9. w.t - o.t >= (HistN - 1) * MinStep \/ FirstOfRun(o)
  <2>1. CASE histN = HistN
    <3>1. StepsFrom(i) = HistN - 1
      BY <1>1, <2>1, RateAssumption DEF StepsFrom, HistSlots
    <3>2. w.t - o.t >= StepsFrom(i) * MinStep
      BY <1>2, <1>4 DEF OfThisRun
    <3>. QED
      BY <3>1, <3>2
  <2>2. CASE histN # HistN
    <3>1. histN \in 1..HistN - 1
      BY <1>1, <2>2, RateAssumption
    <3>. QED
      BY <1>2, <2>2, <3>1 DEF RunInv
  <2>. QED
    BY <2>1, <2>2
<1>. QED
  BY <1>6, <1>7, <1>8, <1>9 DEF RateOfRun

\* RateOfRun: for any size of the ring, any times between polls and any readings, a rate
\* is of one run on battery: no poll within it was off battery, above its first reading or
\* missing for too long, and it goes back to the start of the run or as far as the ring.
THEOREM RateIsOfOneRun == RateSpec => []RateOfRun
BY RunInvariant, InvGivesRate, PTL

-----------------------------------------------------------------------------
(* LogAssembly: the lines of the log ring are the lines that were written.  *)

PieceType == [task : Writers, n : Nat]
LineType == [text : Seq(PieceType), why : {"newline", "evicted"}]

AssemblyTyped ==
  /\ held \in [Holders -> [task : Writers \cup {Free}, text : Seq(PieceType)]]
  /\ victim \in 0..PendingSlots - 1
  /\ call \in [task : Writers \cup {Free}, p : Holders \cup {NoHolder}, any : BOOLEAN,
               segment : Seq(PieceType)]
  /\ lines \in [Writers -> Seq(LineType)]
  /\ written \in [Writers -> Nat] /\ ends \subseteq PieceType

OneSlotEach ==
  \A i, j \in Holders : i # j /\ held[i].task = held[j].task => held[i].task = Free

\* The call's slot is its task's; nothing has been cleaned into an empty segment.
CallInv ==
  /\ InCall => IF call.p = NoHolder THEN \A i \in Holders : held[i].task # call.task
               ELSE held[call.p].task = call.task
  /\ ~call.any => call.segment = <<>>

\* The last piece of a task that is in a line.
InLines(t) == LastOf(t, Len(lines[t]))

\* The text of the task goes on from its lines to what it has not finished.
TextInv(t) ==
  /\ GoesOn(t, Unfinished(t), InLines(t))
  /\ written[t] = InLines(t) + Len(Unfinished(t))

Whole(t, i) ==
  LET line == lines[t][i]
      size == Len(line.text)
  IN  /\ size # 0 /\ GoesOn(t, line.text, LastOf(t, i - 1))
      /\ LastOf(t, i) \in Nat /\ LastOf(t, i) <= InLines(t)
      /\ \A k \in 1..size - 1 : line.text[k] \notin ends
      /\ line.why = "newline" => line.text[size] \in ends
LinesInv(t) == \A i \in 1..Len(lines[t]) : Whole(t, i)

\* A newline ends lines that are in the ring.
EndsInv == \A e \in ends : e.n <= InLines(e.task)

AssemblyInv ==
  /\ AssemblyTyped /\ OneSlotEach /\ CallInv /\ EndsInv
  /\ \A t \in Writers : TextInv(t) /\ LinesInv(t)

LEMMA InvImpliesWhole == AssemblyInv => LinesAreWhole
BY DEF AssemblyInv, LinesAreWhole, OneSlotEach, TextInv, LinesInv, Whole, InLines

LEMMA Joined ==
  ASSUME NEW S, NEW a \in Seq(S), NEW b \in Seq(S)
  PROVE  /\ a \o b \in Seq(S) /\ Len(a) \in Nat /\ Len(b) \in Nat /\ Len(a \o b) = Len(a) + Len(b)
         /\ \A k \in 1..Len(a) : (a \o b)[k] = a[k]
         /\ \A k \in 1..Len(b) : (a \o b)[Len(a) + k] = b[k]
         /\ a \o <<>> = a /\ <<>> \o b = b
<1>1. a \o b \in Seq(S) /\ Len(a) \in Nat /\ Len(b) \in Nat /\ Len(a \o b) = Len(a) + Len(b)
  OBVIOUS
<1>2. /\ \A k \in 1..Len(a) : (a \o b)[k] = a[k]
      /\ \A k \in 1..Len(b) : (a \o b)[Len(a) + k] = b[k]
  OBVIOUS
<1>3. a \o <<>> = a
  OBVIOUS
<1>4. <<>> \o b = b
  OBVIOUS
<1>. QED
  BY <1>1, <1>2, <1>3, <1>4

LEMMA Appended ==
  ASSUME NEW S, NEW s \in Seq(S), NEW e \in S
  PROVE  /\ Append(s, e) \in Seq(S) /\ Len(Append(s, e)) = Len(s) + 1 /\ Len(s) \in Nat
         /\ Append(s, e)[Len(s) + 1] = e
         /\ \A k \in 1..Len(s) : Append(s, e)[k] = s[k]
OBVIOUS

\* What the slot of a task holds, if it has one.
Kept(t) == TextOf(HolderOf(t))
KeptIs ==
  \A t \in Writers :
    /\ \A i \in Holders : held[i].task = t => Kept(t) = held[i].text
    /\ (\A i \in Holders : held[i].task # t) => Kept(t) = <<>>

LEMMA KeptText == OneSlotEach => KeptIs
<1>. SUFFICES ASSUME OneSlotEach, NEW t \in Writers
              PROVE  /\ \A i \in Holders : held[i].task = t => Kept(t) = held[i].text
                     /\ (\A i \in Holders : held[i].task # t) => Kept(t) = <<>>
  BY DEF KeptIs
<1>1. ASSUME NEW i \in Holders, held[i].task = t PROVE Kept(t) = held[i].text
  <2>1. t # Free
    BY AssemblyAssumption
  <2>2. \A j \in Holders : held[j].task = t => j = i
    BY <1>1, <2>1 DEF OneSlotEach
  <2>3. \A j \in 1..i - 1 : j \in Holders /\ j # i
    BY AssemblyAssumption DEF Holders
  <2>4. HolderOf(t) = i
    BY <1>1, <2>2, <2>3 DEF HolderOf
  <2>5. i # NoHolder
    BY DEF Holders, NoHolder
  <2>. QED
    BY <2>4, <2>5 DEF Kept, TextOf
<1>2. (\A i \in Holders : held[i].task # t) => Kept(t) = <<>>
  BY DEF Kept, TextOf, HolderOf
<1>. QED
  BY <1>1, <1>2

LEMMA KeptTextNext == OneSlotEach' => KeptIs'
BY KeptText, PTL

LEMMA FirstHolder ==
  ASSUME NEW t
  PROVE  \/ HolderOf(t) \in Holders /\ held[HolderOf(t)].task = t
         \/ HolderOf(t) = NoHolder /\ \A i \in Holders : held[i].task # t
<1>1. CASE \A i \in Holders : held[i].task # t
  BY <1>1 DEF HolderOf
<1>2. CASE \E i \in Holders : held[i].task = t
  <2>. DEFINE N == PendingSlots
              S == {n \in 0..N - 1 : held[N - n].task = t}
  <2>1. N \in Nat \ {0}
    BY AssemblyAssumption
  <2>2. \A i \in Holders : N - i \in 0..N - 1 /\ N - (N - i) = i
    BY <2>1 DEF Holders
  <2>3. S # {}
    BY <1>2, <2>2
  <2>4. S \in SUBSET Nat /\ IsFiniteSet(S)
    <3>1. IsFiniteSet(0..N - 1)
      BY <2>1, FS_Interval
    <3>2. S \subseteq 0..N - 1 /\ 0..N - 1 \subseteq Nat
      BY <2>1
    <3>. HIDE DEF S
    <3>. QED
      BY <3>1, <3>2, FS_Subset
  <2>. DEFINE m == Max(S)
  <2>5. m \in S /\ \A y \in S : y <= m
    BY <2>3, <2>4, Greatest
  <2>. HIDE DEF m
  <2>6. /\ m \in 0..N - 1 /\ N - m \in Holders /\ held[N - m].task = t
    BY <2>1, <2>5 DEF Holders
  <2>7. ASSUME NEW j \in 1..(N - m) - 1 PROVE held[j].task # t
    <3>1. j \in Holders /\ ~ (N - j <= m)
      BY <2>1, <2>6 DEF Holders
    <3>. QED
      BY <2>2, <2>5, <3>1
  <2>. DEFINE first(i) == held[i].task = t /\ \A j \in 1..i - 1 : held[j].task # t
  <2>8. \E i \in Holders : first(i)
    BY <2>6, <2>7
  <2>9. HolderOf(t) = CHOOSE i \in Holders : first(i)
    BY <1>2 DEF HolderOf
  <2>. QED
    BY <2>8, <2>9
<1>. QED
  BY <1>1, <1>2

\* Unfinished text, for a task in a call and for another.
LEMMA UnfinishedText ==
  ASSUME AssemblyTyped, OneSlotEach, CallInv, NEW t \in Writers
  PROVE  /\ Kept(t) \in Seq(PieceType) /\ call.segment \in Seq(PieceType)
         /\ Unfinished(t) \in Seq(PieceType)
         /\ call.task # t => Unfinished(t) = Kept(t)
         /\ call.task = t => Unfinished(t) = Kept(t) \o call.segment /\ Kept(t) = TextOf(call.p)
<1>1. KeptIs
  BY KeptText
<1>2. Kept(t) \in Seq(PieceType)
  <2>1. CASE \A i \in Holders : held[i].task # t
    <3>1. Kept(t) = <<>>
      BY <1>1, <2>1 DEF KeptIs
    <3>. QED
      BY <3>1
  <2>2. ASSUME NEW i \in Holders, held[i].task = t PROVE Kept(t) \in Seq(PieceType)
    <3>1. held[i] \in [task : Writers \cup {Free}, text : Seq(PieceType)]
      BY DEF AssemblyTyped
    <3>. QED
      BY <1>1, <2>2, <3>1 DEF KeptIs
  <2>. QED
    BY <2>1, <2>2
<1>3. call.segment \in Seq(PieceType)
  BY DEF AssemblyTyped
<1>4. call.task # t => Unfinished(t) = Kept(t)
  <2>1. Kept(t) \o <<>> = Kept(t)
    BY <1>2, <1>3, Joined
  <2>. QED
    BY <2>1 DEF Unfinished, Kept
<1>5. call.task = t => Unfinished(t) = Kept(t) \o call.segment
  BY DEF Unfinished, Kept
<1>6. call.task = t => Kept(t) = TextOf(call.p)
  <2>. SUFFICES ASSUME call.task = t PROVE Kept(t) = TextOf(call.p)
    OBVIOUS
  <2>1. InCall
    BY AssemblyAssumption DEF InCall
  <2>2. CASE call.p = NoHolder
    BY <1>1, <2>1, <2>2 DEF CallInv, KeptIs, TextOf
  <2>3. CASE call.p # NoHolder
    <3>1. call.p \in Holders /\ held[call.p].task = t
      BY <2>1, <2>3 DEF CallInv, AssemblyTyped
    <3>. QED
      BY <1>1, <2>3, <3>1 DEF KeptIs, TextOf
  <2>. QED
    BY <2>2, <2>3
<1>7. Unfinished(t) \in Seq(PieceType)
  <2>1. Kept(t) \o call.segment \in Seq(PieceType)
    BY <1>2, <1>3, Joined
  <2>. QED
    BY <1>2, <1>4, <1>5, <2>1
<1>. QED
  BY <1>2, <1>3, <1>4, <1>5, <1>6, <1>7

LEMMA LineTyped ==
  ASSUME AssemblyTyped, NEW t \in Writers
  PROVE  /\ lines[t] \in Seq(LineType) /\ Len(lines[t]) \in Nat /\ written[t] \in Nat
         /\ \A i \in 1..Len(lines[t]) :
              /\ lines[t][i].text \in Seq(PieceType) /\ Len(lines[t][i].text) \in Nat
              /\ lines[t][i].why \in {"newline", "evicted"}
<1>1. lines[t] \in Seq(LineType) /\ Len(lines[t]) \in Nat /\ written[t] \in Nat
  BY DEF AssemblyTyped
<1>2. \A i \in 1..Len(lines[t]) : lines[t][i] \in LineType
  BY <1>1
<1>3. \A line \in LineType : line.text \in Seq(PieceType) /\ Len(line.text) \in Nat
                             /\ line.why \in {"newline", "evicted"}
  BY DEF LineType
<1>. QED
  BY <1>1, <1>2, <1>3

LEMMA InLinesTyped ==
  ASSUME AssemblyInv, NEW t \in Writers
  PROVE  InLines(t) \in Nat /\ Len(Unfinished(t)) \in Nat /\ InLines(t) <= written[t]
<1>1. AssemblyTyped /\ OneSlotEach /\ CallInv /\ TextInv(t) /\ LinesInv(t)
  BY DEF AssemblyInv
<1>2. Unfinished(t) \in Seq(PieceType) /\ Len(lines[t]) \in Nat
  BY <1>1, UnfinishedText, LineTyped
<1>3. InLines(t) \in Nat
  <2>1. CASE Len(lines[t]) = 0
    BY <2>1 DEF InLines, LastOf
  <2>2. CASE Len(lines[t]) # 0
    <3>1. Len(lines[t]) \in 1..Len(lines[t])
      BY <1>2, <2>2
    <3>. QED
      BY <1>1, <3>1 DEF LinesInv, Whole, InLines
  <2>. QED
    BY <2>1, <2>2
<1>4. Len(Unfinished(t)) \in Nat
  BY <1>2
<1>. QED
  BY <1>1, <1>3, <1>4 DEF TextInv

\* Only the last piece of a line can be the latest of its task.
LEMMA NotTheLatest ==
  ASSUME AssemblyInv, NEW t \in Writers, NEW u \in Writers, NEW i \in 1..Len(lines[u]),
         NEW k \in 1..Len(lines[u][i].text) - 1
  PROVE  lines[u][i].text[k] # Piece(t, written[t])
<1>. DEFINE text == lines[u][i].text
            size == Len(text)
            before == LastOf(u, i - 1)
<1>1. AssemblyTyped /\ LinesInv(u)
  BY DEF AssemblyInv
<1>2. size \in Nat /\ Len(lines[u]) \in Nat
  BY <1>1, LineTyped
<1>3. /\ \A j \in 1..size : text[j] = Piece(u, before + j)
      /\ LastOf(u, i) \in Nat /\ LastOf(u, i) <= InLines(u) /\ size # 0
  BY <1>1 DEF LinesInv, Whole, GoesOn
<1>4. LastOf(u, i) = text[size].n
  <2>1. i # 0
    BY <1>2
  <2>. QED
    BY <2>1 DEF LastOf
<1>5. text[size].n = before + size /\ text[k] = Piece(u, before + k)
  <2>1. size \in 1..size /\ k \in 1..size
    BY <1>2, <1>3
  <2>2. text[size] = Piece(u, before + size) /\ text[k] = Piece(u, before + k)
    BY <1>3, <2>1
  <2>. QED
    BY <2>2 DEF Piece
<1>6. before \in Nat
  <2>1. CASE i = 1
    BY <2>1 DEF LastOf
  <2>2. CASE i # 1
    <3>1. i - 1 \in 1..Len(lines[u])
      BY <1>2, <2>2
    <3>. QED
      BY <1>1, <3>1 DEF LinesInv, Whole
  <2>. QED
    BY <2>1, <2>2
<1>7. InLines(u) \in Nat /\ InLines(u) <= written[u] /\ written[u] \in Nat
  BY <1>1, InLinesTyped, LineTyped
<1>. HIDE DEF text, size, before
<1>8. k \in 1..size - 1
  BY DEF size, text
<1>9. before + k < written[u] /\ before + k # written[u]
  BY <1>2, <1>3, <1>4, <1>5, <1>6, <1>7, <1>8
<1>10. text[k].task = u /\ text[k].n = before + k
  BY <1>5 DEF Piece
<1>11. text[k] # Piece(t, written[t])
  BY <1>9, <1>10 DEF Piece
<1>. QED
  BY <1>11 DEF text

LEMMA LineStays ==
  ASSUME NEW t, NEW i, Whole(t, i), lines'[t][i] = lines[t][i], LastOf(t, i)' = LastOf(t, i),
         LastOf(t, i - 1)' = LastOf(t, i - 1), InLines(t) \in Nat, InLines(t)' \in Nat,
         InLines(t) <= InLines(t)', ends \subseteq ends',
         \A k \in 1..Len(lines[t][i].text) - 1 : lines[t][i].text[k] \notin ends'
  PROVE  Whole(t, i)'
<1>1. LastOf(t, i)' \in Nat /\ LastOf(t, i)' <= InLines(t)'
  BY DEF Whole
<1>. QED
  BY <1>1 DEF Whole, GoesOn

\* A line made of what its task had not finished keeps the lines whole.
LEMMA LineCommitted ==
  ASSUME AssemblyInv, NEW t \in Writers, NEW why \in {"newline", "evicted"},
         CommitLine(Unfinished(t), why), written' = written,
         ends \subseteq ends', ends' \subseteq ends \cup {Piece(t, written[t])},
         why = "newline" => Piece(t, written[t]) \in ends'
  PROVE  /\ lines' \in [Writers -> Seq(LineType)] /\ ends' \subseteq PieceType
         /\ InLines(t)' = written[t]
         /\ \A u \in Writers : u # t => InLines(u)' = InLines(u)
         /\ \A u \in Writers : LinesInv(u)'
         /\ EndsInv'
<1>. DEFINE x == Unfinished(t)
            m == Len(x)
            new == [text |-> x, why |-> why]
<1>0. PICK n \in Nat : n = Len(lines[t])
  BY LineTyped DEF AssemblyInv
<1>1. AssemblyTyped /\ EndsInv /\ TextInv(t) /\ \A u \in Writers : LinesInv(u)
  BY DEF AssemblyInv
<1>2. /\ x \in Seq(PieceType) /\ m \in Nat /\ written[t] \in Nat
      /\ InLines(t) \in Nat /\ written[t] = InLines(t) + m
      /\ \A k \in 1..m : x[k] = Piece(t, InLines(t) + k)
  BY <1>1, UnfinishedText, LineTyped, InLinesTyped DEF AssemblyInv, TextInv, GoesOn
<1>3. ends' \subseteq PieceType
  BY <1>1, <1>2 DEF AssemblyTyped, PieceType, Piece
<1>4. ASSUME NEW u \in Writers, NEW i \in 1..Len(lines[u]), NEW k \in 1..Len(lines[u][i].text) - 1
      PROVE  lines[u][i].text[k] \notin ends'
  BY <1>1, NotTheLatest DEF LinesInv, Whole
<1>5. ASSUME NEW u \in Writers, UNCHANGED lines[u]
      PROVE  LinesInv(u)' /\ InLines(u)' = InLines(u)
  <2>1. \A i : LastOf(u, i)' = LastOf(u, i)
    BY <1>5 DEF LastOf
  <2>2. InLines(u)' = InLines(u)
    BY <1>5 DEF InLines, LastOf
  <2>. QED
    <3>. SUFFICES ASSUME NEW i \in 1..Len(lines[u]) PROVE Whole(u, i)'
      BY <1>5, <2>2 DEF LinesInv
    <3>1. Whole(u, i) /\ InLines(u) \in Nat
      BY <1>1, InLinesTyped DEF LinesInv
    <3>. QED
      BY <1>4, <1>5, <2>1, <2>2, <3>1, LineStays, SMTT(30)
<1>6. CASE x = <<>>
  <2>1. lines' = lines /\ InLines(t) = written[t]
    BY <1>2, <1>6 DEF CommitLine
  <2>2. \A u \in Writers : LinesInv(u)' /\ InLines(u)' = InLines(u)
    BY <1>5, <2>1
  <2>3. EndsInv'
    <3>. SUFFICES ASSUME NEW e \in ends' PROVE e.n <= InLines(e.task)'
      BY DEF EndsInv
    <3>1. e.task \in Writers /\ e.n \in Nat
      BY <1>3 DEF PieceType
    <3>2. CASE e = Piece(t, written[t])
      <4>1. InLines(t)' = written[t]
        BY <2>1, <2>2
      <4>. QED
        BY <1>2, <3>2, <4>1 DEF Piece
    <3>3. CASE e \in ends
      BY <1>1, <2>2, <3>1, <3>3 DEF EndsInv
    <3>. QED
      BY <3>2, <3>3
  <2>. QED
    BY <1>1, <1>3, <2>1, <2>2, <2>3 DEF AssemblyTyped
<1>7. CASE x # <<>>
  <2>1. m # 0 /\ 1 \in 1..m /\ m \in 1..m
    BY <1>2, <1>7
  <2>2. x[1].task = t
    <3>1. x[1] = Piece(t, InLines(t) + 1)
      BY <1>2, <2>1
    <3>. QED
      BY <3>1 DEF Piece
  <2>3. lines' = [lines EXCEPT ![t] = Append(@, new)]
    BY <1>7, <2>2 DEF CommitLine
  <2>4. new \in LineType /\ new.text = x /\ new.why = why
    BY <1>2 DEF LineType
  <2>. HIDE DEF new
  <2>5. /\ Append(lines[t], new) \in Seq(LineType) /\ lines'[t] = Append(lines[t], new)
        /\ \A u \in Writers : u # t => lines'[u] = lines[u]
        /\ lines' \in [Writers -> Seq(LineType)]
    BY <1>1, <2>3, <2>4, LineTyped, Appended DEF AssemblyTyped
  <2>6. /\ Len(lines'[t]) = n + 1 /\ lines'[t][n + 1] = new
        /\ \A i \in 1..n : lines'[t][i] = lines[t][i]
    BY <1>0, <1>1, <2>4, <2>5, LineTyped, Appended
  <2>7. /\ \A i \in 0..n : LastOf(t, i)' = LastOf(t, i)
        /\ LastOf(t, n + 1)' = written[t]
    <3>1. \A i \in 0..n : i = 0 \/ i \in 1..n
      OBVIOUS
    <3>2. \A i \in 0..n : LastOf(t, i)' = LastOf(t, i)
      BY <2>6, <3>1 DEF LastOf
    <3>3. n + 1 # 0 /\ x[m] = Piece(t, written[t])
      BY <1>2, <2>1
    <3>4. LastOf(t, n + 1)' = new.text[Len(new.text)].n
      BY <2>6, <3>3 DEF LastOf
    <3>. QED
      BY <2>4, <3>2, <3>3, <3>4 DEF Piece
  <2>8. InLines(t)' = written[t]
    BY <2>6, <2>7 DEF InLines
  <2>9. \A u \in Writers : u # t => LinesInv(u)' /\ InLines(u)' = InLines(u)
    BY <1>5, <2>5
  <2>10. LinesInv(t)'
    <3>. SUFFICES ASSUME NEW i \in 1..n + 1 PROVE Whole(t, i)'
      BY <2>6 DEF LinesInv
    <3>1. CASE i \in 1..n
      <4>1. i \in 0..n /\ i - 1 \in 0..n
        BY <1>2, <3>1
      <4>2. Whole(t, i) /\ InLines(t) <= InLines(t)' /\ InLines(t)' \in Nat
        BY <1>0, <1>1, <1>2, <2>8, <3>1 DEF LinesInv
      <4>3. LastOf(t, i)' = LastOf(t, i) /\ LastOf(t, i - 1)' = LastOf(t, i - 1)
        BY <2>7, <4>1
      <4>4. lines'[t][i] = lines[t][i] /\ i \in 1..Len(lines[t])
        BY <1>0, <2>6, <3>1
      <4>. QED
        BY <1>2, <1>4, <4>2, <4>3, <4>4, LineStays
    <3>2. CASE i = n + 1
      <4>1. LastOf(t, i - 1)' = InLines(t) /\ LastOf(t, i)' = written[t]
        <5>1. i - 1 = n /\ n \in 0..n
          BY <1>2, <3>2
        <5>. QED
          BY <1>0, <2>7, <3>2, <5>1 DEF InLines
      <4>2. ASSUME NEW k \in 1..m - 1 PROVE x[k] \notin ends'
        <5>1. k \in 1..m /\ InLines(t) + k > InLines(t) /\ InLines(t) + k # written[t]
          BY <1>2
        <5>2. x[k] = Piece(t, InLines(t) + k)
          BY <1>2, <5>1
        <5>3. x[k] \notin ends
          <6>. SUFFICES ASSUME x[k] \in ends PROVE FALSE
            OBVIOUS
          <6>1. InLines(t) + k <= InLines(t)
            BY <1>1, <5>2 DEF EndsInv, Piece
          <6>. QED
            BY <1>2, <5>1, <6>1
        <5>4. x[k] # Piece(t, written[t])
          BY <5>1, <5>2 DEF Piece
        <5>. QED
          BY <5>3, <5>4
      <4>3. x[m] = Piece(t, written[t])
        BY <1>2, <2>1
      <4>4. lines'[t][i] = new /\ new.text = x /\ Len(x) = m /\ new.why = why
        BY <2>4, <2>6, <3>2
      <4>5. \A k \in 1..Len(x) : x[k] = Piece(t, LastOf(t, i - 1)' + k)
        BY <1>2, <4>1
      <4>6. LastOf(t, i)' \in Nat /\ LastOf(t, i)' <= InLines(t)'
        BY <1>2, <2>8, <4>1
      <4>7. why = "newline" => x[m] \in ends'
        BY <4>3
      <4>. HIDE DEF x, m
      <4>. QED
        BY <2>1, <4>2, <4>4, <4>5, <4>6, <4>7 DEF Whole, GoesOn
    <3>. QED
      BY <1>2, <3>1, <3>2
  <2>11. EndsInv'
    <3>. SUFFICES ASSUME NEW e \in ends' PROVE e.n <= InLines(e.task)'
      BY DEF EndsInv
    <3>1. e.task \in Writers /\ e.n \in Nat
      BY <1>3 DEF PieceType
    <3>2. CASE e = Piece(t, written[t])
      BY <1>2, <2>8, <3>2 DEF Piece
    <3>3. CASE e \in ends
      <4>1. e.n <= InLines(e.task)
        BY <1>1, <3>3 DEF EndsInv
      <4>. QED
        BY <1>2, <2>8, <2>9, <3>1, <4>1
    <3>. QED
      BY <3>2, <3>3
  <2>. QED
    BY <1>3, <2>5, <2>8, <2>9, <2>10, <2>11
<1>. QED
  BY <1>6, <1>7

LEMMA AppendToJoined ==
  ASSUME NEW a \in Seq(PieceType), NEW b \in Seq(PieceType), NEW e \in PieceType
  PROVE  a \o Append(b, e) = Append(a \o b, e)
<1>. HIDE DEF PieceType
<1>. QED
  OBVIOUS

LEMMA TextReplaced ==
  ASSUME NEW T, NEW S, NEW r \in [task : T, text : S], NEW text
  PROVE  [r EXCEPT !.text = text] = [task |-> r.task, text |-> text]
OBVIOUS

LEMMA LinesKept ==
  ASSUME AssemblyInv, UNCHANGED <<lines, ends>>
  PROVE  /\ EndsInv' /\ \A t \in Writers : LinesInv(t)' /\ InLines(t)' = InLines(t)
<1>1. \A t : InLines(t)' = InLines(t)
  BY DEF InLines, LastOf
<1>2. \A t, i : LastOf(t, i)' = LastOf(t, i)
  BY DEF LastOf
<1>3. EndsInv'
  BY <1>1 DEF AssemblyInv, EndsInv
<1>4. ASSUME NEW t \in Writers, NEW i \in 1..Len(lines[t]) PROVE Whole(t, i)'
  <2>1. Whole(t, i) /\ InLines(t) \in Nat
    BY InLinesTyped DEF AssemblyInv, LinesInv
  <2>2. \A k \in 1..Len(lines[t][i].text) - 1 : lines[t][i].text[k] \notin ends'
    BY <2>1 DEF Whole
  <2>. QED
    BY <1>1, <1>2, <2>1, <2>2, LineStays
<1>. QED
  BY <1>1, <1>3, <1>4 DEF LinesInv

LEMMA TextStays ==
  ASSUME NEW t, TextInv(t), InLines(t)' = InLines(t), written'[t] = written[t],
         Unfinished(t)' = Unfinished(t)
  PROVE  TextInv(t)'
BY DEF TextInv, GoesOn

LEMMA TextInLines ==
  ASSUME NEW t, InLines(t)' = written'[t], written'[t] \in Nat, Unfinished(t)' = <<>>
  PROVE  TextInv(t)'
<1>1. Len(Unfinished(t)') = 0 /\ \A k \in 1..0 : FALSE
  OBVIOUS
<1>. QED
  BY <1>1 DEF TextInv, GoesOn

LEMMA KeptStays ==
  ASSUME OneSlotEach, OneSlotEach', NEW u \in Writers,
         \A i \in Holders : held[i].task = u \/ held'[i].task = u => held'[i] = held[i]
  PROVE  Kept(u)' = Kept(u)
<1>1. KeptIs /\ KeptIs'
  BY KeptText, KeptTextNext
<1>2. CASE \A i \in Holders : held[i].task # u
  <2>1. \A i \in Holders : held'[i].task # u
    BY <1>2
  <2>. QED
    BY <1>1, <1>2, <2>1 DEF KeptIs
<1>3. ASSUME NEW i \in Holders, held[i].task = u PROVE Kept(u)' = Kept(u)
  BY <1>1, <1>3 DEF KeptIs
<1>. QED
  BY <1>2, <1>3

\* In no call, or in one that has no text since its last newline.
LEMMA NothingInCall ==
  ASSUME NEW u, Kept(u)' \in Seq(PieceType), call'.segment = <<>>
  PROVE  Unfinished(u)' = Kept(u)'
<1>1. Kept(u)' \o <<>> = Kept(u)'
  BY Joined
<1>. QED
  BY <1>1 DEF Unfinished, Kept

LEMMA CaptureKeeps ==
  ASSUME AssemblyInv, NEW t \in Writers, Capture(t)
  PROVE  AssemblyInv'
<1>1. AssemblyTyped /\ OneSlotEach /\ CallInv /\ \A u \in Writers : TextInv(u)
  BY DEF AssemblyInv
<1>2. /\ call = NoCall /\ call' = [task |-> t, p |-> HolderOf(t), any |-> FALSE, segment |-> <<>>]
      /\ UNCHANGED <<held, victim, lines, written, ends>>
  BY DEF Capture, NoCall
<1>3. /\ call'.task = t /\ call'.p = HolderOf(t) /\ call'.any = FALSE /\ call'.segment = <<>>
      /\ call.segment = <<>>
  BY <1>2 DEF NoCall
<1>4. AssemblyTyped'
  <2>1. HolderOf(t) \in Holders \cup {NoHolder}
    BY FirstHolder
  <2>. QED
    BY <1>1, <1>2, <2>1 DEF AssemblyTyped
<1>5. OneSlotEach'
  BY <1>1, <1>2 DEF OneSlotEach
<1>6. CallInv'
  <2>1. IF HolderOf(t) = NoHolder THEN \A i \in Holders : held[i].task # t
        ELSE held[HolderOf(t)].task = t
    <3>1. NoHolder \notin Holders
      BY DEF NoHolder, Holders
    <3>. QED
      BY <3>1, FirstHolder
  <2>. QED
    BY <1>2, <1>3, <2>1 DEF CallInv
<1>7. ASSUME NEW u \in Writers PROVE TextInv(u)'
  <2>1. Kept(u)' = Kept(u)
    BY <1>1, <1>2, <1>5, KeptStays
  <2>2. Kept(u) \in Seq(PieceType) /\ Unfinished(u) = Kept(u)
    <3>1. Kept(u) \in Seq(PieceType)
      BY <1>1, UnfinishedText
    <3>2. Kept(u) \o <<>> = Kept(u)
      BY <3>1, Joined
    <3>. QED
      BY <1>3, <3>1, <3>2 DEF Unfinished, Kept
  <2>3. Unfinished(u)' = Unfinished(u)
    BY <1>3, <2>1, <2>2, NothingInCall
  <2>. QED
    BY <1>1, <1>2, <2>3, LinesKept, TextStays
<1>. QED
  BY <1>2, <1>4, <1>5, <1>6, <1>7, LinesKept DEF AssemblyInv

LEMMA TextKeeps ==
  ASSUME AssemblyInv, Text
  PROVE  AssemblyInv'
<1>. DEFINE t == call.task
            x == Unfinished(t)
            new == Piece(t, written[t] + 1)
<1>1. AssemblyTyped /\ OneSlotEach /\ CallInv /\ \A u \in Writers : TextInv(u)
  BY DEF AssemblyInv
<1>2. /\ t \in Writers /\ written' = [written EXCEPT ![t] = @ + 1]
      /\ call' = [call EXCEPT !.any = TRUE, !.segment = Append(@, new)]
      /\ UNCHANGED <<held, victim, lines, ends>>
  BY <1>1 DEF Text, InCall, AssemblyTyped
<1>3. /\ written[t] \in Nat /\ new \in PieceType /\ written'[t] = written[t] + 1
      /\ \A u \in Writers : u # t => written'[u] = written[u]
      /\ written' \in [Writers -> Nat]
  BY <1>1, <1>2 DEF AssemblyTyped, Piece, PieceType
<1>. HIDE DEF new
<1>4. /\ call'.task = t /\ call'.p = call.p /\ call'.any = TRUE
      /\ call'.segment = Append(call.segment, new)
      /\ call.segment \in Seq(PieceType) /\ Append(call.segment, new) \in Seq(PieceType)
  BY <1>1, <1>2, <1>3 DEF AssemblyTyped
<1>5. AssemblyTyped'
  <2>1. call' \in [task : Writers \cup {Free}, p : Holders \cup {NoHolder}, any : BOOLEAN,
                   segment : Seq(PieceType)]
    BY <1>1, <1>2, <1>4 DEF AssemblyTyped
  <2>. QED
    BY <1>1, <1>2, <1>3, <2>1 DEF AssemblyTyped
<1>6. OneSlotEach' /\ CallInv'
  BY <1>1, <1>2, <1>4 DEF OneSlotEach, CallInv, InCall
<1>7. \A u : Kept(u)' = Kept(u)
  BY <1>2 DEF Kept, TextOf, HolderOf
<1>8. PICK task \in Writers : task = t
  BY <1>2
<1>9. TextInv(task)'
  <2>1. Unfinished(task)' = Append(x, new)
    <3>1. Unfinished(task)' = Kept(task)' \o call'.segment
      BY <1>4, <1>8 DEF Unfinished, Kept
    <3>2. x = Kept(t) \o call.segment /\ Kept(t) \in Seq(PieceType)
      BY <1>1, <1>2, UnfinishedText
    <3>3. Kept(t) \o Append(call.segment, new) = Append(Kept(t) \o call.segment, new)
      <4>1. /\ Kept(t) \in Seq(PieceType) /\ call.segment \in Seq(PieceType)
            /\ new \in PieceType
        BY <1>3, <1>4, <3>2
      <4>. QED
        BY <4>1, AppendToJoined
    <3>. QED
      BY <1>4, <1>7, <1>8, <3>1, <3>2, <3>3
  <2>2. x \in Seq(PieceType)
    BY <1>1, <1>2, UnfinishedText
  <2>3. /\ Len(x) \in Nat /\ Len(Append(x, new)) = Len(x) + 1 /\ Append(x, new)[Len(x) + 1] = new
        /\ \A k \in 1..Len(x) : Append(x, new)[k] = x[k]
    BY <1>3, <2>2, Appended
  <2>4. /\ InLines(t) \in Nat /\ InLines(task)' = InLines(t)
        /\ written[t] = InLines(t) + Len(x) /\ \A k \in 1..Len(x) : x[k] = Piece(t, InLines(t) + k)
    BY <1>1, <1>2, <1>8, InLinesTyped, LinesKept DEF TextInv, GoesOn
  <2>. HIDE DEF x
  <2>5. \A k \in 1..Len(x) + 1 : Append(x, new)[k] = Piece(t, InLines(t) + k)
    <3>1. new = Piece(t, InLines(t) + (Len(x) + 1))
      BY <2>3, <2>4 DEF new
    <3>2. \A k \in 1..Len(x) + 1 : k \in 1..Len(x) \/ k = Len(x) + 1
      BY <2>3
    <3>. QED
      BY <2>3, <2>4, <3>1, <3>2
  <2>6. written'[t] = InLines(t) + (Len(x) + 1)
    BY <1>3, <2>3, <2>4
  <2>. QED
    BY <1>8, <2>1, <2>3, <2>4, <2>5, <2>6 DEF TextInv, GoesOn
<1>10. ASSUME NEW u \in Writers, u # t PROVE TextInv(u)'
  <2>1. Unfinished(u)' = Unfinished(u)
    BY <1>4, <1>7, <1>10 DEF Unfinished, Kept
  <2>. QED
    BY <1>1, <1>2, <1>3, <1>10, <2>1, LinesKept, TextStays
<1>. QED
  BY <1>2, <1>5, <1>6, <1>8, <1>9, <1>10, LinesKept DEF AssemblyInv

LEMMA EscapeKeeps ==
  ASSUME AssemblyInv, Escape
  PROVE  AssemblyInv'
<1>1. AssemblyTyped /\ OneSlotEach /\ CallInv /\ \A u \in Writers : TextInv(u)
  BY DEF AssemblyInv
<1>2. call' = [call EXCEPT !.any = TRUE] /\ UNCHANGED <<held, victim, lines, written, ends>>
  BY DEF Escape
<1>3. call'.task = call.task /\ call'.p = call.p /\ call'.any /\ call'.segment = call.segment
  BY <1>1, <1>2 DEF AssemblyTyped
<1>4. AssemblyTyped'
  BY <1>1, <1>2 DEF AssemblyTyped
<1>5. OneSlotEach' /\ CallInv'
  BY <1>1, <1>2, <1>3 DEF OneSlotEach, CallInv, InCall
<1>6. ASSUME NEW u \in Writers PROVE TextInv(u)'
  <2>1. Kept(u)' = Kept(u)
    BY <1>2 DEF Kept, TextOf, HolderOf
  <2>2. Unfinished(u)' = Unfinished(u)
    BY <1>3, <2>1 DEF Unfinished, Kept
  <2>. QED
    BY <1>1, <1>2, <2>2, LinesKept, TextStays
<1>. QED
  BY <1>2, <1>4, <1>5, <1>6, LinesKept DEF AssemblyInv

\* A slot of its own for a task that had none, or had this one.
LEMMA SlotTaken ==
  ASSUME AssemblyTyped, OneSlotEach,
         NEW p \in Holders, NEW t \in Writers, NEW text \in Seq(PieceType),
         \A i \in Holders : i # p => held[i].task # t,
         held' = [held EXCEPT ![p] = [task |-> t, text |-> text]]
  PROVE  /\ held' \in [Holders -> [task : Writers \cup {Free}, text : Seq(PieceType)]]
         /\ OneSlotEach' /\ Kept(t)' = text
         /\ \A u \in Writers : u # t /\ held[p].task # u => Kept(u)' = Kept(u)
         /\ \A u \in Writers : u # t /\ held[p].task = u => Kept(u)' = <<>>
<1>1. /\ held' \in [Holders -> [task : Writers \cup {Free}, text : Seq(PieceType)]]
      /\ held'[p].task = t /\ held'[p].text = text
      /\ \A i \in Holders : i # p => held'[i] = held[i]
  BY DEF AssemblyTyped
<1>2. OneSlotEach'
  BY <1>1 DEF OneSlotEach
<1>3. KeptIs /\ KeptIs'
  BY <1>2, KeptText, KeptTextNext
<1>4. Kept(t)' = text
  BY <1>1, <1>3 DEF KeptIs
<1>5. ASSUME NEW u \in Writers, u # t, held[p].task # u PROVE Kept(u)' = Kept(u)
  BY <1>1, <1>2, <1>5, KeptStays
<1>6. ASSUME NEW u \in Writers, u # t, held[p].task = u PROVE Kept(u)' = <<>>
  <2>1. \A i \in Holders : held'[i].task # u
    <3>1. u # Free
      BY AssemblyAssumption
    <3>. QED
      BY <1>1, <1>6, <3>1 DEF OneSlotEach
  <2>. QED
    BY <1>3, <2>1 DEF KeptIs
<1>. QED
  BY <1>1, <1>2, <1>4, <1>5, <1>6

LEMMA NewlineKeeps ==
  ASSUME AssemblyInv, Newline
  PROVE  AssemblyInv'
<1>1. AssemblyTyped /\ OneSlotEach /\ CallInv /\ \A u \in Writers : TextInv(u)
  BY DEF AssemblyInv
<1>2. PICK t \in Writers : t = call.task
  BY <1>1 DEF Newline, InCall, AssemblyTyped
<1>3. /\ held' = IF call.p = NoHolder THEN held ELSE [held EXCEPT ![call.p] = Empty]
      /\ call' = [task |-> t, p |-> NoHolder, any |-> FALSE, segment |-> <<>>]
      /\ ends' = ends \cup {Piece(t, written[t])} /\ UNCHANGED <<victim, written>>
  BY <1>2 DEF Newline, NoCall
<1>4. InCall /\ Unfinished(t) = TextOf(call.p) \o call.segment /\ Kept(t) = TextOf(call.p)
  BY <1>1, <1>2, UnfinishedText DEF Newline
<1>5. CommitLine(Unfinished(t), "newline")
  <2>1. CASE call.any \/ TextOf(call.p) # <<>>
    BY <1>4, <2>1 DEF Newline
  <2>2. CASE ~(call.any \/ TextOf(call.p) # <<>>)
    <3>1. call.segment = <<>> /\ TextOf(call.p) = <<>> /\ lines' = lines
      BY <1>1, <2>2 DEF CallInv, Newline
    <3>2. Unfinished(t) = <<>>
      BY <1>4, <3>1
    <3>. QED
      BY <3>1, <3>2 DEF CommitLine
  <2>. QED
    BY <2>1, <2>2
<1>6. /\ lines' \in [Writers -> Seq(LineType)] /\ ends' \subseteq PieceType
      /\ InLines(t)' = written[t] /\ \A u \in Writers : u # t => InLines(u)' = InLines(u)
      /\ \A u \in Writers : LinesInv(u)'
      /\ EndsInv'
  BY <1>3, <1>5, LineCommitted
<1>7. /\ held' \in [Holders -> [task : Writers \cup {Free}, text : Seq(PieceType)]]
      /\ \A i \in Holders : held'[i].task # t
      /\ \A i \in Holders : held[i].task # t => held'[i] = held[i]
      /\ \A i \in Holders : held'[i] = held[i] \/ held'[i].task = Free
  <2>1. t # Free
    BY AssemblyAssumption
  <2>2. CASE call.p = NoHolder
    <3>1. held' = held /\ \A i \in Holders : held[i].task # t
      BY <1>1, <1>2, <1>3, <1>4, <2>2 DEF CallInv
    <3>. QED
      BY <1>1, <3>1 DEF AssemblyTyped
  <2>3. CASE call.p # NoHolder
    <3>1. PICK p \in Holders : p = call.p
      BY <1>1, <2>3 DEF AssemblyTyped
    <3>2. held' = [held EXCEPT ![p] = Empty] /\ held[p].task = t
      BY <1>1, <1>2, <1>3, <1>4, <2>3, <3>1 DEF CallInv
    <3>3. Empty \in [task : Writers \cup {Free}, text : Seq(PieceType)] /\ Empty.task = Free
      BY DEF Empty
    <3>4. /\ held' \in [Holders -> [task : Writers \cup {Free}, text : Seq(PieceType)]]
          /\ held'[p] = Empty /\ \A i \in Holders : i # p => held'[i] = held[i]
      BY <1>1, <3>2, <3>3 DEF AssemblyTyped
    <3>5. \A i \in Holders : i # p => held[i].task # t
      BY <1>1, <2>1, <3>2 DEF OneSlotEach
    <3>. QED
      BY <2>1, <3>2, <3>3, <3>4, <3>5
  <2>. QED
    BY <2>2, <2>3
<1>8. OneSlotEach'
  BY <1>1, <1>7 DEF OneSlotEach
<1>9. call'.task = t /\ call'.p = NoHolder /\ ~call'.any /\ call'.segment = <<>>
  BY <1>3
<1>10. AssemblyTyped'
  BY <1>1, <1>3, <1>6, <1>7 DEF AssemblyTyped
<1>11. CallInv'
  BY <1>7, <1>9 DEF CallInv
<1>12. TextInv(t)'
  <2>1. Kept(t)' = <<>>
    BY <1>7, <1>8, KeptTextNext DEF KeptIs
  <2>2. Kept(t)' \in Seq(PieceType)
    BY <2>1
  <2>3. Unfinished(t)' = <<>>
    BY <1>9, <2>1, <2>2, NothingInCall
  <2>. QED
    BY <1>1, <1>3, <1>6, <2>3, TextInLines DEF AssemblyTyped
<1>13. ASSUME NEW u \in Writers, u # t PROVE TextInv(u)'
  <2>1. \A i \in Holders : held[i].task = u \/ held'[i].task = u => held'[i] = held[i]
    <3>1. u # Free
      BY AssemblyAssumption
    <3>. QED
      BY <1>7, <1>13, <3>1
  <2>2. Kept(u)' = Kept(u)
    BY <1>1, <1>8, <2>1, KeptStays
  <2>3. Unfinished(u) = Kept(u) /\ Kept(u) \in Seq(PieceType)
    BY <1>1, <1>2, <1>13, UnfinishedText
  <2>4. Unfinished(u)' = Unfinished(u)
    BY <1>9, <2>2, <2>3, NothingInCall
  <2>. QED
    BY <1>1, <1>3, <1>6, <1>13, <2>4, TextStays
<1>. QED
  BY <1>6, <1>8, <1>10, <1>11, <1>12, <1>13 DEF AssemblyInv

LEMMA CallEndsKeeps ==
  ASSUME AssemblyInv, CallEnds
  PROVE  AssemblyInv'
<1>1. AssemblyTyped /\ OneSlotEach /\ CallInv /\ \A u \in Writers : TextInv(u)
  BY DEF AssemblyInv
<1>2. PICK t \in Writers : t = call.task
  BY <1>1 DEF CallEnds, InCall, AssemblyTyped
<1>3. /\ call' = NoCall /\ call'.task = Free /\ call'.p = NoHolder /\ ~call'.any
      /\ call'.segment = <<>> /\ UNCHANGED <<written, ends>>
  BY DEF CallEnds, NoCall
<1>4. /\ InCall /\ Unfinished(t) = Kept(t) \o call.segment /\ Kept(t) = TextOf(call.p)
      /\ call.segment \in Seq(PieceType) /\ Unfinished(t) \in Seq(PieceType)
      /\ Kept(t) \in Seq(PieceType)
  BY <1>1, <1>2, UnfinishedText DEF CallEnds
<1>5. ASSUME NEW u \in Writers, u # t
      PROVE  Unfinished(u) = Kept(u) /\ Kept(u) \in Seq(PieceType)
  BY <1>1, <1>2, <1>5, UnfinishedText
<1>6. call' \in [task : Writers \cup {Free}, p : Holders \cup {NoHolder}, any : BOOLEAN,
                 segment : Seq(PieceType)]
  BY <1>3 DEF NoCall
<1>7. CallInv'
  BY <1>3 DEF CallInv, InCall
\* Steps that leave the lines alone, and leave the task what it had not finished.
<1>8. ASSUME UNCHANGED lines, AssemblyTyped', OneSlotEach', Kept(t)' = Unfinished(t),
             \A u \in Writers : u # t => Kept(u)' = Kept(u)
      PROVE  AssemblyInv'
  <2>1. ASSUME NEW u \in Writers PROVE TextInv(u)'
    <3>1. Kept(u)' = Unfinished(u) /\ Unfinished(u) \in Seq(PieceType)
      BY <1>4, <1>5, <1>8
    <3>2. Unfinished(u)' = Unfinished(u)
      BY <1>3, <3>1, NothingInCall
    <3>. QED
      BY <1>1, <1>3, <1>8, <3>2, LinesKept, TextStays
  <2>. QED
    BY <1>3, <1>7, <1>8, <2>1, LinesKept DEF AssemblyInv
<1>9. CASE ~call.any /\ UNCHANGED <<held, victim, lines>>
  <2>1. \A u : Kept(u)' = Kept(u)
    BY <1>9 DEF Kept, TextOf, HolderOf
  <2>2. call.segment = <<>>
    BY <1>1, <1>9 DEF CallInv
  <2>3. Kept(t) \o <<>> = Kept(t)
    BY <1>4, Joined
  <2>4. Unfinished(t) = Kept(t)
    BY <1>4, <2>2, <2>3
  <2>5. AssemblyTyped' /\ OneSlotEach'
    BY <1>1, <1>3, <1>6, <1>9 DEF AssemblyTyped, OneSlotEach
  <2>. QED
    BY <1>8, <1>9, <2>1, <2>4, <2>5
<1>10. CASE /\ call.any /\ call.p # NoHolder
            /\ held' = [held EXCEPT ![call.p].text = @ \o call.segment]
            /\ UNCHANGED <<victim, lines>>
  <2>1. PICK p \in Holders : p = call.p
    BY <1>1, <1>10 DEF AssemblyTyped
  <2>2. held[p].task = t
    BY <1>1, <1>2, <1>4, <1>10, <2>1 DEF CallInv
  <2>3. Unfinished(t) = held[p].text \o call.segment
    BY <1>4, <1>10, <2>1 DEF TextOf
  <2>4. held[p] \in [task : Writers \cup {Free}, text : Seq(PieceType)]
    BY <1>1 DEF AssemblyTyped
  <2>. PICK text \in Seq(PieceType) : text = Unfinished(t)
    BY <1>4
  <2>5. held' = [held EXCEPT ![p] = [@ EXCEPT !.text = text]]
    BY <1>10, <2>1, <2>3
  <2>6. held' = [held EXCEPT ![p] = [task |-> t, text |-> text]]
    <3>1. [held[p] EXCEPT !.text = text] = [task |-> t, text |-> text]
      BY <2>2, <2>4, TextReplaced
    <3>. QED
      BY <2>5, <3>1
  <2>7. /\ \A i \in Holders : i # p => held[i].task # t
        /\ \A u \in Writers : u # t => held[p].task # u
    BY <1>1, <2>2, AssemblyAssumption DEF OneSlotEach
  <2>8. /\ held' \in [Holders -> [task : Writers \cup {Free}, text : Seq(PieceType)]]
        /\ OneSlotEach' /\ Kept(t)' = Unfinished(t)
        /\ \A u \in Writers : u # t => Kept(u)' = Kept(u)
    BY <1>1, <2>6, <2>7, SlotTaken
  <2>9. AssemblyTyped'
    BY <1>1, <1>3, <1>6, <1>10, <2>8 DEF AssemblyTyped
  <2>. QED
    BY <1>8, <1>10, <2>8, <2>9
<1>11. CASE call.any /\ call.p = NoHolder /\ Claim(t, call.segment)
  <2>1. \A i \in Holders : held[i].task # t
    BY <1>1, <1>2, <1>4, <1>11 DEF CallInv
  <2>2. Unfinished(t) = call.segment
    <3>1. Kept(t) = <<>>
      BY <1>4, <1>11 DEF TextOf
    <3>2. <<>> \o call.segment = call.segment
      BY <1>4, Joined
    <3>. QED
      BY <1>4, <3>1, <3>2
  <2>3. CASE /\ HolderOf(Free) # NoHolder
             /\ held' = [held EXCEPT ![HolderOf(Free)] = [task |-> t, text |-> call.segment]]
             /\ UNCHANGED <<victim, lines>>
    <3>1. PICK p \in Holders : p = HolderOf(Free) /\ held[p].task = Free
      BY <2>3, FirstHolder
    <3>2. \A u \in Writers : held[p].task # u
      BY <3>1, AssemblyAssumption
    <3>3. PICK text \in Seq(PieceType) : text = call.segment
      BY <1>4
    <3>4. /\ held' \in [Holders -> [task : Writers \cup {Free}, text : Seq(PieceType)]]
          /\ OneSlotEach' /\ Kept(t)' = Unfinished(t)
          /\ \A u \in Writers : u # t => Kept(u)' = Kept(u)
      <4>1. held' = [held EXCEPT ![p] = [task |-> t, text |-> text]]
        BY <2>3, <3>1, <3>3
      <4>2. \A i \in Holders : i # p => held[i].task # t
        BY <2>1
      <4>3. AssemblyTyped /\ OneSlotEach
        BY <1>1
      <4>4. /\ held' \in [Holders -> [task : Writers \cup {Free}, text : Seq(PieceType)]]
            /\ OneSlotEach' /\ Kept(t)' = text
            /\ \A u \in Writers : u # t /\ held[p].task # u => Kept(u)' = Kept(u)
        BY <4>1, <4>2, <4>3, SlotTaken
      <4>. QED
        BY <2>2, <3>2, <3>3, <4>4
    <3>5. AssemblyTyped'
      BY <1>1, <1>3, <1>6, <2>3, <3>4 DEF AssemblyTyped
    <3>. QED
      BY <1>8, <2>3, <3>4, <3>5
  <2>4. CASE /\ HolderOf(Free) = NoHolder
             /\ CommitLine(held[victim + 1].text, "evicted")
             /\ held' = [held EXCEPT ![victim + 1] = [task |-> t, text |-> call.segment]]
             /\ victim' = (victim + 1) % PendingSlots
    <3>1. PICK p \in Holders : p = victim + 1
      BY <1>1, AssemblyAssumption DEF AssemblyTyped, Holders
    <3>2. victim' \in 0..PendingSlots - 1
      BY <1>1, <2>4, AssemblyAssumption DEF AssemblyTyped
    <3>3. PICK loser \in Writers : held[p].task = loser
      <4>1. held[p] \in [task : Writers \cup {Free}, text : Seq(PieceType)]
        BY <1>1 DEF AssemblyTyped
      <4>2. held[p].task # Free
        <5>1. NoHolder \notin Holders
          BY DEF NoHolder, Holders
        <5>. QED
          BY <2>4, <5>1, FirstHolder
      <4>. QED
        BY <4>1, <4>2
    <3>4. loser # t /\ Unfinished(loser) = held[p].text
      <4>1. loser # t
        BY <2>1, <3>3
      <4>2. KeptIs
        BY <1>1, KeptText
      <4>. QED
        BY <1>5, <3>3, <4>1, <4>2 DEF KeptIs
    <3>5. CommitLine(Unfinished(loser), "evicted") /\ written' = written /\ ends' = ends
      BY <1>3, <2>4, <3>1, <3>4
    <3>6. /\ lines' \in [Writers -> Seq(LineType)]
          /\ InLines(loser)' = written[loser]
          /\ \A u \in Writers : u # loser => InLines(u)' = InLines(u)
          /\ \A u \in Writers : LinesInv(u)'
          /\ EndsInv'
      BY <3>5, LineCommitted
    <3>7. /\ held' \in [Holders -> [task : Writers \cup {Free}, text : Seq(PieceType)]]
          /\ OneSlotEach' /\ Kept(t)' = Unfinished(t) /\ Kept(loser)' = <<>>
          /\ \A u \in Writers : u # t /\ u # loser => Kept(u)' = Kept(u)
      <4>1. PICK text \in Seq(PieceType) : text = call.segment
        BY <1>4
      <4>2. held' = [held EXCEPT ![p] = [task |-> t, text |-> text]]
        BY <2>4, <3>1, <4>1
      <4>3. \A u \in Writers : u # loser => held[p].task # u
        BY <3>3
      <4>4. \A i \in Holders : i # p => held[i].task # t
        BY <2>1
      <4>5. AssemblyTyped /\ OneSlotEach
        BY <1>1
      <4>6. /\ held' \in [Holders -> [task : Writers \cup {Free}, text : Seq(PieceType)]]
            /\ OneSlotEach' /\ Kept(t)' = text
            /\ \A u \in Writers : u # t /\ held[p].task # u => Kept(u)' = Kept(u)
            /\ \A u \in Writers : u # t /\ held[p].task = u => Kept(u)' = <<>>
        BY <4>2, <4>4, <4>5, SlotTaken
      <4>. QED
        BY <2>2, <3>3, <3>4, <4>3, <4>6, <4>1
    <3>8. AssemblyTyped'
      BY <1>1, <1>3, <1>6, <3>2, <3>6, <3>7 DEF AssemblyTyped
    <3>9. ASSUME NEW u \in Writers, u # loser PROVE TextInv(u)'
      <4>1. Kept(u)' = Unfinished(u) /\ Unfinished(u) \in Seq(PieceType)
        BY <1>4, <1>5, <3>7, <3>9
      <4>2. Unfinished(u)' = Unfinished(u)
        BY <1>3, <4>1, NothingInCall
      <4>. QED
        BY <1>1, <3>5, <3>6, <3>9, <4>2, TextStays
    <3>10. TextInv(loser)'
      <4>1. Kept(loser)' \in Seq(PieceType)
        BY <3>7
      <4>2. Unfinished(loser)' = <<>>
        BY <1>3, <3>7, <4>1, NothingInCall
      <4>3. written'[loser] = written[loser] /\ written[loser] \in Nat
        BY <1>1, <3>5 DEF AssemblyTyped
      <4>. QED
        BY <3>6, <4>2, <4>3, TextInLines
    <3>. QED
      BY <1>7, <3>6, <3>7, <3>8, <3>9, <3>10 DEF AssemblyInv
  <2>. QED
    BY <1>11, <2>3, <2>4 DEF Claim
<1>. QED
  BY <1>2, <1>9, <1>10, <1>11 DEF CallEnds

LEMMA AssemblyStep ==
  ASSUME AssemblyInv, [AssemblyNext]_assemblyVars
  PROVE  AssemblyInv'
<1>1. CASE UNCHANGED assemblyVars
  <2>1. UNCHANGED <<held, victim, call, lines, written, ends>>
    BY <1>1 DEF assemblyVars
  <2>2. AssemblyTyped' /\ OneSlotEach' /\ CallInv'
    BY <2>1 DEF AssemblyInv, AssemblyTyped, OneSlotEach, CallInv, InCall
  <2>3. ASSUME NEW u \in Writers PROVE TextInv(u)'
    <3>1. Kept(u)' = Kept(u)
      BY <2>1 DEF Kept, TextOf, HolderOf
    <3>2. Unfinished(u)' = Unfinished(u)
      BY <2>1, <3>1 DEF Unfinished, Kept
    <3>. QED
      BY <2>1, <3>2, LinesKept, TextStays DEF AssemblyInv
  <2>. QED
    BY <2>1, <2>2, <2>3, LinesKept DEF AssemblyInv
<1>. QED
  BY <1>1, CaptureKeeps, TextKeeps, EscapeKeeps, NewlineKeeps, CallEndsKeeps DEF AssemblyNext

LEMMA AssemblyStarts == AssemblyInit => AssemblyInv
<1>. SUFFICES ASSUME AssemblyInit PROVE AssemblyInv
  OBVIOUS
<1>1. AssemblyTyped
  <2>1. Empty \in [task : Writers \cup {Free}, text : Seq(PieceType)]
    BY DEF Empty
  <2>2. NoCall \in [task : Writers \cup {Free}, p : Holders \cup {NoHolder}, any : BOOLEAN,
                    segment : Seq(PieceType)]
    BY DEF NoCall
  <2>. QED
    BY <2>1, <2>2, AssemblyAssumption DEF AssemblyTyped, AssemblyInit
<1>2. OneSlotEach /\ CallInv /\ EndsInv
  BY DEF OneSlotEach, CallInv, EndsInv, AssemblyInit, Empty, NoCall, InCall
<1>3. ASSUME NEW t \in Writers PROVE TextInv(t) /\ LinesInv(t)
  <2>1. lines[t] = <<>> /\ Len(lines[t]) = 0 /\ written[t] = 0
    BY DEF AssemblyInit
  <2>2. Kept(t) = <<>>
    <3>1. \A i \in Holders : held[i].task # t
      BY AssemblyAssumption DEF AssemblyInit, Empty
    <3>. QED
      BY <1>2, <3>1, KeptText DEF KeptIs
  <2>3. Unfinished(t) = <<>>
    <3>1. Unfinished(t) = Kept(t)
      <4>1. call.task # t
        BY AssemblyAssumption DEF AssemblyInit, NoCall
      <4>. QED
        BY <1>1, <1>2, <4>1, UnfinishedText
    <3>. QED
      BY <2>2, <3>1
  <2>4. InLines(t) = 0 /\ Len(Unfinished(t)) = 0
    BY <2>1, <2>3 DEF InLines, LastOf
  <2>. QED
    BY <2>1, <2>4 DEF TextInv, LinesInv, GoesOn
<1>. QED
  BY <1>1, <1>2, <1>3 DEF AssemblyInv

LEMMA AssemblyAlways == AssemblySpec => []AssemblyInv
<1>1. AssemblyInv /\ [AssemblyNext]_assemblyVars => AssemblyInv'
  BY AssemblyStep
<1>. QED
  BY <1>1, AssemblyStarts, PTL DEF AssemblySpec

\* However the tasks' calls interleave, and whoever loses a slot to another: the lines of a
\* task and what it has not finished are what it wrote, piece for piece, and a line ends at
\* a newline or where its slot was taken.  For any number of tasks and slots.
THEOREM LinesStayWhole == AssemblySpec => []LinesAreWhole
<1>1. AssemblyInv => LinesAreWhole
  BY InvImpliesWhole
<1>. QED
  BY <1>1, AssemblyAlways, PTL

=============================================================================
