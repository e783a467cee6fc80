---------------------------- MODULE VirtioProofs ----------------------------
(***************************************************************************)
(* Proofs about Virtio: for any number of processes and descriptors and    *)
(* any width of the ring indices, a disk request that returns was carried  *)
(* out, and the descriptors, ring entries and buffer pointers that the     *)
(* device and the interrupt handler use belong to requests in flight.      *)
(***************************************************************************)
EXTENDS Virtio, FiniteSetTheorems, WellFoundedInduction, TLAPS

\* A leaf that names no prover is for Zenon, within half a minute.
USE ZenonT(30)

-----------------------------------------------------------------------------
(* Arithmetic modulo the length of a ring *)

\* What the compiler's division leaves: % NUM in lines 246 and 268.
LEMMA Divide ==
  ASSUME NEW n \in Nat \ {0}, NEW x \in Nat
  PROVE  \E q \in Nat : \E r \in 0..n - 1 : x = q * n + r /\ x % n = r
  <1> DEFINE q == x \div n
             r == x % n
  <1>1. q \in Nat /\ r \in 0..n - 1
    BY SMTT(30)
  <1>2. q = x \div n /\ r = x % n
    OBVIOUS
  <1> HIDE DEF q, r
  <1>3. x - n * q = r
    BY <1>1, <1>2, SMTT(30)
  <1>4. x = q * n + r
    BY <1>1, <1>3, SMTT(30)
  <1> QED  BY <1>1, <1>2, <1>4

\* The remainder is the only one.
LEMMA Remainder ==
  ASSUME NEW n \in Nat \ {0}, NEW q \in Nat, NEW r \in 0..n - 1
  PROVE  (q * n + r) % n = r
  BY SMTT(30)

\* Whole turns around a ring lead back to the same slot.
LEMMA Turns ==
  ASSUME NEW n \in Nat \ {0}, NEW k \in Nat, NEW x \in Nat
  PROVE  (k * n + x) % n = x % n
  <1>1. PICK q \in Nat : \E r \in 0..n - 1 : x = q * n + r /\ x % n = r
    BY Divide
  <1>2. PICK r \in 0..n - 1 : x = q * n + r /\ x % n = r
    BY <1>1
  <1>3. k * n + x = (k + q) * n + r
    BY <1>2, SMTT(30)
  <1>4. k + q \in Nat
    BY SMTT(30)
  <1> QED  BY <1>2, <1>3, <1>4, Remainder

\* Slots less than a turn apart are different.
LEMMA Apart ==
  ASSUME NEW n \in Nat \ {0}, NEW x \in Nat, NEW y \in Nat, x < y, y < x + n
  PROVE  x % n # y % n
  <1> SUFFICES ASSUME x % n = y % n PROVE FALSE
    OBVIOUS
  <1>1. PICK q \in Nat : \E r \in 0..n - 1 : x = q * n + r /\ x % n = r
    BY Divide
  <1>2. PICK k \in Nat : \E r \in 0..n - 1 : y = k * n + r /\ y % n = r
    BY Divide
  <1>3. PICK r \in 0..n - 1 : x = q * n + r /\ y = k * n + r
    BY <1>1, <1>2
  <1>4. CASE k <= q
    <2>1. PICK d \in Nat : q = k + d
      <3>1. q - k \in Nat /\ q = k + (q - k)
        BY <1>4, SMTT(30)
      <3> QED  BY <3>1
    <2>2. x = y + d * n
      BY <1>3, <2>1, SMTT(30)
    <2>3. d * n >= 0
      BY SMTT(30)
    <2> QED  BY <2>2, <2>3, SMTT(30)
  <1>5. CASE ~(k <= q)
    <2>1. PICK d \in Nat : k = q + 1 + d
      <3>1. k - q - 1 \in Nat /\ k = q + 1 + (k - q - 1)
        BY <1>5, SMTT(30)
      <3> QED  BY <3>1
    <2>2. y = x + n + d * n
      BY <1>3, <2>1, SMTT(30)
    <2>3. d * n >= 0
      BY SMTT(30)
    <2> QED  BY <2>2, <2>3, SMTT(30)
  <1> QED  BY <1>4, <1>5

\* A ring has NUM slots, and its indices count modulo m, a multiple of NUM.
Modulus(m) == m \in Nat \ {0} /\ \E k \in Nat : m = k * NUM

\* The steps from index s to index e.
Steps(s, e, m) == (e + m - s) % m

\* The slots of the entries from index s to before index e.
Slots(s, e, m) == {(s + i) % NUM : i \in 0..Steps(s, e, m) - 1}

\* Steps without a remainder.
LEMMA StepsAre ==
  ASSUME NEW m \in Nat \ {0}, NEW s \in 0..m - 1, NEW e \in 0..m - 1
  PROVE  Steps(s, e, m) = IF s <= e THEN e - s ELSE e + m - s
  <1>1. CASE s <= e
    <2>1. e - s \in 0..m - 1 /\ e + m - s = 1 * m + (e - s)
      BY <1>1, SMTT(30)
    <2>2. (1 * m + (e - s)) % m = e - s
      BY <2>1, Remainder
    <2> QED  BY <1>1, <2>1, <2>2 DEF Steps
  <1>2. CASE ~(s <= e)
    <2>1. e + m - s \in 0..m - 1 /\ e + m - s = 0 * m + (e + m - s)
      BY <1>2, SMTT(30)
    <2>2. (0 * m + (e + m - s)) % m = e + m - s
      BY <2>1, Remainder
    <2> QED  BY <1>2, <2>1, <2>2 DEF Steps
  <1> QED  BY <1>1, <1>2

\* An index incremented: lines 248 and 277.
LEMMA Increment ==
  ASSUME NEW m \in Nat \ {0}, NEW e \in 0..m - 1
  PROVE  (e + 1) % m = IF e = m - 1 THEN 0 ELSE e + 1
  <1>1. CASE e = m - 1
    <2>1. e + 1 = 1 * m + 0 /\ 0 \in 0..m - 1
      BY <1>1, SMTT(30)
    <2> QED  BY <1>1, <2>1, Remainder, SMTT(30)
  <1>2. CASE e # m - 1
    <2>1. e + 1 = 0 * m + (e + 1) /\ e + 1 \in 0..m - 1
      BY <1>2, SMTT(30)
    <2> QED  BY <1>2, <2>1, Remainder
  <1> QED  BY <1>1, <1>2

\* The entry after the last one is the one that index e names.
LEMMA SlotAtEnd ==
  ASSUME VirtioAssumption, NEW m, Modulus(m), NEW s \in 0..m - 1, NEW e \in 0..m - 1
  PROVE  /\ Steps(s, e, m) \in 0..m - 1
         /\ (s + Steps(s, e, m)) % NUM = e % NUM
  <1>1. m \in Nat \ {0} /\ NUM \in Nat \ {0}
    BY SMTT(30) DEF Modulus, VirtioAssumption
  <1>2. PICK k \in Nat : m = k * NUM
    BY DEF Modulus
  <1>3. Steps(s, e, m) = IF s <= e THEN e - s ELSE e + m - s
    BY <1>1, StepsAre
  <1>4. CASE s <= e
    BY <1>1, <1>3, <1>4, SMTT(30)
  <1>5. CASE ~(s <= e)
    <2>1. Steps(s, e, m) \in 0..m - 1 /\ s + Steps(s, e, m) = m + e /\ e \in Nat
      BY <1>1, <1>3, <1>5, SMTT(30)
    <2>2. (k * NUM + e) % NUM = e % NUM
      BY <1>1, <2>1, Turns
    <2> QED  BY <1>2, <2>1, <2>2
  <1> QED  BY <1>4, <1>5

\* It is not one of the entries, unless they fill the ring.
LEMMA EndFree ==
  ASSUME VirtioAssumption, NEW m, Modulus(m), NEW s \in 0..m - 1, NEW e \in 0..m - 1,
         Steps(s, e, m) < NUM
  PROVE  e % NUM \notin Slots(s, e, m)
  <1> DEFINE n == Steps(s, e, m)
  <1>1. m \in Nat \ {0} /\ NUM \in Nat \ {0}
    BY SMTT(30) DEF Modulus, VirtioAssumption
  <1>2. n \in 0..m - 1 /\ n < NUM /\ (s + n) % NUM = e % NUM
    BY SlotAtEnd
  <1>3. ASSUME NEW i \in 0..n - 1 PROVE (s + i) % NUM # (s + n) % NUM
    <2>1. s + i \in Nat /\ s + n \in Nat /\ s + i < s + n /\ s + n < s + i + NUM
      BY <1>1, <1>2, SMTT(30)
    <2> QED  BY <1>1, <2>1, Apart
  <1> QED  BY <1>2, <1>3 DEF Slots

\* One more entry.
LEMMA EndMoves ==
  ASSUME VirtioAssumption, NEW m, Modulus(m), NEW s \in 0..m - 1, NEW e \in 0..m - 1,
         Steps(s, e, m) < NUM, Steps(s, e, m) + 1 < m
  PROVE  /\ e % NUM \notin Slots(s, e, m)
         /\ (e + 1) % m \in 0..m - 1
         /\ Steps(s, (e + 1) % m, m) = Steps(s, e, m) + 1
         /\ Slots(s, (e + 1) % m, m) = Slots(s, e, m) \cup {e % NUM}
  <1> DEFINE n == Steps(s, e, m)
             f == (e + 1) % m
  <1>1. m \in Nat \ {0} /\ NUM \in Nat \ {0}
    BY SMTT(30) DEF Modulus, VirtioAssumption
  <1>2. n \in Nat /\ n < NUM /\ n + 1 < m /\ (s + n) % NUM = e % NUM
    BY SlotAtEnd, <1>1, SMTT(30)
  <1>4. e % NUM \notin Slots(s, e, m)
    BY EndFree
  <1>5. f = IF e = m - 1 THEN 0 ELSE e + 1
    BY <1>1, Increment
  <1>6. f \in 0..m - 1
    BY <1>1, <1>5, SMTT(30)
  <1>7. n = IF s <= e THEN e - s ELSE e + m - s
    BY <1>1, StepsAre
  <1>8. Steps(s, f, m) = IF s <= f THEN f - s ELSE f + m - s
    BY <1>1, <1>6, StepsAre
  <1> HIDE DEF n, f
  <1>9. Steps(s, f, m) = n + 1
    BY <1>1, <1>2, <1>5, <1>7, <1>8, SMTT(30)
  <1>10. ASSUME NEW i PROVE i \in 0..(n + 1) - 1 <=> i \in 0..n - 1 \/ i = n
    BY <1>2, SMTT(30)
  <1>11. Slots(s, f, m) = {(s + i) % NUM : i \in 0..(n + 1) - 1}
    BY <1>9 DEF Slots
  <1>12. Slots(s, e, m) = {(s + i) % NUM : i \in 0..n - 1}
    BY DEF Slots, n
  <1>13. Slots(s, f, m) = Slots(s, e, m) \cup {e % NUM}
    BY <1>2, <1>10, <1>11, <1>12
  <1> QED  BY <1>4, <1>6, <1>9, <1>13 DEF n, f

\* One entry less.
LEMMA StartMoves ==
  ASSUME VirtioAssumption, NEW m, Modulus(m), NEW s \in 0..m - 1, NEW e \in 0..m - 1,
         s # e, Steps(s, e, m) < NUM
  PROVE  /\ s % NUM \in Slots(s, e, m)
         /\ (s + 1) % m \in 0..m - 1
         /\ Steps((s + 1) % m, e, m) < NUM
         /\ Slots((s + 1) % m, e, m) = Slots(s, e, m) \ {s % NUM}
  <1> DEFINE n == Steps(s, e, m)
             t == (s + 1) % m
  <1>1. m \in Nat \ {0} /\ NUM \in Nat \ {0}
    BY SMTT(30) DEF Modulus, VirtioAssumption
  <1>2. PICK k \in Nat : m = k * NUM
    BY DEF Modulus
  <1>3. t = IF s = m - 1 THEN 0 ELSE s + 1
    BY <1>1, Increment
  <1>4. t \in 0..m - 1
    BY <1>1, <1>3, SMTT(30)
  <1>5. n = IF s <= e THEN e - s ELSE e + m - s
    BY <1>1, StepsAre
  <1>6. Steps(t, e, m) = IF t <= e THEN e - t ELSE e + m - t
    BY <1>1, <1>4, StepsAre
  <1>7. n < NUM
    OBVIOUS
  <1> HIDE DEF n, t
  <1>8. Steps(t, e, m) = n - 1 /\ n \in Nat \ {0}
    BY <1>1, <1>3, <1>5, <1>6, SMTT(30)
  <1>9. ASSUME NEW i \in Nat PROVE (t + i) % NUM = (s + (i + 1)) % NUM
    <2>1. CASE s = m - 1
      <3>1. t + i = i /\ s + (i + 1) = m + i
        BY <1>1, <1>3, <2>1, SMTT(30)
      <3>2. (k * NUM + i) % NUM = i % NUM
        BY <1>1, Turns
      <3> QED  BY <1>2, <3>1, <3>2
    <2>2. CASE s # m - 1
      <3>1. t + i = s + (i + 1)
        BY <1>1, <1>3, <2>2, SMTT(30)
      <3> QED  BY <3>1
    <2> QED  BY <2>1, <2>2
  <1>10. Slots(s, e, m) = {(s + i) % NUM : i \in 0..n - 1}
    BY DEF Slots, n
  <1>11. Slots(t, e, m) = {(t + i) % NUM : i \in 0..(n - 1) - 1}
    BY <1>8 DEF Slots
  <1>12. 0 \in 0..n - 1 /\ s + 0 = s
    BY <1>8, SMTT(30)
  <1>13. s % NUM \in Slots(s, e, m)
    BY <1>10, <1>12
  <1>14. ASSUME NEW i \in 0..(n - 1) - 1
         PROVE  (t + i) % NUM \in Slots(s, e, m) \ {s % NUM}
    <2>1. i \in Nat /\ i + 1 \in 0..n - 1
      BY <1>8, SMTT(30)
    <2>2. s \in Nat /\ s + (i + 1) \in Nat /\ s < s + (i + 1) /\ s + (i + 1) < s + NUM
      BY <1>1, <1>7, <1>8, <2>1, SMTT(30)
    <2>3. (s + (i + 1)) % NUM # s % NUM
      BY <1>1, <2>2, Apart
    <2> QED  BY <1>9, <1>10, <2>1, <2>3
  <1>15. ASSUME NEW i \in 0..n - 1, (s + i) % NUM # s % NUM
         PROVE  (s + i) % NUM \in Slots(t, e, m)
    <2>1. i # 0
      BY <1>12, <1>15
    <2>2. i - 1 \in Nat /\ i - 1 \in 0..(n - 1) - 1 /\ (i - 1) + 1 = i
      BY <1>8, <2>1, SMTT(30)
    <2> QED  BY <1>9, <1>11, <2>2
  <1>16. Slots(t, e, m) = Slots(s, e, m) \ {s % NUM}
    BY <1>10, <1>11, <1>14, <1>15
  <1>17. Steps(t, e, m) < NUM
    BY <1>1, <1>7, <1>8, SMTT(30)
  <1> QED  BY <1>4, <1>13, <1>16, <1>17 DEF t

\* A slot of the ring is a slot.
LEMMA SlotsInRing ==
  ASSUME VirtioAssumption, NEW m, Modulus(m), NEW s \in 0..m - 1, NEW e \in 0..m - 1
  PROVE  Slots(s, e, m) \subseteq Desc /\ e % NUM \in Desc
  <1>1. m \in Nat \ {0} /\ NUM \in Nat \ {0}
    BY SMTT(30) DEF Modulus, VirtioAssumption
  <1>2. ASSUME NEW x \in Nat PROVE x % NUM \in Desc
    BY <1>1, SMTT(30) DEF Desc
  <1>3. e \in Nat /\ \A i \in 0..Steps(s, e, m) - 1 : s + i \in Nat
    BY <1>1, SlotAtEnd, SMTT(30)
  <1> QED  BY <1>2, <1>3 DEF Slots

\* Different entries that leave out one descriptor, the one for the data of some
\* request, do not fill the ring.
LEMMA RoomLeft ==
  ASSUME VirtioAssumption, NEW m, Modulus(m), NEW s \in 0..m - 1, NEW e \in 0..m - 1,
         Steps(s, e, m) < NUM, NEW entry, NEW d \in Desc,
         \A i \in Slots(s, e, m) \cup {e % NUM} : entry[i] \in Desc \ {d},
         \A i, j \in Slots(s, e, m) \cup {e % NUM} : entry[i] = entry[j] => i = j
  PROVE  Steps(s, e, m) + 1 < NUM
  <1> DEFINE n == Steps(s, e, m)
             f == [i \in 0..n |-> entry[(s + i) % NUM]]
  <1>1. m \in Nat \ {0} /\ NUM \in Nat \ {0}
    BY SMTT(30) DEF Modulus, VirtioAssumption
  <1>2. n \in Nat /\ n < NUM /\ (s + n) % NUM = e % NUM
    BY <1>1, SlotAtEnd, SMTT(30)
  <1>3. \A i \in 0..n : i \in 0..n - 1 \/ i = n
    BY <1>2, SMTT(30)
  <1>4. \A i \in 0..n : (s + i) % NUM \in Slots(s, e, m) \cup {e % NUM}
    BY <1>2, <1>3 DEF Slots
  <1>5. f \in [0..n -> Desc \ {d}]
    BY <1>4
  <1>6. ASSUME NEW i \in 0..n, NEW j \in 0..n, f[i] = f[j] PROVE i = j
    <2>1. (s + i) % NUM = (s + j) % NUM
      BY <1>4, <1>6
    <2>2. s + i \in Nat /\ s + j \in Nat /\ s + i < s + j + NUM /\ s + j < s + i + NUM
      BY <1>1, <1>2, SMTT(30)
    <2>3. ~(s + i < s + j) /\ ~(s + j < s + i)
      BY <1>1, <2>1, <2>2, Apart
    <2> QED  BY <1>1, <2>3, SMTT(30)
  <1>7. IsFiniteSet(Desc) /\ Cardinality(Desc) = NUM
    <2>1. 0 \in Int /\ NUM - 1 \in Int /\ ~(0 > NUM - 1) /\ (NUM - 1) - 0 + 1 = NUM
      BY <1>1, SMTT(30)
    <2> QED  BY <2>1, FS_Interval DEF Desc
  <1>8. IsFiniteSet(0..n) /\ Cardinality(0..n) = n + 1
    <2>1. 0 \in Int /\ n \in Int /\ ~(0 > n) /\ n - 0 + 1 = n + 1
      BY <1>2, SMTT(30)
    <2> QED  BY <2>1, FS_Interval
  <1>9. IsFiniteSet(Desc \ {d}) /\ Cardinality(Desc \ {d}) = NUM - 1
    BY <1>7, FS_RemoveElement
  <1> HIDE DEF f, n
  <1> DEFINE S == 0..n
             T == Desc \ {d}
  <1>10. /\ f \in [S -> T] /\ \A i, j \in S : f[i] = f[j] => i = j
         /\ IsFiniteSet(S) /\ IsFiniteSet(T)
         /\ Cardinality(S) = n + 1 /\ Cardinality(T) = NUM - 1
    BY <1>5, <1>6, <1>8, <1>9
  <1> HIDE DEF S, T
  <1>11. ASSUME Cardinality(T) < Cardinality(S) PROVE FALSE
    BY <1>10, <1>11, FS_PigeonHole, SMTT(30)
  <1> QED  BY <1>1, <1>2, <1>10, <1>11, SMTT(30) DEF n
-----------------------------------------------------------------------------
(* The inductive invariant *)

Places == {"idle", "alloc", "asleep_desc", "publish", "asleep_buf", "woken"}
Descriptor == [what : {None, "read", "write", "data", "status"},
               of : Proc \cup {None}, next : Desc \cup {None}]

Types ==
  /\ free \in [Desc -> BOOLEAN] /\ desc \in [Desc -> Descriptor]
  /\ avail \in [Desc -> Desc] /\ availIdx \in 0..WRAP - 1 /\ seen \in 0..WRAP - 1
  /\ used \in [Desc -> Desc] /\ usedId \in 0..WRAP - 1 /\ usedIdx \in 0..NUM - 1
  /\ info \in [Desc -> Proc \cup {None}] /\ busy \in [Proc -> BOOLEAN]
  /\ lock \in Proc \cup {None, "intr"} /\ pc \in [Proc -> Places]
  /\ idx \in [Proc -> {<<>>} \cup Desc \X Desc \X Desc]
  /\ taken \in SUBSET Desc /\ pending \in BOOLEAN
  /\ buf \in [Proc -> Val \cup {None}] /\ block \in [Proc -> Val] /\ last \in [Proc -> Val]

\* Between alloc3_desc() and free_chain(): lines 194 to 258.
Owning == {"publish", "asleep_buf", "woken"}
Owns(p) == pc[p] \in Owning
Three(i) == {i[1], i[2], i[3]}

\* The descriptors of p are its own, linked, and name p, and so does info.
ChainOK(p) == Owns(p) =>
  LET i == idx[p] IN
  /\ i \in Desc \X Desc \X Desc /\ i[1] # i[2] /\ i[1] # i[3] /\ i[2] # i[3]
  /\ \A d \in Three(i) : ~free[d]
  /\ desc[i[1]].of = p /\ desc[i[1]].next = i[2]
  /\ desc[i[2]].of = p /\ desc[i[2]].next = i[3]
  /\ info[i[1]] = p
ChainsApart(p, q) == (p # q /\ Owns(p) /\ Owns(q)) => Three(idx[p]) \cap Three(idx[q]) = {}

\* The request of p is still to be carried out; it has been.
Asked(p) == \/ desc[idx[p][1]].what = "write" /\ buf[p] = last[p]
            \/ desc[idx[p][1]].what = "read" /\ block[p] = last[p]
Served(p) == block[p] = last[p] /\ buf[p] = last[p]

\* The entries of avail that the device has not taken, and those of used that
\* virtio_disk_intr() has not seen.
Untaken == Slots(seen, availIdx, WRAP)
Unseen == Slots(usedIdx, usedId % NUM, NUM)

\* h is the first descriptor of a request whose process waits for b->disk.
InFlight(h) == LET p == info[h] IN
  p \in Proc /\ busy[p] /\ pc[p] \in {"asleep_buf", "woken"} /\ idx[p][1] = h

\* A request in flight is in avail, with the device or in used, once.
AvailOK ==
  /\ Steps(seen, availIdx, WRAP) < NUM
  /\ \A i, j \in Untaken : avail[i] = avail[j] => i = j
  /\ \A i \in Untaken : InFlight(avail[i]) /\ Asked(info[avail[i]])
TakenOK == \A h \in taken : InFlight(h) /\ Asked(info[h])
UsedOK ==
  /\ \A i, j \in Unseen : used[i] = used[j] => i = j
  /\ \A i \in Unseen : InFlight(used[i]) /\ Served(info[used[i]])
OnceOK ==
  /\ \A i \in Untaken : avail[i] \notin taken
  /\ \A i \in Untaken, j \in Unseen : avail[i] # used[j]
  /\ \A j \in Unseen : used[j] \notin taken

PlaceOK(p) ==
  /\ pc[p] = "publish" <=> lock = p
  /\ pc[p] = "publish" => busy[p] /\ Asked(p) /\ avail[availIdx % NUM] = idx[p][1]
  /\ pc[p] = "idle" => Served(p)
  /\ pc[p] \in {"alloc", "asleep_desc"} =>
       (buf[p] = None /\ block[p] = last[p]) \/ buf[p] = last[p]
  /\ pc[p] = "asleep_desc" => NFree < 3
  /\ pc[p] = "asleep_buf" => busy[p]
  /\ (Owns(p) /\ ~busy[p]) => Served(p)

\* An entry of used that nobody looks at has its interrupt coming.
IntrOK == usedIdx # usedId % NUM => pending \/ lock = "intr"

VirtioInv ==
  /\ Types
  /\ \A p \in Proc : ChainOK(p) /\ PlaceOK(p)
  /\ \A p, q \in Proc : ChainsApart(p, q)
  /\ AvailOK /\ TakenOK /\ UsedOK /\ OnceOK /\ IntrOK

-----------------------------------------------------------------------------
(* What the steps have in common *)

\* Both rings: avail, whose index wraps at WRAP, and used, whose index the code
\* reduces modulo NUM.
LEMMA Moduli ==
  ASSUME VirtioAssumption
  PROVE  Modulus(WRAP) /\ Modulus(NUM)
  <1>1. PICK k \in 1..WRAP : WRAP = k * NUM
    BY DEF VirtioAssumption
  <1>2. NUM \in Nat \ {0} /\ NUM = 1 * NUM /\ 1 \in Nat /\ WRAP \in Nat \ {0} /\ k \in Nat
    BY <1>1, SMTT(30) DEF VirtioAssumption
  <1> QED  BY <1>1, <1>2 DEF Modulus

\* An index that is incremented names the next slot, also when it wraps.
LEMMA NextSlot ==
  ASSUME VirtioAssumption, NEW m, Modulus(m), NEW e \in 0..m - 1
  PROVE  ((e + 1) % m) % NUM = ((e % NUM) + 1) % NUM
  <1>1. m \in Nat \ {0} /\ NUM \in Nat \ {0} /\ e \in Nat
    BY SMTT(30) DEF Modulus, VirtioAssumption
  <1>2. PICK k \in Nat : m = k * NUM
    BY DEF Modulus
  <1>3. PICK q \in Nat : \E r \in 0..NUM - 1 : e = q * NUM + r /\ e % NUM = r
    BY <1>1, Divide
  <1>4. PICK r \in 0..NUM - 1 : e = q * NUM + r /\ e % NUM = r
    BY <1>3
  <1>5. e + 1 = q * NUM + (r + 1) /\ r + 1 \in Nat
    BY <1>1, <1>4, SMTT(30)
  <1>6. (e + 1) % NUM = ((e % NUM) + 1) % NUM
    <2>1. (q * NUM + (r + 1)) % NUM = (r + 1) % NUM
      BY <1>1, <1>5, Turns
    <2> QED  BY <1>4, <1>5, <2>1
  <1>7. (e + 1) % m = IF e = m - 1 THEN 0 ELSE e + 1
    BY <1>1, Increment
  <1>8. CASE e = m - 1
    <2>1. e + 1 = k * NUM + 0 /\ 0 \in Nat
      BY <1>1, <1>2, <1>8, SMTT(30)
    <2>2. (k * NUM + 0) % NUM = 0 % NUM
      BY <1>1, <2>1, Turns
    <2> QED  BY <1>6, <1>7, <1>8, <2>1, <2>2
  <1>9. CASE e # m - 1
    BY <1>6, <1>7, <1>9
  <1> QED  BY <1>8, <1>9

\* The used ring's own modulus.
LEMMA UsedEnd ==
  ASSUME VirtioAssumption, Types
  PROVE  usedId % NUM \in 0..NUM - 1 /\ usedIdx % NUM = usedIdx
  <1>1. usedId \in 0..WRAP - 1 /\ usedIdx \in 0..NUM - 1 /\ WRAP \in Nat
    BY DEF VirtioAssumption, Types
  <1>2. NUM \in Nat \ {0} /\ usedId \in Nat /\ usedIdx \in Nat
    BY <1>1, SMTT(30) DEF VirtioAssumption
  <1> QED  BY <1>1, <1>2, SMTT(30)

\* Steps that change no descriptor, no ring and no request in flight.
LEMMA RequestsKept ==
  ASSUME VirtioInv,
         UNCHANGED <<free, desc, avail, availIdx, used, usedId, usedIdx, info, busy,
                     idx, seen, taken, block>>,
         \A p \in Proc : /\ pc'[p] \in Owning <=> pc[p] \in Owning
                         /\ pc[p] \in {"asleep_buf", "woken"}
                              => pc'[p] \in {"asleep_buf", "woken"}
                         /\ Owns(p) => buf'[p] = buf[p] /\ last'[p] = last[p]
  PROVE  /\ \A p \in Proc : ChainOK(p)'
         /\ \A p, q \in Proc : ChainsApart(p, q)'
         /\ AvailOK' /\ TakenOK' /\ UsedOK' /\ OnceOK'
  <1>1. \A p \in Proc : ChainOK(p)'
    BY DEF VirtioInv, ChainOK, Owns
  <1>2. \A p, q \in Proc : ChainsApart(p, q)'
    BY DEF VirtioInv, ChainsApart, Owns
  <1>3. Untaken' = Untaken /\ Unseen' = Unseen
    BY DEF Untaken, Unseen
  <1>4. ASSUME NEW h, InFlight(h)
        PROVE  InFlight(h)' /\ info[h] \in Proc /\ Owns(info[h])
    BY <1>4 DEF InFlight, Owns, Owning
  <1>5. ASSUME NEW p \in Proc, Owns(p)
        PROVE  (Asked(p) => Asked(p)') /\ (Served(p) => Served(p)')
    BY <1>5 DEF Asked, Served
  <1>6. AvailOK'
    BY <1>3, <1>4, <1>5 DEF VirtioInv, AvailOK
  <1>7. TakenOK'
    BY <1>4, <1>5 DEF VirtioInv, TakenOK
  <1>8. UsedOK'
    BY <1>3, <1>4, <1>5 DEF VirtioInv, UsedOK
  <1>9. OnceOK'
    BY <1>3 DEF VirtioInv, OnceOK
  <1> QED  BY <1>1, <1>2, <1>6, <1>7, <1>8, <1>9

\* virtio_disk_rw() is entered for a read.
LEMMA CallReadStep ==
  ASSUME VirtioInv, NEW p \in Proc, CallRead(p)
  PROVE  VirtioInv'
  <1>1. /\ pc[p] = "idle" /\ buf' = [buf EXCEPT ![p] = None]
        /\ pc' = [pc EXCEPT ![p] = "alloc"]
        /\ UNCHANGED <<free, desc, avail, availIdx, used, usedId, usedIdx, info, busy,
                       lock, idx, seen, taken, pending, block, last>>
    BY DEF CallRead, Goto, ring, device
  <1>2. Types
    BY DEF VirtioInv
  <1>3. \A q \in Proc : /\ pc'[q] = IF q = p THEN "alloc" ELSE pc[q]
                        /\ buf'[q] = IF q = p THEN None ELSE buf[q]
    BY <1>1, <1>2 DEF Types
  <1>4. pc' \in [Proc -> Places] /\ buf' \in [Proc -> Val \cup {None}]
    <2>1. pc \in [Proc -> Places] /\ buf \in [Proc -> Val \cup {None}]
      BY <1>2 DEF Types
    <2>2. "alloc" \in Places
      BY DEF Places
    <2> QED  BY <1>1, <2>1, <2>2
  <1>5. Types'
    BY <1>1, <1>2, <1>4 DEF Types
  <1>6. \A q \in Proc : /\ pc'[q] \in Owning <=> pc[q] \in Owning
                        /\ pc[q] \in {"asleep_buf", "woken"}
                             => pc'[q] \in {"asleep_buf", "woken"}
                        /\ Owns(q) => buf'[q] = buf[q] /\ last'[q] = last[q]
    BY <1>1, <1>3, SMTT(30) DEF Owns, Owning
  <1>7. ASSUME NEW q \in Proc PROVE PlaceOK(q)'
    <2>1. PlaceOK(q) /\ PlaceOK(p)
      BY DEF VirtioInv
    <2>2. CASE q = p
      <3>1. pc'[q] = "alloc" /\ buf'[q] = None /\ block'[q] = last'[q] /\ lock' # q
        BY <1>1, <1>3, <2>1, <2>2 DEF PlaceOK, Served
      <3> QED  BY <3>1 DEF PlaceOK, Owns, Owning
    <2>3. CASE q # p
      <3>1. /\ pc'[q] = pc[q] /\ buf'[q] = buf[q] /\ NFree' = NFree
            /\ (Asked(q) => Asked(q)') /\ (Served(q) => Served(q)')
        BY <1>1, <1>3, <2>3 DEF NFree, Asked, Served
      <3> QED  BY <1>1, <2>1, <3>1 DEF PlaceOK, Owns
    <2> QED  BY <2>2, <2>3
  <1>8. IntrOK'
    BY <1>1 DEF VirtioInv, IntrOK
  <1> QED  BY <1>1, <1>5, <1>6, <1>7, <1>8, RequestsKept DEF VirtioInv

\* virtio_disk_rw() is entered for a write, with new data in the buffer.
LEMMA CallWriteStep ==
  ASSUME VirtioAssumption, VirtioInv, NEW p \in Proc, NEW v \in Val, CallWrite(p, v)
  PROVE  VirtioInv'
  <1>1. /\ pc[p] = "idle" /\ buf' = [buf EXCEPT ![p] = v] /\ last' = [last EXCEPT ![p] = v]
        /\ pc' = [pc EXCEPT ![p] = "alloc"]
        /\ UNCHANGED <<free, desc, avail, availIdx, used, usedId, usedIdx, info, busy,
                       lock, idx, seen, taken, pending, block>>
    BY DEF CallWrite, Goto, ring, device
  <1>2. Types
    BY DEF VirtioInv
  <1>3. \A q \in Proc : /\ pc'[q] = IF q = p THEN "alloc" ELSE pc[q]
                        /\ buf'[q] = IF q = p THEN v ELSE buf[q]
                        /\ last'[q] = IF q = p THEN v ELSE last[q]
    BY <1>1, <1>2 DEF Types
  <1>4. /\ pc' \in [Proc -> Places] /\ buf' \in [Proc -> Val \cup {None}]
        /\ last' \in [Proc -> Val]
    <2>1. /\ pc \in [Proc -> Places] /\ buf \in [Proc -> Val \cup {None}]
          /\ last \in [Proc -> Val]
      BY <1>2 DEF Types
    <2>2. "alloc" \in Places
      BY DEF Places
    <2> QED  BY <1>1, <2>1, <2>2
  <1>5. Types'
    BY <1>1, <1>2, <1>4 DEF Types
  <1>6. \A q \in Proc : /\ pc'[q] \in Owning <=> pc[q] \in Owning
                        /\ pc[q] \in {"asleep_buf", "woken"}
                             => pc'[q] \in {"asleep_buf", "woken"}
                        /\ Owns(q) => buf'[q] = buf[q] /\ last'[q] = last[q]
    BY <1>1, <1>3, SMTT(30) DEF Owns, Owning
  <1>7. ASSUME NEW q \in Proc PROVE PlaceOK(q)'
    <2>1. PlaceOK(q) /\ PlaceOK(p)
      BY DEF VirtioInv
    <2>2. CASE q = p
      <3>1. pc'[q] = "alloc" /\ buf'[q] = last'[q] /\ lock' # q
        BY <1>1, <1>3, <2>1, <2>2 DEF PlaceOK
      <3> QED  BY <3>1 DEF PlaceOK, Owns, Owning
    <2>3. CASE q # p
      <3>1. /\ pc'[q] = pc[q] /\ buf'[q] = buf[q] /\ last'[q] = last[q] /\ NFree' = NFree
            /\ (Asked(q) => Asked(q)') /\ (Served(q) => Served(q)')
        BY <1>1, <1>3, <2>3 DEF NFree, Asked, Served
      <3> QED  BY <1>1, <2>1, <3>1 DEF PlaceOK, Owns
    <2> QED  BY <2>2, <2>3
  <1>8. IntrOK'
    BY <1>1 DEF VirtioInv, IntrOK
  <1> QED  BY <1>1, <1>5, <1>6, <1>7, <1>8, RequestsKept DEF VirtioInv

\* Processes fall asleep and are woken, and nothing else changes.
LEMMA PlacesMove ==
  ASSUME VirtioInv, UNCHANGED <<free, desc, ring, info, busy, lock, idx, device, buf, last>>,
         pc' \in [Proc -> Places],
         \A q \in Proc :
           \/ pc'[q] = pc[q]
           \/ pc[q] = "asleep_desc" /\ pc'[q] = "alloc"
           \/ pc[q] = "alloc" /\ pc'[q] = "asleep_desc" /\ NFree < 3
           \/ pc[q] = "asleep_buf" /\ pc'[q] = "woken"
           \/ pc[q] = "woken" /\ pc'[q] = "asleep_buf" /\ busy[q]
  PROVE  VirtioInv'
  <1>1. UNCHANGED <<free, desc, avail, availIdx, used, usedId, usedIdx, info, busy,
                    lock, idx, seen, taken, pending, block, buf, last>>
    BY DEF ring, device
  <1>2. Types'
    BY <1>1 DEF VirtioInv, Types
  <1>3. \A q \in Proc : /\ pc'[q] \in Owning <=> pc[q] \in Owning
                        /\ pc[q] \in {"asleep_buf", "woken"}
                             => pc'[q] \in {"asleep_buf", "woken"}
                        /\ Owns(q) => buf'[q] = buf[q] /\ last'[q] = last[q]
    BY <1>1 DEF Owns, Owning
  <1>4. ASSUME NEW q \in Proc PROVE PlaceOK(q)'
    <2>1. PlaceOK(q) /\ NFree' = NFree /\ (Asked(q) => Asked(q)') /\ (Served(q) => Served(q)')
      BY <1>1 DEF VirtioInv, NFree, Asked, Served
    <2>2. CASE pc'[q] = pc[q]
      BY <1>1, <2>1, <2>2 DEF PlaceOK, Owns
    <2>3. CASE pc[q] = "asleep_desc" /\ pc'[q] = "alloc"
      BY <1>1, <2>1, <2>3 DEF PlaceOK, Owns, Owning
    <2>4. CASE pc[q] = "alloc" /\ pc'[q] = "asleep_desc" /\ NFree < 3
      BY <1>1, <2>1, <2>4 DEF PlaceOK, Owns, Owning
    <2>5. CASE pc[q] = "asleep_buf" /\ pc'[q] = "woken"
      BY <1>1, <2>1, <2>5 DEF PlaceOK, Owns, Owning
    <2>6. CASE pc[q] = "woken" /\ pc'[q] = "asleep_buf" /\ busy[q]
      BY <1>1, <2>1, <2>6 DEF PlaceOK, Owns, Owning
    <2> QED  BY <2>2, <2>3, <2>4, <2>5, <2>6
  <1>5. IntrOK'
    BY <1>1 DEF VirtioInv, IntrOK
  <1> QED  BY <1>1, <1>2, <1>3, <1>4, <1>5, RequestsKept DEF VirtioInv

\* alloc3_desc() finds too few free descriptors and the caller sleeps on them.
LEMMA AllocFailsStep ==
  ASSUME VirtioInv, NEW p \in Proc, AllocFails(p)
  PROVE  VirtioInv'
  <1>1. /\ pc[p] = "alloc" /\ NFree < 3
        /\ pc' = [IF NFree > 0 THEN WakeDesc(pc) ELSE pc EXCEPT ![p] = "asleep_desc"]
        /\ UNCHANGED <<free, desc, ring, info, busy, lock, idx, device, buf, last>>
    BY DEF AllocFails
  <1>2. pc \in [Proc -> Places] /\ "alloc" \in Places /\ "asleep_desc" \in Places
    BY DEF VirtioInv, Types, Places
  <1> DEFINE f == IF NFree > 0 THEN WakeDesc(pc) ELSE pc
  <1>3. /\ f \in [Proc -> Places]
        /\ \A q \in Proc : f[q] = pc[q] \/ (pc[q] = "asleep_desc" /\ f[q] = "alloc")
    <2>1. CASE NFree > 0
      <3>1. f = [q \in Proc |-> IF pc[q] = "asleep_desc" THEN "alloc" ELSE pc[q]]
        BY <2>1 DEF WakeDesc
      <3> QED  BY <1>2, <3>1
    <2>2. CASE ~(NFree > 0)
      BY <1>2, <2>2
    <2> QED  BY <2>1, <2>2
  <1>4. pc' = [f EXCEPT ![p] = "asleep_desc"]
    BY <1>1
  <1> HIDE DEF f
  <1>5. /\ pc' \in [Proc -> Places]
        /\ \A q \in Proc : pc'[q] = IF q = p THEN "asleep_desc" ELSE f[q]
    BY <1>2, <1>3, <1>4
  <1> QED  BY <1>1, <1>3, <1>5, PlacesMove

\* A caller that wakes before its transfer is done sleeps again on the buffer.
LEMMA SleepAgainStep ==
  ASSUME VirtioInv, NEW p \in Proc, SleepAgain(p)
  PROVE  VirtioInv'
  <1>1. /\ pc[p] = "woken" /\ busy[p] /\ pc' = [pc EXCEPT ![p] = "asleep_buf"]
        /\ UNCHANGED <<free, desc, ring, info, busy, lock, idx, device, buf, last>>
    BY DEF SleepAgain, StillBusy, Goto
  <1>2. pc \in [Proc -> Places] /\ "asleep_buf" \in Places
    BY DEF VirtioInv, Types, Places
  <1>3. /\ pc' \in [Proc -> Places]
        /\ \A q \in Proc : pc'[q] = IF q = p THEN "asleep_buf" ELSE pc[q]
    BY <1>1, <1>2
  <1> QED  BY <1>1, <1>3, PlacesMove

\* kill() wakes a process that sleeps in the driver: it goes back to its loop.
LEMMA KillStep ==
  ASSUME VirtioInv, NEW p \in Proc, Kill(p)
  PROVE  VirtioInv'
  <1> DEFINE l == IF pc[p] = "asleep_desc" THEN "alloc" ELSE "woken"
  <1>1. /\ pc[p] \in {"asleep_desc", "asleep_buf"} /\ pc' = [pc EXCEPT ![p] = l]
        /\ UNCHANGED <<free, desc, ring, info, busy, lock, idx, device, buf, last>>
    BY DEF Kill, Goto
  <1>2. pc \in [Proc -> Places] /\ l \in Places
    BY DEF VirtioInv, Types, Places
  <1>3. \/ pc[p] = "asleep_desc" /\ l = "alloc"
        \/ pc[p] = "asleep_buf" /\ l = "woken"
    BY <1>1
  <1> HIDE DEF l
  <1>4. /\ pc' \in [Proc -> Places]
        /\ \A q \in Proc : pc'[q] = IF q = p THEN l ELSE pc[q]
    BY <1>1, <1>2
  <1> QED  BY <1>1, <1>3, <1>4, PlacesMove

\* virtio_disk_intr() takes and releases vdisk_lock.
LEMMA IntrEnterStep ==
  ASSUME VirtioAssumption, VirtioInv, IntrEnter \/ IntrExit
  PROVE  VirtioInv'
  <1>1. /\ \/ lock = None /\ lock' = "intr" /\ pending' = FALSE
           \/ lock = "intr" /\ lock' = None /\ pending' = pending
              /\ usedIdx % NUM = usedId % NUM
        /\ UNCHANGED <<free, desc, avail, availIdx, used, usedId, usedIdx, info, busy,
                       pc, idx, seen, taken, block, buf, last>>
    BY DEF IntrEnter, IntrExit, ring, device
  <1>2. Types'
    BY <1>1 DEF VirtioInv, Types
  <1>3. \A q \in Proc : lock # q /\ lock' # q
    BY <1>1 DEF VirtioAssumption
  <1>4. ASSUME NEW q \in Proc PROVE PlaceOK(q)'
    <2>1. PlaceOK(q) /\ NFree' = NFree /\ (Asked(q) => Asked(q)') /\ (Served(q) => Served(q)')
      BY <1>1 DEF VirtioInv, NFree, Asked, Served
    <2> QED  BY <1>1, <1>3, <2>1 DEF PlaceOK, Owns
  <1>5. IntrOK'
    BY <1>1, UsedEnd DEF VirtioInv, IntrOK
  <1> QED  BY <1>1, <1>2, <1>4, <1>5, RequestsKept DEF VirtioInv

-----------------------------------------------------------------------------
(* The device, and the interrupt handler's loop *)

\* Whose a request in flight is.
LEMMA Flying ==
  ASSUME VirtioInv, NEW h, InFlight(h)
  PROVE  /\ info[h] \in Proc /\ Owns(info[h]) /\ busy[info[h]] /\ pc[info[h]] # "publish"
         /\ h = idx[info[h]][1] /\ h \in Three(idx[info[h]]) /\ h \in Desc /\ ~free[h]
  <1>1. info[h] \in Proc /\ Owns(info[h]) /\ busy[info[h]] /\ h = idx[info[h]][1]
    BY DEF InFlight, Owns, Owning
  <1>2. pc[info[h]] # "publish"
    BY DEF InFlight
  <1>3. ChainOK(info[h])
    BY <1>1 DEF VirtioInv
  <1>4. h \in Three(idx[info[h]]) /\ ~free[h]
    BY <1>1, <1>3 DEF ChainOK, Three
  <1>5. h \in Desc
    <2>1. idx[info[h]] \in Desc \X Desc \X Desc
      BY <1>1, <1>3 DEF ChainOK
    <2> QED  BY <1>1, <2>1
  <1> QED  BY <1>1, <1>2, <1>4, <1>5

\* The device takes the next entry of the avail ring, in the order of publication.
LEMMA DeviceTakeStep ==
  ASSUME VirtioAssumption, VirtioInv, DeviceTake
  PROVE  VirtioInv'
  <1> DEFINE h == avail[seen % NUM]
  <1>1. /\ seen # availIdx /\ taken' = taken \cup {h} /\ seen' = (seen + 1) % WRAP
        /\ UNCHANGED <<free, desc, avail, availIdx, used, usedId, usedIdx, info, busy,
                       lock, pc, idx, pending, block, buf, last>>
    BY DEF DeviceTake, ring
  <1>2. Types /\ AvailOK /\ TakenOK /\ UsedOK /\ OnceOK
    BY DEF VirtioInv
  <1>3. seen \in 0..WRAP - 1 /\ availIdx \in 0..WRAP - 1 /\ Modulus(WRAP)
    BY <1>2, Moduli DEF Types
  <1>4. /\ seen % NUM \in Untaken /\ seen' \in 0..WRAP - 1
        /\ Steps(seen', availIdx, WRAP) < NUM
        /\ Slots(seen', availIdx, WRAP) = Untaken \ {seen % NUM}
    BY <1>1, <1>2, <1>3, StartMoves DEF Untaken, AvailOK
  <1>5. Untaken' = Untaken \ {seen % NUM} /\ Unseen' = Unseen
    BY <1>1, <1>4 DEF Untaken, Unseen
  <1>6. InFlight(h) /\ Asked(info[h]) /\ h \in Desc
    BY <1>2, <1>4, Flying DEF AvailOK
  <1>7. Types'
    BY <1>1, <1>2, <1>4, <1>6 DEF Types
  <1>8. \A k : InFlight(k) <=> InFlight(k)'
    BY <1>1 DEF InFlight
  <1>9. \A p : (Asked(p) <=> Asked(p)') /\ (Served(p) <=> Served(p)')
    BY <1>1 DEF Asked, Served
  <1>10. AvailOK'
    BY <1>1, <1>2, <1>4, <1>5, <1>8, <1>9 DEF AvailOK
  <1>11. TakenOK'
    BY <1>1, <1>2, <1>6, <1>8, <1>9 DEF TakenOK
  <1>12. UsedOK'
    BY <1>1, <1>2, <1>5, <1>8, <1>9 DEF UsedOK
  <1>13. OnceOK'
    BY <1>1, <1>2, <1>4, <1>5 DEF OnceOK, AvailOK
  <1>14. ASSUME NEW p \in Proc PROVE ChainOK(p)' /\ PlaceOK(p)'
    <2>1. ChainOK(p) /\ PlaceOK(p) /\ NFree' = NFree
      BY <1>1 DEF VirtioInv, NFree
    <2>2. ChainOK(p)'
      BY <1>1, <2>1 DEF ChainOK, Owns
    <2>3. PlaceOK(p)'
      BY <1>1, <1>9, <2>1 DEF PlaceOK, Owns
    <2> QED  BY <2>2, <2>3
  <1>15. (\A p, q \in Proc : ChainsApart(p, q)') /\ IntrOK'
    BY <1>1 DEF VirtioInv, ChainsApart, IntrOK, Owns
  <1> QED  BY <1>7, <1>10, <1>11, <1>12, <1>13, <1>14, <1>15 DEF VirtioInv

\* The device carries out a transfer it has taken, in any order, and puts it on the
\* used ring.
LEMMA DeviceCompleteStep ==
  ASSUME VirtioAssumption, VirtioInv, NEW h \in Desc, DeviceComplete(h)
  PROVE  VirtioInv'
  <1> DEFINE p == info[h]
             e == usedId % NUM
  <1>1. /\ h \in taken /\ taken' = taken \ {h}
        /\ used' = [used EXCEPT ![e] = h] /\ usedId' = (usedId + 1) % WRAP /\ pending' = TRUE
        /\ UNCHANGED <<free, desc, avail, availIdx, usedIdx, info, busy, lock, pc, idx, seen,
                       last>>
    BY DEF DeviceComplete
  <1>2. Types /\ AvailOK /\ TakenOK /\ UsedOK /\ OnceOK
    BY DEF VirtioInv
  <1>3. InFlight(h) /\ Asked(p)
    BY <1>1, <1>2 DEF TakenOK
  <1>4. p \in Proc /\ Owns(p) /\ busy[p] /\ h = idx[p][1] /\ ChainOK(p)
    BY <1>3, Flying DEF VirtioInv
  <1>5. /\ desc[h].of = p /\ desc[desc[h].next].of = p
        /\ idx[p] \in Desc \X Desc \X Desc /\ idx[p][2] # h
    BY <1>4 DEF ChainOK
  <1>6. /\ block[p] \in Val /\ last[p] \in Val
        /\ block \in [Proc -> Val] /\ buf \in [Proc -> Val \cup {None}]
    BY <1>2, <1>4 DEF Types
  \* The transfer.
  <1>7. /\ block' \in [Proc -> Val] /\ buf' \in [Proc -> Val \cup {None}]
        /\ Served(p)'
        /\ \A q \in Proc : q # p => block'[q] = block[q] /\ buf'[q] = buf[q]
    <2>1. CASE desc[h].what = "write"
      <3>1. block' = [block EXCEPT ![p] = buf[p]] /\ buf' = buf
        BY <1>5, <2>1 DEF DeviceComplete
      <3>2. buf[p] = last[p]
        BY <1>3, <1>4, <2>1 DEF Asked
      <3> QED  BY <1>1, <1>4, <1>6, <3>1, <3>2 DEF Served
    <2>2. CASE desc[h].what # "write"
      <3>1. buf' = [buf EXCEPT ![p] = block[p]] /\ block' = block
        BY <1>5, <2>2 DEF DeviceComplete
      <3>2. block[p] = last[p]
        BY <1>3, <1>4, <2>2 DEF Asked
      <3> QED  BY <1>1, <1>4, <1>6, <3>1, <3>2 DEF Served
    <2> QED  BY <2>1, <2>2
  \* The entry.
  <1>8. /\ e \in 0..NUM - 1 /\ usedIdx \in 0..NUM - 1 /\ e % NUM = e /\ e \in Desc
        /\ Modulus(NUM) /\ NUM \in Nat /\ usedId \in 0..WRAP - 1 /\ Modulus(WRAP)
    <2>1. e \in 0..NUM - 1 /\ NUM \in Nat
      BY <1>2, UsedEnd DEF VirtioAssumption
    <2>2. e % NUM = e
      <3> HIDE DEF e
      <3> QED  BY <2>1, SMTT(30)
    <2> QED  BY <1>2, <2>1, <2>2, Moduli DEF Types, Desc
  <1>9. Steps(usedIdx, e, NUM) < NUM /\ Unseen \subseteq Desc /\ e \notin Unseen
    <2>1. Steps(usedIdx, e, NUM) \in 0..NUM - 1
      BY <1>8, SlotAtEnd
    <2>2. Steps(usedIdx, e, NUM) < NUM
      BY <1>8, <2>1, SMTT(30)
    <2> QED  BY <1>8, <2>2, EndFree, SlotsInRing DEF Unseen
  <1>10. /\ used' \in [Desc -> Desc] /\ used'[e] = h
         /\ \A i \in Unseen : used'[i] = used[i]
    <2>1. used \in [Desc -> Desc]
      BY <1>2 DEF Types
    <2> HIDE DEF e
    <2> QED  BY <1>1, <1>8, <1>9, <2>1
  <1>11. ASSUME NEW i \in Unseen PROVE used[i] # h /\ info[used[i]] # p
    <2>1. used[i] # h /\ InFlight(used[i])
      BY <1>1, <1>2 DEF OnceOK, UsedOK
    <2>2. used[i] = idx[info[used[i]]][1]
      BY <2>1, Flying
    <2> QED  BY <1>4, <2>1, <2>2
  <1>12. ASSUME NEW i \in Unseen \cup {e} PROVE used'[i] \in Desc \ {idx[p][2]}
    <2>1. CASE i = e
      BY <1>5, <1>10, <2>1
    <2>2. CASE i \in Unseen
      <3>1. /\ info[used[i]] \in Proc /\ Owns(info[used[i]]) /\ used[i] \in Desc
            /\ used[i] \in Three(idx[info[used[i]]])
        BY <1>2, <2>2, Flying DEF UsedOK
      <3>2. Three(idx[p]) \cap Three(idx[info[used[i]]]) = {}
        BY <1>4, <1>11, <2>2, <3>1 DEF VirtioInv, ChainsApart
      <3>3. idx[p][2] \in Three(idx[p])
        BY DEF Three
      <3> QED  BY <1>10, <2>2, <3>1, <3>2, <3>3
    <2> QED  BY <2>1, <2>2
  <1>13. ASSUME NEW i \in Unseen \cup {e}, NEW j \in Unseen \cup {e}, used'[i] = used'[j]
         PROVE  i = j
    BY <1>2, <1>10, <1>11, <1>13 DEF UsedOK
  <1>14. idx[p][2] \in Desc
    BY <1>5
  <1>15. Steps(usedIdx, e, NUM) + 1 < NUM
    <2>1. /\ \A i \in Slots(usedIdx, e, NUM) \cup {e % NUM} : used'[i] \in Desc \ {idx[p][2]}
          /\ \A i, j \in Slots(usedIdx, e, NUM) \cup {e % NUM} :
               used'[i] = used'[j] => i = j
      BY <1>8, <1>12, <1>13 DEF Unseen
    <2> HIDE DEF e
    <2> QED  BY <1>8, <1>9, <1>14, <2>1, RoomLeft
  <1>16. usedId' % NUM = (e + 1) % NUM
    BY <1>1, <1>8, NextSlot
  <1>17. Unseen' = Unseen \cup {e} /\ Untaken' = Untaken
    <2>1. Slots(usedIdx, (e + 1) % NUM, NUM) = Slots(usedIdx, e, NUM) \cup {e % NUM}
      <3> HIDE DEF e
      <3> QED  BY <1>8, <1>9, <1>15, EndMoves
    <2>2. Unseen' = Unseen \cup {e}
      BY <1>1, <1>8, <1>16, <2>1 DEF Unseen
    <2> QED  BY <1>1, <2>2 DEF Untaken
  <1>18. usedId' \in 0..WRAP - 1
    BY <1>1, <1>8, SMTT(30) DEF Modulus
  <1>19. Types'
    BY <1>1, <1>2, <1>7, <1>10, <1>18 DEF Types
  <1>20. \A k : InFlight(k) <=> InFlight(k)'
    BY <1>1 DEF InFlight
  <1>21. \A q \in Proc : q # p => (Asked(q) <=> Asked(q)') /\ (Served(q) <=> Served(q)')
    BY <1>1, <1>7 DEF Asked, Served
  <1>22. ASSUME NEW k, InFlight(k), k # h PROVE info[k] \in Proc /\ info[k] # p
    BY <1>4, <1>22, Flying
  <1>23. AvailOK'
    BY <1>1, <1>2, <1>17, <1>20, <1>21, <1>22 DEF AvailOK, OnceOK
  <1>24. TakenOK'
    BY <1>1, <1>2, <1>20, <1>21, <1>22 DEF TakenOK
  <1>25. UsedOK'
    <2>1. ASSUME NEW i \in Unseen PROVE InFlight(used[i])' /\ Served(info[used[i]])'
      <3>1. InFlight(used[i]) /\ Served(info[used[i]])
        BY <1>2 DEF UsedOK
      <3>2. info[used[i]] \in Proc /\ info[used[i]] # p
        BY <1>11, <3>1, Flying
      <3>3. InFlight(used[i])' <=> InFlight(used[i])
        BY <1>1, <1>10 DEF InFlight
      <3>4. PICK q \in Proc : q = info[used[i]]
        BY <3>2
      <3>5. info'[used'[i]] = q /\ Served(q)'
        BY <1>1, <1>10, <1>21, <3>1, <3>2, <3>4
      <3>6. Served(info[used[i]])'
        BY <3>5 DEF Served
      <3> QED  BY <3>1, <3>3, <3>6
    <2>2. ASSUME NEW i, i = e PROVE InFlight(used[i])' /\ Served(info[used[i]])'
      <3>1. used'[i] = h /\ info'[h] = p
        BY <1>1, <1>10, <2>2
      <3>2. InFlight(h)'
        BY <1>3, <1>20
      <3>3. PICK q \in Proc : q = p
        BY <1>4
      <3>4. Served(q)'
        BY <1>1, <1>7, <3>3 DEF Served
      <3> QED  BY <3>1, <3>2, <3>3, <3>4 DEF InFlight, Served
    <2> QED  BY <1>13, <1>17, <2>1, <2>2 DEF UsedOK
  <1>26. OnceOK'
    <2>1. taken' = taken \ {h} /\ avail' = avail
      BY <1>1
    <2>2. \A i \in Untaken : avail'[i] \notin taken' /\ avail'[i] # h
      BY <1>1, <1>2, <2>1 DEF OnceOK
    <2>3. \A i \in Untaken, j \in Unseen : avail'[i] # used'[j]
      BY <1>2, <1>10, <2>1 DEF OnceOK
    <2>4. \A j \in Unseen : used'[j] \notin taken'
      BY <1>2, <1>10, <2>1 DEF OnceOK
    <2>5. used'[e] \notin taken'
      BY <1>10, <2>1
    <2> HIDE DEF e
    <2> QED  BY <1>10, <1>17, <2>2, <2>3, <2>4, <2>5 DEF OnceOK
  <1>27. ASSUME NEW q \in Proc PROVE ChainOK(q)' /\ PlaceOK(q)'
    <2>1. ChainOK(q) /\ PlaceOK(q) /\ NFree' = NFree
      BY <1>1 DEF VirtioInv, NFree
    <2>2. ChainOK(q)'
      BY <1>1, <2>1 DEF ChainOK, Owns
    <2>3. CASE q = p
      <3>1. pc[q] \in {"asleep_buf", "woken"}
        BY <1>3, <2>3 DEF InFlight
      <3> QED  BY <1>1, <1>4, <2>1, <2>2, <2>3, <3>1 DEF PlaceOK
    <2>4. CASE q # p
      BY <1>1, <1>7, <1>21, <2>1, <2>2, <2>4 DEF PlaceOK, Owns
    <2> QED  BY <2>3, <2>4
  <1>28. (\A r, q \in Proc : ChainsApart(r, q)') /\ IntrOK'
    BY <1>1 DEF VirtioInv, ChainsApart, IntrOK, Owns
  <1> QED  BY <1>19, <1>23, <1>24, <1>25, <1>26, <1>27, <1>28 DEF VirtioInv

\* The interrupt handler marks the transfer of one used entry done and wakes its caller.
LEMMA IntrEntryStep ==
  ASSUME VirtioAssumption, VirtioInv, IntrEntry
  PROVE  VirtioInv'
  <1> DEFINE h == used[usedIdx]
             p == info[h]
             e == usedId % NUM
  <1>1. /\ lock = "intr" /\ usedIdx % NUM # usedId % NUM
        /\ busy' = [busy EXCEPT ![p] = FALSE] /\ pc' = WakeBuf(pc, p)
        /\ usedIdx' = (usedIdx + 1) % NUM
        /\ UNCHANGED <<free, desc, avail, availIdx, used, usedId, info, lock, idx, seen,
                       taken, pending, block, buf, last>>
    BY DEF IntrEntry, UsedEntry, NextUsed, device
  <1>2. Types /\ AvailOK /\ TakenOK /\ UsedOK /\ OnceOK
    BY DEF VirtioInv
  <1>3. /\ e \in 0..NUM - 1 /\ usedIdx \in 0..NUM - 1 /\ usedIdx % NUM = usedIdx
        /\ usedIdx # e /\ Modulus(NUM) /\ NUM \in Nat
    BY <1>1, <1>2, UsedEnd, Moduli DEF Types, VirtioAssumption
  <1>4. Steps(usedIdx, e, NUM) < NUM
    <2>1. Steps(usedIdx, e, NUM) \in 0..NUM - 1
      BY <1>3, SlotAtEnd
    <2> QED  BY <1>3, <2>1, SMTT(30)
  <1>5. /\ usedIdx \in Unseen /\ usedIdx' \in 0..NUM - 1
        /\ Slots(usedIdx', e, NUM) = Unseen \ {usedIdx}
    <2>1. /\ usedIdx % NUM \in Slots(usedIdx, e, NUM)
          /\ (usedIdx + 1) % NUM \in 0..NUM - 1
          /\ Slots((usedIdx + 1) % NUM, e, NUM)
               = Slots(usedIdx, e, NUM) \ {usedIdx % NUM}
      <3> HIDE DEF e
      <3> QED  BY <1>3, <1>4, StartMoves
    <2> QED  BY <1>1, <1>3, <2>1 DEF Unseen
  <1>6. Unseen' = Unseen \ {usedIdx} /\ Untaken' = Untaken
    BY <1>1, <1>5 DEF Unseen, Untaken
  <1>7. InFlight(h) /\ Served(p)
    BY <1>2, <1>5 DEF UsedOK
  <1>8. p \in Proc /\ h = idx[p][1]
    BY <1>7, Flying
  <1>9. pc \in [Proc -> Places] /\ busy \in [Proc -> BOOLEAN] /\ "woken" \in Places
    BY <1>2 DEF Types, Places
  <1>10. pc[p] \in {"asleep_buf", "woken"}
    BY <1>7 DEF InFlight
  <1>11. pc' = [pc EXCEPT ![p] = "woken"]
    <2>1. CASE pc[p] = "asleep_buf"
      BY <1>1, <2>1 DEF WakeBuf
    <2>2. CASE pc[p] # "asleep_buf"
      <3>1. pc[p] = "woken" /\ pc' = pc
        BY <1>1, <1>10, <2>2 DEF WakeBuf
      <3> HIDE DEF p
      <3> QED  BY <1>8, <1>9, <3>1
    <2> QED  BY <2>1, <2>2
  <1>12. /\ pc' \in [Proc -> Places] /\ busy' \in [Proc -> BOOLEAN]
         /\ pc'[p] = "woken" /\ busy'[p] = FALSE
         /\ \A q \in Proc : q # p => pc'[q] = pc[q] /\ (busy'[q] <=> busy[q])
    <2> HIDE DEF p
    <2> QED  BY <1>1, <1>8, <1>9, <1>11
  <1>13. Types'
    BY <1>1, <1>2, <1>5, <1>12 DEF Types
  <1>14. ASSUME NEW k, InFlight(k), k # h
         PROVE  InFlight(k)'
    <2>1. info[k] \in Proc /\ info[k] # p
      BY <1>8, <1>14, Flying
    <2>2. /\ info'[k] = info[k] /\ pc'[info[k]] = pc[info[k]] /\ busy'[info[k]]
          /\ idx' = idx
      BY <1>1, <1>12, <1>14, <2>1 DEF InFlight
    <2> QED  BY <1>14, <2>1, <2>2 DEF InFlight
  <1>15. \A q : (Asked(q) <=> Asked(q)') /\ (Served(q) <=> Served(q)')
    BY <1>1 DEF Asked, Served
  <1>16. AvailOK'
    <2>1. ASSUME NEW i \in Untaken PROVE InFlight(avail[i])' /\ Asked(info[avail[i]])'
      <3>1. avail[i] # h /\ InFlight(avail[i]) /\ Asked(info[avail[i]])
        BY <1>2, <1>5 DEF OnceOK, AvailOK
      <3>2. InFlight(avail[i])'
        <4>1. PICK k : k = avail[i]
          OBVIOUS
        <4>2. InFlight(k)' /\ avail'[i] = k
          BY <1>1, <1>14, <3>1, <4>1
        <4> QED  BY <4>2 DEF InFlight
      <3> QED  BY <1>1, <3>1, <3>2 DEF Asked
    <2> QED  BY <1>1, <1>2, <1>6, <2>1 DEF AvailOK
  <1>17. TakenOK'
    <2>1. ASSUME NEW k \in taken PROVE InFlight(k)' /\ Asked(info[k])'
      BY <1>1, <1>2, <1>5, <1>14 DEF OnceOK, TakenOK, Asked
    <2> QED  BY <1>1, <2>1 DEF TakenOK
  <1>18. UsedOK'
    <2>1. ASSUME NEW i \in Unseen \ {usedIdx} PROVE InFlight(used[i])' /\ Served(info[used[i]])'
      <3>1. used[i] # h /\ InFlight(used[i]) /\ Served(info[used[i]])
        BY <1>2, <1>5 DEF UsedOK
      <3>2. InFlight(used[i])'
        <4>1. PICK k : k = used[i]
          OBVIOUS
        <4>2. InFlight(k)' /\ used'[i] = k
          BY <1>1, <1>14, <3>1, <4>1
        <4> QED  BY <4>2 DEF InFlight
      <3> QED  BY <1>1, <3>1, <3>2 DEF Served
    <2> QED  BY <1>1, <1>2, <1>6, <2>1 DEF UsedOK
  <1>19. OnceOK'
    BY <1>1, <1>2, <1>6 DEF OnceOK
  <1>20. ASSUME NEW q \in Proc PROVE ChainOK(q)' /\ PlaceOK(q)'
    <2>1. ChainOK(q) /\ PlaceOK(q) /\ NFree' = NFree
      BY <1>1 DEF VirtioInv, NFree
    <2>2. Owns(q)' <=> Owns(q)
      BY <1>10, <1>12 DEF Owns, Owning
    <2>3. ChainOK(q)'
      BY <1>1, <2>1, <2>2 DEF ChainOK
    <2>4. CASE q = p
      <3>1. pc'[q] = "woken" /\ lock' # q /\ Served(q)'
        BY <1>1, <1>7, <1>12, <1>15, <2>4 DEF VirtioAssumption
      <3> QED  BY <2>3, <3>1 DEF PlaceOK
    <2>5. CASE q # p
      <3>1. pc'[q] = pc[q] /\ (busy'[q] <=> busy[q])
        BY <1>12, <2>5
      <3> QED  BY <1>1, <1>15, <2>1, <2>2, <2>3, <3>1 DEF PlaceOK
    <2> QED  BY <2>4, <2>5
  <1>21. ASSUME NEW q \in Proc, NEW r \in Proc PROVE ChainsApart(q, r)'
    <2>1. (Owns(q)' <=> Owns(q)) /\ (Owns(r)' <=> Owns(r))
      BY <1>10, <1>12 DEF Owns, Owning
    <2> QED  BY <1>1, <2>1 DEF VirtioInv, ChainsApart
  <1>22. IntrOK'
    BY <1>1 DEF IntrOK
  <1> QED  BY <1>13, <1>16, <1>17, <1>18, <1>19, <1>20, <1>21, <1>22 DEF VirtioInv

\* virtio_disk_rw() moves avail[1] past the entry of its chain: the device may take it.
LEMMA PublishStep ==
  ASSUME VirtioAssumption, VirtioInv, NEW p \in Proc, Publish(p)
  PROVE  VirtioInv'
  <1> DEFINE h == idx[p][1]
             e == availIdx % NUM
  <1>1. /\ pc[p] = "publish" /\ availIdx' = (availIdx + 1) % WRAP /\ lock' = None
        /\ pc' = [pc EXCEPT ![p] = "asleep_buf"]
        /\ UNCHANGED <<free, desc, avail, used, usedId, usedIdx, info, busy, idx, seen,
                       taken, pending, block, buf, last>>
    BY DEF Publish, Goto, device
  <1>2. Types /\ AvailOK /\ TakenOK /\ UsedOK /\ OnceOK
    BY DEF VirtioInv
  <1>3. /\ PlaceOK(p) /\ ChainOK(p) /\ Owns(p)
    BY <1>1 DEF VirtioInv, Owns, Owning
  <1>4. lock = p /\ busy[p] /\ Asked(p) /\ avail[e] = h /\ info[h] = p /\ idx[p][2] # h
    BY <1>1, <1>3 DEF PlaceOK, ChainOK
  <1>5. h \in Desc /\ idx[p][2] \in Desc
    <2>1. idx[p] \in Desc \X Desc \X Desc
      BY <1>3 DEF ChainOK
    <2> QED  BY <2>1
  <1>6. pc \in [Proc -> Places] /\ "asleep_buf" \in Places
    BY <1>2 DEF Types, Places
  <1>7. /\ pc' \in [Proc -> Places] /\ pc'[p] = "asleep_buf"
        /\ \A q \in Proc : q # p => pc'[q] = pc[q]
    BY <1>1, <1>6
  <1>8. ASSUME NEW k, InFlight(k) PROVE info[k] # p /\ k # h /\ k \in Desc \ {idx[p][2]}
    <2>1. /\ info[k] \in Proc /\ Owns(info[k]) /\ pc[info[k]] # "publish"
          /\ k \in Three(idx[info[k]]) /\ k \in Desc
      BY <1>8, Flying
    <2>2. info[k] # p
      BY <1>1, <2>1
    <2>3. Three(idx[p]) \cap Three(idx[info[k]]) = {}
      BY <1>3, <2>1, <2>2 DEF VirtioInv, ChainsApart
    <2>4. h \in Three(idx[p]) /\ idx[p][2] \in Three(idx[p])
      BY DEF Three
    <2> QED  BY <2>1, <2>2, <2>3, <2>4
  \* The ring has room for the entry.
  <1>9. /\ seen \in 0..WRAP - 1 /\ availIdx \in 0..WRAP - 1 /\ Modulus(WRAP)
        /\ Steps(seen, availIdx, WRAP) < NUM
    BY <1>2, Moduli DEF Types, AvailOK
  <1>10. ASSUME NEW i \in Untaken \cup {e} PROVE avail[i] \in Desc \ {idx[p][2]}
    BY <1>2, <1>4, <1>5, <1>8 DEF AvailOK
  <1>11. ASSUME NEW i \in Untaken \cup {e}, NEW j \in Untaken \cup {e}, avail[i] = avail[j]
         PROVE  i = j
    BY <1>2, <1>4, <1>8, <1>11 DEF AvailOK
  <1>12. Steps(seen, availIdx, WRAP) + 1 < NUM
    <2>1. /\ \A i \in Slots(seen, availIdx, WRAP) \cup {availIdx % NUM} :
               avail[i] \in Desc \ {idx[p][2]}
          /\ \A i, j \in Slots(seen, availIdx, WRAP) \cup {availIdx % NUM} :
               avail[i] = avail[j] => i = j
      BY <1>10, <1>11 DEF Untaken
    <2>2. idx[p][2] \in Desc
      BY <1>5
    <2>3. PICK d \in Desc : d = idx[p][2]
      BY <2>2
    <2>4. PICK s \in 0..WRAP - 1 : s = seen
      BY <1>9
    <2>5. PICK f \in 0..WRAP - 1 : f = availIdx
      BY <1>9
    <2>6. /\ \A i \in Slots(s, f, WRAP) \cup {f % NUM} : avail[i] \in Desc \ {d}
          /\ \A i, j \in Slots(s, f, WRAP) \cup {f % NUM} : avail[i] = avail[j] => i = j
          /\ Steps(s, f, WRAP) < NUM
      BY <1>9, <2>1, <2>3, <2>4, <2>5
    <2>7. Steps(s, f, WRAP) + 1 < NUM
      BY <1>9, <2>6, RoomLeft
    <2> QED  BY <2>4, <2>5, <2>7
  <1>13. Steps(seen, availIdx, WRAP) + 1 < WRAP
    <2>1. NUM <= WRAP
      <3>1. PICK k \in 1..WRAP : WRAP = k * NUM
        BY DEF VirtioAssumption
      <3> QED  BY <3>1, SMTT(30) DEF VirtioAssumption
    <2>2. Steps(seen, availIdx, WRAP) \in 0..WRAP - 1
      BY <1>9, SlotAtEnd
    <2> QED  BY <1>12, <2>1, <2>2, SMTT(30) DEF VirtioAssumption
  <1>14. /\ availIdx' \in 0..WRAP - 1
         /\ Steps(seen, availIdx', WRAP) = Steps(seen, availIdx, WRAP) + 1
         /\ Slots(seen, availIdx', WRAP) = Untaken \cup {e}
    BY <1>1, <1>9, <1>13, EndMoves DEF Untaken
  <1>15. Untaken' = Untaken \cup {e} /\ Unseen' = Unseen
    BY <1>1, <1>14 DEF Untaken, Unseen
  <1>16. Types'
    BY <1>1, <1>2, <1>7, <1>14 DEF Types
  <1>17. ASSUME NEW k, InFlight(k) PROVE InFlight(k)'
    <2>1. info[k] \in Proc /\ info[k] # p
      BY <1>8, <1>17, Flying
    <2> QED  BY <1>1, <1>7, <1>17, <2>1 DEF InFlight
  <1>18. ASSUME NEW k, k = h PROVE InFlight(k)'
    BY <1>1, <1>4, <1>7, <1>18 DEF InFlight
  <1>19. \A q : (Asked(q) <=> Asked(q)') /\ (Served(q) <=> Served(q)')
    BY <1>1 DEF Asked, Served
  <1>20. AvailOK'
    <2>1. ASSUME NEW i \in Untaken \cup {e} PROVE InFlight(avail[i])' /\ Asked(info[avail[i]])'
      <3>1. PICK k : k = avail[i]
        OBVIOUS
      <3>2. InFlight(k)' /\ Asked(info[k])
        BY <1>2, <1>4, <1>17, <1>18, <3>1 DEF AvailOK
      <3> QED  BY <1>1, <3>1, <3>2 DEF InFlight, Asked
    <2>2. Steps(seen', availIdx', WRAP) < NUM
      BY <1>1, <1>12, <1>14
    <2> QED  BY <1>1, <1>11, <1>15, <2>1, <2>2 DEF AvailOK
  <1>21. TakenOK'
    BY <1>1, <1>2, <1>17 DEF TakenOK, Asked
  <1>22. UsedOK'
    <2>1. ASSUME NEW i \in Unseen PROVE InFlight(used[i])' /\ Served(info[used[i]])'
      <3>1. PICK k : k = used[i]
        OBVIOUS
      <3>2. InFlight(k)' /\ Served(info[k])
        BY <1>2, <1>17, <3>1 DEF UsedOK
      <3> QED  BY <1>1, <3>1, <3>2 DEF InFlight, Served
    <2> QED  BY <1>1, <1>2, <1>15, <2>1 DEF UsedOK
  <1>23. OnceOK'
    <2>1. h \notin taken /\ \A j \in Unseen : used[j] # h
      BY <1>2, <1>8 DEF TakenOK, UsedOK
    <2> QED  BY <1>1, <1>2, <1>4, <1>15, <2>1 DEF OnceOK
  <1>24. ASSUME NEW q \in Proc PROVE Owns(q)' <=> Owns(q)
    BY <1>1, <1>7 DEF Owns, Owning
  <1>25. ASSUME NEW q \in Proc PROVE ChainOK(q)' /\ PlaceOK(q)'
    <2>1. ChainOK(q) /\ PlaceOK(q) /\ NFree' = NFree
      BY <1>1 DEF VirtioInv, NFree
    <2>2. ChainOK(q)'
      BY <1>1, <1>24, <2>1 DEF ChainOK
    <2>3. lock' # q
      BY <1>1 DEF VirtioAssumption
    <2>4. CASE q = p
      <3>1. pc'[q] = "asleep_buf" /\ busy'[q]
        BY <1>1, <1>4, <1>7, <2>4
      <3> QED  BY <2>2, <2>3, <3>1 DEF PlaceOK
    <2>5. CASE q # p
      <3>1. pc'[q] = pc[q] /\ pc[q] # "publish"
        BY <1>4, <1>7, <2>1, <2>5 DEF PlaceOK
      <3> QED  BY <1>1, <1>19, <1>24, <2>1, <2>2, <2>3, <3>1 DEF PlaceOK
    <2> QED  BY <2>4, <2>5
  <1>26. \A q, r \in Proc : ChainsApart(q, r)'
    BY <1>1, <1>24 DEF VirtioInv, ChainsApart
  <1>27. IntrOK'
    BY <1>1, <1>4 DEF VirtioInv, IntrOK, VirtioAssumption
  <1> QED  BY <1>16, <1>20, <1>21, <1>22, <1>23, <1>25, <1>26, <1>27 DEF VirtioInv

-----------------------------------------------------------------------------
(* Descriptors taken and given back *)

\* alloc_desc() finds a free descriptor if there is one.
LEMMA FirstIn ==
  ASSUME NEW S \in SUBSET Desc, S # {}
  PROVE  First(S) \in S
  <1>1. S \in SUBSET Nat
    BY SMTT(30) DEF Desc
  <1>2. PICK x \in S : \A y \in S : ~(<<y, x>> \in OpToRel(<, Nat))
    BY <1>1, NatLessThanWellFounded, WFMin
  <1>3. \A y \in S : ~(y < x)
    BY <1>1, <1>2 DEF OpToRel
  <1>4. \A y \in S : x <= y
    BY <1>1, <1>3, SMTT(30)
  <1> QED  BY <1>4 DEF First

\* Descriptors are finitely many, and so are the free ones.
LEMMA Descriptors ==
  ASSUME VirtioAssumption
  PROVE  IsFiniteSet(Desc)
  <1>1. 0 \in Int /\ NUM - 1 \in Int
    BY SMTT(30) DEF VirtioAssumption
  <1> QED  BY <1>1, FS_Interval DEF Desc

\* alloc3_desc() takes three free descriptors if there are three.
LEMMA ThreeFree ==
  ASSUME VirtioAssumption, NFree >= 3
  PROVE  /\ Alloc3 \in Desc \X Desc \X Desc
         /\ Alloc3[1] # Alloc3[2] /\ Alloc3[1] # Alloc3[3] /\ Alloc3[2] # Alloc3[3]
         /\ free[Alloc3[1]] /\ free[Alloc3[2]] /\ free[Alloc3[3]]
  <1> DEFINE S == {d \in Desc : free[d]}
             a == First(S)
             b == First(S \ {a})
             c == First(S \ {a, b})
  <1>1. S \in SUBSET Desc /\ IsFiniteSet(S) /\ Cardinality(S) >= 3
    BY Descriptors, FS_Subset DEF NFree
  <1>2. Alloc3 = <<a, b, c>>
    BY DEF Alloc3
  <1>3. \A d \in S : d \in Desc /\ free[d]
    OBVIOUS
  <1> HIDE DEF S
  <1>4. S # {}
    BY <1>1, FS_EmptySet, SMTT(30)
  <1>5. a \in S
    BY <1>1, <1>4, FirstIn
  <1> HIDE DEF a
  <1>6. IsFiniteSet(S \ {a}) /\ Cardinality(S \ {a}) = Cardinality(S) - 1
    BY <1>1, <1>5, FS_RemoveElement
  <1>7. Cardinality(S) \in Nat /\ Cardinality(S \ {a}) \in Nat
    BY <1>1, <1>6, FS_CardinalityType
  <1>8. Cardinality(S \ {a}) >= 2
    BY <1>1, <1>6, <1>7, SMTT(30)
  <1>9. S \ {a} # {}
    BY <1>8, FS_EmptySet, SMTT(30)
  <1>10. b \in S \ {a}
    BY <1>1, <1>9, FirstIn
  <1> HIDE DEF b
  <1>11. Cardinality((S \ {a}) \ {b}) = Cardinality(S \ {a}) - 1
    BY <1>6, <1>10, FS_RemoveElement
  <1>12. (S \ {a}) \ {b} = S \ {a, b}
    OBVIOUS
  <1>13. Cardinality(S \ {a, b}) >= 1
    <2>1. Cardinality(S \ {a, b}) = Cardinality(S \ {a}) - 1
      BY <1>11, <1>12
    <2> QED  BY <1>7, <1>8, <2>1, SMTT(30)
  <1>14. S \ {a, b} # {}
    BY <1>13, FS_EmptySet, SMTT(30)
  <1>15. c \in S \ {a, b}
    BY <1>1, <1>14, FirstIn
  <1> HIDE DEF c
  <1>16. Alloc3[1] = a /\ Alloc3[2] = b /\ Alloc3[3] = c
    BY <1>2
  <1> QED  BY <1>2, <1>3, <1>5, <1>10, <1>15, <1>16

\* Taking descriptors leaves no more of them.
LEMMA FewerFree ==
  ASSUME VirtioAssumption, \A d \in Desc : free'[d] => free[d], NFree < 3
  PROVE  NFree' < 3
  <1> DEFINE S == {d \in Desc : free[d]}
             T == {d \in Desc : free'[d]}
  <1>1. IsFiniteSet(S) /\ T \in SUBSET S /\ NFree = Cardinality(S) /\ NFree' = Cardinality(T)
    BY Descriptors, FS_Subset DEF NFree
  <1> HIDE DEF S, T
  <1>2. IsFiniteSet(T) /\ Cardinality(T) <= Cardinality(S)
    BY <1>1, FS_Subset
  <1>3. Cardinality(T) \in Nat /\ Cardinality(S) \in Nat
    BY <1>1, <1>2, FS_CardinalityType
  <1> QED  BY <1>1, <1>2, <1>3, SMTT(30)

\* alloc3_desc() takes three free descriptors; the caller links them into a chain and
\* writes its head into the avail ring, beyond what the device may look at.
LEMMA FormatStep ==
  ASSUME VirtioAssumption, VirtioInv, NEW p \in Proc, Format(p)
  PROVE  VirtioInv'
  <1>1. PICK i : i = Alloc3
    OBVIOUS
  <1> DEFINE w == IF buf[p] = None THEN "read" ELSE "write"
             e == availIdx % NUM
             d1 == [what |-> w, of |-> p, next |-> i[2]]
             d2 == [what |-> "data", of |-> p, next |-> i[3]]
             d3 == [what |-> "status", of |-> p, next |-> None]
  <1>2. /\ pc[p] = "alloc" /\ lock = None /\ NFree >= 3 /\ lock' = p
        /\ idx' = [idx EXCEPT ![p] = i]
        /\ free' = [free EXCEPT ![i[1]] = FALSE, ![i[2]] = FALSE, ![i[3]] = FALSE]
        /\ desc' = [desc EXCEPT ![i[1]] = d1, ![i[2]] = d2, ![i[3]] = d3]
        /\ info' = [info EXCEPT ![i[1]] = p] /\ busy' = [busy EXCEPT ![p] = TRUE]
        /\ avail' = [avail EXCEPT ![e] = i[1]] /\ pc' = [pc EXCEPT ![p] = "publish"]
        /\ UNCHANGED <<availIdx, used, usedId, usedIdx, seen, taken, pending, block, buf,
                       last>>
    BY <1>1 DEF Format, Goto, device
  <1>3. Types /\ AvailOK /\ TakenOK /\ UsedOK /\ OnceOK
    BY DEF VirtioInv
  <1>4. /\ i \in Desc \X Desc \X Desc /\ i[1] # i[2] /\ i[1] # i[3] /\ i[2] # i[3]
        /\ free[i[1]] /\ free[i[2]] /\ free[i[3]]
    BY <1>1, <1>2, ThreeFree
  <1>5. i[1] \in Desc /\ i[2] \in Desc /\ i[3] \in Desc
    BY <1>4
  <1>6. e \in Desc /\ e \notin Untaken /\ Untaken \subseteq Desc
    BY <1>3, Moduli, EndFree, SlotsInRing DEF Types, AvailOK, Untaken
  <1>7. Untaken' = Untaken /\ Unseen' = Unseen
    BY <1>2 DEF Untaken, Unseen
  <1>8. d1 \in Descriptor /\ d2 \in Descriptor /\ d3 \in Descriptor
    BY <1>5 DEF Descriptor
  <1> HIDE DEF d1, d2, d3, e, w
  <1>9. /\ free' \in [Desc -> BOOLEAN] /\ ~free'[i[1]] /\ ~free'[i[2]] /\ ~free'[i[3]]
        /\ \A d \in Desc : d \notin Three(i) => (free'[d] <=> free[d])
        /\ \A d \in Desc : free'[d] => free[d]
    <2>1. free \in [Desc -> BOOLEAN]
      BY <1>3 DEF Types
    <2> QED  BY <1>2, <1>4, <1>5, <2>1 DEF Three
  <1>10. /\ desc' \in [Desc -> Descriptor]
         /\ desc'[i[1]] = d1 /\ desc'[i[2]] = d2
         /\ \A d \in Desc : d \notin Three(i) => desc'[d] = desc[d]
    <2>1. desc \in [Desc -> Descriptor]
      BY <1>3 DEF Types
    <2> QED  BY <1>2, <1>4, <1>5, <1>8, <2>1 DEF Three
  <1>11. /\ info' \in [Desc -> Proc \cup {None}] /\ info'[i[1]] = p
         /\ \A d \in Desc : d # i[1] => info'[d] = info[d]
    <2>1. info \in [Desc -> Proc \cup {None}]
      BY <1>3 DEF Types
    <2> QED  BY <1>2, <1>5, <2>1
  <1>12. /\ avail' \in [Desc -> Desc] /\ avail'[e] = i[1]
         /\ \A d \in Untaken : avail'[d] = avail[d]
    <2>1. avail \in [Desc -> Desc]
      BY <1>3 DEF Types
    <2> QED  BY <1>2, <1>5, <1>6, <2>1
  <1>13. /\ pc' \in [Proc -> Places] /\ busy' \in [Proc -> BOOLEAN]
         /\ idx' \in [Proc -> {<<>>} \cup Desc \X Desc \X Desc]
         /\ pc'[p] = "publish" /\ busy'[p] /\ idx'[p] = i
         /\ \A q \in Proc : q # p =>
              pc'[q] = pc[q] /\ (busy'[q] <=> busy[q]) /\ idx'[q] = idx[q]
    <2>1. /\ pc \in [Proc -> Places] /\ busy \in [Proc -> BOOLEAN] /\ "publish" \in Places
          /\ idx \in [Proc -> {<<>>} \cup Desc \X Desc \X Desc]
      BY <1>3 DEF Types, Places
    <2> QED  BY <1>2, <1>4, <2>1
  <1>14. Types'
    BY <1>2, <1>3, <1>9, <1>10, <1>11, <1>12, <1>13 DEF Types
  \* Nobody else's request is touched.
  <1>15. ASSUME NEW q \in Proc, Owns(q)
         PROVE  /\ q # p /\ Three(idx[q]) \subseteq Desc /\ idx[q][1] \in Three(idx[q])
                /\ Three(idx[q]) \cap Three(i) = {}
    <2>1. q # p
      BY <1>2, <1>15 DEF Owns, Owning
    <2>2. idx[q] \in Desc \X Desc \X Desc /\ \A d \in Three(idx[q]) : ~free[d]
      BY <1>15 DEF VirtioInv, ChainOK
    <2>3. Three(idx[q]) \subseteq Desc /\ idx[q][1] \in Three(idx[q])
      BY <2>2 DEF Three
    <2>4. \A d \in Three(i) : free[d]
      BY <1>4 DEF Three
    <2> QED  BY <2>1, <2>2, <2>3, <2>4
  <1>16. ASSUME NEW q \in Proc, q # p
         PROVE  (Owns(q)' <=> Owns(q)) /\ (Served(q)' <=> Served(q))
    BY <1>2, <1>13, <1>16 DEF Owns, Served
  <1>17. ASSUME NEW q \in Proc, Owns(q), Asked(q) PROVE Asked(q)'
    <2>1. idx'[q] = idx[q] /\ desc'[idx[q][1]] = desc[idx[q][1]]
      BY <1>10, <1>13, <1>15, <1>17
    <2> QED  BY <1>2, <1>17, <2>1 DEF Asked
  <1>18. ASSUME NEW h, InFlight(h)
         PROVE  InFlight(h)' /\ info'[h] = info[h] /\ info[h] \in Proc /\ Owns(info[h]) /\ h # i[1]
    <2>1. /\ info[h] \in Proc /\ Owns(info[h]) /\ h \in Three(idx[info[h]]) /\ h \in Desc
      BY <1>18, Flying
    <2>2. info[h] # p /\ h \notin Three(i)
      BY <1>15, <2>1
    <2>3. h # i[1]
      BY <2>2 DEF Three
    <2>4. /\ info'[h] = info[h] /\ pc'[info[h]] = pc[info[h]] /\ idx'[info[h]] = idx[info[h]]
          /\ busy'[info[h]]
      BY <1>11, <1>13, <1>18, <2>1, <2>2, <2>3 DEF InFlight
    <2> QED  BY <1>18, <2>1, <2>3, <2>4 DEF InFlight
  <1>19. AvailOK'
    <2>1. ASSUME NEW j \in Untaken PROVE InFlight(avail[j])' /\ Asked(info[avail[j]])'
      <3>1. PICK h : h = avail[j]
        OBVIOUS
      <3>2. InFlight(h) /\ Asked(info[h])
        BY <1>3, <3>1 DEF AvailOK
      <3>3. PICK q \in Proc : q = info[h]
        BY <1>18, <3>2
      <3>4. InFlight(h)' /\ Asked(q)' /\ info'[h] = q /\ avail'[j] = h
        BY <1>12, <1>17, <1>18, <3>1, <3>2, <3>3
      <3> QED  BY <3>4 DEF InFlight, Asked
    <2>2. \A j, k \in Untaken : avail'[j] = avail'[k] => j = k
      BY <1>3, <1>12 DEF AvailOK
    <2>3. Steps(seen', availIdx', WRAP) < NUM
      BY <1>2, <1>3 DEF AvailOK
    <2> QED  BY <1>7, <2>1, <2>2, <2>3 DEF AvailOK
  <1>20. TakenOK'
    <2>1. ASSUME NEW h \in taken PROVE InFlight(h)' /\ Asked(info[h])'
      <3>1. InFlight(h) /\ Asked(info[h])
        BY <1>3 DEF TakenOK
      <3>2. PICK q \in Proc : q = info[h]
        BY <1>18, <3>1
      <3>3. InFlight(h)' /\ Asked(q)' /\ info'[h] = q
        BY <1>17, <1>18, <3>1, <3>2
      <3> QED  BY <3>3 DEF Asked
    <2> QED  BY <1>2, <2>1 DEF TakenOK
  <1>21. UsedOK'
    <2>1. ASSUME NEW j \in Unseen PROVE InFlight(used[j])' /\ Served(info[used[j]])'
      <3>1. PICK h : h = used[j]
        OBVIOUS
      <3>2. InFlight(h) /\ Served(info[h])
        BY <1>3, <3>1 DEF UsedOK
      <3>3. InFlight(h)' /\ info'[h] = info[h] /\ used'[j] = h
        BY <1>2, <1>18, <3>1, <3>2
      <3> QED  BY <1>2, <3>2, <3>3 DEF InFlight, Served
    <2> QED  BY <1>2, <1>3, <1>7, <2>1 DEF UsedOK
  <1>22. OnceOK'
    <2>1. taken' = taken /\ used' = used
      BY <1>2
    <2>2. \A j \in Untaken : avail'[j] \notin taken' /\ \A k \in Unseen : avail'[j] # used'[k]
      BY <1>3, <1>12, <2>1 DEF OnceOK
    <2> QED  BY <1>3, <1>7, <2>1, <2>2 DEF OnceOK
  <1>23. ASSUME NEW q \in Proc PROVE ChainOK(q)'
    <2>1. CASE q = p
      <3>1. /\ desc'[i[1]].of = p /\ desc'[i[1]].next = i[2]
            /\ desc'[i[2]].of = p /\ desc'[i[2]].next = i[3]
        BY <1>10, SMTT(30) DEF d1, d2
      <3>2. \A d \in Three(i) : ~free'[d]
        BY <1>9 DEF Three
      <3> QED  BY <1>4, <1>11, <1>13, <2>1, <3>1, <3>2 DEF ChainOK
    <2>2. CASE q # p
      <3>1. CASE ~Owns(q)
        BY <1>16, <2>2, <3>1 DEF ChainOK
      <3>2. CASE Owns(q)
        <4>1. ChainOK(q) /\ idx'[q] = idx[q]
          BY <1>13, <2>2 DEF VirtioInv
        <4>2. /\ Three(idx[q]) \subseteq Desc /\ Three(idx[q]) \cap Three(i) = {}
              /\ idx[q][1] \in Three(idx[q]) /\ idx[q][2] \in Three(idx[q])
              /\ i[1] \in Three(i)
          BY <1>15, <3>2 DEF Three
        <4>3. /\ \A d \in Three(idx[q]) : (free'[d] <=> free[d]) /\ desc'[d] = desc[d]
              /\ info'[idx[q][1]] = info[idx[q][1]]
          BY <1>9, <1>10, <1>11, <4>2
        <4> QED  BY <3>2, <4>1, <4>2, <4>3 DEF ChainOK
      <3> QED  BY <3>1, <3>2
    <2> QED  BY <2>1, <2>2
  <1>24. ASSUME NEW q \in Proc PROVE PlaceOK(q)'
    <2>1. PlaceOK(q)
      BY DEF VirtioInv
    <2>2. CASE q = p
      <3>1. buf'[p] = buf[p] /\ block'[p] = block[p] /\ last'[p] = last[p] /\ last[p] \in Val
        BY <1>2, <1>3 DEF Types
      <3>2. desc'[idx'[p][1]].what = w
        BY <1>10, <1>13, SMTT(30) DEF d1
      <3>3. (buf[p] = None /\ block[p] = last[p]) \/ buf[p] = last[p]
        BY <1>2, <2>1, <2>2 DEF PlaceOK
      <3>4. Asked(p)'
        BY <3>1, <3>2, <3>3 DEF Asked, w, VirtioAssumption
      <3>5. avail'[availIdx' % NUM] = idx'[p][1]
        BY <1>2, <1>12, <1>13 DEF e
      <3>6. pc'[q] = "publish" /\ lock' = q /\ busy'[q]
        BY <1>2, <1>13, <2>2
      <3> QED  BY <2>2, <3>4, <3>5, <3>6 DEF PlaceOK
    <2>3. CASE q # p
      <3>1. pc'[q] = pc[q] /\ (busy'[q] <=> busy[q]) /\ pc[q] # "publish" /\ lock' # q
        BY <1>2, <1>13, <2>1, <2>3 DEF PlaceOK, VirtioAssumption
      <3>2. NFree < 3 => NFree' < 3
        BY <1>9, FewerFree
      <3>3. buf' = buf /\ block' = block /\ last' = last
        BY <1>2
      <3> QED  BY <1>16, <2>1, <2>3, <3>1, <3>2, <3>3 DEF PlaceOK
    <2> QED  BY <2>2, <2>3
  <1>25. ASSUME NEW q \in Proc, NEW r \in Proc PROVE ChainsApart(q, r)'
    <2> SUFFICES ASSUME q # r, Owns(q)', Owns(r)'
                 PROVE  Three(idx[q])' \cap Three(idx[r])' = {}
      BY DEF ChainsApart
    <2>1. CASE q = p
      <3>1. idx'[q] = i /\ idx'[r] = idx[r] /\ Three(idx[r]) \cap Three(i) = {}
        BY <1>13, <1>15, <1>16, <2>1
      <3> QED  BY <3>1 DEF Three
    <2>2. CASE r = p
      <3>1. idx'[r] = i /\ idx'[q] = idx[q] /\ Three(idx[q]) \cap Three(i) = {}
        BY <1>13, <1>15, <1>16, <2>2
      <3> QED  BY <3>1 DEF Three
    <2>3. CASE q # p /\ r # p
      <3>1. /\ idx'[q] = idx[q] /\ idx'[r] = idx[r]
            /\ Three(idx[q]) \cap Three(idx[r]) = {}
        BY <1>13, <1>16, <2>3 DEF VirtioInv, ChainsApart
      <3> QED  BY <3>1 DEF Three
    <2> QED  BY <2>1, <2>2, <2>3
  <1>26. IntrOK'
    <2>1. lock # "intr"
      BY <1>2 DEF VirtioAssumption
    <2> QED  BY <1>2, <2>1 DEF VirtioInv, IntrOK
  <1> QED  BY <1>14, <1>19, <1>20, <1>21, <1>22, <1>23, <1>24, <1>25, <1>26 DEF VirtioInv

\* The caller whose transfer is done frees the chain and wakes those who wait for one.
LEMMA ReturnStep ==
  ASSUME VirtioAssumption, VirtioInv, NEW p \in Proc, Return(p)
  PROVE  VirtioInv'
  <1> DEFINE h == idx[p][1]
             f == [pc EXCEPT ![p] = "idle"]
  <1>1. /\ pc[p] = "woken" /\ lock = None /\ ~busy[p]
        /\ info' = [info EXCEPT ![h] = None]
        /\ free' = [d \in Desc |-> free[d] \/ d \in Chain(h)]
        /\ idx' = [idx EXCEPT ![p] = <<>>] /\ pc' = WakeDesc(f)
        /\ UNCHANGED <<desc, avail, availIdx, used, usedId, usedIdx, busy, lock, seen,
                       taken, pending, block, buf, last>>
    BY DEF Return, StillBusy, ring, device
  <1>2. Types /\ AvailOK /\ TakenOK /\ UsedOK /\ OnceOK
    BY DEF VirtioInv
  <1>3. Owns(p) /\ ChainOK(p) /\ PlaceOK(p)
    BY <1>1 DEF VirtioInv, Owns, Owning
  <1>4. /\ Chain(h) = Three(idx[p]) /\ info[h] = p
        /\ idx[p] \in Desc \X Desc \X Desc
    BY <1>3 DEF ChainOK, Chain, Three
  <1>5. h \in Desc
    BY <1>4
  <1>6. Untaken' = Untaken /\ Unseen' = Unseen
    BY <1>1 DEF Untaken, Unseen
  <1>7. /\ pc' \in [Proc -> Places] /\ pc'[p] = "idle"
        /\ \A q \in Proc : q # p =>
             pc'[q] = IF pc[q] = "asleep_desc" THEN "alloc" ELSE pc[q]
    <2>1. pc \in [Proc -> Places] /\ "idle" \in Places /\ "alloc" \in Places
      BY <1>2 DEF Types, Places
    <2>2. f \in [Proc -> Places] /\ f[p] = "idle" /\ \A q \in Proc : q # p => f[q] = pc[q]
      BY <2>1
    <2>3. pc' = [q \in Proc |-> IF f[q] = "asleep_desc" THEN "alloc" ELSE f[q]]
      BY <1>1 DEF WakeDesc
    <2> HIDE DEF f
    <2> QED  BY <2>1, <2>2, <2>3
  <1>8. /\ idx' \in [Proc -> {<<>>} \cup Desc \X Desc \X Desc]
        /\ \A q \in Proc : q # p => idx'[q] = idx[q]
    <2>1. idx \in [Proc -> {<<>>} \cup Desc \X Desc \X Desc]
      BY <1>2 DEF Types
    <2> QED  BY <1>1, <2>1
  <1>9. /\ info' \in [Desc -> Proc \cup {None}]
        /\ \A d \in Desc : d # h => info'[d] = info[d]
    <2>1. info \in [Desc -> Proc \cup {None}]
      BY <1>2 DEF Types
    <2> HIDE DEF h
    <2> QED  BY <1>1, <1>5, <2>1
  <1>10. /\ free' \in [Desc -> BOOLEAN]
         /\ \A d \in Desc : d \notin Three(idx[p]) => (free'[d] <=> free[d])
    <2>1. free \in [Desc -> BOOLEAN]
      BY <1>2 DEF Types
    <2> QED  BY <1>1, <1>4, <2>1
  <1>11. Types'
    BY <1>1, <1>2, <1>7, <1>8, <1>9, <1>10 DEF Types
  <1>12. ASSUME NEW q \in Proc, q # p
         PROVE  /\ Owns(q)' <=> Owns(q)
                /\ pc[q] \in {"asleep_buf", "woken"} => pc'[q] = pc[q]
                /\ (Asked(q) => Asked(q)') /\ (Served(q) <=> Served(q)')
    <2>1. (Owns(q)' <=> Owns(q)) /\ (pc[q] \in {"asleep_buf", "woken"} => pc'[q] = pc[q])
      BY <1>7, <1>12 DEF Owns, Owning
    <2> QED  BY <1>1, <1>8, <1>12, <2>1 DEF Asked, Served
  <1>13. ASSUME NEW k, InFlight(k)
         PROVE  InFlight(k)' /\ info'[k] = info[k] /\ info[k] \in Proc /\ info[k] # p
    <2>1. info[k] \in Proc /\ k \in Desc /\ busy[info[k]] /\ k = idx[info[k]][1]
      BY <1>13, Flying
    <2>2. info[k] # p /\ k # h
      BY <1>1, <1>4, <2>1
    <2>3. info'[k] = info[k] /\ pc'[info[k]] = pc[info[k]] /\ idx'[info[k]] = idx[info[k]]
      BY <1>8, <1>9, <1>12, <1>13, <2>1, <2>2 DEF InFlight
    <2> QED  BY <1>1, <1>13, <2>1, <2>2, <2>3 DEF InFlight
  <1>14. AvailOK'
    <2>1. ASSUME NEW j \in Untaken PROVE InFlight(avail[j])' /\ Asked(info[avail[j]])'
      <3>1. PICK k : k = avail[j]
        OBVIOUS
      <3>2. InFlight(k) /\ Asked(info[k])
        BY <1>2, <3>1 DEF AvailOK
      <3>3. PICK q \in Proc : q = info[k]
        BY <1>13, <3>2
      <3>4. InFlight(k)' /\ Asked(q)' /\ info'[k] = q /\ avail'[j] = k
        BY <1>1, <1>12, <1>13, <3>1, <3>2, <3>3
      <3> QED  BY <3>4 DEF InFlight, Asked
    <2> QED  BY <1>1, <1>2, <1>6, <2>1 DEF AvailOK
  <1>15. TakenOK'
    <2>1. ASSUME NEW k \in taken PROVE InFlight(k)' /\ Asked(info[k])'
      <3>1. InFlight(k) /\ Asked(info[k])
        BY <1>2 DEF TakenOK
      <3>2. PICK q \in Proc : q = info[k]
        BY <1>13, <3>1
      <3>3. InFlight(k)' /\ Asked(q)' /\ info'[k] = q
        BY <1>12, <1>13, <3>1, <3>2
      <3> QED  BY <3>3 DEF Asked
    <2> QED  BY <1>1, <2>1 DEF TakenOK
  <1>16. UsedOK'
    <2>1. ASSUME NEW j \in Unseen PROVE InFlight(used[j])' /\ Served(info[used[j]])'
      <3>1. PICK k : k = used[j]
        OBVIOUS
      <3>2. InFlight(k) /\ Served(info[k])
        BY <1>2, <3>1 DEF UsedOK
      <3>3. InFlight(k)' /\ info'[k] = info[k] /\ used'[j] = k
        BY <1>1, <1>13, <3>1, <3>2
      <3> QED  BY <1>1, <3>2, <3>3 DEF InFlight, Served
    <2> QED  BY <1>1, <1>2, <1>6, <2>1 DEF UsedOK
  <1>17. OnceOK'
    <2>1. taken' = taken /\ used' = used /\ avail' = avail
      BY <1>1
    <2> QED  BY <1>2, <1>6, <2>1 DEF OnceOK
  <1>18. ASSUME NEW q \in Proc PROVE ChainOK(q)'
    <2>1. CASE q = p
      BY <1>7, <2>1 DEF ChainOK, Owns, Owning
    <2>2. CASE q # p
      <3> SUFFICES ASSUME Owns(q) PROVE ChainOK(q)'
        BY <1>12, <2>2 DEF ChainOK
      <3>1. ChainOK(q) /\ idx'[q] = idx[q] /\ desc' = desc
        BY <1>1, <1>8, <2>2 DEF VirtioInv
      <3>2. Three(idx[q]) \cap Three(idx[p]) = {}
        BY <1>3, <2>2 DEF VirtioInv, ChainsApart
      <3>3. /\ Three(idx[q]) \subseteq Desc /\ idx[q][1] \in Three(idx[q])
            /\ h \in Three(idx[p])
        BY <3>1 DEF ChainOK, Three
      <3>4. /\ \A d \in Three(idx[q]) : free'[d] <=> free[d]
            /\ info'[idx[q][1]] = info[idx[q][1]]
        BY <1>9, <1>10, <3>2, <3>3
      <3> QED  BY <3>1, <3>3, <3>4 DEF ChainOK
    <2> QED  BY <2>1, <2>2
  <1>19. ASSUME NEW q \in Proc PROVE PlaceOK(q)'
    <2>1. PlaceOK(q) /\ lock' = lock /\ lock' # q
      BY <1>1 DEF VirtioInv, VirtioAssumption
    <2>2. CASE q = p
      <3>1. pc'[q] = "idle" /\ Served(q)'
        BY <1>1, <1>3, <1>7, <2>2 DEF PlaceOK, Served
      <3> QED  BY <2>1, <3>1 DEF PlaceOK, Owns, Owning
    <2>3. CASE q # p
      <3>1. busy' = busy /\ buf' = buf /\ block' = block /\ last' = last
        BY <1>1
      <3>2. CASE pc[q] = "asleep_desc"
        <4>1. pc'[q] = "alloc"
          BY <1>7, <2>3, <3>2
        <4> QED  BY <2>1, <3>1, <3>2, <4>1 DEF PlaceOK, Owns, Owning
      <3>3. CASE pc[q] # "asleep_desc"
        <4>1. pc'[q] = pc[q] /\ pc[q] # "publish"
          BY <1>7, <2>1, <2>3, <3>3 DEF PlaceOK
        <4> QED  BY <1>12, <2>1, <2>3, <3>1, <3>3, <4>1 DEF PlaceOK
      <3> QED  BY <3>2, <3>3
    <2> QED  BY <2>2, <2>3
  <1>20. ASSUME NEW q \in Proc, NEW r \in Proc PROVE ChainsApart(q, r)'
    <2> SUFFICES ASSUME q # r, Owns(q)', Owns(r)'
                 PROVE  Three(idx[q])' \cap Three(idx[r])' = {}
      BY DEF ChainsApart
    <2>1. q # p /\ r # p
      BY <1>7 DEF Owns, Owning
    <2>2. /\ idx'[q] = idx[q] /\ idx'[r] = idx[r]
          /\ Three(idx[q]) \cap Three(idx[r]) = {}
      BY <1>8, <1>12, <2>1 DEF VirtioInv, ChainsApart
    <2> QED  BY <2>2 DEF Three
  <1>21. IntrOK'
    BY <1>1 DEF VirtioInv, IntrOK
  <1> QED  BY <1>11, <1>14, <1>15, <1>16, <1>17, <1>18, <1>19, <1>20, <1>21 DEF VirtioInv

-----------------------------------------------------------------------------
(* The theorems *)

\* A ring whose indices are equal has no entries.
LEMMA NoSlots ==
  ASSUME NEW m \in Nat \ {0}, NEW e \in 0..m - 1
  PROVE  Steps(e, e, m) = 0 /\ Slots(e, e, m) = {}
  <1>1. Steps(e, e, m) = IF e <= e THEN e - e ELSE e + m - e
    BY StepsAre
  <1>2. Steps(e, e, m) = 0
    BY <1>1, SMTT(30)
  <1>3. 0..0 - 1 = {}
    BY SMTT(30)
  <1> QED  BY <1>2, <1>3 DEF Slots

\* virtio_disk_init().
LEMMA VirtioInit ==
  ASSUME VirtioAssumption, Init
  PROVE  VirtioInv
  <1>1. PICK v \in Val : block = [p \in Proc |-> v]
    BY DEF Init
  <1>2. /\ NUM \in Nat \ {0} /\ WRAP \in Nat \ {0} /\ START \in 0..WRAP - 1
        /\ START % NUM \in 0..NUM - 1 /\ 0 \in Desc
    BY SMTT(30) DEF VirtioAssumption, Desc
  <1>3. Blank \in Descriptor
    BY DEF Blank, Descriptor
  <1>4. Types
    <2>1. "idle" \in Places
      BY DEF Places
    <2> QED  BY <1>1, <1>2, <1>3, <2>1 DEF Init, Types
  <1>5. Steps(seen, availIdx, WRAP) = 0 /\ Untaken = {} /\ Unseen = {}
    BY <1>2, NoSlots DEF Init, Untaken, Unseen
  <1>6. 0 < NUM
    BY <1>2, SMTT(30)
  <1>7. AvailOK /\ TakenOK /\ UsedOK /\ OnceOK /\ IntrOK
    BY <1>5, <1>6 DEF Init, AvailOK, TakenOK, UsedOK, OnceOK, IntrOK
  <1>8. ASSUME NEW p \in Proc PROVE pc[p] = "idle" /\ Served(p) /\ lock # p /\ ~Owns(p)
    BY <1>1 DEF Init, Served, Owns, Owning, VirtioAssumption
  <1>9. \A p \in Proc : ChainOK(p) /\ PlaceOK(p)
    BY <1>8 DEF ChainOK, PlaceOK
  <1>10. \A p, q \in Proc : ChainsApart(p, q)
    BY <1>8 DEF ChainsApart
  <1> QED  BY <1>4, <1>7, <1>9, <1>10 DEF VirtioInv

\* A step that changes nothing keeps the invariant.
LEMMA VirtioStutter ==
  ASSUME VirtioInv, UNCHANGED vars
  PROVE  VirtioInv'
  <1>1. UNCHANGED <<free, desc, ring, info, busy, lock, idx, device, buf, last>> /\ pc' = pc
    BY DEF vars
  <1>2. pc' \in [Proc -> Places]
    BY <1>1 DEF VirtioInv, Types
  <1> QED  BY <1>1, <1>2, PlacesMove

\* Every step of the callers, the device and the interrupt handler keeps the invariant.
LEMMA VirtioNext ==
  ASSUME VirtioAssumption, VirtioInv, [Next]_vars
  PROVE  VirtioInv'
  <1>1. ASSUME NEW p \in Proc, CallRead(p) \/ Kill(p) PROVE VirtioInv'
    BY <1>1, CallReadStep, KillStep
  <1>2. ASSUME NEW p \in Proc, NEW v \in Val, CallWrite(p, v) PROVE VirtioInv'
    BY <1>2, CallWriteStep
  <1>3. ASSUME NEW p \in Proc, Step(p) PROVE VirtioInv'
    BY <1>3, AllocFailsStep, FormatStep, PublishStep, SleepAgainStep, ReturnStep DEF Step
  <1>4. ASSUME Intr PROVE VirtioInv'
    BY <1>4, IntrEnterStep, IntrEntryStep DEF Intr
  <1>5. ASSUME DeviceTake PROVE VirtioInv'
    BY <1>5, DeviceTakeStep
  <1>6. ASSUME NEW h \in Desc, DeviceComplete(h) PROVE VirtioInv'
    BY <1>6, DeviceCompleteStep
  <1> QED  BY <1>1, <1>2, <1>3, <1>4, <1>5, <1>6, VirtioStutter DEF Next

\* Every state of driver and device satisfies the invariant, whatever the order in
\* which the device takes and completes requests.
THEOREM VirtioInvariant == Spec => []VirtioInv
  <1>1. Init => VirtioInv
    BY VirtioAssumption, VirtioInit
  <1>2. VirtioInv /\ [Next]_vars => VirtioInv'
    BY VirtioAssumption, VirtioNext
  <1> QED  BY <1>1, <1>2, PTL DEF Spec

\* A request that has returned was carried out, on its own buffer and block
\* (virtio_disk.c:252-258).
THEOREM TransfersAreDone == Spec => []TransfersDone
  <1>1. VirtioInv => TransfersDone
    BY DEF VirtioInv, PlaceOK, Served, TransfersDone
  <1> QED  BY <1>1, VirtioInvariant, PTL

\* As long as the device may look at a request its descriptors are its own, and
\* neither panic of free_desc() nor a cleared buffer pointer in virtio_disk_intr()
\* is possible (virtio_disk.c:147, 200-246 and 257).
THEOREM ChainsStayIntact == Spec => []ChainsIntact
  <1>1. ASSUME VirtioInv PROVE ChainsIntact
    <2>1. Waiting = taken \cup {avail[i] : i \in Untaken}
      BY DEF Waiting, Untaken, Slots, Steps
    <2>2. ASSUME NEW p \in Proc, Owns(p)
          PROVE  /\ Chain(idx[p][1]) = Three(idx[p]) /\ \A d \in Three(idx[p]) : ~free[d]
                 /\ desc[idx[p][1]].of = p /\ desc[desc[idx[p][1]].next].of = p
                 /\ info[idx[p][1]] = p
      BY <1>1, <2>2 DEF VirtioInv, ChainOK, Chain, Three
    <2>3. ASSUME NEW h \in Waiting
          PROVE  /\ InFlight(h) /\ info[h] \in Proc /\ Owns(info[h]) /\ h = idx[info[h]][1]
      <3>1. InFlight(h)
        BY <1>1, <2>1, <2>3 DEF VirtioInv, AvailOK, TakenOK
      <3> QED  BY <1>1, <3>1, Flying
    <2>4. ASSUME NEW h \in Waiting
          PROVE  /\ \A d \in Chain(h) : ~free[d]
                 /\ info[h] = desc[h].of /\ idx[desc[h].of][1] = h
                 /\ desc[desc[h].next].of = desc[h].of
      <3>1. PICK p \in Proc : p = info[h]
        BY <2>3
      <3>2. Owns(p) /\ h = idx[p][1]
        BY <2>3, <3>1
      <3>3. /\ Chain(h) = Three(idx[p]) /\ \A d \in Three(idx[p]) : ~free[d]
            /\ desc[h].of = p /\ desc[desc[h].next].of = p /\ info[h] = p
        BY <2>2, <3>2
      <3> QED  BY <3>2, <3>3
    <2>5. ASSUME NEW h \in Waiting, NEW k \in Waiting, h # k PROVE Chain(h) \cap Chain(k) = {}
      <3>1. info[h] # info[k]
        BY <2>3, <2>5
      <3>2. Three(idx[info[h]]) \cap Three(idx[info[k]]) = {}
        BY <1>1, <2>3, <3>1 DEF VirtioInv, ChainsApart
      <3> QED  BY <2>2, <2>3, <3>2
    <2>6. ASSUME NEW p \in Proc, pc[p] = "woken" /\ ~busy[p]
          PROVE  \A d \in Chain(idx[p][1]) : ~free[d]
      <3>1. Owns(p)
        BY <2>6 DEF Owns, Owning
      <3> QED  BY <2>2, <3>1
    <2>7. ASSUME usedIdx % NUM # usedId % NUM PROVE info[UsedEntry] # None
      <3>1. usedId % NUM \in 0..NUM - 1 /\ usedIdx % NUM = usedIdx /\ usedIdx \in 0..NUM - 1
        BY <1>1, VirtioAssumption, UsedEnd DEF VirtioInv, Types
      <3>2. Modulus(NUM) /\ NUM \in Nat
        BY VirtioAssumption, Moduli DEF VirtioAssumption
      <3>3. PICK e \in 0..NUM - 1 : e = usedId % NUM
        BY <3>1
      <3>4. Steps(usedIdx, e, NUM) \in 0..NUM - 1
        BY VirtioAssumption, <3>1, <3>2, SlotAtEnd
      <3>5. Steps(usedIdx, e, NUM) < NUM
        BY <3>2, <3>4, SMTT(30)
      <3>6. usedIdx % NUM \in Slots(usedIdx, e, NUM)
        BY VirtioAssumption, <2>7, <3>1, <3>2, <3>3, <3>5, StartMoves
      <3>7. usedIdx \in Unseen
        BY <3>1, <3>3, <3>6 DEF Unseen
      <3>8. info[used[usedIdx]] \in Proc
        BY <1>1, <3>7 DEF VirtioInv, UsedOK, InFlight
      <3> QED  BY <3>8, VirtioAssumption DEF UsedEntry, VirtioAssumption
    <2> QED  BY <2>4, <2>5, <2>6, <2>7 DEF ChainsIntact
  <1> QED  BY <1>1, VirtioInvariant, PTL

\* No wakeup of the disk driver is lost (virtio_disk.c:150, 197, 254 and 275), nor
\* an interrupt (line 268).
THEOREM DiskForgetsNobody == Spec => []NobodyForgotten
  <1>1. ASSUME VirtioInv PROVE NobodyForgotten
    <2>1. lock = None => lock # "intr"
      BY VirtioAssumption DEF VirtioAssumption
    <2> QED  BY <1>1, <2>1 DEF VirtioInv, PlaceOK, IntrOK, NobodyForgotten
  <1> QED  BY <1>1, VirtioInvariant, PTL
=============================================================================
