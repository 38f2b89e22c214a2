--------------------------- MODULE VirtQueueProofs ---------------------------
(***************************************************************************)
(* Proofs about the network card: its rings lose no descriptor and its     *)
(* frames keep their order, for any size of the rings and any number of    *)
(* frames, sends that time out and completions that come late.             *)
(***************************************************************************)
EXTENDS VirtQueue, TLAPS

\* A virtqueue, with its indices on 16 bits.
Queue == [next : [Desc -> Desc], head : Desc, free : 0 .. Size,
          avail : [Desc -> Desc], availIdx : 0 .. IdxMod - 1, taken : 0 .. IdxMod - 1,
          used : [Desc -> Desc], usedIdx : 0 .. IdxMod - 1, last : 0 .. IdxMod - 1]

\* The descriptor i places behind last_used_idx: completed, and then in the used
\* ring, for the first u places, and behind these still in the available ring.
Held(q, u, i) == IF i < u THEN q.used[(q.last + i) % Size] ELSE q.avail[(q.last + i) % Size]

\* n descriptors are outstanding and the first u of them completed.  The device
\* completes what it takes at once and in order, so its cursor is the used index.
Indices(q, n, u) ==
    /\ n \in 0 .. Size /\ u \in 0 .. n
    /\ q.availIdx = (q.last + n) % IdxMod
    /\ q.usedIdx = (q.last + u) % IdxMod
    /\ q.taken = q.usedIdx
    /\ q.free = Size - n

\* Every descriptor has one place: on the free list l or among the outstanding.
OnceEach(q, n, u, l) ==
    /\ \A i, j \in 1 .. Size - n : l[i] = l[j] => i = j
    /\ \A i, j \in 0 .. n - 1 : Held(q, u, i) = Held(q, u, j) => i = j
    /\ \A i \in 1 .. Size - n, j \in 0 .. n - 1 : l[i] # Held(q, u, j)
    /\ \A d \in Desc : \/ \E i \in 1 .. Size - n : d = l[i]
                       \/ \E j \in 0 .. n - 1 : d = Held(q, u, j)

\* The inductive invariant of one queue.
QueueIs(q, n, u, l) ==
    /\ q \in Queue
    /\ Indices(q, n, u)
    /\ l \in [1 .. Size - n -> Desc] /\ IsFreeList(q, l)
    /\ OnceEach(q, n, u, l)

\* The n outstanding receive descriptors are those of the n posted buffers, one
\* each; the u frames not fetched yet lie in the buffers of the first u of them,
\* in the order of their arrival, and follow those handed up.
Received(n, u) ==
    /\ posted \in Seq(Desc) /\ Len(posted) = n /\ n <= RxBufs
    /\ \A b, c \in Bufs : posted[b] = posted[c] => b = c
    /\ \A b \in Bufs : \E i \in 0 .. n - 1 : posted[b] = Held(rx, u, i)
    /\ \A i \in 0 .. n - 1 : \E b \in Bufs : posted[b] = Held(rx, u, i)
    /\ inBuf \in [1 .. RxBufs -> Nat]
    /\ got \in Seq(Nat) /\ arrived = Len(got) + u
    /\ \A i \in 0 .. u - 1, b \in Bufs : posted[b] = Held(rx, u, i) => inBuf[b] = Len(got) + i + 1
    /\ \A i \in 1 .. Len(got) : got[i] = i

-------------------------------------------------------------------------------
(* Ring indices *)

\* Division with remainder.
LEMMA DivMod ==
    ASSUME NEW n \in Nat, NEW m \in Nat \ {0}
    PROVE  /\ n \div m \in Nat /\ n % m \in 0 .. m - 1
           /\ n = m * (n \div m) + (n % m)
  OBVIOUS

\* The quotient and the remainder are unique.
LEMMA OneRemainder ==
    ASSUME NEW m \in Nat \ {0}, NEW a \in Nat, NEW b \in Nat,
           NEW r \in 0 .. m - 1, NEW s \in 0 .. m - 1, m * a + r = m * b + s
    PROVE  a = b /\ r = s
  <1>1. m * (a - b) = s - r
    OBVIOUS
  <1>2. a - b = 0
    <2>1. CASE a - b >= 1
      <3>1. m * (a - b) >= m
        BY <2>1
      <3> QED  BY <3>1, <1>1
    <2>2. CASE a - b <= -1
      <3>1. m * (a - b) <= -m
        BY <2>2
      <3> QED  BY <3>1, <1>1
    <2> QED  BY <2>1, <2>2
  <1> QED  BY <1>1, <1>2

\* What is m * a + r leaves the remainder r.
LEMMA RemainderIs ==
    ASSUME NEW m \in Nat \ {0}, NEW a \in Nat, NEW r \in 0 .. m - 1, NEW n \in Nat, n = m * a + r
    PROVE  n % m = r
  <1> DEFINE b == n \div m
             s == n % m
  <1>1. b \in Nat /\ s \in 0 .. m - 1 /\ n = m * b + s
    BY ZenonT(30), DivMod
  <1> HIDE DEF b, s
  <1>2. m * a + r = m * b + s
    BY ZenonT(30), <1>1
  <1>3. r = s
    BY ZenonT(30), <1>1, <1>2, OneRemainder
  <1> QED  BY ZenonT(30), <1>3 DEF s

\* Reducing a summand first changes nothing: the index wraps as a 16-bit number.
LEMMA SumWraps ==
    ASSUME NEW m \in Nat \ {0}, NEW a \in Nat, NEW b \in Nat
    PROVE  ((a % m) + b) % m = (a + b) % m
  <1> DEFINE q == a \div m
             r == a % m
  <1>1. q \in Nat /\ r \in 0 .. m - 1 /\ a = m * q + r
    BY ZenonT(30), DivMod
  <1> HIDE DEF q, r
  <1> DEFINE k == (r + b) \div m
             s == (r + b) % m
  <1>2. r + b \in Nat
    BY <1>1
  <1>3. k \in Nat /\ s \in 0 .. m - 1 /\ r + b = m * k + s
    BY ZenonT(30), <1>2, DivMod
  <1> HIDE DEF k, s
  <1>4. a + b = m * (q + k) + s /\ q + k \in Nat /\ a + b \in Nat
    <2>1. m * (q + k) = m * q + m * k
      BY <1>1, <1>3
    <2>2. m * q \in Nat /\ m * k \in Nat
      BY <1>1, <1>3
    <2> QED  BY <1>1, <1>3, <2>1, <2>2
  <1>5. (a + b) % m = s
    <2> DEFINE w == q + k
               n == a + b
    <2>1. n = m * w + s /\ w \in Nat /\ n \in Nat
      BY ZenonT(30), <1>4
    <2> HIDE DEF w, n
    <2>2. n % m = s
      BY SMTT(60), <1>3, <2>1, RemainderIs
    <2> QED  BY ZenonT(30), <2>2 DEF n
  <1> QED  BY ZenonT(30), <1>5 DEF s, r

\* An index masked to the ring's size, as the size divides 2^16.
LEMMA WrapThenMask ==
    ASSUME NEW a \in Nat
    PROVE  (a % IdxMod) % Size = a % Size
  <1>1. Size \in Nat \ {0} /\ IdxMod \in Nat \ {0}
    BY QueueAssumption
  <1> DEFINE t == IdxMod \div Size
             q == a \div IdxMod
             r == a % IdxMod
  <1>2. t \in Nat /\ IdxMod = Size * t + (IdxMod % Size)
    BY ZenonT(30), <1>1, DivMod
  <1>3. IdxMod = Size * t
    BY <1>1, <1>2, QueueAssumption
  <1>4. q \in Nat /\ r \in 0 .. IdxMod - 1 /\ a = IdxMod * q + r
    BY ZenonT(30), <1>1, DivMod
  <1> HIDE DEF t, q, r
  <1> DEFINE k == r \div Size
             s == r % Size
  <1>5. r \in Nat
    BY <1>1, <1>4
  <1>6. k \in Nat /\ s \in 0 .. Size - 1 /\ r = Size * k + s
    BY ZenonT(30), <1>1, <1>5, DivMod
  <1> HIDE DEF k, s
  <1>7. t * q \in Nat /\ IdxMod * q = Size * (t * q)
    BY <1>1, <1>2, <1>3, <1>4
  <1>8. Size * (t * q + k) = Size * (t * q) + Size * k /\ t * q + k \in Nat
    BY <1>1, <1>6, <1>7
  <1>9. a = Size * (t * q + k) + s
    <2>1. Size * (t * q) \in Nat /\ Size * k \in Nat
      BY <1>1, <1>6, <1>7
    <2> QED  BY <1>4, <1>6, <1>7, <1>8, <2>1
  <1>10. a % Size = s
    <2> DEFINE w == t * q + k
    <2>1. a = Size * w + s /\ w \in Nat
      BY ZenonT(30), <1>8, <1>9
    <2> HIDE DEF w
    <2> QED  BY SMTT(60), <1>1, <1>6, <2>1, RemainderIs
  <1> QED  BY ZenonT(30), <1>10 DEF s, r

\* Places of the ring that are less than a turn apart are different.
LEMMA PlacesDiffer ==
    ASSUME NEW a \in Nat, NEW i \in 0 .. Size - 1, NEW j \in 0 .. Size - 1,
           (a + i) % Size = (a + j) % Size
    PROVE  i = j
  <1>1. Size \in Nat \ {0}
    BY ZenonT(30), QueueAssumption
  <1> DEFINE x == a + i
             y == a + j
             p == x \div Size
             q == y \div Size
  <1>2. x \in Nat /\ y \in Nat /\ x - y = i - j
    BY <1>1
  <1>3. x % Size = y % Size
    OBVIOUS
  <1> HIDE DEF x, y
  <1>4. /\ p \in Nat /\ x = Size * p + (x % Size) /\ x % Size \in 0 .. Size - 1
        /\ q \in Nat /\ y = Size * q + (y % Size)
    BY ZenonT(30), <1>1, <1>2, DivMod
  <1> HIDE DEF p, q
  <1>5. Size * (p - q) = i - j
    <2>1. Size * p \in Nat /\ Size * q \in Nat /\ Size * (p - q) = Size * p - Size * q
      BY <1>1, <1>4
    <2>2. x % Size \in Nat
      BY <1>1, <1>4
    <2> QED  BY <1>2, <1>3, <1>4, <2>1, <2>2
  <1>6. p - q = 0
    <2>1. CASE p - q >= 1
      <3>1. Size * (p - q) >= Size
        BY <1>1, <1>4, <2>1
      <3> QED  BY <3>1, <1>1, <1>5
    <2>2. CASE p - q <= -1
      <3>1. Size * (p - q) <= -Size
        BY <1>1, <1>4, <2>2
      <3> QED  BY <3>1, <1>1, <1>5
    <2> QED  BY <2>1, <2>2, <1>4
  <1> QED  BY <1>1, <1>5, <1>6

\* The distance of two indices is what was added to the first.
LEMMA DistanceIs ==
    ASSUME NEW a \in 0 .. IdxMod - 1, NEW n \in 0 .. IdxMod - 1
    PROVE  Between(a, (a + n) % IdxMod) = n
  <1>1. IdxMod \in Nat \ {0}
    BY QueueAssumption
  <1> DEFINE e == (a + n) % IdxMod
  <1>2. \/ a + n \in 0 .. IdxMod - 1 /\ e = a + n
        \/ a + n - IdxMod \in 0 .. IdxMod - 1 /\ e = a + n - IdxMod
    <2>1. CASE a + n < IdxMod
      <3>1. a + n \in Nat /\ a + n \in 0 .. IdxMod - 1 /\ a + n = IdxMod * 0 + (a + n)
        BY <1>1, <2>1
      <3>2. (a + n) % IdxMod = a + n
        BY SMTT(60), <1>1, <3>1, RemainderIs
      <3> QED  BY ZenonT(30), <3>1, <3>2
    <2>2. CASE a + n >= IdxMod
      <3> DEFINE d == a + n - IdxMod
                 s == a + n
      <3>1. s \in Nat /\ d \in 0 .. IdxMod - 1 /\ s = IdxMod * 1 + d
        BY <1>1, <2>2
      <3> HIDE DEF d, s
      <3>2. s % IdxMod = d
        BY SMTT(60), <1>1, <3>1, RemainderIs
      <3> QED  BY ZenonT(30), <3>1, <3>2 DEF s, d
    <2> QED  BY <1>1, <2>1, <2>2
  <1> HIDE DEF e
  <1> DEFINE x == e + IdxMod - a
  <1>3. x \in Nat /\ (x = IdxMod * 1 + n \/ x = IdxMod * 0 + n)
    BY <1>1, <1>2
  <1> HIDE DEF x
  <1>4. x % IdxMod = n
    BY SMTT(60), <1>1, <1>3, RemainderIs
  <1> QED  BY ZenonT(30), <1>4 DEF x, e, Between

-------------------------------------------------------------------------------
(* The queue operations *)

\* What the invariant says of the fields.
LEMMA QueueFields ==
    ASSUME NEW q \in Queue
    PROVE  /\ q.next \in [Desc -> Desc] /\ q.head \in Desc /\ q.free \in Int
           /\ q.avail \in [Desc -> Desc] /\ q.used \in [Desc -> Desc]
           /\ q.availIdx \in Nat /\ q.usedIdx \in Nat /\ q.taken \in Nat /\ q.last \in Nat
           /\ q.last \in 0 .. IdxMod - 1
  BY QueueAssumption DEF Queue

\* A place of the ring is a place of the ring.
LEMMA PlaceIn ==
    ASSUME NEW a \in Nat
    PROVE  a % Size \in Desc /\ a % IdxMod \in 0 .. IdxMod - 1
  <1>1. Size \in Nat \ {0} /\ IdxMod \in Nat \ {0}
    BY QueueAssumption
  <1> QED  BY ZenonT(30), <1>1, DivMod DEF Desc

\* add_buf, field by field.
LEMMA AddFields ==
    ASSUME NEW q \in Queue, q.free > 0, NEW r, r = AddBuf(q)
    PROVE  /\ r \in Queue
           /\ r.head = q.next[q.head] /\ r.free = q.free - 1
           /\ r.next = [q.next EXCEPT ![q.head] = 0]
           /\ r.avail = [q.avail EXCEPT ![q.availIdx % Size] = q.head]
           /\ r.availIdx = (q.availIdx + 1) % IdxMod
           /\ r.used = q.used /\ r.usedIdx = q.usedIdx /\ r.taken = q.taken /\ r.last = q.last
  <1>1. /\ q.next[q.head] \in Desc /\ q.free - 1 \in 0 .. Size
        /\ [q.next EXCEPT ![q.head] = 0] \in [Desc -> Desc]
    <2>1. q.next \in [Desc -> Desc] /\ q.head \in Desc
      BY ZenonT(30), QueueFields
    <2>2. 0 \in Desc
      BY QueueAssumption DEF Desc
    <2>3. q.free \in 0 .. Size
      BY ZenonT(30) DEF Queue
    <2>4. q.free - 1 \in 0 .. Size
      BY <2>3, QueueAssumption
    <2> QED  BY ZenonT(30), <2>1, <2>2, <2>4
  <1>2. (q.availIdx + 1) % IdxMod \in 0 .. IdxMod - 1
    BY QueueFields, PlaceIn
  <1>3. [q.avail EXCEPT ![q.availIdx % Size] = q.head] \in [Desc -> Desc]
    BY ZenonT(30), QueueFields
  <1> QED  BY ZenonT(60), <1>1, <1>2, <1>3 DEF AddBuf, Queue

\* pop_used and free_chain of d make r of q, field by field.
Reaped(q, d, r) ==
    /\ r \in Queue
    /\ r.head = d /\ r.free = q.free + 1
    /\ r.next = [q.next EXCEPT ![d] = q.head]
    /\ r.avail = q.avail /\ r.availIdx = q.availIdx
    /\ r.used = q.used /\ r.usedIdx = q.usedIdx /\ r.taken = q.taken
    /\ r.last = (q.last + 1) % IdxMod

\* pop_used and free_chain do that.
LEMMA ReapFields ==
    ASSUME NEW q \in Queue, NEW d \in Desc, q.free + 1 \in 0 .. Size
    PROVE  Reaped(q, d, FreeChain(PopUsed(q), d))
  <1>1. [q.next EXCEPT ![d] = q.head] \in [Desc -> Desc]
    BY ZenonT(30), QueueFields
  <1>2. (q.last + 1) % IdxMod \in 0 .. IdxMod - 1
    BY QueueFields, PlaceIn
  <1> QED  BY ZenonT(60), <1>1, <1>2 DEF FreeChain, PopUsed, Queue, Reaped

\* A completion by the device, field by field.
LEMMA DoneFields ==
    ASSUME NEW q \in Queue, NEW r, r = DeviceDone(q)
    PROVE  /\ r \in Queue
           /\ r.head = q.head /\ r.free = q.free /\ r.next = q.next
           /\ r.avail = q.avail /\ r.availIdx = q.availIdx
           /\ r.used = [q.used EXCEPT ![q.usedIdx % Size] = DeviceNext(q)]
           /\ r.usedIdx = (q.usedIdx + 1) % IdxMod
           /\ r.taken = (q.taken + 1) % IdxMod /\ r.last = q.last
  <1>1. q.avail[q.taken % Size] \in Desc
    BY ZenonT(30), QueueFields, PlaceIn
  <1>2. [q.used EXCEPT ![q.usedIdx % Size] = DeviceNext(q)] \in [Desc -> Desc]
    BY ZenonT(30), <1>1, QueueFields DEF DeviceNext
  <1>3. (q.usedIdx + 1) % IdxMod \in 0 .. IdxMod - 1 /\ (q.taken + 1) % IdxMod \in 0 .. IdxMod - 1
    BY QueueFields, PlaceIn
  <1> HIDE DEF DeviceNext
  <1> QED  BY ZenonT(60), <1>2, <1>3 DEF DeviceDone, Queue

\* The index the device's cursor or the driver's stands at, as a place of the ring.
LEMMA PlaceOf ==
    ASSUME NEW q \in Queue, NEW n \in Nat, NEW k, k = (q.last + n) % IdxMod
    PROVE  k % Size = (q.last + n) % Size /\ (k + 1) % IdxMod = (q.last + (n + 1)) % IdxMod
  <1>1. q.last \in Nat /\ q.last + n \in Nat /\ IdxMod \in Nat \ {0} /\ 1 \in Nat
    BY QueueFields, QueueAssumption
  <1>2. k % Size = (q.last + n) % Size
    BY ZenonT(30), <1>1, WrapThenMask
  <1>3. (k + 1) % IdxMod = ((q.last + n) + 1) % IdxMod
    BY ZenonT(30), <1>1, SumWraps
  <1>4. (q.last + n) + 1 = q.last + (n + 1)
    BY <1>1
  <1> QED  BY ZenonT(30), <1>2, <1>3, <1>4

\* add_buf moves the head of the free list to the end of what is outstanding.
LEMMA AddKeeps ==
    ASSUME NEW q, NEW n, NEW u, NEW l, QueueIs(q, n, u, l), q.free > 0, NEW r, r = AddBuf(q),
           NEW m, m = [i \in 1 .. Size - (n + 1) |-> l[i + 1]]
    PROVE  /\ QueueIs(r, n + 1, u, m)
           /\ \A j \in 0 .. n - 1 : Held(r, u, j) = Held(q, u, j)
           /\ Held(r, u, n) = q.head /\ q.head = l[1]
           /\ \A j \in 0 .. n - 1 : q.head # Held(q, u, j)
  <1>1. /\ q \in Queue /\ n \in 0 .. Size /\ u \in 0 .. n /\ q.free = Size - n
        /\ q.availIdx = (q.last + n) % IdxMod /\ q.usedIdx = (q.last + u) % IdxMod /\ q.taken = q.usedIdx
        /\ l \in [1 .. Size - n -> Desc] /\ IsFreeList(q, l) /\ OnceEach(q, n, u, l)
    BY ZenonT(30) DEF QueueIs, Indices
  <1>2. Size \in Nat /\ n \in Nat /\ u \in Nat /\ n < Size /\ 1 \in 1 .. Size - n
    BY <1>1, QueueAssumption
  <1>3. /\ r \in Queue
        /\ r.head = q.next[q.head] /\ r.free = q.free - 1
        /\ r.next = [q.next EXCEPT ![q.head] = 0]
        /\ r.avail = [q.avail EXCEPT ![q.availIdx % Size] = q.head]
        /\ r.availIdx = (q.availIdx + 1) % IdxMod
        /\ r.used = q.used /\ r.usedIdx = q.usedIdx /\ r.taken = q.taken /\ r.last = q.last
    BY ZenonT(30), <1>1, AddFields
  <1>4. q.availIdx % Size = (q.last + n) % Size /\ r.availIdx = (r.last + (n + 1)) % IdxMod
    <2>1. q.availIdx % Size = (q.last + n) % Size /\ (q.availIdx + 1) % IdxMod = (q.last + (n + 1)) % IdxMod
      BY ZenonT(30), <1>1, <1>2, PlaceOf
    <2> QED  BY ZenonT(30), <1>3, <2>1
  <1>5. /\ q.next \in [Desc -> Desc] /\ q.avail \in [Desc -> Desc] /\ q.last \in Nat
        /\ q.head \in Desc
    BY ZenonT(30), <1>1, QueueFields
  <1>6. \A j \in 0 .. n : (q.last + j) % Size \in Desc
    <2>1. \A j \in 0 .. n : q.last + j \in Nat
      BY <1>2, <1>5
    <2> QED  BY ZenonT(30), <2>1, PlaceIn
  <1>7. \A j \in 0 .. n - 1 : (q.last + j) % Size # (q.last + n) % Size
    <2> TAKE j \in 0 .. n - 1
    <2>1. j \in 0 .. Size - 1 /\ n \in 0 .. Size - 1 /\ j # n
      BY <1>2
    <2> QED  BY ZenonT(30), <1>5, <2>1, PlacesDiffer
  <1>8. /\ \A j \in 0 .. n - 1 : r.avail[(q.last + j) % Size] = q.avail[(q.last + j) % Size]
        /\ r.avail[(q.last + n) % Size] = q.head
    <2>1. n \in 0 .. n /\ \A j \in 0 .. n - 1 : j \in 0 .. n
      BY <1>2
    <2> QED  BY SMTT(60), <1>3, <1>4, <1>5, <1>6, <1>7, <2>1
  <1>9. \A j \in 0 .. n - 1 : Held(r, u, j) = Held(q, u, j)
    BY ZenonT(30), <1>3, <1>8 DEF Held
  <1>10. Held(r, u, n) = q.head
    <2>1. ~(n < u)
      BY <1>1, <1>2
    <2> QED  BY ZenonT(30), <1>3, <1>8, <2>1 DEF Held
  <1>11. q.head = l[1]
    BY ZenonT(30), <1>1 DEF IsFreeList
  <1>12. \A j \in 0 .. n - 1 : q.head # Held(q, u, j)
    BY ZenonT(30), <1>1, <1>2, <1>11 DEF OnceEach
  <1>13. Indices(r, n + 1, u)
    <2>1. n + 1 \in 0 .. Size /\ u \in 0 .. n + 1 /\ r.free = Size - (n + 1)
      BY <1>1, <1>2, <1>3
    <2> QED  BY ZenonT(30), <1>1, <1>3, <1>4, <2>1 DEF Indices
  <1>14. \A i \in 1 .. Size - (n + 1) : i + 1 \in 1 .. Size - n /\ i + 1 # 1 /\ i \in 1 .. Size - n
    BY <1>2
  <1>15. m \in [1 .. Size - (n + 1) -> Desc] /\ \A i \in 1 .. Size - (n + 1) : m[i] = l[i + 1]
    BY ZenonT(30), <1>1, <1>14
  <1>16. \A i \in 1 .. Size - (n + 1) : m[i] # q.head
    BY ZenonT(30), <1>1, <1>2, <1>11, <1>14, <1>15 DEF OnceEach
  <1>17. IsFreeList(r, m)
    <2>1. ASSUME r.free > 0 PROVE m[1] = r.head
      <3>1. 1 \in 1 .. Size - (n + 1) /\ 1 \in 1 .. q.free - 1 /\ 1 + 1 = 2
        BY <1>1, <1>2, <1>3, <2>1
      <3>2. m[1] = l[1 + 1]
        BY ZenonT(30), <1>15, <3>1
      <3>3. l[1 + 1] = q.next[l[1]]
        BY ZenonT(30), <1>1, <3>1 DEF IsFreeList
      <3> QED  BY ZenonT(30), <1>3, <1>11, <3>2, <3>3
    <2>2. ASSUME NEW i \in 1 .. r.free - 1 PROVE m[i + 1] = r.next[m[i]]
      <3>1. /\ i \in 1 .. Size - (n + 1) /\ i + 1 \in 1 .. Size - (n + 1)
            /\ i + 1 \in 1 .. q.free - 1
        BY <1>1, <1>2, <1>3
      <3>2. m[i] = l[i + 1] /\ m[i + 1] = l[i + 1 + 1] /\ m[i] # q.head /\ m[i] \in Desc
        BY ZenonT(30), <1>15, <1>16, <3>1
      <3>3. l[i + 1 + 1] = q.next[l[i + 1]]
        BY ZenonT(30), <1>1, <3>1 DEF IsFreeList
      <3>4. r.next[m[i]] = q.next[m[i]]
        BY SMTT(60), <1>3, <1>5, <3>2
      <3> QED  BY ZenonT(30), <3>2, <3>3, <3>4
    <2> QED  BY ZenonT(30), <2>1, <2>2 DEF IsFreeList
  <1>18. OnceEach(r, n + 1, u, m)
    <2>0. \A j \in 0 .. (n + 1) - 1 : j = n \/ j \in 0 .. n - 1
      BY <1>2
    <2>1. \A i, j \in 1 .. Size - (n + 1) : m[i] = m[j] => i = j
      <3> TAKE i, j \in 1 .. Size - (n + 1)
      <3> HAVE m[i] = m[j]
      <3>1. i + 1 = j + 1
        BY ZenonT(30), <1>1, <1>14, <1>15 DEF OnceEach
      <3> QED  BY <3>1
    <2>2. \A i, j \in 0 .. (n + 1) - 1 : Held(r, u, i) = Held(r, u, j) => i = j
      <3> TAKE i, j \in 0 .. (n + 1) - 1
      <3> HAVE Held(r, u, i) = Held(r, u, j)
      <3>1. CASE i = n /\ j # n
        BY ZenonT(30), <1>9, <1>10, <1>12, <2>0, <3>1
      <3>2. CASE i # n /\ j = n
        BY ZenonT(30), <1>9, <1>10, <1>12, <2>0, <3>2
      <3>3. CASE i # n /\ j # n
        <4>1. i \in 0 .. n - 1 /\ j \in 0 .. n - 1 /\ Held(q, u, i) = Held(q, u, j)
          BY ZenonT(30), <1>9, <2>0, <3>3
        <4> QED  BY ZenonT(30), <4>1, <1>1 DEF OnceEach
      <3> QED  BY ZenonT(30), <3>1, <3>2, <3>3
    <2>3. \A i \in 1 .. Size - (n + 1), j \in 0 .. (n + 1) - 1 : m[i] # Held(r, u, j)
      <3> TAKE i \in 1 .. Size - (n + 1), j \in 0 .. (n + 1) - 1
      <3>1. CASE j = n
        BY ZenonT(30), <3>1, <1>10, <1>16
      <3>2. CASE j # n
        <4>1. j \in 0 .. n - 1 /\ i + 1 \in 1 .. Size - n /\ m[i] = l[i + 1]
          BY ZenonT(30), <3>2, <2>0, <1>14, <1>15
        <4>2. l[i + 1] # Held(q, u, j)
          BY ZenonT(30), <4>1, <1>1 DEF OnceEach
        <4> QED  BY ZenonT(30), <4>1, <4>2, <1>9
      <3> QED  BY ZenonT(30), <3>1, <3>2
    <2>4. ASSUME NEW d \in Desc
          PROVE  \/ \E i \in 1 .. Size - (n + 1) : d = m[i]
                 \/ \E j \in 0 .. (n + 1) - 1 : d = Held(r, u, j)
      <3>1. n \in 0 .. (n + 1) - 1 /\ \A j \in 0 .. n - 1 : j \in 0 .. (n + 1) - 1
        BY <1>2
      <3>2. CASE \E j \in 0 .. n - 1 : d = Held(q, u, j)
        BY ZenonT(30), <3>1, <3>2, <1>9
      <3>3. CASE \E i \in 1 .. Size - n : d = l[i]
        <4>1. PICK i \in 1 .. Size - n : d = l[i]
          BY ZenonT(30), <3>3
        <4>2. CASE i = 1
          BY ZenonT(30), <4>1, <4>2, <3>1, <1>10, <1>11
        <4>3. CASE i # 1
          <5>1. i - 1 \in 1 .. Size - (n + 1) /\ i - 1 + 1 = i
            BY <4>3, <1>2
          <5>2. m[i - 1] = l[i]
            BY ZenonT(30), <5>1, <1>15
          <5> QED  BY ZenonT(30), <4>1, <5>1, <5>2
        <4> QED  BY ZenonT(30), <4>2, <4>3
      <3> QED  BY ZenonT(30), <3>2, <3>3, <1>1 DEF OnceEach
    <2> QED  BY ZenonT(30), <2>1, <2>2, <2>3, <2>4 DEF OnceEach
  <1> QED  BY ZenonT(30), <1>3, <1>9, <1>10, <1>11, <1>12, <1>13, <1>15, <1>17, <1>18 DEF QueueIs

\* pop_used finds an entry exactly when the device has completed one, and it is
\* the first that is outstanding.
LEMMA PopIs ==
    ASSUME NEW q, NEW n, NEW u, NEW l, QueueIs(q, n, u, l)
    PROVE  /\ CanPop(q) => u > 0
           /\ u > 0 => Popped(q) = Held(q, u, 0)
  <1>1. q \in Queue /\ q.usedIdx = (q.last + u) % IdxMod /\ u \in Int
    BY DEF QueueIs, Indices
  <1>2. q.last \in 0 .. IdxMod - 1 /\ q.last \in Nat /\ IdxMod \in Nat \ {0} /\ u \in Nat /\ q.last + 0 = q.last
    BY <1>1, QueueFields, QueueAssumption DEF QueueIs, Indices
  <1>3. ASSUME u = 0 PROVE q.usedIdx = q.last
    <2>1. q.last = IdxMod * 0 + q.last
      BY <1>2
    <2>2. q.last % IdxMod = q.last
      BY SMTT(60), <1>2, <2>1, RemainderIs
    <2> QED  BY ZenonT(30), <1>1, <1>2, <1>3, <2>2
  <1>4. ASSUME u > 0 PROVE Popped(q) = Held(q, u, 0)
    BY ZenonT(30), <1>2, <1>4 DEF Popped, Held
  <1>5. u = 0 \/ u > 0
    BY <1>2
  <1> QED  BY ZenonT(30), <1>3, <1>4, <1>5 DEF CanPop

\* pop_used and free_chain move the first that is outstanding to the head of the
\* free list.
LEMMA ReapKeeps ==
    ASSUME NEW q, NEW n, NEW u, NEW l, QueueIs(q, n, u, l), u > 0, NEW d, d = Popped(q),
           NEW r, r = FreeChain(PopUsed(q), d),
           NEW m, m = [i \in 1 .. Size - (n - 1) |-> IF i = 1 THEN d ELSE l[i - 1]]
    PROVE  /\ QueueIs(r, n - 1, u - 1, m)
           /\ \A j \in 0 .. n - 2 : Held(r, u - 1, j) = Held(q, u, j + 1)
           /\ d = Held(q, u, 0) /\ d \in Desc /\ r.head = d /\ r.free > 0
  <1>1. /\ q \in Queue /\ n \in 0 .. Size /\ u \in 0 .. n /\ q.free = Size - n
        /\ q.availIdx = (q.last + n) % IdxMod /\ q.usedIdx = (q.last + u) % IdxMod /\ q.taken = q.usedIdx
        /\ l \in [1 .. Size - n -> Desc] /\ IsFreeList(q, l) /\ OnceEach(q, n, u, l)
    BY ZenonT(30) DEF QueueIs, Indices
  <1>2. Size \in Nat /\ n \in Nat /\ u \in Nat /\ n > 0 /\ n <= Size /\ q.free + 1 \in 0 .. Size /\ u <= n
    BY <1>1, QueueAssumption
  <1>3. d = Held(q, u, 0)
    BY ZenonT(30), PopIs
  <1>4. /\ q.next \in [Desc -> Desc] /\ q.avail \in [Desc -> Desc] /\ q.last \in Nat
        /\ q.head \in Desc /\ q.used \in [Desc -> Desc] /\ q.last + 1 \in Nat
    BY <1>1, QueueFields
  <1>5. d \in Desc
    BY ZenonT(30), <1>4, PlaceIn DEF Popped
  <1>6. /\ r \in Queue
        /\ r.head = d /\ r.free = q.free + 1
        /\ r.next = [q.next EXCEPT ![d] = q.head]
        /\ r.avail = q.avail /\ r.availIdx = q.availIdx
        /\ r.used = q.used /\ r.usedIdx = q.usedIdx /\ r.taken = q.taken
        /\ r.last = (q.last + 1) % IdxMod
    <2>1. q \in Queue /\ q.free + 1 \in 0 .. Size
      BY ZenonT(30), <1>1, <1>2
    <2>2. Reaped(q, d, FreeChain(PopUsed(q), d))
      BY ZenonT(30), <1>5, <2>1, ReapFields
    <2>3. Reaped(q, d, r)
      BY ZenonT(30), <2>2
    <2> QED  BY ZenonT(30), <2>3 DEF Reaped
  <1>7. \A j \in Nat : /\ (r.last + j) % Size = (q.last + (j + 1)) % Size
                       /\ (r.last + j) % IdxMod = (q.last + (j + 1)) % IdxMod
    <2> TAKE j \in Nat
    <2>1. IdxMod \in Nat \ {0} /\ Size \in Nat \ {0}
      BY QueueAssumption
    <2>2. (r.last + j) % IdxMod = ((q.last + 1) + j) % IdxMod
      <3>1. (((q.last + 1) % IdxMod) + j) % IdxMod = ((q.last + 1) + j) % IdxMod
        BY ZenonT(30), <1>4, <2>1, SumWraps
      <3> QED  BY ZenonT(30), <1>6, <3>1
    <2>3. (q.last + 1) + j = q.last + (j + 1) /\ q.last + (j + 1) \in Nat
      BY <1>4
    <2>4. r.last + j \in Nat
      BY <1>6, QueueFields
    <2>5. ((r.last + j) % IdxMod) % Size = (r.last + j) % Size
      BY ZenonT(30), <2>4, WrapThenMask
    <2>6. ((q.last + (j + 1)) % IdxMod) % Size = (q.last + (j + 1)) % Size
      BY ZenonT(30), <2>3, WrapThenMask
    <2> QED  BY ZenonT(30), <2>2, <2>3, <2>5, <2>6
  <1>8. \A j \in 0 .. n - 2 : Held(r, u - 1, j) = Held(q, u, j + 1)
    <2> TAKE j \in 0 .. n - 2
    <2>1. j \in Nat /\ (j < u - 1 <=> j + 1 < u)
      BY <1>2
    <2> QED  BY ZenonT(30), <1>6, <1>7, <2>1 DEF Held
  <1>9. Indices(r, n - 1, u - 1)
    <2>1. n - 1 \in Nat /\ u - 1 \in Nat /\ (n - 1) + 1 = n /\ (u - 1) + 1 = u
      BY <1>2
    <2>2. r.availIdx = (r.last + (n - 1)) % IdxMod /\ r.usedIdx = (r.last + (u - 1)) % IdxMod
      BY ZenonT(30), <1>1, <1>6, <1>7, <2>1
    <2>3. n - 1 \in 0 .. Size /\ u - 1 \in 0 .. n - 1 /\ r.free = Size - (n - 1)
      BY <1>1, <1>2, <1>6
    <2> QED  BY ZenonT(30), <1>1, <1>6, <2>2, <2>3 DEF Indices
  <1>10. /\ 1 \in 1 .. Size - (n - 1)
         /\ \A i \in 1 .. Size - (n - 1) : i # 1 => i - 1 \in 1 .. Size - n
         /\ \A i \in 1 .. Size - n : i + 1 \in 1 .. Size - (n - 1) /\ i + 1 # 1 /\ (i + 1) - 1 = i
    BY <1>2
  <1>11. /\ m \in [1 .. Size - (n - 1) -> Desc] /\ m[1] = d
         /\ \A i \in 1 .. Size - (n - 1) : i # 1 => m[i] = l[i - 1]
    BY ZenonT(30), <1>1, <1>5, <1>10
  <1>12. \A i \in 1 .. Size - n : l[i] # d /\ m[i + 1] = l[i] /\ l[i] \in Desc
    <2> TAKE i \in 1 .. Size - n
    <2>1. 0 \in 0 .. n - 1
      BY <1>2
    <2>2. l[i] # d
      BY ZenonT(30), <1>1, <1>3, <2>1 DEF OnceEach
    <2>3. m[i + 1] = l[i]
      BY ZenonT(30), <1>10, <1>11
    <2> QED  BY ZenonT(30), <1>1, <2>2, <2>3
  <1>13. IsFreeList(r, m)
    <2>1. m[1] = r.head
      BY ZenonT(30), <1>6, <1>11
    <2>2. ASSUME NEW i \in 1 .. r.free - 1 PROVE m[i + 1] = r.next[m[i]]
      <3>0. i \in 1 .. Size - n /\ i \in Int
        BY <1>1, <1>2, <1>6
      <3>1. CASE i = 1
        <4>1. q.free > 0
          BY <3>0, <1>1, <1>2
        <4>2. m[i + 1] = q.head
          BY ZenonT(30), <1>1, <1>12, <3>0, <3>1, <4>1 DEF IsFreeList
        <4> QED  BY SMTT(60), <1>4, <1>5, <1>6, <1>11, <3>1, <4>2
      <3>2. CASE i # 1
        <4>1. i - 1 \in 1 .. Size - n /\ i - 1 \in 1 .. q.free - 1 /\ (i - 1) + 1 = i
          BY <3>0, <3>2, <1>1, <1>2
        <4>2. m[i + 1] = l[i] /\ m[i] = l[i - 1] /\ l[i - 1] # d /\ l[i - 1] \in Desc
          BY ZenonT(30), <1>12, <3>0, <4>1
        <4>3. l[i] = q.next[l[i - 1]]
          BY ZenonT(30), <1>1, <4>1 DEF IsFreeList
        <4>4. r.next[l[i - 1]] = q.next[l[i - 1]]
          BY ZenonT(30), <1>4, <1>6, <4>2
        <4> QED  BY ZenonT(30), <4>2, <4>3, <4>4
      <3> QED  BY ZenonT(30), <3>1, <3>2
    <2> QED  BY ZenonT(30), <2>1, <2>2 DEF IsFreeList
  <1>14. OnceEach(r, n - 1, u - 1, m)
    <2>0. \A j \in 0 .. (n - 1) - 1 : j \in 0 .. n - 2 /\ j + 1 \in 0 .. n - 1 /\ j + 1 # 0 /\ j \in Int
      BY <1>2
    <2>1. \A i, j \in 1 .. Size - (n - 1) : m[i] = m[j] => i = j
      <3> TAKE i, j \in 1 .. Size - (n - 1)
      <3> HAVE m[i] = m[j]
      <3>1. CASE i # 1 /\ j # 1
        <4>1. i - 1 = j - 1
          BY ZenonT(30), <1>1, <1>10, <1>11, <3>1 DEF OnceEach
        <4> QED  BY <4>1
      <3>2. CASE i = 1 /\ j # 1
        BY ZenonT(30), <1>10, <1>11, <1>12, <3>2
      <3>3. CASE i # 1 /\ j = 1
        BY ZenonT(30), <1>10, <1>11, <1>12, <3>3
      <3> QED  BY ZenonT(30), <3>1, <3>2, <3>3
    <2>2. \A i, j \in 0 .. (n - 1) - 1 : Held(r, u - 1, i) = Held(r, u - 1, j) => i = j
      <3> TAKE i, j \in 0 .. (n - 1) - 1
      <3> HAVE Held(r, u - 1, i) = Held(r, u - 1, j)
      <3>1. Held(q, u, i + 1) = Held(q, u, j + 1)
        BY ZenonT(30), <1>8, <2>0
      <3>2. i + 1 = j + 1
        BY ZenonT(30), <1>1, <2>0, <3>1 DEF OnceEach
      <3> QED  BY <3>2
    <2>3. \A i \in 1 .. Size - (n - 1), j \in 0 .. (n - 1) - 1 : m[i] # Held(r, u - 1, j)
      <3> TAKE i \in 1 .. Size - (n - 1), j \in 0 .. (n - 1) - 1
      <3>1. Held(r, u - 1, j) = Held(q, u, j + 1) /\ j + 1 \in 0 .. n - 1 /\ j + 1 # 0 /\ 0 \in 0 .. n - 1
        BY <1>2, <1>8, <2>0
      <3>2. CASE i = 1
        BY ZenonT(30), <1>1, <1>3, <1>11, <3>1, <3>2 DEF OnceEach
      <3>3. CASE i # 1
        <4>1. m[i] = l[i - 1] /\ i - 1 \in 1 .. Size - n
          BY ZenonT(30), <1>10, <1>11, <3>3
        <4> QED  BY ZenonT(30), <1>1, <3>1, <4>1 DEF OnceEach
      <3> QED  BY ZenonT(30), <3>2, <3>3
    <2>4. ASSUME NEW e \in Desc
          PROVE  \/ \E i \in 1 .. Size - (n - 1) : e = m[i]
                 \/ \E j \in 0 .. (n - 1) - 1 : e = Held(r, u - 1, j)
      <3>1. CASE \E i \in 1 .. Size - n : e = l[i]
        BY ZenonT(30), <3>1, <1>10, <1>12
      <3>2. CASE \E j \in 0 .. n - 1 : e = Held(q, u, j)
        <4>1. PICK j \in 0 .. n - 1 : e = Held(q, u, j)
          BY ZenonT(30), <3>2
        <4>2. CASE j = 0
          BY ZenonT(30), <4>1, <4>2, <1>3, <1>10, <1>11
        <4>3. CASE j # 0
          <5>1. j - 1 \in 0 .. (n - 1) - 1 /\ j - 1 \in 0 .. n - 2 /\ (j - 1) + 1 = j
            BY <4>3, <1>2
          <5> QED  BY ZenonT(30), <4>1, <5>1, <1>8
        <4> QED  BY ZenonT(30), <4>2, <4>3
      <3> QED  BY ZenonT(30), <3>1, <3>2, <1>1 DEF OnceEach
    <2> QED  BY ZenonT(30), <2>1, <2>2, <2>3, <2>4 DEF OnceEach
  <1>15. r.free > 0
    BY <1>1, <1>2, <1>6
  <1> QED  BY ZenonT(30), <1>3, <1>5, <1>6, <1>8, <1>9, <1>11, <1>13, <1>14, <1>15 DEF QueueIs

\* The device takes an entry exactly when one is posted that it has not completed,
\* and it is the first such.
LEMMA WorkIs ==
    ASSUME NEW q, NEW n, NEW u, NEW l, QueueIs(q, n, u, l)
    PROVE  /\ DeviceHasWork(q) => u < n
           /\ DeviceNext(q) = Held(q, u, u)
  <1>1. /\ q \in Queue /\ q.taken = (q.last + u) % IdxMod /\ q.availIdx = (q.last + n) % IdxMod
        /\ u \in Nat /\ n \in Nat /\ u <= n /\ ~(u < u)
    BY QueueAssumption DEF QueueIs, Indices
  <1>2. q.taken % Size = (q.last + u) % Size
    BY ZenonT(30), <1>1, PlaceOf
  <1>3. DeviceNext(q) = Held(q, u, u)
    BY ZenonT(30), <1>1, <1>2 DEF DeviceNext, Held
  <1>4. u = n => ~DeviceHasWork(q)
    BY ZenonT(30), <1>1 DEF DeviceHasWork
  <1>5. u = n \/ u < n
    BY <1>1
  <1> QED  BY ZenonT(30), <1>3, <1>4, <1>5

\* A completion moves an entry from the available to the used ring and changes
\* nothing that is outstanding.
LEMMA DoneKeeps ==
    ASSUME NEW q, NEW n, NEW u, NEW l, QueueIs(q, n, u, l), u < n, NEW r, r = DeviceDone(q)
    PROVE  /\ QueueIs(r, n, u + 1, l)
           /\ \A j \in 0 .. n - 1 : Held(r, u + 1, j) = Held(q, u, j)
  <1>1. /\ q \in Queue /\ n \in 0 .. Size /\ u \in 0 .. n /\ q.free = Size - n
        /\ q.availIdx = (q.last + n) % IdxMod /\ q.usedIdx = (q.last + u) % IdxMod /\ q.taken = q.usedIdx
        /\ l \in [1 .. Size - n -> Desc] /\ IsFreeList(q, l) /\ OnceEach(q, n, u, l)
    BY ZenonT(30) DEF QueueIs, Indices
  <1>2. Size \in Nat /\ n \in Nat /\ u \in Nat /\ n <= Size
    BY <1>1, QueueAssumption
  <1>3. /\ r \in Queue
        /\ r.head = q.head /\ r.free = q.free /\ r.next = q.next
        /\ r.avail = q.avail /\ r.availIdx = q.availIdx
        /\ r.used = [q.used EXCEPT ![q.usedIdx % Size] = DeviceNext(q)]
        /\ r.usedIdx = (q.usedIdx + 1) % IdxMod
        /\ r.taken = (q.taken + 1) % IdxMod /\ r.last = q.last
    BY ZenonT(30), <1>1, DoneFields
  <1>4. q.usedIdx % Size = (q.last + u) % Size /\ (q.usedIdx + 1) % IdxMod = (q.last + (u + 1)) % IdxMod
    BY ZenonT(30), <1>1, <1>2, PlaceOf
  <1>5. q.last \in Nat /\ q.used \in [Desc -> Desc]
    BY ZenonT(30), <1>1, QueueFields
  <1>6. DeviceNext(q) = Held(q, u, u)
    BY ZenonT(30), WorkIs
  <1>7. \A j \in 0 .. n - 1 : (q.last + j) % Size \in Desc
    <2>1. \A j \in 0 .. n - 1 : q.last + j \in Nat
      BY <1>2, <1>5
    <2> QED  BY ZenonT(30), <2>1, PlaceIn
  <1>8. \A j \in 0 .. n - 1 : Held(r, u + 1, j) = Held(q, u, j)
    <2> TAKE j \in 0 .. n - 1
    <2>1. CASE j = u
      <3>1. j < u + 1
        BY <2>1, <1>2
      <3>2. r.used[(q.last + u) % Size] = DeviceNext(q)
        BY ZenonT(30), <1>3, <1>4, <1>5, <1>7, <2>1
      <3> QED  BY ZenonT(30), <1>3, <1>6, <2>1, <3>1, <3>2 DEF Held
    <2>2. CASE j < u
      <3>1. j < u + 1 /\ j \in 0 .. Size - 1 /\ u \in 0 .. Size - 1 /\ j # u
        BY <2>2, <1>2
      <3>2. (q.last + j) % Size # (q.last + u) % Size
        BY ZenonT(30), <1>5, <3>1, PlacesDiffer
      <3>3. r.used[(q.last + j) % Size] = q.used[(q.last + j) % Size]
        BY ZenonT(30), <1>3, <1>4, <1>5, <1>7, <3>2
      <3> QED  BY ZenonT(30), <1>3, <2>2, <3>1, <3>3 DEF Held
    <2>3. CASE j > u
      <3>1. ~(j < u + 1) /\ ~(j < u)
        BY <2>3, <1>2
      <3> QED  BY ZenonT(30), <1>3, <3>1 DEF Held
    <2> QED  BY <2>1, <2>2, <2>3, <1>2
  <1>9. Indices(r, n, u + 1)
    <2>1. u + 1 \in 0 .. n
      BY <1>2
    <2> QED  BY ZenonT(30), <1>1, <1>3, <1>4, <2>1 DEF Indices
  <1>10. IsFreeList(r, l)
    BY ZenonT(30), <1>1, <1>3 DEF IsFreeList
  <1>11. OnceEach(r, n, u + 1, l)
    <2>1. \A i, j \in 0 .. n - 1 : Held(r, u + 1, i) = Held(r, u + 1, j) => i = j
      BY ZenonT(30), <1>1, <1>8 DEF OnceEach
    <2>2. \A i \in 1 .. Size - n, j \in 0 .. n - 1 : l[i] # Held(r, u + 1, j)
      BY ZenonT(30), <1>1, <1>8 DEF OnceEach
    <2>3. \A d \in Desc : \/ \E i \in 1 .. Size - n : d = l[i]
                          \/ \E j \in 0 .. n - 1 : d = Held(r, u + 1, j)
      BY ZenonT(30), <1>1, <1>8 DEF OnceEach
    <2> QED  BY ZenonT(30), <1>1, <2>1, <2>2, <2>3 DEF OnceEach
  <1> QED  BY ZenonT(30), <1>1, <1>3, <1>8, <1>9, <1>10, <1>11 DEF QueueIs

\* The queue as Virtqueue::new leaves it.
LEMMA NewQueueIs ==
    \E l \in [1 .. Size - 0 -> Desc] : QueueIs(NewQueue, 0, 0, l)
  <1> DEFINE q == NewQueue
             l == [i \in 1 .. Size - 0 |-> i - 1]
  <1>1. Size \in Nat \ {0} /\ IdxMod \in Nat \ {0} /\ Size - 0 = Size /\ 0 \in 0 .. IdxMod - 1 /\ 0 \in Desc
    BY QueueAssumption DEF Desc
  <1>2. /\ [d \in Desc |-> IF d = Size - 1 THEN 0 ELSE d + 1] \in [Desc -> Desc]
        /\ [s \in Desc |-> 0] \in [Desc -> Desc] /\ Size \in 0 .. Size
    BY <1>1 DEF Desc
  <1>3. q \in Queue
    BY ZenonT(30), <1>1, <1>2 DEF NewQueue, Queue
  <1>4. /\ q.head = 0 /\ q.free = Size /\ q.availIdx = 0 /\ q.usedIdx = 0 /\ q.taken = 0 /\ q.last = 0
        /\ q.next = [d \in Desc |-> IF d = Size - 1 THEN 0 ELSE d + 1]
    BY ZenonT(30) DEF NewQueue
  <1> HIDE DEF q
  <1>5. (0 + 0) % IdxMod = 0
    <2>1. 0 = IdxMod * 0 + 0 /\ 0 + 0 = 0
      BY <1>1
    <2> QED  BY SMTT(60), <1>1, <2>1, RemainderIs
  <1>6. Indices(q, 0, 0)
    BY <1>1, <1>4, <1>5 DEF Indices
  <1>7. l \in [1 .. Size - 0 -> Desc] /\ \A i \in 1 .. Size - 0 : l[i] = i - 1
    BY <1>1 DEF Desc
  <1>8. IsFreeList(q, l)
    <2>1. l[1] = q.head
      BY <1>1, <1>4, <1>7
    <2>2. ASSUME NEW i \in 1 .. q.free - 1 PROVE l[i + 1] = q.next[l[i]]
      <3>1. i \in 1 .. Size - 0 /\ i + 1 \in 1 .. Size - 0 /\ i - 1 \in Desc /\ i - 1 # Size - 1 /\ (i - 1) + 1 = (i + 1) - 1
        BY <1>1, <1>4 DEF Desc
      <3>2. q.next[i - 1] = (i - 1) + 1
        BY ZenonT(30), <1>4, <3>1
      <3> QED  BY ZenonT(30), <1>7, <3>1, <3>2
    <2> HIDE DEF l
    <2> QED  BY ZenonT(30), <2>1, <2>2 DEF IsFreeList
  <1> HIDE DEF l
  <1>9. OnceEach(q, 0, 0, l)
    <2>1. 0 .. 0 - 1 = {}
      OBVIOUS
    <2>2. \A i, j \in 1 .. Size - 0 : l[i] = l[j] => i = j
      BY <1>1, <1>7
    <2>3. \A d \in Desc : \E i \in 1 .. Size - 0 : d = l[i]
      <3> TAKE d \in Desc
      <3>1. d + 1 \in 1 .. Size - 0 /\ (d + 1) - 1 = d
        BY <1>1 DEF Desc
      <3> QED  BY ZenonT(30), <1>7, <3>1
    <2> QED  BY ZenonT(30), <2>1, <2>2, <2>3 DEF OnceEach
  <1> QED  BY ZenonT(30), <1>3, <1>6, <1>7, <1>8, <1>9 DEF QueueIs, q

-------------------------------------------------------------------------------
(* The two queues *)

\* A queue in which every descriptor has one place.
Whole(q) == \E n, u, l : QueueIs(q, n, u, l)

\* send_frame's descriptor, a completion and its reaping keep the transmit queue whole.
LEMMA WholeKept ==
    ASSUME NEW q, Whole(q)
    PROVE  /\ CanAdd(q) => Whole(AddBuf(q))
           /\ CanPop(q) => Whole(FreeChain(PopUsed(q), Popped(q)))
           /\ DeviceHasWork(q) => Whole(DeviceDone(q))
  <1>1. PICK n, u, l : QueueIs(q, n, u, l)
    BY ZenonT(30) DEF Whole
  <1>2. ASSUME CanAdd(q) PROVE Whole(AddBuf(q))
    <2> DEFINE m == [i \in 1 .. Size - (n + 1) |-> l[i + 1]]
    <2>1. q.free > 0
      BY ZenonT(30), <1>2 DEF CanAdd
    <2>2. QueueIs(AddBuf(q), n + 1, u, m)
      BY ZenonT(30), <1>1, <2>1, AddKeeps
    <2> HIDE DEF m
    <2> QED  BY ZenonT(30), <2>2 DEF Whole
  <1>3. ASSUME CanPop(q) PROVE Whole(FreeChain(PopUsed(q), Popped(q)))
    <2> DEFINE m == [i \in 1 .. Size - (n - 1) |-> IF i = 1 THEN Popped(q) ELSE l[i - 1]]
    <2>1. u > 0
      BY ZenonT(30), <1>1, <1>3, PopIs
    <2>2. QueueIs(FreeChain(PopUsed(q), Popped(q)), n - 1, u - 1, m)
      BY SMTT(60), <1>1, <2>1, ReapKeeps
    <2> HIDE DEF m
    <2> QED  BY ZenonT(30), <2>2 DEF Whole
  <1>4. ASSUME DeviceHasWork(q) PROVE Whole(DeviceDone(q))
    <2>1. u < n
      BY ZenonT(30), <1>1, <1>4, WorkIs
    <2>2. QueueIs(DeviceDone(q), n, u + 1, l)
      BY ZenonT(30), <1>1, <2>1, DoneKeeps
    <2> QED  BY ZenonT(30), <2>2 DEF Whole
  <1> QED  BY ZenonT(30), <1>2, <1>3, <1>4

\* The receive queue, whose n outstanding descriptors are those of the n posted
\* buffers, and the u frames the device has written and poll_rx has not fetched.
Receiving(n, u) == Received(n, u) /\ \E l : QueueIs(rx, n, u, l)

\* The inductive invariant of the card.
CardInv == Whole(tx) /\ \E n, u : Receiving(n, u)

\* post_initial_rx posts one more buffer.
LEMMA PostStep ==
    ASSUME CardInv, PostInitialRx
    PROVE  CardInv'
  <1>1. PICK n, u : Receiving(n, u)
    BY ZenonT(30) DEF CardInv
  <1>2. PICK l : QueueIs(rx, n, u, l)
    BY ZenonT(30), <1>1 DEF Receiving
  <1>3. /\ rx.free > 0 /\ rx' = AddBuf(rx) /\ posted' = Append(posted, rx.head)
        /\ UNCHANGED <<tx, inBuf, got, arrived>> /\ Len(posted) # RxBufs
    BY ZenonT(30) DEF PostInitialRx, CanAdd, DriverOk
  <1> DEFINE m == [i \in 1 .. Size - (n + 1) |-> l[i + 1]]
  <1>4. /\ QueueIs(rx', n + 1, u, m)
        /\ \A j \in 0 .. n - 1 : Held(rx', u, j) = Held(rx, u, j)
        /\ Held(rx', u, n) = rx.head
        /\ \A j \in 0 .. n - 1 : rx.head # Held(rx, u, j)
    BY SMTT(60), <1>2, <1>3, AddKeeps
  <1> HIDE DEF m
  <1>5. /\ posted \in Seq(Desc) /\ Len(posted) = n /\ n <= RxBufs
        /\ \A b, c \in DOMAIN posted : posted[b] = posted[c] => b = c
        /\ \A b \in DOMAIN posted : \E i \in 0 .. n - 1 : posted[b] = Held(rx, u, i)
        /\ \A i \in 0 .. n - 1 : \E b \in DOMAIN posted : posted[b] = Held(rx, u, i)
        /\ \A i \in 0 .. u - 1, b \in DOMAIN posted : posted[b] = Held(rx, u, i) => inBuf[b] = Len(got) + i + 1
    BY ZenonT(30), <1>1 DEF Receiving, Received, Bufs
  <1>6. rx.head \in Desc /\ n \in Nat /\ u \in 0 .. n /\ RxBufs \in Nat
    BY <1>2, QueueFields, QueueAssumption DEF QueueIs, Indices
  <1>7. /\ posted' \in Seq(Desc) /\ Len(posted') = n + 1 /\ DOMAIN posted' = 1 .. n + 1 /\ DOMAIN posted = 1 .. n
        /\ \A b \in 1 .. n : posted'[b] = posted[b]
        /\ posted'[n + 1] = rx.head
    BY SMTT(60), <1>3, <1>5, <1>6
  <1>8. \A b \in DOMAIN posted' : b \in DOMAIN posted \/ b = n + 1
    BY <1>6, <1>7
  <1>9. \A b \in DOMAIN posted : posted[b] # rx.head /\ b \in DOMAIN posted' /\ posted'[b] = posted[b]
    <2>1. \A b \in DOMAIN posted : posted[b] # rx.head
      <3> TAKE b \in DOMAIN posted
      <3>1. PICK i \in 0 .. n - 1 : posted[b] = Held(rx, u, i)
        BY ZenonT(30), <1>5
      <3> QED  BY ZenonT(30), <1>4, <3>1
    <2>2. \A b \in DOMAIN posted : b \in DOMAIN posted'
      BY <1>6, <1>7
    <2> QED  BY ZenonT(30), <1>7, <2>1, <2>2
  <1>10. n + 1 \in DOMAIN posted' /\ n \in 0 .. (n + 1) - 1 /\ \A j \in 0 .. n - 1 : j \in 0 .. (n + 1) - 1
    BY <1>6, <1>7
  <1>11. \A j \in 0 .. (n + 1) - 1 : j = n \/ j \in 0 .. n - 1
    BY <1>6
  <1>12. \A b, c \in DOMAIN posted' : posted'[b] = posted'[c] => b = c
    BY ZenonT(30), <1>5, <1>7, <1>8, <1>9
  <1>13. \A b \in DOMAIN posted' : \E i \in 0 .. (n + 1) - 1 : posted'[b] = Held(rx', u, i)
    <2> TAKE b \in DOMAIN posted'
    <2>1. CASE b = n + 1
      BY ZenonT(30), <2>1, <1>4, <1>7, <1>10
    <2>2. CASE b \in DOMAIN posted
      <3>1. PICK i \in 0 .. n - 1 : posted[b] = Held(rx, u, i)
        BY ZenonT(30), <2>2, <1>5
      <3>2. posted'[b] = Held(rx', u, i)
        BY ZenonT(30), <2>2, <1>4, <1>9, <3>1
      <3> QED  BY ZenonT(30), <3>2, <1>10
    <2> QED  BY ZenonT(30), <2>1, <2>2, <1>8
  <1>14. \A i \in 0 .. (n + 1) - 1 : \E b \in DOMAIN posted' : posted'[b] = Held(rx', u, i)
    <2> TAKE i \in 0 .. (n + 1) - 1
    <2>1. CASE i = n
      BY ZenonT(30), <2>1, <1>4, <1>7, <1>10
    <2>2. CASE i \in 0 .. n - 1
      <3>1. PICK b \in DOMAIN posted : posted[b] = Held(rx, u, i)
        BY ZenonT(30), <2>2, <1>5
      <3>2. posted'[b] = Held(rx', u, i)
        BY ZenonT(30), <2>2, <1>4, <1>9, <3>1
      <3> QED  BY ZenonT(30), <3>1, <3>2, <1>9
    <2> QED  BY ZenonT(30), <2>1, <2>2, <1>11
  <1>15. \A i \in 0 .. u - 1, b \in DOMAIN posted' : posted'[b] = Held(rx', u, i) => inBuf'[b] = Len(got') + i + 1
    <2> TAKE i \in 0 .. u - 1, b \in DOMAIN posted'
    <2> HAVE posted'[b] = Held(rx', u, i)
    <2>0. i \in 0 .. n - 1
      BY <1>6
    <2>1. b # n + 1
      BY ZenonT(30), <2>0, <1>4, <1>7
    <2>2. b \in DOMAIN posted /\ posted[b] = Held(rx, u, i)
      BY ZenonT(30), <2>0, <2>1, <1>4, <1>8, <1>9
    <2> QED  BY ZenonT(30), <2>2, <1>3, <1>5
  <1>16. n + 1 <= RxBufs
    BY <1>3, <1>5, <1>6
  <1>17. Received(n + 1, u)'
    BY ZenonT(30), <1>1, <1>3, <1>7, <1>12, <1>13, <1>14, <1>15, <1>16 DEF Receiving, Received, Bufs
  <1>18. Receiving(n + 1, u)'
    BY ZenonT(30), <1>4, <1>17 DEF Receiving
  <1>19. Whole(tx)'
    BY ZenonT(30), <1>3 DEF CardInv
  <1> QED  BY ZenonT(30), <1>18, <1>19 DEF CardInv

\* poll_rx hands up the oldest frame that was not fetched and posts its buffer
\* again, behind all others and with the same descriptor.
LEMMA PollStep ==
    ASSUME CardInv, PollRx
    PROVE  CardInv'
  <1>1. PICK n, u : Receiving(n, u)
    BY ZenonT(30) DEF CardInv
  <1>2. PICK l : QueueIs(rx, n, u, l)
    BY ZenonT(30), <1>1 DEF Receiving
  <1> DEFINE d == Popped(rx)
             q == FreeChain(PopUsed(rx), d)
             v == [i \in 1 .. Size - (n - 1) |-> IF i = 1 THEN d ELSE l[i - 1]]
             m == [i \in 1 .. Size - ((n - 1) + 1) |-> v[i + 1]]
  <1>3. CanPop(rx)
    BY ZenonT(30) DEF PollRx
  <1>4. PICK b \in DOMAIN posted : /\ posted[b] = d /\ got' = Append(got, inBuf[b]) /\ rx' = AddBuf(q)
                                   /\ posted' = [posted EXCEPT ![b] = q.head]
    BY ZenonT(30) DEF PollRx, Bufs
  <1>5. UNCHANGED <<tx, inBuf, arrived>>
    BY ZenonT(30) DEF PollRx
  <1>6. u > 0
    BY ZenonT(30), <1>2, <1>3, PopIs
  <1>7. /\ QueueIs(q, n - 1, u - 1, v)
        /\ \A j \in 0 .. n - 2 : Held(q, u - 1, j) = Held(rx, u, j + 1)
        /\ d = Held(rx, u, 0) /\ d \in Desc /\ q.head = d /\ q.free > 0
    BY SMTT(60), <1>2, <1>6, ReapKeeps
  <1> HIDE DEF d, q, v
  <1>8. /\ QueueIs(rx', (n - 1) + 1, u - 1, m)
        /\ \A j \in 0 .. (n - 1) - 1 : Held(rx', u - 1, j) = Held(q, u - 1, j)
        /\ Held(rx', u - 1, n - 1) = q.head
    BY SMTT(60), <1>4, <1>7, AddKeeps
  <1> HIDE DEF m
  <1>9. n \in Nat /\ u \in Nat /\ u <= n /\ n > 0 /\ (n - 1) + 1 = n
    BY <1>2, <1>6, QueueAssumption DEF QueueIs, Indices
  <1>10. QueueIs(rx', n, u - 1, m)
    BY ZenonT(30), <1>8, <1>9
  <1>11. /\ \A j \in 0 .. n - 2 : Held(rx', u - 1, j) = Held(rx, u, j + 1)
         /\ Held(rx', u - 1, n - 1) = d
    <2>1. \A j \in 0 .. n - 2 : j \in 0 .. (n - 1) - 1
      BY <1>9
    <2> QED  BY ZenonT(30), <1>7, <1>8, <2>1
  <1>12. /\ posted \in Seq(Desc) /\ Len(posted) = n /\ n <= RxBufs
         /\ \A x, y \in DOMAIN posted : posted[x] = posted[y] => x = y
         /\ \A x \in DOMAIN posted : \E i \in 0 .. n - 1 : posted[x] = Held(rx, u, i)
         /\ \A i \in 0 .. n - 1 : \E x \in DOMAIN posted : posted[x] = Held(rx, u, i)
         /\ inBuf \in [1 .. RxBufs -> Nat] /\ got \in Seq(Nat) /\ arrived = Len(got) + u
         /\ \A i \in 0 .. u - 1, x \in DOMAIN posted : posted[x] = Held(rx, u, i) => inBuf[x] = Len(got) + i + 1
         /\ \A i \in 1 .. Len(got) : got[i] = i
    BY ZenonT(30), <1>1 DEF Receiving, Received, Bufs
  <1>13. posted' = posted
    BY SMTT(60), <1>4, <1>7, <1>12
  <1>14. \A x \in DOMAIN posted : \E i \in 0 .. n - 1 : posted[x] = Held(rx', u - 1, i)
    <2> TAKE x \in DOMAIN posted
    <2>1. PICK i \in 0 .. n - 1 : posted[x] = Held(rx, u, i)
      BY ZenonT(30), <1>12
    <2>2. CASE i = 0
      <3>1. n - 1 \in 0 .. n - 1
        BY <1>9
      <3> QED  BY ZenonT(30), <1>7, <1>11, <2>1, <2>2, <3>1
    <2>3. CASE i # 0
      <3>1. i - 1 \in 0 .. n - 2 /\ i - 1 \in 0 .. n - 1 /\ (i - 1) + 1 = i
        BY <1>9, <2>3
      <3> QED  BY ZenonT(30), <1>11, <2>1, <3>1
    <2> QED  BY ZenonT(30), <2>2, <2>3
  <1>15. \A i \in 0 .. n - 1 : \E x \in DOMAIN posted : posted[x] = Held(rx', u - 1, i)
    <2> TAKE i \in 0 .. n - 1
    <2>1. CASE i = n - 1
      BY ZenonT(30), <1>4, <1>11, <2>1
    <2>2. CASE i # n - 1
      <3>1. i \in 0 .. n - 2 /\ i + 1 \in 0 .. n - 1
        BY <1>9, <2>2
      <3>2. PICK x \in DOMAIN posted : posted[x] = Held(rx, u, i + 1)
        BY ZenonT(30), <1>12, <3>1
      <3>3. posted[x] = Held(rx', u - 1, i)
        BY ZenonT(30), <1>11, <3>1, <3>2
      <3> QED  BY ZenonT(30), <3>3
    <2> QED  BY ZenonT(30), <2>1, <2>2
  <1>16. inBuf[b] = Len(got) + 0 + 1
    <2>1. 0 \in 0 .. u - 1
      BY <1>6, <1>9
    <2> QED  BY ZenonT(30), <1>4, <1>7, <1>12, <2>1
  <1>17. Len(got) \in Nat /\ inBuf[b] = Len(got) + 1
    BY <1>12, <1>16
  <1>18. /\ got' \in Seq(Nat) /\ Len(got') = Len(got) + 1
         /\ \A i \in 1 .. Len(got') : got'[i] = i
    <2>1. got' \in Seq(Nat) /\ Len(got') = Len(got) + 1
      BY SMTT(60), <1>4, <1>12, <1>17
    <2>2. got'[Len(got) + 1] = Len(got) + 1
      BY SMTT(60), <1>4, <1>12, <1>17
    <2>3. \A i \in 1 .. Len(got) : got'[i] = got[i]
      BY SMTT(60), <1>4, <1>12
    <2>4. \A i \in 1 .. Len(got) + 1 : i = Len(got) + 1 \/ i \in 1 .. Len(got)
      BY <1>17
    <2> QED  BY ZenonT(30), <1>12, <2>1, <2>2, <2>3, <2>4
  <1>19. \A i \in 0 .. (u - 1) - 1, x \in DOMAIN posted :
            posted[x] = Held(rx', u - 1, i) => inBuf[x] = Len(got') + i + 1
    <2> TAKE i \in 0 .. (u - 1) - 1, x \in DOMAIN posted
    <2> HAVE posted[x] = Held(rx', u - 1, i)
    <2>1. i \in 0 .. n - 2 /\ i + 1 \in 0 .. u - 1 /\ Len(got) + (i + 1) + 1 = (Len(got) + 1) + i + 1
      BY <1>9, <1>17
    <2>2. posted[x] = Held(rx, u, i + 1)
      BY ZenonT(30), <1>11, <2>1
    <2>3. inBuf[x] = Len(got) + (i + 1) + 1
      BY ZenonT(30), <1>12, <2>1, <2>2
    <2> QED  BY ZenonT(30), <1>18, <2>1, <2>3
  <1>20. arrived' = Len(got') + (u - 1)
    BY <1>5, <1>9, <1>12, <1>17, <1>18
  <1>21. Received(n, u - 1)'
    BY ZenonT(30), <1>5, <1>12, <1>13, <1>14, <1>15, <1>18, <1>19, <1>20 DEF Received, Bufs
  <1>22. Receiving(n, u - 1)'
    BY ZenonT(30), <1>10, <1>21 DEF Receiving
  <1>23. Whole(tx)'
    BY ZenonT(30), <1>5 DEF CardInv
  <1> QED  BY ZenonT(30), <1>22, <1>23 DEF CardInv

\* The device writes the next frame into the first buffer that is posted and empty.
LEMMA ArriveStep ==
    ASSUME CardInv, DeviceReceives
    PROVE  CardInv'
  <1>1. PICK n, u : Receiving(n, u)
    BY ZenonT(30) DEF CardInv
  <1>2. PICK l : QueueIs(rx, n, u, l)
    BY ZenonT(30), <1>1 DEF Receiving
  <1>3. /\ DeviceHasWork(rx) /\ rx' = DeviceDone(rx) /\ arrived' = arrived + 1
        /\ UNCHANGED <<tx, posted, got>>
    BY ZenonT(30) DEF DeviceReceives
  <1>4. PICK b \in DOMAIN posted : posted[b] = DeviceNext(rx) /\ inBuf' = [inBuf EXCEPT ![b] = arrived + 1]
    BY ZenonT(30) DEF DeviceReceives, Bufs
  <1>5. u < n /\ DeviceNext(rx) = Held(rx, u, u)
    BY ZenonT(30), <1>2, <1>3, WorkIs
  <1>6. /\ QueueIs(rx', n, u + 1, l)
        /\ \A j \in 0 .. n - 1 : Held(rx', u + 1, j) = Held(rx, u, j)
    BY SMTT(60), <1>2, <1>3, <1>5, DoneKeeps
  <1>7. n \in Nat /\ u \in Nat /\ u \in 0 .. n - 1
    BY <1>2, <1>5, QueueAssumption DEF QueueIs, Indices
  <1>8. /\ posted \in Seq(Desc) /\ Len(posted) = n /\ n <= RxBufs
        /\ \A x, y \in DOMAIN posted : posted[x] = posted[y] => x = y
        /\ \A x \in DOMAIN posted : \E i \in 0 .. n - 1 : posted[x] = Held(rx, u, i)
        /\ \A i \in 0 .. n - 1 : \E x \in DOMAIN posted : posted[x] = Held(rx, u, i)
        /\ inBuf \in [1 .. RxBufs -> Nat] /\ got \in Seq(Nat) /\ arrived = Len(got) + u
        /\ \A i \in 0 .. u - 1, x \in DOMAIN posted : posted[x] = Held(rx, u, i) => inBuf[x] = Len(got) + i + 1
        /\ \A i \in 1 .. Len(got) : got[i] = i
    BY ZenonT(30), <1>1 DEF Receiving, Received, Bufs
  <1>9. Len(got) \in Nat /\ RxBufs \in Nat
    BY <1>8, QueueAssumption
  <1>10. /\ \A x \in DOMAIN posted : \E i \in 0 .. n - 1 : posted[x] = Held(rx', u + 1, i)
         /\ \A i \in 0 .. n - 1 : \E x \in DOMAIN posted : posted[x] = Held(rx', u + 1, i)
    <2>1. ASSUME NEW x \in DOMAIN posted PROVE \E i \in 0 .. n - 1 : posted[x] = Held(rx', u + 1, i)
      <3>1. PICK i \in 0 .. n - 1 : posted[x] = Held(rx, u, i)
        BY ZenonT(30), <1>8
      <3>2. posted[x] = Held(rx', u + 1, i)
        BY ZenonT(30), <1>6, <3>1
      <3> QED  BY ZenonT(30), <3>2
    <2>2. ASSUME NEW i \in 0 .. n - 1 PROVE \E x \in DOMAIN posted : posted[x] = Held(rx', u + 1, i)
      <3>1. PICK x \in DOMAIN posted : posted[x] = Held(rx, u, i)
        BY ZenonT(30), <1>8
      <3>2. posted[x] = Held(rx', u + 1, i)
        BY ZenonT(30), <1>6, <3>1
      <3> QED  BY ZenonT(30), <3>2
    <2> QED  BY ZenonT(30), <2>1, <2>2
  <1>11. \A x \in DOMAIN posted : x \in 1 .. RxBufs
    BY <1>7, <1>8, <1>9
  <1>12. /\ inBuf' \in [1 .. RxBufs -> Nat]
         /\ \A x \in DOMAIN posted : inBuf'[x] = IF x = b THEN arrived + 1 ELSE inBuf[x]
    <2>1. arrived + 1 \in Nat
      BY <1>7, <1>8, <1>9
    <2> QED  BY ZenonT(30), <1>4, <1>8, <1>11, <2>1
  <1>13. \A i \in 0 .. (u + 1) - 1, x \in DOMAIN posted :
            posted[x] = Held(rx', u + 1, i) => inBuf'[x] = Len(got) + i + 1
    <2> TAKE i \in 0 .. (u + 1) - 1, x \in DOMAIN posted
    <2> HAVE posted[x] = Held(rx', u + 1, i)
    <2>1. i \in 0 .. n - 1
      BY <1>7
    <2>2. posted[x] = Held(rx, u, i)
      BY ZenonT(30), <1>6, <2>1
    <2>3. CASE i = u
      <3>1. x = b
        <4>1. posted[x] = posted[b]
          BY ZenonT(30), <1>4, <1>5, <2>2, <2>3
        <4> QED  BY ZenonT(30), <1>4, <1>8, <4>1
      <3> QED  BY ZenonT(30), <1>8, <1>12, <2>3, <3>1
    <2>4. CASE i # u
      <3>1. i \in 0 .. u - 1
        BY <1>7, <2>4
      <3>2. Held(rx, u, i) # Held(rx, u, u)
        BY ZenonT(30), <1>2, <1>7, <2>1, <2>4 DEF QueueIs, OnceEach
      <3>3. x # b
        BY ZenonT(30), <1>4, <1>5, <2>2, <3>2
      <3>4. inBuf[x] = Len(got) + i + 1
        BY ZenonT(30), <1>8, <2>2, <3>1
      <3> QED  BY ZenonT(30), <1>12, <3>3, <3>4
    <2> QED  BY ZenonT(30), <2>3, <2>4
  <1>14. arrived' = Len(got') + (u + 1)
    BY <1>3, <1>7, <1>8, <1>9
  <1>15. Received(n, u + 1)'
    BY ZenonT(30), <1>3, <1>8, <1>10, <1>12, <1>13, <1>14 DEF Received, Bufs
  <1>16. Receiving(n, u + 1)'
    BY ZenonT(30), <1>6, <1>15 DEF Receiving
  <1>17. Whole(tx)'
    BY ZenonT(30), <1>3 DEF CardInv
  <1> QED  BY ZenonT(30), <1>16, <1>17 DEF CardInv

\* Before bring_up has posted a buffer.
LEMMA CardInitially ==
    ASSUME NicInit
    PROVE  CardInv
  <1>1. PICK l : QueueIs(NewQueue, 0, 0, l)
    BY ZenonT(30), NewQueueIs
  <1>2. tx = NewQueue /\ rx = NewQueue /\ posted = <<>> /\ arrived = 0 /\ got = <<>> /\ inBuf = [b \in 1 .. RxBufs |-> 0]
    BY ZenonT(30) DEF NicInit
  <1>3. Whole(tx)
    BY ZenonT(30), <1>1, <1>2 DEF Whole
  <1>4. /\ posted \in Seq(Desc) /\ Len(posted) = 0 /\ 0 <= RxBufs /\ DOMAIN posted = {}
        /\ inBuf \in [1 .. RxBufs -> Nat] /\ got \in Seq(Nat) /\ arrived = Len(got) + 0
        /\ 0 .. 0 - 1 = {} /\ 1 .. Len(got) = {}
    BY <1>2, QueueAssumption
  <1>5. Received(0, 0)
    BY ZenonT(30), <1>4 DEF Received, Bufs
  <1>6. Receiving(0, 0)
    BY ZenonT(30), <1>1, <1>2, <1>5 DEF Receiving
  <1> QED  BY ZenonT(30), <1>3, <1>6 DEF CardInv

\* The transmit side leaves the receive side alone.
LEMMA TransmitStep ==
    ASSUME CardInv, SendFrame \/ Reap \/ SendTimeout \/ DeviceSends
    PROVE  CardInv'
  <1>1. UNCHANGED <<rx, posted, inBuf, arrived, got>>
    BY ZenonT(30) DEF SendFrame, Reap, SendTimeout, DeviceSends
  <1>2. Whole(tx)
    BY ZenonT(30) DEF CardInv
  <1>3. Whole(tx')
    <2>1. CASE SendFrame
      <3>1. (CanAdd(tx) /\ tx' = AddBuf(tx)) \/ tx' = tx
        BY ZenonT(30), <2>1 DEF SendFrame
      <3> QED  BY ZenonT(30), <1>2, <3>1, WholeKept
    <2>2. CASE Reap
      BY ZenonT(30), <1>2, <2>2, WholeKept DEF Reap
    <2>3. CASE SendTimeout
      BY ZenonT(30), <1>2, <2>3 DEF SendTimeout
    <2>4. CASE DeviceSends
      BY ZenonT(30), <1>2, <2>4, WholeKept DEF DeviceSends
    <2> QED  BY ZenonT(30), <2>1, <2>2, <2>3, <2>4
  <1>4. PICK n, u : Receiving(n, u)
    BY ZenonT(30) DEF CardInv
  <1>5. Receiving(n, u)'
    BY ZenonT(30), <1>1, <1>4 DEF Receiving, Received, Bufs
  <1> QED  BY ZenonT(30), <1>3, <1>5 DEF CardInv

\* Every step of the driver and of the device keeps the invariant of the card.
THEOREM CardStays ==
    NicSpec => []CardInv
  <1>1. NicInit => CardInv
    BY ZenonT(30), CardInitially
  <1>2. CardInv /\ [NicNext]_nicVars => CardInv'
    <2> SUFFICES ASSUME CardInv, [NicNext]_nicVars PROVE CardInv'
      OBVIOUS
    <2>1. CASE NicNext
      BY ZenonT(30), <2>1, PostStep, PollStep, ArriveStep, TransmitStep DEF NicNext
    <2>2. CASE UNCHANGED nicVars
      <3>1. UNCHANGED <<tx, rx, posted, inBuf, arrived, got>>
        BY ZenonT(30), <2>2 DEF nicVars
      <3>2. Whole(tx)'
        BY ZenonT(30), <3>1 DEF CardInv
      <3>3. PICK n, u : Receiving(n, u)
        BY ZenonT(30) DEF CardInv
      <3>4. Receiving(n, u)'
        BY ZenonT(30), <3>1, <3>3 DEF Receiving, Received, Bufs
      <3> QED  BY ZenonT(30), <3>2, <3>4 DEF CardInv
    <2> QED  BY ZenonT(30), <2>1, <2>2
  <1> QED  BY <1>1, <1>2, PTL DEF NicSpec

\* The descriptors between last_used_idx and the available index are the ones
\* held, in order.
LEMMA OutstandingIs ==
    ASSUME NEW q, NEW n, NEW u, NEW l, QueueIs(q, n, u, l)
    PROVE  /\ Between(q.last, q.availIdx) = n
           /\ DOMAIN Outstanding(q) = 1 .. n
           /\ \A i \in 1 .. n : Outstanding(q)[i] = Held(q, u, i - 1)
  <1>1. q \in Queue /\ Indices(q, n, u)
    BY ZenonT(30) DEF QueueIs
  <1>2. q.last \in 0 .. IdxMod - 1 /\ q.last \in Nat
    BY ZenonT(30), <1>1, QueueFields
  <1>3. n \in Nat /\ u \in Nat /\ n \in 0 .. IdxMod - 1 /\ u \in 0 .. IdxMod - 1
    BY <1>1, QueueAssumption DEF Indices
  <1>4. Between(q.last, q.availIdx) = n /\ Between(q.last, q.usedIdx) = u
    <2>1. q.availIdx = (q.last + n) % IdxMod /\ q.usedIdx = (q.last + u) % IdxMod
      BY ZenonT(30), <1>1 DEF Indices
    <2> QED  BY ZenonT(30), <1>2, <1>3, <2>1, DistanceIs
  <1>5. DOMAIN Outstanding(q) = 1 .. n
    BY ZenonT(30), <1>4 DEF Outstanding
  <1>6. ASSUME NEW i \in 1 .. n PROVE Outstanding(q)[i] = Held(q, u, i - 1)
    <2> DEFINE a == q.last + i - 1
    <2>1. a \in Nat /\ a = q.last + (i - 1) /\ ((i <= u) <=> (i - 1 < u))
      BY <1>2, <1>3
    <2>2. (a % IdxMod) % Size = a % Size
      BY ZenonT(30), <2>1, WrapThenMask
    <2>3. Outstanding(q)[i] = IF i <= u THEN q.used[(a % IdxMod) % Size] ELSE q.avail[(a % IdxMod) % Size]
      BY ZenonT(30), <1>4 DEF Outstanding
    <2> HIDE DEF a
    <2> QED  BY ZenonT(30), <2>1, <2>2, <2>3 DEF Held
  <1> QED  BY ZenonT(30), <1>4, <1>5, <1>6

\* A whole queue has every descriptor on one side, and the counts agree.
LEMMA WholeIsConserved ==
    ASSUME NEW q, Whole(q)
    PROVE  /\ q.free + Between(q.last, q.availIdx) = Size
           /\ \E l \in [1 .. q.free -> Desc] :
                /\ IsFreeList(q, l)
                /\ Desc = {l[i] : i \in DOMAIN l} \cup {Outstanding(q)[i] : i \in DOMAIN Outstanding(q)}
  <1>1. PICK n, u, l : QueueIs(q, n, u, l)
    BY ZenonT(30) DEF Whole
  <1>2. /\ Between(q.last, q.availIdx) = n
        /\ DOMAIN Outstanding(q) = 1 .. n
        /\ \A i \in 1 .. n : Outstanding(q)[i] = Held(q, u, i - 1)
    BY ZenonT(30), <1>1, OutstandingIs
  <1>3. /\ n \in Nat /\ u \in 0 .. n /\ q.free = Size - n /\ q.free + n = Size
    BY <1>1, QueueAssumption DEF QueueIs, Indices
  <1>4. l \in [1 .. q.free -> Desc] /\ IsFreeList(q, l) /\ DOMAIN l = 1 .. Size - n
    BY ZenonT(30), <1>1, <1>3 DEF QueueIs
  <1>5. \A j \in 0 .. n - 1 : j + 1 \in 1 .. n /\ (j + 1) - 1 = j
    BY <1>3
  <1>6. \A i \in 1 .. n : Outstanding(q)[i] \in Desc
    <2> TAKE i \in 1 .. n
    <2>1. q \in Queue
      BY ZenonT(30), <1>1 DEF QueueIs
    <2>2. q.used \in [Desc -> Desc] /\ q.avail \in [Desc -> Desc] /\ q.last \in Nat
      BY ZenonT(30), <2>1, QueueFields
    <2>3. q.last + (i - 1) \in Nat
      BY <1>3, <2>2
    <2>4. (q.last + (i - 1)) % Size \in Desc
      BY ZenonT(30), <2>3, PlaceIn
    <2>5. Held(q, u, i - 1) \in Desc
      BY ZenonT(30), <2>2, <2>4 DEF Held
    <2> QED  BY ZenonT(30), <1>2, <2>5
  <1>7. ASSUME NEW d \in Desc
        PROVE  (\E i \in DOMAIN l : d = l[i]) \/ \E i \in DOMAIN Outstanding(q) : d = Outstanding(q)[i]
    <2>1. (\E i \in 1 .. Size - n : d = l[i]) \/ \E j \in 0 .. n - 1 : d = Held(q, u, j)
      BY ZenonT(30), <1>1 DEF QueueIs, OnceEach
    <2>2. CASE \E i \in 1 .. Size - n : d = l[i]
      BY ZenonT(30), <1>4, <2>2
    <2>3. CASE \E j \in 0 .. n - 1 : d = Held(q, u, j)
      <3>1. PICK j \in 0 .. n - 1 : d = Held(q, u, j)
        BY ZenonT(30), <2>3
      <3>2. j + 1 \in 1 .. n /\ (j + 1) - 1 = j
        BY ZenonT(30), <1>5
      <3>3. d = Outstanding(q)[j + 1]
        BY ZenonT(30), <1>2, <3>1, <3>2
      <3> QED  BY ZenonT(30), <1>2, <3>2, <3>3
    <2> QED  BY ZenonT(30), <2>1, <2>2, <2>3
  <1>8. \A i \in DOMAIN l : l[i] \in Desc
    BY ZenonT(30), <1>4
  <1>9. Desc = {l[i] : i \in DOMAIN l} \cup {Outstanding(q)[i] : i \in DOMAIN Outstanding(q)}
    BY ZenonT(30), <1>2, <1>6, <1>7, <1>8
  <1> QED  BY ZenonT(30), <1>2, <1>3, <1>4, <1>9

\* No interleaving of sends, timeouts, late completions and receptions loses a
\* descriptor of a queue or hands one out that the device still owns: num_free
\* is the length of the free list, and every descriptor is there or outstanding.
THEOREM DescriptorsNeverLost ==
    NicSpec => []DescriptorsConserved
  <1>1. CardInv => DescriptorsConserved
    <2> SUFFICES ASSUME CardInv PROVE DescriptorsConserved
      OBVIOUS
    <2>1. Whole(tx)
      BY ZenonT(30) DEF CardInv
    <2>2. Whole(rx)
      BY ZenonT(30) DEF CardInv, Receiving, Whole
    <2>3. \A q \in {tx, rx} : Whole(q)
      BY ZenonT(30), <2>1, <2>2
    <2> QED  BY ZenonT(30), <2>3, WholeIsConserved DEF DescriptorsConserved
  <1> QED  BY <1>1, CardStays, PTL

\* poll_rx hands the frames to the stack in the order in which the device
\* received them, none lost and none twice, though it finds each one by the
\* descriptor number in the used ring and the 16-bit indices wrap.
THEOREM FramesStayInOrder ==
    NicSpec => []FramesInOrder
  <1>1. CardInv => FramesInOrder
    BY ZenonT(30) DEF CardInv, Receiving, Received, FramesInOrder
  <1> QED  BY <1>1, CardStays, PTL

===============================================================================
