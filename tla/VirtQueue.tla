------------------------------ MODULE VirtQueue ------------------------------
(***************************************************************************)
(* The split virtqueue (src/kernel/src/drivers/virtqueue.rs) and the way   *)
(* the network driver uses two of them (virtio_net.rs): a receive queue    *)
(* whose buffers are posted once and re-posted after every frame, and a    *)
(* transmit queue on which every frame goes out through ONE staging page.  *)
(* The device runs by itself: it takes posted descriptors in order and     *)
(* completes them whenever it likes.                                       *)
(*                                                                         *)
(* A queue is a record: next is the `next` field of every descriptor,      *)
(* head and free are free_head and num_free, avail and used the two rings  *)
(* with their 16-bit indices (here modulo IdxMod), last is last_used_idx,  *)
(* taken the device's private cursor.  The chains the driver builds have   *)
(* one descriptor each, so VRING_DESC_F_NEXT is never set on a posted one. *)
(***************************************************************************)
EXTENDS Integers, Sequences

CONSTANTS
    Size,       \* QUEUE_SIZE, a power of two
    IdxMod,     \* 2^16 in the code: a larger power of two
    RxBufs,     \* RX_BUF_COUNT, not more than Size
    MaxFrames   \* bound of the model: frames sent and frames received

ASSUME QueueAssumption ==
    /\ Size \in Nat \ {0}
    /\ IdxMod \in Nat /\ IdxMod > Size /\ IdxMod % Size = 0
    /\ RxBufs \in 1 .. Size
    /\ MaxFrames \in Nat

VARIABLES
    tx, rx,     \* the two queues
    page,       \* the frame in the staging page tx_buf_phys
    posted,     \* rx_bufs[i].desc_head of the buffers posted so far
    sending,    \* the send_frame that is spinning on the used ring, or 0
    sentN,      \* send_frame calls so far: the n-th sends frame n
    onWire,     \* what the device has put on the wire
    arrived,    \* frames the device has received, the n-th is frame n
    inBuf,      \* the frame the device wrote into each receive buffer
    got         \* what poll_rx has handed to the stack

nicVars == <<tx, rx, page, posted, sending, sentN, onWire, arrived, inBuf, got>>

Desc == 0..Size-1
Bufs == DOMAIN posted

-----------------------------------------------------------------------------
(* The queue operations. *)

NewQueue == [next  |-> [d \in Desc |-> IF d = Size - 1 THEN 0 ELSE d + 1],
             head  |-> 0, free |-> Size,
             avail |-> [s \in Desc |-> 0], availIdx |-> 0, taken |-> 0,
             used  |-> [s \in Desc |-> 0], usedIdx |-> 0, last |-> 0]

\* add_buf of one buffer: take the head of the free list, publish it in the
\* available ring, then advance the ring's index.
CanAdd(q) == q.free > 0

AddBuf(q) == [q EXCEPT !.head = q.next[q.head],
                       !.free = @ - 1,
                       !.next[q.head] = 0,
                       !.avail[q.availIdx % Size] = q.head,
                       !.availIdx = (@ + 1) % IdxMod]

CanPop(q) == q.usedIdx # q.last
Popped(q) == q.used[q.last % Size]

MutPopUsed(q) == [q EXCEPT !.last = q.usedIdx]

\* pop_used: one completion, the oldest.
PopUsed(q) == [q EXCEPT !.last = (@ + 1) % IdxMod]

MutFreeChain(q, d) == [q EXCEPT !.head = d, !.free = @ + 1]

\* free_chain: the chain goes in front of the free list.
FreeChain(q, d) == [q EXCEPT !.next[d] = q.head, !.head = d, !.free = @ + 1]

\* The device takes the next posted descriptor and completes it.
DeviceHasWork(q) == q.taken # q.availIdx
DeviceNext(q) == q.avail[q.taken % Size]
DeviceDone(q) == [q EXCEPT !.taken = (@ + 1) % IdxMod,
                           !.used[q.usedIdx % Size] = DeviceNext(q),
                           !.usedIdx = (@ + 1) % IdxMod]

-----------------------------------------------------------------------------
(* The driver. *)

NicInit ==
    /\ tx = NewQueue
    /\ rx = NewQueue
    /\ posted = <<>>
    /\ page = 0 /\ sending = 0 /\ sentN = 0
    /\ onWire = <<>> /\ arrived = 0
    /\ inBuf = [b \in 1..RxBufs |-> 0]
    /\ got = <<>>

\* post_initial_rx, one buffer: nothing else runs before bring_up has posted
\* them all and set DRIVER_OK.
DriverOk == Len(posted) = RxBufs

PostInitialRx ==
    /\ ~DriverOk
    /\ CanAdd(rx)
    /\ rx' = AddBuf(rx)
    /\ posted' = Append(posted, rx.head)
    /\ UNCHANGED <<tx, page, sending, sentN, onWire, arrived, inBuf, got>>

\* send_frame up to the notify: the staging page is overwritten before the
\* descriptor is asked for, also when there is none.
SendFrame ==
    /\ DriverOk /\ sending = 0 /\ sentN < MaxFrames
    /\ sentN' = sentN + 1
    /\ page' = sentN + 1
    /\ IF CanAdd(tx) THEN tx' = AddBuf(tx) /\ sending' = sentN + 1
                     ELSE UNCHANGED <<tx, sending>>
    /\ UNCHANGED <<rx, posted, onWire, arrived, inBuf, got>>

\* The spin sees a completion, of whichever frame it is, and frees it.
Reap ==
    /\ sending # 0
    /\ CanPop(tx)
    /\ tx' = FreeChain(PopUsed(tx), Popped(tx))
    /\ sending' = 0
    /\ UNCHANGED <<rx, page, posted, sentN, onWire, arrived, inBuf, got>>

\* 100,000 turns without a completion: Ok(()) and nothing is freed.
SendTimeout ==
    /\ sending # 0
    /\ ~CanPop(tx)
    /\ sending' = 0
    /\ UNCHANGED <<tx, rx, page, posted, sentN, onWire, arrived, inBuf, got>>

\* poll_rx: take one completion, find its buffer, copy the frame out, free
\* the descriptor and post the buffer again.
PollRx ==
    /\ DriverOk /\ CanPop(rx)
    /\ LET d == Popped(rx)
           q == FreeChain(PopUsed(rx), d)
       IN \E b \in Bufs :
            /\ posted[b] = d
            /\ \A c \in 1..b-1 : posted[c] # d
            /\ got' = Append(got, inBuf[b])
            /\ rx' = AddBuf(q)
            /\ posted' = [posted EXCEPT ![b] = q.head]
    /\ UNCHANGED <<tx, page, sending, sentN, onWire, arrived, inBuf>>

\* The device, external: it sends what the staging page holds NOW, and fills
\* the buffer behind the next posted receive descriptor.
DeviceSends ==
    /\ DeviceHasWork(tx)
    /\ tx' = DeviceDone(tx)
    /\ onWire' = Append(onWire, page)
    /\ UNCHANGED <<rx, page, posted, sending, sentN, arrived, inBuf, got>>

DeviceReceives ==
    /\ DriverOk /\ arrived < MaxFrames
    /\ DeviceHasWork(rx)
    /\ arrived' = arrived + 1
    /\ rx' = DeviceDone(rx)
    /\ \E b \in Bufs : /\ posted[b] = DeviceNext(rx)
                       /\ inBuf' = [inBuf EXCEPT ![b] = arrived + 1]
    /\ UNCHANGED <<tx, page, posted, sending, sentN, onWire, got>>

NicNext == PostInitialRx \/ SendFrame \/ Reap \/ SendTimeout \/ PollRx \/ DeviceSends
              \/ DeviceReceives

NicSpec == NicInit /\ [][NicNext]_nicVars

-----------------------------------------------------------------------------
(* Properties. *)

NicTypeOK ==
    /\ \A q \in {tx, rx} :
         /\ q.free \in 0..Size /\ q.head \in Desc
         /\ q.next \in [Desc -> Desc]
         /\ {q.availIdx, q.usedIdx, q.taken, q.last} \subseteq 0..IdxMod-1
    /\ posted \in Seq(Desc) /\ Len(posted) <= RxBufs
    /\ sending \in 0..MaxFrames

\* What the device or the used ring still holds: posted but not yet reaped.
Between(lo, hi) == (hi + IdxMod - lo) % IdxMod
Outstanding(q) ==
    [i \in 1..Between(q.last, q.availIdx) |->
       LET k == (q.last + i - 1) % IdxMod
       IN IF i <= Between(q.last, q.usedIdx) THEN q.used[k % Size]
                                             ELSE q.avail[k % Size]]

\* l is the free list of q, followed from its head for num_free entries.
IsFreeList(q, l) ==
    /\ q.free > 0 => l[1] = q.head
    /\ \A i \in 1..q.free-1 : l[i + 1] = q.next[l[i]]

\* Every descriptor is on the free list or outstanding, and they are as many as
\* there are places: once and on one side only, however often a send has timed
\* out and a late completion been reaped by a later send; so num_free never
\* drifts from the list and no descriptor the device still owns is handed out
\* again.
DescriptorsConserved ==
    \A q \in {tx, rx} :
      /\ q.free + Between(q.last, q.availIdx) = Size
      /\ \E l \in [1..q.free -> Desc] :
           /\ IsFreeList(q, l)
           /\ Desc = {l[i] : i \in DOMAIN l} \cup {Outstanding(q)[i] : i \in DOMAIN Outstanding(q)}

\* poll_rx hands the frames up in the order in which they arrived, each once.
FramesInOrder == \A i \in 1..Len(got) : got[i] = i

=============================================================================
