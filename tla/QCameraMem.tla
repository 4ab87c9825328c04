------------------------------ MODULE QCameraMem ------------------------------
(***************************************************************************)
(* The ION memory of the camera streams: QCameraHeapMemory, the stream and  *)
(* video memories, the pool that keeps released buffers for the next stream *)
(* of the same type, and the way a stream gets its buffers, has the daemon  *)
(* map them and gives them back.  All streams here are of one stream type,  *)
(* so they share one list of the pool; heap and cache flags are the same.   *)
(* The heap has a limit, and ION_IOC_ALLOC fails when it is reached, which  *)
(* puts the failure at every position of a request.  Not secure memory.     *)
(***************************************************************************)
EXTENDS Naturals, FiniteSets, SequencesExt

CONSTANTS
    Streams,
    Info,           \* stream info buffers, QCameraHeapMemory of one use
    Pooled,         \* streams with memory from the pool
    Dyn,            \* streams with two-step allocation
    Deferred,       \* streams whose buffers the deferred worker allocates
    HeapSize,       \* bound: buffers the kernel has
    Sizes,          \* sizes a stream may ask for
    First, Total,   \* buffers of a stream: at first, in the end
    MoreFails,      \* the kernel may run out in allocateMore()
    DeferredFails,  \* and in allocateBuffers()
    DeferredMapFails \* the daemon may refuse a buffer in allocateBuffers()

MemAssumption ==
    /\ Info \subseteq Streams /\ Pooled \subseteq Streams \ Info
    /\ Dyn \subseteq Pooled /\ Deferred \subseteq Pooled \ Dyn
    /\ HeapSize \in Nat /\ Sizes \subseteq Nat /\ First \in Nat \ {0}
    /\ Total \in Nat /\ First <= Total
    /\ {MoreFails, DeferredFails, DeferredMapFails} \subseteq BOOLEAN

Bufs == 1..HeapSize
Slots == 1..Total
None == 0

VARIABLES
    live,       \* buffers the kernel has handed out
    size,       \* and their sizes
    pool,       \* mPools[streamType]
    st,         \* of each stream
    info,       \* mMemInfo
    cnt,        \* mBufferCount
    req,        \* size the stream asked for
    mapped,     \* what the daemon has mapped for each index
    more,       \* streams whose BufAllocRoutine waits
    lost,       \* buffers a failed mmap() left behind
    broken      \* a destructor used buffers that are not there

vars == <<live, size, pool, st, info, cnt, req, mapped, more, lost, broken>>

Empty == [i \in Slots |-> None]

TypeOK ==
    /\ live \subseteq Bufs /\ size \in [Bufs -> Sizes \cup {0}] /\ pool \in Seq(Bufs)
    /\ st \in [Streams -> {"none", "added", "failed", "held", "kept"}]
    /\ info \in [Streams -> [Slots -> Bufs \cup {None}]]
    /\ cnt \in [Streams -> 0..Total] /\ req \in [Streams -> Sizes \cup {0}]
    /\ mapped \in [Streams -> [Slots -> Bufs \cup {None}]]
    /\ more \subseteq Streams /\ lost \subseteq Bufs /\ broken \in BOOLEAN

Init ==
    /\ live = {} /\ size = [b \in Bufs |-> 0] /\ pool = <<>>
    /\ st = [s \in Streams |-> "none"] /\ info = [s \in Streams |-> Empty]
    /\ cnt = [s \in Streams |-> 0] /\ req = [s \in Streams |-> 0]
    /\ mapped = [s \in Streams |-> Empty] /\ more = {} /\ lost = {} /\ broken = FALSE

-----------------------------------------------------------------------------
(* The memory objects.  An attempt is the state they work on:               *)
(* [info, live, size, pool, ok].                                            *)

Attempt(s) == [info |-> info[s], live |-> live, size |-> size, pool |-> pool, ok |-> TRUE]

\* findBufferLocked(): the first buffer of the list that is large enough.

findBufferLocked(list, z) ==
    LET i == SelectInSeq(list, LAMBDA b : size[b] >= z)
    IN IF i = 0 THEN [buf |-> None, rest |-> list]
                ELSE [buf |-> list[i], rest |-> RemoveAt(list, i)]

\* allocOneBuffer(): a new buffer of the kernel.
allocOneBuffer(a, k, z) ==
    LET b == CHOOSE c \in Bufs \ a.live : TRUE
    IN [a EXCEPT !.info[k] = b, !.live = @ \cup {b}, !.size[b] = z]

\* The error path of alloc(): every slot below k is given up, those of
\* earlier calls too.  Buffers that go to the pool stay in mMemInfo.
giveUp(s, a, k) ==
    IF s \in Pooled
    THEN [a EXCEPT !.pool = @ \o [i \in 1..(k - 1) |-> a.info[k - i]], !.ok = FALSE]
    ELSE [a EXCEPT !.live = @ \ {a.info[i] : i \in 1..(k - 1)},
                   !.info = [i \in Slots |-> IF i < k THEN None ELSE @[i]], !.ok = FALSE]

\* allocateBuffer(): from the pool, else from the kernel.
allocateBuffer(s, a, k, z) ==
    LET f == findBufferLocked(a.pool, z)
    IN IF ~a.ok THEN a
       ELSE IF s \in Pooled /\ f.buf # None THEN [a EXCEPT !.info[k] = f.buf, !.pool = f.rest]
       ELSE IF a.live = Bufs THEN giveUp(s, a, k)
       ELSE allocOneBuffer(a, k, z)

\* alloc(count): slots from mBufferCount on.
alloc(s, n, z) ==
    FoldLeft(LAMBDA a, k : allocateBuffer(s, a, k, z), Attempt(s), [i \in 1..n |-> cnt[s] + i])

\* dealloc() of n buffers: to the pool, or to the kernel (deallocOneBuffer()).
deallocFrees(s, a, n) ==
    [a EXCEPT !.live = @ \ {a.info[i] : i \in 1..n},
              !.pool = IF s \in Pooled THEN @ \o [i \in 1..n |-> a.info[i]] ELSE @]

dealloc(s, a, n) ==
    IF s \in Pooled THEN [a EXCEPT !.pool = @ \o [i \in 1..n |-> a.info[i]]]
                    ELSE [a EXCEPT !.live = @ \ {a.info[i] : i \in 1..n}]

\* The size of a buffer the kernel has back says nothing.
Memory(a) ==
    /\ live' = a.live /\ pool' = a.pool
    /\ size' = [b \in Bufs |-> IF b \in a.live THEN a.size[b] ELSE 0]

\* The memory object of s is gone, or was never made.
Gone(s, to) ==
    /\ st' = [st EXCEPT ![s] = to] /\ info' = [info EXCEPT ![s] = Empty]
    /\ cnt' = [cnt EXCEPT ![s] = 0] /\ req' = [req EXCEPT ![s] = 0]

\* It has its n buffers of size z.
Holds(s, a, n, z) ==
    /\ st' = [st EXCEPT ![s] = "held"] /\ info' = [info EXCEPT ![s] = a.info]
    /\ cnt' = [cnt EXCEPT ![s] = n] /\ req' = [req EXCEPT ![s] = z]

MapFirst(s, a, n) ==
    mapped' = [mapped EXCEPT ![s] = [i \in Slots |-> IF i <= n THEN a.info[i] ELSE None]]

-----------------------------------------------------------------------------
(* What the streams do with them.                                           *)

\* allocateStreamInfoBuf(): heap memory, with an mmap() of each buffer.  The
\* buffers from the one that cannot be mapped on are forgotten.
forgets(a, n, bad) == {a.info[i] : i \in bad..n}

AllocateHeap(s) ==
    \E z \in Sizes, bad \in 0..First :
        LET a == alloc(s, First, z)
        IN /\ s \in Info /\ st[s] = "none"
           /\ IF ~a.ok THEN Memory(a) /\ Gone(s, "none") /\ bad = 0 /\ UNCHANGED lost
              ELSE IF bad = 0 THEN Memory(a) /\ Holds(s, a, First, z) /\ UNCHANGED lost
              ELSE /\ Memory(dealloc(s, a, bad - 1)) /\ Gone(s, "none")
                   /\ lost' = lost \cup forgets(a, First, bad)
           /\ UNCHANGED <<mapped, more, broken>>

\* getBufs(): allocate, map each; a buffer that cannot be mapped (or a video
\* buffer without its metadata) gives all of them back.
GetBufs(s) ==
    \E z \in Sizes, bad \in BOOLEAN :
        LET a == alloc(s, First, z)
        IN /\ s \notin Info \cup Deferred /\ st[s] = "none"
           /\ IF ~a.ok THEN Memory(a) /\ Gone(s, "none") /\ ~bad /\ UNCHANGED <<mapped, more>>
              ELSE IF bad THEN /\ Memory(dealloc(s, a, First)) /\ Gone(s, "none")
                               /\ UNCHANGED <<mapped, more>>
              ELSE /\ Memory(a) /\ Holds(s, a, First, z) /\ MapFirst(s, a, First)
                   /\ more' = IF s \in Dyn THEN more \cup {s} ELSE more
           /\ UNCHANGED <<lost, broken>>

\* BufAllocRoutine(): the rest of the buffers, each mapped if the daemon will.

moreCount(s, n) == [cnt EXCEPT ![s] = n]

AllocateMore(s) ==
    LET a == alloc(s, Total - First, req[s])
    IN /\ s \in more /\ st[s] = "held" /\ (a.ok \/ MoreFails)
       /\ Memory(a) /\ info' = [info EXCEPT ![s] = a.info] /\ more' = more \ {s}
       /\ IF a.ok
          THEN \E took \in SUBSET ((First + 1)..Total) :
               /\ cnt' = moreCount(s, Total)
               /\ mapped' = [mapped EXCEPT ![s] =
                               [i \in Slots |-> IF i \in took THEN a.info[i] ELSE @[i]]]
          ELSE UNCHANGED <<cnt, mapped>>
       /\ UNCHANGED <<st, req, lost, broken>>

\* A deferred stream is added with a job for the deferred worker.
AddDeferred(s) ==
    /\ s \in Deferred /\ st[s] = "none" /\ st' = [st EXCEPT ![s] = "added"]
    /\ UNCHANGED <<live, size, pool, info, cnt, req, mapped, more, lost, broken>>

\* allocateBuffers() unmaps the index that failed, once for each that did not.
allocateBuffers(s) ==
    \E z \in Sizes, bad \in 0..First :
        LET a == alloc(s, First, z)
        IN /\ st[s] = "added" /\ (bad = 0 \/ DeferredMapFails) /\ (a.ok \/ DeferredFails)
           /\ IF ~a.ok THEN Memory(a) /\ Gone(s, "failed") /\ bad = 0 /\ UNCHANGED mapped
              ELSE IF bad > 0 THEN /\ Memory(dealloc(s, a, First)) /\ Gone(s, "failed")
                                   /\ MapFirst(s, a, bad - 1)
              ELSE Memory(a) /\ Holds(s, a, First, z) /\ MapFirst(s, a, First)
           /\ UNCHANGED <<more, lost, broken>>

\* deleteStream(): the daemon drops the buffers, the stream keeps them.
deleteStream(s) ==
    /\ s \in Deferred /\ st[s] = "held" /\ st' = [st EXCEPT ![s] = "kept"]
    /\ mapped' = [mapped EXCEPT ![s] = Empty]
    /\ UNCHANGED <<live, size, pool, info, cnt, req, more, lost, broken>>

\* putBufs(), or releaseBuffs() of the destructor: unmap all, then deallocate().

unmapAll(s) == [mapped EXCEPT ![s] = Empty]

Release(s) ==
    /\ st[s] \in {"held", "kept"}
    /\ Memory(dealloc(s, Attempt(s), cnt[s])) /\ Gone(s, "none")
    /\ mapped' = unmapAll(s) /\ more' = more \ {s}
    /\ UNCHANGED <<lost, broken>>

\* The destructor of a deferred stream that got no buffers: mStreamBufs is NULL.
ReleaseNothing(s) ==
    /\ st[s] = "failed" /\ broken' = TRUE /\ Gone(s, "none")
    /\ UNCHANGED <<live, size, pool, mapped, more, lost>>

\* A change of parameters that restarts the preview empties the pool.
clearFrees == live \ Range(pool)

clear ==
    /\ pool # <<>> /\ Memory([live |-> clearFrees, size |-> size, pool |-> <<>>])
    /\ UNCHANGED <<st, info, cnt, req, mapped, more, lost, broken>>

Next ==
    \/ \E s \in Streams :
        \/ AllocateHeap(s) \/ GetBufs(s) \/ AllocateMore(s) \/ AddDeferred(s)
        \/ allocateBuffers(s) \/ deleteStream(s) \/ Release(s) \/ ReleaseNothing(s)
    \/ clear

Spec == Init /\ [][Next]_vars

-----------------------------------------------------------------------------
Used == {<<s, i>> \in Streams \X Slots : st[s] \in {"held", "kept"} /\ i <= cnt[s]}
BufOf(p) == info[p[1]][p[2]]

\* A buffer is at one place: in one slot of one stream, or once in the pool.
\* Releasing to the pool (QCameraMemoryPool::releaseBuffer) does not clear the
\* slot, so each path must release a slot once.
OneOwner ==
    /\ \A p, q \in Used : p # q => BufOf(p) # BufOf(q)
    /\ \A i, j \in DOMAIN pool : i # j => pool[i] # pool[j]
    /\ \A p \in Used : BufOf(p) \notin Range(pool)

\* Whatever failed on the way, every buffer of the kernel is in use, in the
\* pool, or one of those a failed mmap() of QCameraHeapMemory::allocate() lost.
NothingElseLost == live = {BufOf(p) : p \in Used} \cup Range(pool) \cup lost

\* A stream never gets a buffer of the pool that is smaller than its frames.
LargeEnough == \A p \in Used : size[BufOf(p)] >= req[p[1]]

\* What the daemon has mapped is what the stream holds: no buffer that went
\* back to the pool or to the kernel is still mapped.
DaemonAgrees ==
    \A s \in Streams, i \in Slots :
        mapped[s][i] # None => /\ <<s, i>> \in Used /\ st[s] = "held"
                               /\ mapped[s][i] = info[s][i]

\* alloc() allocates the "requested number of buffers": the buffers of a
\* stream are as many as it counts.
RequestedNumber ==
    \A s \in Streams : Cardinality({info[s][i] : i \in 1..cnt[s]}) = cnt[s]

\* A failed allocateBuffers() is reported, not fatal: the destructor does not
\* use buffers that are not there.
NoNullBuffers == ~broken

=============================================================================
