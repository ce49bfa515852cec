------------------------------ MODULE BsPool ------------------------------
(***************************************************************************)
(* The pool of byte streams (g_bsd_pool, initBs and freeBs of              *)
(* src/bytestream.c), which all threads share without a lock, and the ways *)
(* through it: serverResponseHandler of the network thread, and the        *)
(* packets that its handlers and the other threads send (sendSnac,         *)
(* src/network.c; writeBs, src/wrappers.c).                                *)
(*                                                                         *)
(* A thread has a stack of streams: who composes a packet in a stream of   *)
(* its own holds it while sendSnac takes another, changeStatus holds its   *)
(* stream while sendUpdatePrivacy does the same, and the network thread    *)
(* holds the packet it has read over all of that.  The users of the pool   *)
(* are the places on these stacks.                                         *)
(*                                                                         *)
(* A stream holds the pieces appended to it, each named for the user that  *)
(* appended it; a packet is two pieces, its head and its body.             *)
(***************************************************************************)
EXTENDS Integers, Sequences, FiniteSets

CONSTANTS
    Threads,        \* "net", the network thread, and others
    Depth,          \* how many streams a thread holds at most
    MAX_BSD_NUM,    \* size of the pool
    Races,          \* whether two threads may meet in initBs with the same slot
    MaxPackets,     \* bound: packets sent or received
    MaxShort        \* bound: short writes

ASSUME PoolAssumption ==
    /\ MAX_BSD_NUM \in Nat \ {0}
    /\ IsFiniteSet(Threads) /\ "net" \in Threads
    /\ Depth \in Nat \ {0} /\ Races \in BOOLEAN

\* The first stream of the network thread is the packet it receives.
Users == Threads \X (1 .. Depth)
In == <<"net", 1>>
Under(u) == <<u[1], u[2] - 1>>
Over(u) == <<u[1], u[2] + 1>>

Slots == 0 .. MAX_BSD_NUM - 1
NoStream == 0
NoSlot == -1
Freed == << <<"freed", 0>> >>

VARIABLES
    pool,       \* g_bsd_pool: the stream in each slot, or none
    heap,       \* the streams: a sequence of pieces, or Freed
    pc, bsd,    \* per user: where it is, the descriptor it holds
    scan,       \* the slot initBs is looking at
    fresh,      \* the stream initBs has allocated and not yet stored
    r,          \* what writeBs has counted
    torn,       \* history: the server got something else than whole packets, each once
    packets, shorts,
    raced,      \* history: two users were inside initBs with the same slot
    leaks,      \* history: heads that could not be read
    astray      \* history: a descriptor out of range or a freed stream was used

poolVars == <<pool, heap, pc, bsd, scan, fresh, r, torn, packets, shorts, raced, leaks, astray>>

Content(d) == IF d = NoSlot \/ pool[d] = NoStream THEN NoStream ELSE pool[d]

-----------------------------------------------------------------------------
\* initBs: look for a slot without a stream, allocate one, store it.  Nothing
\* keeps another thread from the same slot in between.

MayStart(u) ==
    /\ pc[u] = "idle" /\ packets < MaxPackets
    /\ Under(u) \in Users => pc[Under(u)] = "handle"

Start(u) ==
    /\ MayStart(u)
    /\ pc' = [pc EXCEPT ![u] = "scan"]
    /\ scan' = [scan EXCEPT ![u] = 0]
    /\ packets' = packets + 1
    /\ UNCHANGED <<pool, heap, bsd, fresh, r, torn, shorts, raced, leaks, astray>>

Looks(u) ==
    /\ pc[u] = "scan" /\ scan[u] \in Slots /\ pool[scan[u]] # NoStream
    /\ scan' = [scan EXCEPT ![u] = @ + 1]
    /\ UNCHANGED <<pool, heap, pc, bsd, fresh, r, torn, packets, shorts, raced, leaks, astray>>

Meets(u) == \E v \in Users : pc[v] = "store" /\ scan[v] = scan[u]

\* malloc returns memory that no slot and no initBs refers to.
Streams == 1 .. MAX_BSD_NUM + Cardinality(Users)
Unused == {b \in Streams : (\A t \in Slots : pool[t] # b) /\ (\A v \in Users : fresh[v] # b)}

Allocates_unseen(u) ==                               \* slip: does not test the slot
    /\ pc[u] = "scan" /\ scan[u] \in Slots
    /\ LET new == CHOOSE b \in Unused : TRUE IN
           /\ heap' = [heap EXCEPT ![new] = <<>>]
           /\ fresh' = [fresh EXCEPT ![u] = new]
    /\ pc' = [pc EXCEPT ![u] = "store"]
    /\ raced' = (raced \/ Meets(u))
    /\ UNCHANGED <<pool, bsd, scan, r, torn, packets, shorts, leaks, astray>>
Allocates(u) ==
    /\ pc[u] = "scan" /\ scan[u] \in Slots /\ pool[scan[u]] = NoStream
    /\ Meets(u) => Races
    /\ LET new == CHOOSE b \in Unused : TRUE IN
           /\ heap' = [heap EXCEPT ![new] = <<>>]
           /\ fresh' = [fresh EXCEPT ![u] = new]
    /\ pc' = [pc EXCEPT ![u] = "store"]
    /\ raced' = (raced \/ Meets(u))
    /\ UNCHANGED <<pool, bsd, scan, r, torn, packets, shorts, leaks, astray>>

First(u) == IF u = In THEN "head" ELSE "append"

Stores(u) ==
    /\ pc[u] = "store"
    /\ pool' = [pool EXCEPT ![scan[u]] = fresh[u]]
    /\ bsd' = [bsd EXCEPT ![u] = scan[u]]
    /\ fresh' = [fresh EXCEPT ![u] = NoStream]
    /\ scan' = [scan EXCEPT ![u] = 0]
    /\ pc' = [pc EXCEPT ![u] = First(u)]
    /\ UNCHANGED <<heap, r, torn, packets, shorts, raced, leaks, astray>>

\* All slots taken: initBs returns -1, and nobody tests for it.
Exhausted_waits(u) ==                                \* slip: looks for one again
    /\ pc[u] = "scan" /\ scan[u] \notin Slots
    /\ scan' = [scan EXCEPT ![u] = 0]
    /\ UNCHANGED <<pool, heap, pc, bsd, fresh, r, torn, packets, shorts, raced, leaks, astray>>
Exhausted(u) ==
    /\ pc[u] = "scan" /\ scan[u] \notin Slots
    /\ bsd' = [bsd EXCEPT ![u] = NoSlot]
    /\ pc' = [pc EXCEPT ![u] = First(u)]
    /\ astray' = TRUE
    /\ UNCHANGED <<pool, heap, scan, fresh, r, torn, packets, shorts, raced, leaks>>

-----------------------------------------------------------------------------
\* bsAppend and bsAppendFromSocket: nothing happens without a stream.

Put(u) ==
    LET b == Content(bsd[u]) IN
    /\ heap' = IF b = NoStream \/ heap[b] = Freed THEN heap ELSE [heap EXCEPT ![b] = Append(@, u)]
    /\ astray' = (astray \/ (b # NoStream /\ heap[b] = Freed))

\* A composed packet is handed on to sendSnac, which takes a stream of its own
\* for it, or to another composer; what is in that stream is written.
Appends(u) ==
    /\ pc[u] \in {"append", "body"} /\ u # In
    /\ Put(u)
    /\ \E next \in {"write"} \cup (IF Over(u) \in Users THEN {"handle"} ELSE {}) :
           pc' = [pc EXCEPT ![u] = IF @ = "append" THEN "body" ELSE next]
    /\ r' = [r EXCEPT ![u] = 0]
    /\ UNCHANGED <<pool, bsd, scan, fresh, torn, packets, shorts, raced, leaks>>

\* serverResponseHandler: the head is read, then the body; a short body is
\* handled like any other.
Reads ==
    /\ pc[In] \in {"head", "body"}
    /\ Put(In)
    /\ pc' = [pc EXCEPT ![In] = IF @ = "head" THEN "body" ELSE "handle"]
    /\ UNCHANGED <<pool, bsd, scan, fresh, r, torn, packets, shorts, raced, leaks>>

\* The head cannot be read (the server is gone, another thread disconnected):
\* the handler returns and keeps its stream.
HeadFails ==
    /\ pc[In] = "head"
    /\ pc' = [pc EXCEPT ![In] = "idle"]
    /\ leaks' = leaks + (IF bsd[In] = NoSlot THEN 0 ELSE 1)
    /\ bsd' = [bsd EXCEPT ![In] = NoSlot]
    /\ UNCHANGED <<pool, heap, scan, fresh, r, torn, packets, shorts, raced, astray>>

\* The handler returns once its replies are sent, and so does the composer.
Handled_keeps(u) ==                                  \* slip: forgets freeBs
    /\ pc[u] = "handle" /\ (Over(u) \in Users => pc[Over(u)] = "idle")
    /\ pc' = [pc EXCEPT ![u] = "idle"]
    /\ bsd' = [bsd EXCEPT ![u] = NoSlot]
    /\ UNCHANGED <<pool, heap, scan, fresh, r, torn, packets, shorts, raced, leaks, astray>>
Handled(u) ==
    /\ pc[u] = "handle" /\ (Over(u) \in Users => pc[Over(u)] = "idle")
    /\ pc' = [pc EXCEPT ![u] = "free"]
    /\ UNCHANGED <<pool, heap, bsd, scan, fresh, r, torn, packets, shorts, raced, leaks, astray>>

-----------------------------------------------------------------------------
\* writeBs: the loop hands the buffer to the socket from its start each time,
\* with its full length, until what was written adds up to the length.

\* A short write makes the count miss the length: it is then only a failure
\* that ends the loop (r alternates between n + 1 and n + 2, which stand for
\* every larger count).

Loops_offByOne(u, n) == IF r'[u] = n - 1 THEN "free" ELSE "write"     \* slip
Loops(u, n) == IF r'[u] = n THEN "free" ELSE "write"

Writes(u) ==
    /\ pc[u] = "write" /\ Content(bsd[u]) # NoStream /\ heap[Content(bsd[u])] # Freed
    /\ LET data == heap[Content(bsd[u])] IN
       \E y \in 1 .. Len(data) :
           /\ y < Len(data) => shorts < MaxShort
           /\ shorts' = shorts + (IF y < Len(data) THEN 1 ELSE 0)
           /\ torn' = (torn \/ data # <<u, u>> \/ y < Len(data) \/ r[u] # 0)
           /\ r' = [r EXCEPT ![u] = IF @ + y > Len(data) THEN (IF @ = Len(data) + 1 THEN @ + 1 ELSE Len(data) + 1)
                                   ELSE @ + y]
           /\ pc' = [pc EXCEPT ![u] = Loops(u, Len(data))]
    /\ UNCHANGED <<pool, heap, bsd, scan, fresh, packets, raced, leaks, astray>>

\* No stream, an empty one, or a socket that fails.
WriteEndsHere(u) ==
    /\ pc[u] = "write"
    /\ astray' = (astray \/ (Content(bsd[u]) # NoStream /\ heap[Content(bsd[u])] = Freed))
    /\ pc' = [pc EXCEPT ![u] = "free"]
    /\ UNCHANGED <<pool, heap, bsd, scan, fresh, r, torn, packets, shorts, raced, leaks>>

-----------------------------------------------------------------------------
\* freeBs: the stream is freed, then the slot is emptied.

Frees(u) ==
    /\ pc[u] = "free"
    /\ LET b == Content(bsd[u]) IN
       IF b = NoStream
       THEN /\ pc' = [pc EXCEPT ![u] = "idle"]
            /\ bsd' = [bsd EXCEPT ![u] = NoSlot]
            /\ UNCHANGED <<heap, astray>>
       ELSE /\ heap' = [heap EXCEPT ![b] = Freed]
            /\ astray' = (astray \/ heap[b] = Freed)
            /\ pc' = [pc EXCEPT ![u] = "empty"]
            /\ UNCHANGED bsd
    /\ UNCHANGED <<pool, scan, fresh, r, torn, packets, shorts, raced, leaks>>

Empties(u) ==
    /\ pc[u] = "empty"
    /\ pool' = [pool EXCEPT ![bsd[u]] = NoStream]
    /\ bsd' = [bsd EXCEPT ![u] = NoSlot]
    /\ pc' = [pc EXCEPT ![u] = "idle"]
    /\ UNCHANGED <<heap, scan, fresh, r, torn, packets, shorts, raced, leaks, astray>>

-----------------------------------------------------------------------------
PoolInit ==
    /\ pool = [s \in Slots |-> NoStream] /\ heap = [b \in Streams |-> Freed]
    /\ pc = [u \in Users |-> "idle"] /\ bsd = [u \in Users |-> NoSlot]
    /\ scan = [u \in Users |-> 0] /\ fresh = [u \in Users |-> NoStream]
    /\ r = [u \in Users |-> 0] /\ torn = FALSE
    /\ packets = 0 /\ shorts = 0 /\ raced = FALSE /\ leaks = 0 /\ astray = FALSE

Step(u) ==
    \/ Looks(u) \/ Allocates(u) \/ Stores(u) \/ Exhausted(u) \/ Appends(u) \/ Handled(u)
    \/ Writes(u) \/ WriteEndsHere(u) \/ Frees(u) \/ Empties(u)

PoolNext ==
    \/ \E u \in Users : Start(u) \/ Step(u)
    \/ Reads \/ HeadFails

\* The threads run; the socket takes data or fails, but need not bring any;
\* nobody is obliged to start.
Fairness == \A u \in Users : WF_poolVars(Step(u))
PoolSpec == PoolInit /\ [][PoolNext]_poolVars /\ Fairness

-----------------------------------------------------------------------------
Holds(u) == bsd[u] # NoSlot

\* As long as no two threads met inside initBs with the same slot, every
\* stream has one owner, and a descriptor out of range or a freed stream is
\* used only after packets whose head could not be read ate the pool up.
PoolSound ==
    ~raced =>
        /\ \A u, v \in Users : u # v /\ Holds(u) => bsd[u] # bsd[v]
        /\ astray => leaks > MAX_BSD_NUM - Cardinality(Users)

\* Each slot that is taken is held by a user or is one of the packets whose
\* head could not be read: nothing else is ever left behind, on any path.
GivenBack ==
    ~raced => Cardinality({s \in Slots : pool[s] # NoStream}) =
              Cardinality({u \in Users : Holds(u)}) + leaks

\* Whatever the threads interleave, and however often one of them fails,
\* the server sees whole packets of one sender each, and each once, until a
\* write is short.
WholePackets == torn => raced \/ shorts > 0

\* Nobody waits for a slot or for a lock with a stream in his hands: whoever
\* begins a packet, alone or on behalf of another, is done with it some time,
\* full pool or not, unless somebody's short writes have added up to more
\* than the packet: then writeBs goes on until the socket fails.
Overshot(v) ==
    /\ pc[v] = "write" /\ Content(bsd[v]) # NoStream /\ heap[Content(bsd[v])] # Freed
    /\ r[v] > Len(heap[Content(bsd[v])])
PacketsEnd ==
    \A u \in Users \ {In} : (pc[u] # "idle") ~> (pc[u] = "idle" \/ \E v \in Users : Overshot(v))
=============================================================================
