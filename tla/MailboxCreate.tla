---------------------------- MODULE MailboxCreate ----------------------------
(***************************************************************************)
(* Creating a mailbox under a client: LibMB_Create with LibMB_Init_Mailbox *)
(* of middleware/safemlib/src/rtss_mailbox_lib.c, run by RTSS, and         *)
(* LibMB_Write on the other processor, which starts as soon as the magic   *)
(* number is there and goes on when RTSS restarts, also in the middle of a *)
(* creation, and creates the mailbox again.                                *)
(*                                                                         *)
(* The client uses the last sub-region, and only what it looks at is kept  *)
(* of the memory.  LibMB_Create stores without a barrier, so that the      *)
(* client may see its stores in any order; the client has a barrier after  *)
(* each load, and makes one load a step.                                   *)
(***************************************************************************)
EXTENDS MailboxLayout

CONSTANTS MB_MAX_SIZE,
          Batches,                \* the numbers of items the client writes
          MaxCreations            \* bound on the creations

ASSUME CreateAssumption ==
    /\ MB_MAX_SIZE \in Nat
    /\ Batches \subseteq Nat \ {0}
    /\ MaxCreations \in Nat

VARIABLES
    pending,     \* the fields a creation has stored and the client cannot see yet
    mem,         \* the fields of shared memory that the client looks at
    creations,   \* creations begun
    whole,       \* all the stores of a creation have been visible (history)
    cpc,         \* the client: "idle", "astray", or what it loads or does next
    local,       \* the client's local variables: [batch, num, size, in, out]
    sure,        \* the write began when the mailbox had been whole (history)
    lost         \* such a write reported success and wrote nothing (history)

config == <<mb_size, rgn, mapret, check>>
rtss == <<config, pending, creations, whole>>
client == <<cpc, local, sure, lost>>
vars == <<rtss, mem, client>>

Sub == rgn[Len(rgn)]

-----------------------------------------------------------------------------
(***************************************************************************)
(* LibMB_Create                                                            *)
(***************************************************************************)
\* "count" is num_of_sub_region and "start" the offset of the client's
\* sub-region in the descriptor; the others are the magic number and the
\* fields of the sub-region.
Fields == {"magic", "count", "start", "num", "size", "in", "out"}

\* What the creation stores in each field.
Value(f) ==
    CASE f \in {"magic", "count", "start"} -> TRUE
      [] f = "num"  -> Sub.num
      [] f = "size" -> Sub.size
      [] f \in {"in", "out"} -> 0

\* The stores that can be seen: one of the value that is there cannot, in a
\* field that only creations store.
Stores == {f \in Fields : f \in {"in", "out"} \/ mem[f] # Value(f)}

\* Mutant: the sub-region is cleared before it is filled.
LibMB_Create_Clears ==
    /\ check = "none"
    /\ check' = IF LibMB_Boundary_Check THEN "accepted" ELSE "refused"
    /\ pending' = IF LibMB_Boundary_Check THEN Stores \cup {"num", "size"} ELSE {}
    /\ mem' = [mem EXCEPT !.num = 0, !.size = 0]
    /\ creations' = creations + 1
    /\ UNCHANGED <<mb_size, rgn, mapret, whole, client>>

LibMB_Create ==
    /\ check = "none"
    /\ check' = IF LibMB_Boundary_Check THEN "accepted" ELSE "refused"
    /\ pending' = IF LibMB_Boundary_Check THEN Stores ELSE {}
    /\ creations' = creations + 1
    /\ UNCHANGED <<mb_size, rgn, mapret, mem, whole, client>>

\* One of its stores becomes visible, whichever.
CreateStore ==
    \E f \in pending :
        /\ mem' = [mem EXCEPT ![f] = Value(f)]
        /\ pending' = pending \ {f}
        /\ whole' = (whole \/ pending = {f})
        /\ UNCHANGED <<config, creations, client>>

\* RTSS restarts, after an update perhaps, and is about to create the mailbox
\* again, with the same map, in the memory as it is.  What it had not stored
\* yet of a creation is not stored.
Restart ==
    /\ check = "accepted"
    /\ creations < MaxCreations
    /\ check' = "none"
    /\ pending' = {}
    /\ UNCHANGED <<mb_size, rgn, mapret, mem, creations, whole, client>>

\* RTSS reads what is in the ring, after a barrier of its own.
RtssRead ==
    /\ check = "accepted" /\ pending = {}
    /\ mem.in # mem.out
    /\ mem' = [mem EXCEPT !.out = mem.in]
    /\ UNCHANGED <<rtss, client>>

-----------------------------------------------------------------------------
(***************************************************************************)
(* LibMB_Write in the client                                               *)
(***************************************************************************)
\* A function begins with its own locals and leaves none behind.
Locals(n) == [batch |-> n, num |-> 0, size |-> 0, in |-> 0, out |-> 0]

At(from, to) ==
    /\ cpc = from
    /\ cpc' = to
    /\ UNCHANGED <<rtss, sure>>

\* A load of a field of the sub-region.
LoadNum(from, to)  == At(from, to) /\ local' = [local EXCEPT !.num = mem.num]
LoadSize(from, to) == At(from, to) /\ local' = [local EXCEPT !.size = mem.size]
LoadIn(from, to)   == At(from, to) /\ local' = [local EXCEPT !.in = mem.in]
LoadOut(from, to)  == At(from, to) /\ local' = [local EXCEPT !.out = mem.out]

\* The end of a function: LibMB_Write goes on if its answer is ok.
Return(from, ok, to) ==
    /\ At(from, IF ok THEN to ELSE "idle")
    /\ local' = Locals(IF ok THEN local.batch ELSE 0)

LibMB_Write(n) ==
    /\ mem.magic
    /\ cpc = "idle"
    /\ cpc' = "count"
    /\ local' = Locals(n)
    /\ sure' = whole
    /\ UNCHANGED <<rtss, mem, lost>>

CheckIndex ==
    /\ Return("count", mem.count, "start")
    /\ UNCHANGED <<mem, lost>>

\* An offset that is not there yet is 0, and the client takes the descriptor
\* of the mailbox for its sub-region: what such a write does is not modelled.
FindSubRegion ==
    /\ At("start", IF mem.start THEN "check num" ELSE "astray")
    /\ UNCHANGED <<mem, local, lost>>

LibMB_Mailbox_sanity_check ==
    /\ \/ LoadNum("check num", "check size")
       \/ LoadSize("check size", "check in")
       \/ LoadIn("check in", "check out")
       \/ Return("check out", /\ local.num <= MB_MAX_ITEM_NUM
                              /\ local.size <= MB_MAX_SIZE
                              /\ local.in < local.num
                              /\ mem.out < local.num,
                 "free in")
    /\ UNCHANGED <<mem, lost>>

\* The number of the free items is unsigned.
Fits(free) == local.batch <= (free - 1) % Word

\* Mutant: the two indices are mixed up.
Free_Item_Swapped ==
    /\ \/ LoadIn("free in", "free out")
       \/ local.in >= mem.out /\ LoadOut("free out", "free num")
       \/ local.in < mem.out /\ Return("free out", Fits(mem.out - local.in), "size")
       \/ Return("free num", Fits(mem.num - local.out + local.in), "size")
    /\ UNCHANGED <<mem, lost>>

\* The number of the items is loaded only when it is needed.
LibMB_Free_Item ==
    /\ \/ LoadIn("free in", "free out")
       \/ local.in >= mem.out /\ LoadOut("free out", "free num")
       \/ local.in < mem.out /\ Return("free out", Fits(mem.out - local.in), "size")
       \/ Return("free num", Fits(mem.num - local.in + local.out), "size")
    /\ UNCHANGED <<mem, lost>>

\* LibMB_Write_Item loads the size, the index and the number again.
LoadRing ==
    /\ LoadSize("size", "index") \/ LoadIn("index", "guard")
    /\ UNCHANGED <<mem, lost>>

\* The guard against what changed since the sanity check.  LibMB_Write does
\* not learn of it and returns the number of items.
Guard ==
    LET bad == mem.num = 0 \/ local.size = 0 \/ local.in >= mem.num
    IN  /\ \/ bad /\ Return("guard", FALSE, "copy")
           \/ ~bad /\ LoadNum("guard", "copy")
        /\ lost' = (lost \/ (sure /\ bad))
        /\ UNCHANGED mem

\* The items are copied and the index is stored.
Publish ==
    /\ Return("copy", FALSE, "idle")
    /\ mem' = [mem EXCEPT !.in = (local.in + local.batch) % local.num]
    /\ UNCHANGED lost

-----------------------------------------------------------------------------
\* Memory at power-up.
Zeroes == [magic |-> FALSE, count |-> FALSE, start |-> FALSE,
           num |-> 0, size |-> 0, in |-> 0, out |-> 0]

Regions == [num : Nums, size : ItemSizes, start : {0}, end : {0}]

Init ==
    /\ mb_size \in Sizes
    /\ rgn \in UNION {[1 .. n -> Regions] : n \in 0 .. MaxRegions}
    /\ mapret = "none"
    /\ check = "none"
    /\ pending = {}
    /\ mem = Zeroes
    /\ creations = 0
    /\ whole = FALSE
    /\ cpc = "idle"
    /\ local = Locals(0)
    /\ sure = FALSE
    /\ lost = FALSE

LibMB_ChanMapInit ==
    /\ MapConfig
    /\ UNCHANGED <<pending, creations, whole, mem, client>>

OffsetByHand ==
    /\ creations = 0
    /\ SetOffset
    /\ UNCHANGED <<pending, creations, whole, mem, client>>

Next ==
    \/ LibMB_ChanMapInit
    \/ OffsetByHand
    \/ LibMB_Create
    \/ CreateStore
    \/ Restart
    \/ RtssRead
    \/ \E n \in Batches : LibMB_Write(n)
    \/ CheckIndex
    \/ FindSubRegion
    \/ LibMB_Mailbox_sanity_check
    \/ LibMB_Free_Item
    \/ LoadRing
    \/ Guard
    \/ Publish

Spec == Init /\ [][Next]_vars

-----------------------------------------------------------------------------
\* The slots a copy touches, in one chunk or in two around the end.
CopiedSlots ==
    IF local.in + local.batch > local.num
    THEN local.in .. local.num - 1 \cup 0 .. local.in + local.batch - local.num - 1
    ELSE local.in .. local.in + local.batch - 1

\* The copy of a write never leaves the items of the client's sub-region, also
\* when RTSS restarts and creates the mailbox again, with the same map, between
\* any two loads of it, and whatever the order in which the stores of a creation
\* are seen.  Only a write that began before the mailbox was ever whole may miss
\* its sub-region altogether.  That the items lie inside the mailbox is
\* RegionsDisjoint.
CopyInBounds ==
    /\ cpc = "copy" => \A s \in CopiedSlots : (s + 1) * local.size <= Payload(Sub)
    /\ cpc = "astray" => ~sure

\* A write that reports success has written, although LibMB_Write_Item returns
\* silently when what it loads again is bad: whenever RTSS restarts and creates
\* the mailbox again, and whatever the order in which its stores are seen, unless
\* the items have no bytes.  The write must have begun after a creation was seen
\* whole: in the first one the magic number, the number of the items and their
\* size may be seen in an order that makes it report what it did not write.
AckedIsWritten == lost => Sub.size = 0
=============================================================================
