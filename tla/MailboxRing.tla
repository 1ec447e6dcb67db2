----------------------------- MODULE MailboxRing -----------------------------
(***************************************************************************)
(* One sub-region (channel) of the shared-memory mailbox: the ring buffer  *)
(* that LibMB_Write, LibMB_Read and LibMB_ChanReset of                     *)
(* middleware/safemlib/src/rtss_mailbox_lib.c work on, with the sender and *)
(* the receiver on different processors.                                   *)
(*                                                                         *)
(* Every access to shared state is a step of its own where the peer can    *)
(* tell: reading the peer's index, copying each item, publishing an index  *)
(* (the library puts a full barrier around each index access, so copies    *)
(* and index stores are seen in program order).  The sender owns           *)
(* item_in_index and the receiver owns item_out_index, so that reading an  *)
(* index twice and the sanity check of an index in range add no behaviour. *)
(*                                                                         *)
(* An item is its serial number: the k-th item the sender publishes is k,  *)
(* and 0 is a slot never written.                                          *)
(***************************************************************************)
EXTENDS Integers, Sequences

CONSTANTS N,         \* max_item_num of the sub-region: slots of the ring
          MaxBatch,  \* largest item_num of one call
          MaxItems   \* bound on the items ever published

ASSUME RingAssumption ==
    /\ N \in Nat \ {0}
    /\ MaxBatch \in Nat
    /\ MaxItems \in Nat

MB_E_NO_ENOUGH_BUF == -55

VARIABLES
    item_in_index,   \* shared, stored by the sender
    item_out_index,  \* shared, stored by the receiver
    ring,            \* shared, the items
    wpc,             \* sender: "idle" or "copy" (inside LibMB_Write_Item)
    wn,              \* sender: item_num of the call under way
    wi,              \* sender: items copied so far
    wret,            \* sender: item_num and result of the last LibMB_Write
    rpc,             \* receiver: "idle" or "copy" (inside LibMB_Read_Item)
    rn,              \* receiver: read_num of the call under way
    rbuf,            \* receiver: items copied so far to the caller's buffer
    delivered,       \* receiver: items the last LibMB_Read returned
    resetting,       \* a reset is between its two stores
    published,       \* serial of the last published item (history)
    consumed         \* serial of the last item read or thrown away (history)

sender   == <<wpc, wn, wi, wret>>
receiver == <<rpc, rn, rbuf, delivered>>
vars == <<item_in_index, item_out_index, ring, sender, receiver,
          resetting, published, consumed>>

Slots == 0 .. N - 1

(***************************************************************************)
(* Index arithmetic                                                        *)
(***************************************************************************)
LibMB_Valid_Item(w, r) == IF w >= r THEN w - r ELSE N - r + w

\* Mutants: no reserved slot; two of them; the branches of the test swapped.
Free_NoReserve(w, r) == IF w >= r THEN N - w + r ELSE r - w
Free_ReserveTwo(w, r) == (IF w >= r THEN N - w + r ELSE r - w) - 2
Free_NoWrap(w, r) == (IF w >= r THEN N - w + r ELSE N - r + w) - 1

\* One slot is reserved, so that equal indices always mean "empty".
LibMB_Free_Item(w, r) == (IF w >= r THEN N - w + r ELSE r - w) - 1

\* The slot of the i-th item (from 0) of a batch of n starting at index.  The
\* copy is one chunk, or two when the batch passes the end of the ring.
SlotOf(index, n, i) ==
    IF index + n > N /\ i >= N - index
    THEN i - (N - index)
    ELSE index + i

\* Mutant: an index that is not brought back into the ring.
Advance_NoWrap(index, n) == index + n

Advance(index, n) == (index + n) % N

(***************************************************************************)
(* Sender: LibMB_Write                                                     *)
(***************************************************************************)
\* The free-space test, with the receiver's index as it is at that moment.
LibMB_Write(n) ==
    /\ wpc = "idle"
    /\ ~resetting
    /\ published + n <= MaxItems
    /\ n <= LibMB_Free_Item(item_in_index, item_out_index)
    /\ wpc' = "copy"
    /\ wn' = n
    /\ wi' = 0
    /\ UNCHANGED <<item_in_index, item_out_index, ring, wret, receiver,
                   resetting, published, consumed>>

LibMB_Write_NoBuf(n) ==
    /\ wpc = "idle"
    /\ ~resetting
    /\ n > LibMB_Free_Item(item_in_index, item_out_index)
    /\ wret' = <<n, MB_E_NO_ENOUGH_BUF>>
    /\ UNCHANGED <<item_in_index, item_out_index, ring, wpc, wn, wi, receiver,
                   resetting, published, consumed>>

WriteItem_Copy ==
    /\ wpc = "copy"
    /\ wi < wn
    /\ ring' = [ring EXCEPT ![SlotOf(item_in_index, wn, wi)] = published + wi + 1]
    /\ wi' = wi + 1
    /\ UNCHANGED <<item_in_index, item_out_index, wpc, wn, wret, receiver,
                   resetting, published, consumed>>

WriteItem_Publish ==
    /\ wpc = "copy"
    /\ wi = wn
    /\ item_in_index' = Advance(item_in_index, wn)
    /\ published' = published + wn
    /\ wpc' = "idle"
    /\ wret' = <<wn, wn>>
    /\ UNCHANGED <<item_out_index, ring, wn, wi, receiver, resetting, consumed>>

(***************************************************************************)
(* Receiver: LibMB_Read                                                    *)
(***************************************************************************)
LibMB_Read(n) ==
    LET valid_items == LibMB_Valid_Item(item_in_index, item_out_index)
        read_num == IF valid_items < n THEN valid_items ELSE n
    IN  /\ rpc = "idle"
        /\ ~resetting
        /\ read_num > 0
        /\ rpc' = "copy"
        /\ rn' = read_num
        /\ rbuf' = <<>>
        /\ UNCHANGED <<item_in_index, item_out_index, ring, sender, delivered,
                       resetting, published, consumed>>

LibMB_Read_None(n) ==
    /\ rpc = "idle"
    /\ ~resetting
    /\ n = 0 \/ LibMB_Valid_Item(item_in_index, item_out_index) = 0
    /\ delivered' = <<>>
    /\ UNCHANGED <<item_in_index, item_out_index, ring, sender, rpc, rn, rbuf,
                   resetting, published, consumed>>

\* Mutant: a copy that always starts at the head of the ring.
ReadCopy_FromHead ==
    /\ rpc = "copy"
    /\ Len(rbuf) < rn
    /\ rbuf' = Append(rbuf, ring[Len(rbuf)])
    /\ UNCHANGED <<item_in_index, item_out_index, ring, sender, rpc, rn,
                   delivered, resetting, published, consumed>>

ReadItem_Copy ==
    /\ rpc = "copy"
    /\ Len(rbuf) < rn
    /\ rbuf' = Append(rbuf, ring[SlotOf(item_out_index, rn, Len(rbuf))])
    /\ UNCHANGED <<item_in_index, item_out_index, ring, sender, rpc, rn,
                   delivered, resetting, published, consumed>>

ReadItem_Publish ==
    /\ rpc = "copy"
    /\ Len(rbuf) = rn
    /\ item_out_index' = Advance(item_out_index, rn)
    /\ consumed' = consumed + rn
    /\ rpc' = "idle"
    /\ rbuf' = <<>>
    /\ delivered' = rbuf
    /\ UNCHANGED <<item_in_index, ring, sender, rn, resetting, published>>

(***************************************************************************)
(* LibMB_ChanReset, by either side.  The interface requires that neither   *)
(* side is using the channel; nothing else separates the two stores.       *)
(***************************************************************************)
ChanReset_In ==
    /\ wpc = "idle" /\ rpc = "idle"
    /\ ~resetting
    /\ item_in_index' = 0
    /\ resetting' = TRUE
    /\ UNCHANGED <<item_out_index, ring, sender, receiver, published, consumed>>

ChanReset_Out ==
    /\ resetting
    /\ item_out_index' = 0
    /\ resetting' = FALSE
    /\ consumed' = published
    /\ UNCHANGED <<item_in_index, ring, sender, receiver, published>>

-----------------------------------------------------------------------------
Init ==
    /\ item_in_index = 0
    /\ item_out_index = 0
    /\ ring = [s \in Slots |-> 0]
    /\ wpc = "idle" /\ wn = 0 /\ wi = 0 /\ wret = <<0, 0>>
    /\ rpc = "idle" /\ rn = 0 /\ rbuf = <<>> /\ delivered = <<>>
    /\ resetting = FALSE
    /\ published = 0
    /\ consumed = 0

SenderStep ==
    \/ \E n \in 0..MaxBatch : LibMB_Write(n) \/ LibMB_Write_NoBuf(n)
    \/ WriteItem_Copy
    \/ WriteItem_Publish

ReceiverStep ==
    \/ \E n \in 0..MaxBatch : LibMB_Read(n) \/ LibMB_Read_None(n)
    \/ ReadItem_Copy
    \/ ReadItem_Publish

ResetStep == ChanReset_In \/ ChanReset_Out

Next == SenderStep \/ ReceiverStep \/ ResetStep

Spec == Init /\ [][Next]_vars

-----------------------------------------------------------------------------
(***************************************************************************)
(* Properties                                                              *)
(***************************************************************************)
\* The indices stay inside the ring: an index that left it would fail
\* LibMB_Mailbox_sanity_check and shut the channel for good.
TypeOK ==
    /\ item_in_index \in Slots
    /\ item_out_index \in Slots
    /\ ring \in [Slots -> Nat]
    /\ wpc \in {"idle", "copy"}
    /\ wn \in Nat
    /\ wi \in Nat
    /\ wret \in Nat \X Int
    /\ rpc \in {"idle", "copy"}
    /\ rn \in Nat
    /\ rbuf \in Seq(Nat)
    /\ delivered \in Seq(Nat)
    /\ resetting \in BOOLEAN
    /\ published \in Nat
    /\ consumed \in Nat

Valid == LibMB_Valid_Item(item_in_index, item_out_index)

\* The slots the receiver may read: from item_out_index up to item_in_index.
Readable == {SlotOf(item_out_index, Valid, i) : i \in 0 .. Valid - 1}

\* The slots the sender is filling and has not published.
Filling == IF wpc = "copy"
           THEN {SlotOf(item_in_index, wn, i) : i \in 0 .. wn - 1}
           ELSE {}

\* What is between the two indices is exactly the unread items, in the order
\* they were written: wherever the batches wrap, however stale the index the
\* sender last saw, and after any reset (LibMB_Write_Item, LibMB_Read_Item).
ItemsIntact ==
    ~resetting =>
        /\ published - consumed = Valid
        /\ \A i \in 0 .. Valid - 1 :
              ring[SlotOf(item_out_index, Valid, i)] = consumed + i + 1

\* The bytes LibMB_Read_Item copies out are the oldest unread items, in
\* order: none lost, repeated, torn by the sender's copy or from before a
\* reset.
InOrderDelivery ==
    \A i \in 1 .. Len(rbuf) : rbuf[i] = consumed + i

\* The sender's copy never touches a slot the receiver may be reading, so
\* the two unsynchronised copies never race (the reserved slot of
\* LibMB_Free_Item is what makes this true when the ring is full).
NoSlotConflict ==
    ~resetting => Filling \cap Readable = {}

\* The channel implements the bounded queue of MailboxFifo, of capacity
\* N - 1: each call takes effect at its index store, a call is refused only
\* when it does not fit, and nothing before the store is visible.
Fifo == INSTANCE MailboxFifo WITH
    Capacity      <- N - 1,
    NO_ENOUGH_BUF <- MB_E_NO_ENOUGH_BUF,
    put           <- published,
    queue         <- IF resetting THEN <<>>
                     ELSE [i \in 1 .. Valid |-> ring[SlotOf(item_out_index, Valid, i - 1)]]

ImplementsFifo == Fifo!Spec
=============================================================================
