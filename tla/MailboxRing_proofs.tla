------------------------- MODULE MailboxRing_proofs -------------------------
(***************************************************************************)
(* The safety of one mailbox channel for every ring size, batch size and   *)
(* number of items, and its refinement of MailboxFifo.                     *)
(***************************************************************************)
EXTENDS MailboxRing, SequenceTheorems, TLAPS

(***************************************************************************)
(* The inductive invariant.  Beside the properties themselves it says what *)
(* a call under way still relies on: the sender's batch fits in the slots  *)
(* that are free NOW (the receiver can only have freed more since the      *)
(* test), the receiver's batch is readable NOW, and what each has copied.  *)
(***************************************************************************)
SenderInv ==
    wpc = "copy" =>
        /\ wi <= wn
        /\ wn <= LibMB_Free_Item(item_in_index, item_out_index)
        /\ \A i \in 0 .. wi - 1 :
              ring[SlotOf(item_in_index, wn, i)] = published + i + 1

ReceiverInv ==
    /\ rpc = "idle" => rbuf = <<>>
    /\ rpc = "copy" => rn > 0 /\ rn <= Valid /\ Len(rbuf) <= rn

ResetInv ==
    resetting => wpc = "idle" /\ rpc = "idle" /\ item_in_index = 0

IInv ==
    /\ TypeOK
    /\ ItemsIntact
    /\ InOrderDelivery
    /\ SenderInv
    /\ ReceiverInv
    /\ ResetInv

-----------------------------------------------------------------------------
(***************************************************************************)
(* Index arithmetic                                                        *)
(***************************************************************************)
\* Ring positions, without the chunks: x is at most once past the end.
Wrap(x) == IF x >= N THEN x - N ELSE x

\* The modulo by which an index is published is a single wrap.
LEMMA AdvanceIsWrap ==
    ASSUME NEW index \in Slots, NEW n \in 0 .. N
    PROVE  /\ Advance(index, n) = Wrap(index + n)
           /\ Advance(index, n) \in Slots
<1>1. CASE index + n < N
  BY <1>1, RingAssumption, SMT DEF Advance, Wrap, Slots
<1>2. CASE index + n >= N
  BY <1>2, RingAssumption, SMT DEF Advance, Wrap, Slots
<1> QED
  BY <1>1, <1>2, RingAssumption DEF Slots

\* The two-chunk copy puts item i of a batch where one wrap would.
LEMMA SlotIsWrap ==
    ASSUME NEW index \in Slots, NEW n \in 0 .. N, NEW i \in 0 .. n - 1
    PROVE  /\ SlotOf(index, n, i) = Wrap(index + i)
           /\ SlotOf(index, n, i) \in Slots
BY RingAssumption DEF SlotOf, Wrap, Slots

\* Free and valid slots always make N - 1.
LEMMA FreePlusValid ==
    ASSUME NEW w \in Slots, NEW r \in Slots
    PROVE  /\ LibMB_Valid_Item(w, r) \in 0 .. N - 1
           /\ LibMB_Free_Item(w, r) \in 0 .. N - 1
           /\ LibMB_Free_Item(w, r) = N - 1 - LibMB_Valid_Item(w, r)
           /\ w = Wrap(r + LibMB_Valid_Item(w, r))
BY RingAssumption DEF LibMB_Valid_Item, LibMB_Free_Item, Slots, Wrap

\* Publishing n items that fit adds n to what is readable.
LEMMA ValidAfterWrite ==
    ASSUME NEW w \in Slots, NEW r \in Slots,
           NEW n \in 0 .. LibMB_Free_Item(w, r)
    PROVE  LibMB_Valid_Item(Advance(w, n), r) = LibMB_Valid_Item(w, r) + n
<1>1. n \in 0 .. N
  BY FreePlusValid, RingAssumption
<1>2. Advance(w, n) = Wrap(w + n)
  BY <1>1, AdvanceIsWrap
<1> QED
  BY <1>2, RingAssumption DEF LibMB_Valid_Item, LibMB_Free_Item, Wrap, Slots

\* Publishing the removal of n readable items takes n from what is readable.
LEMMA ValidAfterRead ==
    ASSUME NEW w \in Slots, NEW r \in Slots,
           NEW n \in 0 .. LibMB_Valid_Item(w, r)
    PROVE  LibMB_Valid_Item(w, Advance(r, n)) = LibMB_Valid_Item(w, r) - n
<1>1. n \in 0 .. N
  BY FreePlusValid, RingAssumption
<1>2. Advance(r, n) = Wrap(r + n)
  BY <1>1, AdvanceIsWrap
<1> QED
  BY <1>2, RingAssumption DEF LibMB_Valid_Item, Wrap, Slots

\* A slot of the sender's batch is none of the readable ones.
LEMMA BatchOutsideReadable ==
    ASSUME NEW w \in Slots, NEW r \in Slots,
           NEW n \in 0 .. LibMB_Free_Item(w, r),
           NEW i \in 0 .. n - 1,
           NEW j \in 0 .. LibMB_Valid_Item(w, r) - 1
    PROVE  SlotOf(w, n, i) # SlotOf(r, LibMB_Valid_Item(w, r), j)
<1>1. SlotOf(w, n, i) = Wrap(w + i)
  BY FreePlusValid, SlotIsWrap, RingAssumption
<1>2. SlotOf(r, LibMB_Valid_Item(w, r), j) = Wrap(r + j)
  BY FreePlusValid, SlotIsWrap, RingAssumption
<1> QED
  BY <1>1, <1>2, RingAssumption DEF LibMB_Valid_Item, LibMB_Free_Item, Wrap, Slots

-----------------------------------------------------------------------------
\* The initial state satisfies the inductive invariant.
LEMMA InitInv == Init => IInv
<1> SUFFICES ASSUME Init PROVE IInv
  OBVIOUS
<1>1. TypeOK
  <2>1. wret \in Nat \X Int
    BY DEF Init
  <2>2. rbuf \in Seq(Nat) /\ delivered \in Seq(Nat)
    BY DEF Init
  <2>3. ring \in [Slots -> Nat] /\ item_in_index \in Slots /\ item_out_index \in Slots
    BY RingAssumption DEF Init, Slots
  <2> QED
    BY <2>1, <2>2, <2>3 DEF Init, TypeOK
<1>2. Valid = 0
  BY DEF Init, Valid, LibMB_Valid_Item
<1> QED
  BY <1>1, <1>2 DEF Init, IInv, ItemsIntact, InOrderDelivery, SenderInv,
     ReceiverInv, ResetInv

\* The call under way: starting and refusing calls changes no shared state.
LEMMA LibMB_WriteInv ==
    ASSUME IInv, NEW n \in 0 .. MaxBatch, LibMB_Write(n)
    PROVE  IInv'
<1> USE DEF IInv
<1>1. TypeOK'
  BY RingAssumption DEF TypeOK, LibMB_Write, receiver
<1>2. ItemsIntact'
  BY DEF ItemsIntact, LibMB_Write, Valid, receiver
<1>3. SenderInv'
  BY RingAssumption DEF SenderInv, LibMB_Write, TypeOK
<1>4. InOrderDelivery' /\ ReceiverInv' /\ ResetInv'
  BY DEF InOrderDelivery, ReceiverInv, ResetInv, LibMB_Write, Valid, receiver
<1> QED BY <1>1, <1>2, <1>3, <1>4

\* Starting a read: what is read was readable when the call looked.
LEMMA LibMB_ReadInv ==
    ASSUME IInv, NEW n \in 0 .. MaxBatch, LibMB_Read(n)
    PROVE  IInv'
<1> USE DEF IInv
<1>1. Valid \in 0 .. N - 1
  BY FreePlusValid DEF TypeOK, Valid
<1>2. TypeOK'
  BY <1>1, RingAssumption DEF TypeOK, LibMB_Read, sender, Valid
<1>3. ItemsIntact' /\ SenderInv'
  BY DEF ItemsIntact, SenderInv, LibMB_Read, Valid, sender
<1>4. InOrderDelivery'
  BY DEF InOrderDelivery, LibMB_Read
<1>5. ReceiverInv' /\ ResetInv'
  BY <1>1, RingAssumption DEF ReceiverInv, ResetInv, LibMB_Read, Valid, sender
<1> QED BY <1>2, <1>3, <1>4, <1>5

\* Copying an item in touches no readable slot.
LEMMA WriteItem_CopyInv ==
    ASSUME IInv, WriteItem_Copy
    PROVE  IInv'
<1> USE DEF IInv
<1>1. /\ item_in_index \in Slots /\ item_out_index \in Slots
      /\ wn \in 0 .. LibMB_Free_Item(item_in_index, item_out_index)
      /\ wi \in 0 .. wn - 1
      /\ ~resetting
      /\ published \in Nat
  BY DEF TypeOK, SenderInv, ResetInv, WriteItem_Copy
<1>2. wn \in 0 .. N
  BY <1>1, FreePlusValid, RingAssumption
<1>3. SlotOf(item_in_index, wn, wi) \in Slots
  BY <1>1, <1>2, SlotIsWrap
<1>4. TypeOK'
  BY <1>1, <1>3 DEF TypeOK, WriteItem_Copy, receiver
<1>5. ItemsIntact'
  <2>1. \A i \in 0 .. Valid - 1 :
           /\ SlotOf(item_out_index, Valid, i) # SlotOf(item_in_index, wn, wi)
           /\ SlotOf(item_out_index, Valid, i) \in Slots
    BY <1>1, BatchOutsideReadable, FreePlusValid, SlotIsWrap, RingAssumption DEF Valid
  <2>2. Valid' = Valid
    BY DEF Valid, WriteItem_Copy
  <2> QED
    BY <1>1, <2>1, <2>2 DEF ItemsIntact, WriteItem_Copy, TypeOK
<1>6. SenderInv'
  <2> SUFFICES ASSUME NEW i \in 0 .. wi
               PROVE  ring'[SlotOf(item_in_index, wn, i)] = published + i + 1
    BY <1>1 DEF SenderInv, WriteItem_Copy
  <2>1. CASE i = wi
    BY <1>3, <2>1 DEF WriteItem_Copy, TypeOK
  <2>2. CASE i # wi
    <3>1. i \in 0 .. wi - 1 /\ i \in 0 .. wn - 1
      BY <1>1, <1>2, <2>2
    <3>2. SlotOf(item_in_index, wn, i) = Wrap(item_in_index + i)
      BY <1>1, <1>2, <3>1, SlotIsWrap
    <3>3. SlotOf(item_in_index, wn, wi) = Wrap(item_in_index + wi)
      BY <1>1, <1>2, SlotIsWrap
    <3>4. SlotOf(item_in_index, wn, i) # SlotOf(item_in_index, wn, wi)
      BY <1>1, <1>2, <2>2, <3>2, <3>3, RingAssumption DEF Wrap, Slots
    <3>5. ring[SlotOf(item_in_index, wn, i)] = published + i + 1
      BY <3>1 DEF SenderInv, WriteItem_Copy
    <3>6. SlotOf(item_in_index, wn, i) \in Slots
      BY <1>1, <1>2, <3>1, SlotIsWrap
    <3> QED
      BY <3>4, <3>5, <3>6 DEF WriteItem_Copy, TypeOK
  <2> QED BY <2>1, <2>2
<1>7. InOrderDelivery' /\ ReceiverInv' /\ ResetInv'
  BY DEF InOrderDelivery, ReceiverInv, ResetInv, WriteItem_Copy, Valid, receiver
<1> QED BY <1>4, <1>5, <1>6, <1>7

\* Storing item_in_index turns the batch just copied into readable items.
LEMMA WriteItem_PublishInv ==
    ASSUME IInv, WriteItem_Publish
    PROVE  IInv'
<1> USE DEF IInv
<1>1. /\ item_in_index \in Slots /\ item_out_index \in Slots
      /\ wn \in 0 .. LibMB_Free_Item(item_in_index, item_out_index)
      /\ wi = wn
      /\ ~resetting
      /\ published \in Nat /\ consumed \in Nat
  BY DEF TypeOK, SenderInv, ResetInv, WriteItem_Publish
<1>2. wn \in 0 .. N /\ Valid \in 0 .. N - 1 /\ Valid + wn \in 0 .. N - 1
  BY <1>1, FreePlusValid, RingAssumption DEF Valid
<1>3. Valid' = Valid + wn
  BY <1>1, ValidAfterWrite DEF Valid, WriteItem_Publish
<1>4. item_in_index' \in Slots
  BY <1>1, <1>2, AdvanceIsWrap DEF WriteItem_Publish
<1>5. TypeOK'
  BY <1>1, <1>4 DEF TypeOK, WriteItem_Publish, receiver
<1>6. ItemsIntact'
  <2> SUFFICES ASSUME NEW i \in 0 .. Valid + wn - 1
               PROVE  ring[SlotOf(item_out_index, Valid + wn, i)] = consumed + i + 1
    BY <1>1, <1>2, <1>3 DEF ItemsIntact, WriteItem_Publish
  <2>1. SlotOf(item_out_index, Valid + wn, i) = Wrap(item_out_index + i)
    BY <1>1, <1>2, SlotIsWrap, RingAssumption
  <2>2. CASE i < Valid
    <3>1. SlotOf(item_out_index, Valid, i) = Wrap(item_out_index + i)
      BY <1>1, <1>2, <2>2, SlotIsWrap, RingAssumption
    <3> QED
      BY <1>1, <1>2, <2>1, <2>2, <3>1 DEF ItemsIntact
  <2>3. CASE i >= Valid
    <3>1. i - Valid \in 0 .. wn - 1
      BY <1>2, <2>3
    <3>2. SlotOf(item_in_index, wn, i - Valid) = Wrap(item_in_index + (i - Valid))
      BY <1>1, <1>2, <3>1, SlotIsWrap
    <3>3. Wrap(item_in_index + (i - Valid)) = Wrap(item_out_index + i)
      BY <1>1, <1>2, <2>3, RingAssumption DEF Wrap, Valid, LibMB_Valid_Item, Slots
    <3>4. ring[SlotOf(item_in_index, wn, i - Valid)] = published + (i - Valid) + 1
      BY <1>1, <3>1 DEF SenderInv, WriteItem_Publish
    <3>5. published - consumed = Valid
      BY <1>1 DEF ItemsIntact
    <3> QED
      BY <1>1, <1>2, <2>1, <3>2, <3>3, <3>4, <3>5
  <2> QED BY <1>2, <2>2, <2>3
<1>7. SenderInv' /\ ResetInv'
  BY <1>1 DEF SenderInv, ResetInv, WriteItem_Publish
<1>8. InOrderDelivery' /\ ReceiverInv'
  BY <1>1, <1>2, <1>3 DEF InOrderDelivery, ReceiverInv, WriteItem_Publish, receiver, TypeOK
<1> QED BY <1>5, <1>6, <1>7, <1>8

\* Copying an item out takes the next one in order.
LEMMA ReadItem_CopyInv ==
    ASSUME IInv, ReadItem_Copy
    PROVE  IInv'
<1> USE DEF IInv
<1>1. /\ item_in_index \in Slots /\ item_out_index \in Slots
      /\ rn \in 1 .. Valid
      /\ rbuf \in Seq(Nat) /\ Len(rbuf) \in 0 .. rn - 1
      /\ ~resetting
      /\ consumed \in Nat
      /\ ring \in [Slots -> Nat]
  BY DEF TypeOK, ReceiverInv, ResetInv, ReadItem_Copy
<1>2. Valid \in 0 .. N - 1 /\ rn \in 0 .. N
  BY <1>1, FreePlusValid, RingAssumption DEF Valid
<1>3. SlotOf(item_out_index, rn, Len(rbuf)) \in Slots
  BY <1>1, <1>2, SlotIsWrap
<1>4. SlotOf(item_out_index, rn, Len(rbuf)) = SlotOf(item_out_index, Valid, Len(rbuf))
  BY <1>1, <1>2, SlotIsWrap, RingAssumption
<1>5. ring[SlotOf(item_out_index, rn, Len(rbuf))] = consumed + Len(rbuf) + 1
  BY <1>1, <1>2, <1>4 DEF ItemsIntact
<1>6. TypeOK'
  BY <1>1, <1>3 DEF TypeOK, ReadItem_Copy, sender
<1>7. ItemsIntact' /\ SenderInv' /\ ResetInv'
  BY DEF ItemsIntact, SenderInv, ResetInv, ReadItem_Copy, Valid, sender
<1>8. InOrderDelivery'
  <2>1. rbuf' = Append(rbuf, consumed + Len(rbuf) + 1) /\ consumed' = consumed
    BY <1>5 DEF ReadItem_Copy
  <2> SUFFICES ASSUME NEW i \in 1 .. Len(rbuf) + 1
               PROVE  rbuf'[i] = consumed + i
    BY <1>1, <2>1 DEF InOrderDelivery
  <2>2. CASE i = Len(rbuf) + 1
    BY <1>1, <2>1, <2>2
  <2>3. CASE i # Len(rbuf) + 1
    BY <1>1, <2>1, <2>3 DEF InOrderDelivery
  <2> QED BY <2>2, <2>3
<1>9. ReceiverInv'
  BY <1>1, <1>3 DEF ReceiverInv, ReadItem_Copy, Valid
<1> QED BY <1>6, <1>7, <1>8, <1>9

\* Storing item_out_index gives up exactly the items copied out.
LEMMA ReadItem_PublishInv ==
    ASSUME IInv, ReadItem_Publish
    PROVE  IInv'
<1> USE DEF IInv
<1>1. /\ item_in_index \in Slots /\ item_out_index \in Slots
      /\ rn \in 1 .. Valid
      /\ ~resetting
      /\ published \in Nat /\ consumed \in Nat
  BY DEF TypeOK, ReceiverInv, ResetInv, ReadItem_Publish
<1>2. Valid \in 0 .. N - 1 /\ rn \in 0 .. N
  BY <1>1, FreePlusValid, RingAssumption DEF Valid
<1>3. Valid' = Valid - rn
  BY <1>1, <1>2, ValidAfterRead DEF Valid, ReadItem_Publish
<1>4. item_out_index' \in Slots /\ item_out_index' = Wrap(item_out_index + rn)
  BY <1>1, <1>2, AdvanceIsWrap DEF ReadItem_Publish
<1>5. TypeOK'
  BY <1>1, <1>4 DEF TypeOK, ReadItem_Publish, sender
<1>6. ItemsIntact'
  <2> SUFFICES ASSUME NEW i \in 0 .. Valid - rn - 1
               PROVE  ring[SlotOf(item_out_index', Valid - rn, i)] = consumed + rn + i + 1
    BY <1>1, <1>2, <1>3 DEF ItemsIntact, ReadItem_Publish
  <2>1. SlotOf(item_out_index', Valid - rn, i) = Wrap(item_out_index' + i)
    BY <1>1, <1>2, <1>4, SlotIsWrap, RingAssumption
  <2>2. SlotOf(item_out_index, Valid, rn + i) = Wrap(item_out_index + (rn + i))
    BY <1>1, <1>2, SlotIsWrap, RingAssumption
  <2>3. Wrap(item_out_index' + i) = Wrap(item_out_index + (rn + i))
    BY <1>1, <1>2, <1>4, RingAssumption DEF Wrap, Slots
  <2>4. ring[SlotOf(item_out_index, Valid, rn + i)] = consumed + (rn + i) + 1
    BY <1>1, <1>2 DEF ItemsIntact
  <2> QED BY <1>1, <1>2, <2>1, <2>2, <2>3, <2>4
<1>7. SenderInv'
  <2>1. /\ LibMB_Free_Item(item_in_index, item_out_index)' = N - 1 - Valid'
        /\ LibMB_Free_Item(item_in_index, item_out_index) = N - 1 - Valid
    BY <1>1, <1>4, FreePlusValid DEF Valid, ReadItem_Publish
  <2> QED
    <3>1. LibMB_Free_Item(item_in_index, item_out_index)
            <= LibMB_Free_Item(item_in_index, item_out_index)'
      BY <1>1, <1>2, <1>3, <2>1, RingAssumption
    <3>2. LibMB_Free_Item(item_in_index, item_out_index)' \in Int
      BY <1>1, <1>2, <1>3, <2>1, RingAssumption
    <3>3. LibMB_Free_Item(item_in_index, item_out_index) \in Int
      BY <1>1, <1>2, <2>1, RingAssumption
    <3>4. UNCHANGED <<item_in_index, ring, wpc, wn, wi, published>> /\ wn \in Nat
      BY DEF ReadItem_Publish, sender, TypeOK
    <3> QED
      BY <3>1, <3>2, <3>3, <3>4 DEF SenderInv
<1>8. InOrderDelivery' /\ ReceiverInv' /\ ResetInv'
  BY <1>1 DEF InOrderDelivery, ReceiverInv, ResetInv, ReadItem_Publish, sender
<1> QED BY <1>5, <1>6, <1>7, <1>8

\* The first store of a reset only starts it.
LEMMA ChanReset_InInv ==
    ASSUME IInv, ChanReset_In
    PROVE  IInv'
<1> USE DEF IInv
<1>1. TypeOK'
  BY RingAssumption DEF TypeOK, ChanReset_In, sender, receiver, Slots
<1>2. ItemsIntact' /\ ResetInv'
  BY DEF ItemsIntact, ResetInv, ChanReset_In, sender, receiver
<1>3. InOrderDelivery' /\ SenderInv' /\ ReceiverInv'
  BY DEF InOrderDelivery, SenderInv, ReceiverInv, ChanReset_In, sender, receiver
<1> QED BY <1>1, <1>2, <1>3

\* The second store of a reset leaves an empty ring.
LEMMA ChanReset_OutInv ==
    ASSUME IInv, ChanReset_Out
    PROVE  IInv'
<1> USE DEF IInv
<1>1. TypeOK'
  <2>1. /\ UNCHANGED <<item_in_index, ring, sender, receiver, published>>
        /\ item_out_index' = 0 /\ consumed' = published /\ resetting' = FALSE
    BY DEF ChanReset_Out
  <2>2. 0 \in Slots
    BY RingAssumption DEF Slots
  <2> QED
    BY <2>1, <2>2, Zenon DEF TypeOK, sender, receiver
<1>2. Valid' = 0
  BY DEF ResetInv, ChanReset_Out, Valid, LibMB_Valid_Item
<1>3. ItemsIntact'
  BY <1>2 DEF ItemsIntact, ChanReset_Out, TypeOK
<1>4. rbuf = <<>> /\ rbuf' = <<>>
  BY DEF ResetInv, ReceiverInv, ChanReset_Out, receiver
<1>5. InOrderDelivery' /\ SenderInv' /\ ReceiverInv' /\ ResetInv'
  BY <1>4 DEF InOrderDelivery, SenderInv, ReceiverInv, ResetInv, ChanReset_Out,
     sender, receiver
<1> QED BY <1>1, <1>3, <1>5

\* Steps that only set a return value, and stuttering.
LEMMA ReturnOnlyInv ==
    ASSUME IInv,
           \/ \E n \in 0 .. MaxBatch : LibMB_Write_NoBuf(n) \/ LibMB_Read_None(n)
           \/ UNCHANGED vars
    PROVE  IInv'
<1> USE DEF IInv
<1>1. /\ UNCHANGED <<item_in_index, item_out_index, ring, wpc, wn, wi, rpc, rn,
                     rbuf, resetting, published, consumed>>
      /\ wret' \in Nat \X Int
      /\ delivered' \in Seq(Nat)
  <2>1. ASSUME NEW n \in 0 .. MaxBatch, LibMB_Write_NoBuf(n) PROVE <1>1
    BY <2>1 DEF LibMB_Write_NoBuf, receiver, TypeOK, MB_E_NO_ENOUGH_BUF
  <2>2. ASSUME NEW n \in 0 .. MaxBatch, LibMB_Read_None(n) PROVE <1>1
    BY <2>2 DEF LibMB_Read_None, sender, TypeOK
  <2>3. CASE UNCHANGED vars
    BY <2>3 DEF vars, sender, receiver, TypeOK
  <2> QED BY <2>1, <2>2, <2>3
<1>2. TypeOK'
  BY <1>1 DEF TypeOK
<1>3. ItemsIntact' /\ InOrderDelivery' /\ SenderInv' /\ ReceiverInv' /\ ResetInv'
  BY <1>1 DEF ItemsIntact, InOrderDelivery, SenderInv, ReceiverInv, ResetInv, Valid
<1> QED BY <1>2, <1>3

\* Every step preserves the inductive invariant.
LEMMA NextInv == IInv /\ [Next]_vars => IInv'
<1> SUFFICES ASSUME IInv, [Next]_vars PROVE IInv'
  OBVIOUS
<1>1. ASSUME NEW n \in 0 .. MaxBatch, LibMB_Write(n) PROVE IInv'
  BY <1>1, LibMB_WriteInv
<1>2. CASE WriteItem_Copy
  BY <1>2, WriteItem_CopyInv
<1>3. CASE WriteItem_Publish
  BY <1>3, WriteItem_PublishInv
<1>4. ASSUME NEW n \in 0 .. MaxBatch, LibMB_Read(n) PROVE IInv'
  BY <1>4, LibMB_ReadInv
<1>5. CASE ReadItem_Copy
  BY <1>5, ReadItem_CopyInv
<1>6. CASE ReadItem_Publish
  BY <1>6, ReadItem_PublishInv
<1>7. CASE ChanReset_In
  BY <1>7, ChanReset_InInv
<1>8. CASE ChanReset_Out
  BY <1>8, ChanReset_OutInv
<1>9. CASE \/ \E n \in 0 .. MaxBatch : LibMB_Write_NoBuf(n) \/ LibMB_Read_None(n)
           \/ UNCHANGED vars
  BY <1>9, ReturnOnlyInv
<1> QED
  BY <1>1, <1>2, <1>3, <1>4, <1>5, <1>6, <1>7, <1>8, <1>9
  DEF Next, SenderStep, ReceiverStep, ResetStep

(***************************************************************************)
(* The theorems                                                            *)
(***************************************************************************)
\* Every reachable state satisfies the inductive invariant.
THEOREM Invariance == Spec => []IInv
BY InitInv, NextInv, PTL DEF Spec

\* The indices stay inside the ring whatever the batches and the resets: the
\* index check of LibMB_Mailbox_sanity_check never fails on a live channel.
THEOREM TypeCorrect == Spec => []TypeOK
<1>1. IInv => TypeOK
  BY DEF IInv
<1> QED BY <1>1, Invariance, PTL

\* What lies between the indices is exactly the unread items, in order.
THEOREM Intact == Spec => []ItemsIntact
<1>1. IInv => ItemsIntact
  BY DEF IInv
<1> QED BY <1>1, Invariance, PTL

\* LibMB_Read_Item copies out consecutive items, starting at the oldest.
THEOREM DeliveryInOrder == Spec => []InOrderDelivery
<1>1. IInv => InOrderDelivery
  BY DEF IInv
<1> QED BY <1>1, Invariance, PTL

\* The sender's copy and the receiver's copy never share a slot.
THEOREM NoRace == Spec => []NoSlotConflict
<1>1. IInv => NoSlotConflict
  <2> SUFFICES ASSUME IInv, ~resetting, wpc = "copy",
                      NEW i \in 0 .. wn - 1, NEW j \in 0 .. Valid - 1
               PROVE  SlotOf(item_in_index, wn, i) # SlotOf(item_out_index, Valid, j)
    BY DEF NoSlotConflict, Filling, Readable
  <2>1. /\ item_in_index \in Slots /\ item_out_index \in Slots
        /\ wn \in 0 .. LibMB_Free_Item(item_in_index, item_out_index)
    BY DEF IInv, TypeOK, SenderInv
  <2> QED
    BY <2>1, BatchOutsideReadable DEF Valid
<1> QED BY <1>1, Invariance, PTL

-----------------------------------------------------------------------------
(***************************************************************************)
(* The refinement of MailboxFifo                                           *)
(***************************************************************************)
\* The n items that follow item c.
Run(c, n) == [i \in 1 .. n |-> c + i]

\* The abstract queue, as the refinement mapping of Fifo has it.
Queue ==
    IF resetting THEN <<>>
    ELSE [i \in 1 .. Valid |-> ring[SlotOf(item_out_index, Valid, i - 1)]]

\* A call under way is for a number of items that some caller asked for.
BatchInv == wn \in 0 .. MaxBatch /\ rn \in 0 .. MaxBatch

\* The bounds on the calls are kept by every step.
LEMMA BatchInvariance == Spec => []BatchInv
<1>1. Init => BatchInv
  BY RingAssumption DEF Init, BatchInv
<1>2. IInv /\ BatchInv /\ [Next]_vars => BatchInv'
  <2> SUFFICES ASSUME IInv, BatchInv, [Next]_vars PROVE BatchInv'
    OBVIOUS
  <2>1. ASSUME NEW n \in 0 .. MaxBatch, LibMB_Read(n) PROVE BatchInv'
    <3>1. LibMB_Valid_Item(item_in_index, item_out_index) \in 0 .. N - 1
      BY FreePlusValid DEF IInv, TypeOK
    <3> QED
      BY <2>1, <3>1, RingAssumption DEF LibMB_Read, BatchInv, sender
  <2>2. CASE wn' = wn /\ rn' = rn
    BY <2>2 DEF BatchInv
  <2>3. ASSUME NEW n \in 0 .. MaxBatch, LibMB_Write(n) PROVE BatchInv'
    BY <2>3 DEF LibMB_Write, BatchInv, receiver
  <2> QED
    BY <2>1, <2>2, <2>3
    DEF Next, SenderStep, ReceiverStep, ResetStep, vars, sender, receiver, LibMB_Write_NoBuf,
        WriteItem_Copy, WriteItem_Publish, LibMB_Read_None, ReadItem_Copy, ReadItem_Publish,
        ChanReset_In, ChanReset_Out
<1> QED
  BY <1>1, <1>2, Invariance, PTL DEF Spec

\* Consecutive items make a sequence.
LEMMA RunIsSeq ==
    ASSUME NEW c \in Nat, NEW n \in Nat
    PROVE  Run(c, n) \in Seq(Nat) /\ Len(Run(c, n)) = n
<1>1. Run(c, n) \in [1 .. n -> Nat]
  BY DEF Run
<1>2. Run(c, n) \in Seq(Nat)
  BY <1>1, SeqDef
<1> QED
  BY <1>1, <1>2, LenProperties

\* Putting the next items behind a run makes a longer run.
LEMMA RunConcat ==
    ASSUME NEW c \in Nat, NEW m \in Nat, NEW n \in Nat
    PROVE  Run(c, m) \o Run(c + m, n) = Run(c, m + n)
<1>1. /\ Run(c, m) \in Seq(Nat) /\ Len(Run(c, m)) = m
      /\ Run(c + m, n) \in Seq(Nat) /\ Len(Run(c + m, n)) = n
      /\ Run(c, m + n) \in Seq(Nat) /\ Len(Run(c, m + n)) = m + n
  <2>1. c + m \in Nat /\ m + n \in Nat
    OBVIOUS
  <2> QED
    BY <2>1, RunIsSeq, Zenon
<1>2. Run(c, m) \o Run(c + m, n) \in Seq(Nat) /\ Len(Run(c, m) \o Run(c + m, n)) = m + n
  BY <1>1, ConcatProperties
<1>3. ASSUME NEW i \in 1 .. m + n
      PROVE  (Run(c, m) \o Run(c + m, n))[i] = Run(c, m + n)[i]
  <2>1. (Run(c, m) \o Run(c + m, n))[i] =
           IF i <= m THEN Run(c, m)[i] ELSE Run(c + m, n)[i - m]
    BY <1>1, ConcatProperties
  <2> QED
    BY <2>1 DEF Run
<1> QED
  BY <1>1, <1>2, <1>3, SeqEqual

\* The oldest k of a run, and what is left of it.
LEMMA RunSplit ==
    ASSUME NEW c \in Nat, NEW n \in Nat, NEW k \in 0 .. n
    PROVE  /\ SubSeq(Run(c, n), 1, k) = Run(c, k)
           /\ SubSeq(Run(c, n), k + 1, n) = Run(c + k, n - k)
<1>1. SubSeq(Run(c, n), 1, k) = Run(c, k)
  BY DEF Run
<1>2. SubSeq(Run(c, n), k + 1, n) = Run(c + k, n - k)
  BY DEF Run
<1> QED
  BY <1>1, <1>2

\* Between the indices lies a run, so that the abstract queue is one.
QueueRun ==
    /\ Queue = Run(consumed, Valid)
    /\ Valid \in 0 .. N - 1
    /\ published = consumed + Valid
    /\ consumed \in Nat

\* The queue is the run of the unread items, by the inductive invariant.
LEMMA QueueIsRun == IInv /\ ~resetting => QueueRun
<1> SUFFICES ASSUME IInv, ~resetting PROVE QueueRun
  OBVIOUS
<1>1. Valid \in 0 .. N - 1 /\ published \in Nat /\ consumed \in Nat
  BY FreePlusValid DEF IInv, TypeOK, Valid
<1>2. \A i \in 1 .. Valid : ring[SlotOf(item_out_index, Valid, i - 1)] = consumed + i
  <2> SUFFICES ASSUME NEW i \in 1 .. Valid
               PROVE  ring[SlotOf(item_out_index, Valid, i - 1)] = consumed + i
    OBVIOUS
  <2>1. i - 1 \in 0 .. Valid - 1
    BY <1>1
  <2>2. ring[SlotOf(item_out_index, Valid, i - 1)] = consumed + (i - 1) + 1
    BY <2>1 DEF IInv, ItemsIntact
  <2> QED
    BY <1>1, <2>2
<1> QED
  BY <1>1, <1>2 DEF QueueRun, Queue, Run, IInv, ItemsIntact

\* The same of the next state.
LEMMA QueueIsRunNext == IInv' /\ ~resetting' => QueueRun'
BY QueueIsRun, PTL

\* Only the index stores and the refusals are visible: anything else leaves
\* the abstract queue alone.
LEMMA Stutters ==
    ASSUME IInv, IInv',
           \/ \E n \in 0 .. MaxBatch : LibMB_Write(n) \/ LibMB_Read(n)
           \/ WriteItem_Copy
           \/ ReadItem_Copy
           \/ UNCHANGED vars
    PROVE  UNCHANGED <<Queue, published, wret, delivered>>
<1>1. UNCHANGED <<item_in_index, item_out_index, published, consumed, wret, delivered, resetting>>
  BY DEF LibMB_Write, LibMB_Read, WriteItem_Copy, ReadItem_Copy, vars, sender, receiver
<1>2. Valid' = Valid
  BY <1>1 DEF Valid
<1>3. CASE ~resetting
  <2>1. Queue = Run(consumed, Valid)
    BY <1>3, QueueIsRun DEF QueueRun
  <2>2. Queue' = Run(consumed, Valid)'
    BY <1>1, <1>3, QueueIsRunNext DEF QueueRun
  <2>3. Run(consumed, Valid)' = Run(consumed, Valid)
    BY <1>1, <1>2 DEF Run
  <2> QED
    BY <1>1, <2>1, <2>2, <2>3
<1>4. CASE resetting
  BY <1>1, <1>4 DEF Queue
<1> QED
  BY <1>3, <1>4

\* The sender's index store is the put, and what does not fit is refused.
LEMMA WriteIsPut ==
    ASSUME IInv, IInv', BatchInv, WriteItem_Publish
    PROVE  \E n \in 0 .. MaxBatch : Fifo!Put(n)
<1>1. /\ ~resetting /\ ~resetting'
      /\ wn \in 0 .. MaxBatch
      /\ wn <= LibMB_Free_Item(item_in_index, item_out_index)
      /\ item_in_index \in Slots /\ item_out_index \in Slots
  BY DEF IInv, ResetInv, TypeOK, BatchInv, SenderInv, WriteItem_Publish
<1>2. /\ Queue = Run(consumed, Valid) /\ Valid \in 0 .. N - 1
      /\ published = consumed + Valid /\ consumed \in Nat
  BY <1>1, QueueIsRun DEF QueueRun
<1>3. Queue' = Run(consumed', Valid') /\ consumed' = consumed
  <2>1. QueueRun'
    BY <1>1, QueueIsRunNext
  <2> QED
    BY <2>1 DEF QueueRun, Run, WriteItem_Publish
<1>4. wn \in Nat /\ Valid' = Valid + wn /\ Valid + wn <= N - 1
  BY <1>1, ValidAfterWrite, FreePlusValid, RingAssumption DEF Valid, WriteItem_Publish
<1>5. Queue' = Queue \o Run(published, wn)
  <2>1. Valid \in Nat
    BY <1>2
  <2> QED
    BY <1>2, <1>3, <1>4, <2>1, RunConcat, Zenon
<1>6. Len(Queue) + wn <= N - 1
  BY <1>2, <1>4, RunIsSeq
<1>7. Fifo!Put(wn)
  BY <1>5, <1>6 DEF Fifo!Put, Fifo!Batch, Queue, Run, WriteItem_Publish, receiver
<1> QED
  BY <1>1, <1>7

\* A write that the ring refuses is a Put that the queue refuses.
LEMMA NoBufIsRefusal ==
    ASSUME IInv, IInv', NEW n \in 0 .. MaxBatch, LibMB_Write_NoBuf(n)
    PROVE  Fifo!PutRefused(n)
<1>1. ~resetting /\ ~resetting' /\ UNCHANGED <<Queue, published, delivered>>
  BY DEF LibMB_Write_NoBuf, receiver, Queue, Valid
<1>2. Queue = Run(consumed, Valid) /\ Valid \in 0 .. N - 1 /\ consumed \in Nat
  BY <1>1, QueueIsRun DEF QueueRun
<1>3. Len(Queue) = Valid
  BY <1>2, RunIsSeq
<1>4. LibMB_Free_Item(item_in_index, item_out_index) = N - 1 - Valid
  BY FreePlusValid DEF IInv, TypeOK, Valid
<1>5. Len(Queue) + n > N - 1
  BY <1>2, <1>3, <1>4, RingAssumption DEF LibMB_Write_NoBuf
<1> QED
  BY <1>1, <1>5 DEF Fifo!PutRefused, Queue, LibMB_Write_NoBuf

\* The receiver's index store is the get.
LEMMA ReadIsGet ==
    ASSUME IInv, IInv', BatchInv, ReadItem_Publish
    PROVE  \E n \in 0 .. MaxBatch : Fifo!Get(n)
<1>1. /\ ~resetting /\ ~resetting'
      /\ rn \in 0 .. MaxBatch
      /\ rn > 0 /\ rn <= Valid
      /\ rbuf \in Seq(Nat) /\ Len(rbuf) = rn
      /\ item_in_index \in Slots /\ item_out_index \in Slots
  BY DEF IInv, ResetInv, TypeOK, BatchInv, ReceiverInv, ReadItem_Publish
<1>2. Queue = Run(consumed, Valid) /\ Valid \in 0 .. N - 1 /\ consumed \in Nat
  BY <1>1, QueueIsRun DEF QueueRun
<1>3. Queue' = Run(consumed', Valid') /\ consumed' = consumed + rn
  <2>1. QueueRun'
    BY <1>1, QueueIsRunNext
  <2> QED
    BY <2>1 DEF QueueRun, Run, ReadItem_Publish
<1>4. Valid' = Valid - rn
  BY <1>1, <1>2, ValidAfterRead, RingAssumption DEF Valid, ReadItem_Publish
<1>5. Len(Queue) = Valid
  BY <1>2, RunIsSeq
<1>6. rbuf = Run(consumed, rn)
  <2>1. Run(consumed, rn) \in Seq(Nat) /\ Len(Run(consumed, rn)) = rn
    BY <1>1, <1>2, RunIsSeq
  <2>2. \A i \in 1 .. Len(rbuf) : rbuf[i] = Run(consumed, rn)[i]
    BY <1>1 DEF IInv, InOrderDelivery, Run
  <2> QED
    BY <1>1, <2>1, <2>2, SeqEqual
<1>7. rbuf = SubSeq(Queue, 1, rn) /\ Queue' = SubSeq(Queue, rn + 1, Len(Queue))
  <2>1. Valid \in Nat /\ rn \in 0 .. Valid
    BY <1>1, <1>2
  <2> QED
    BY <1>2, <1>3, <1>4, <1>5, <1>6, <2>1, RunSplit, Zenon
<1>8. Fifo!Get(rn)
  <2>1. rn \in 1 .. Len(Queue)
    BY <1>1, <1>2, <1>5
  <2>2. delivered' = SubSeq(Queue, 1, rn) /\ UNCHANGED <<published, wret>>
    BY <1>7 DEF ReadItem_Publish, sender
  <2> QED
    BY <1>7, <2>1, <2>2, Zenon DEF Fifo!Get, Queue
<1> QED
  BY <1>1, <1>8

\* A read that finds nothing is a Get that finds the queue empty.
LEMMA NoneIsGetNone ==
    ASSUME NEW n \in 0 .. MaxBatch, LibMB_Read_None(n)
    PROVE  Fifo!GetNone(n)
<1>1. UNCHANGED <<Queue, published, wret>> /\ delivered' = <<>>
  BY DEF LibMB_Read_None, sender, Queue, Valid
<1>2. n = 0 \/ Queue = <<>>
  <2>1. CASE Valid = 0
    BY <2>1 DEF Queue
  <2> QED
    BY <2>1 DEF LibMB_Read_None, Valid
<1> QED
  BY <1>1, <1>2 DEF Fifo!GetNone, Queue

\* Of the two stores of a reset the first empties the queue.
LEMMA ResetIsReset ==
    ASSUME IInv, IInv', ResetStep
    PROVE  Fifo!Reset
<1>1. UNCHANGED <<published, wret, delivered>>
  BY DEF ResetStep, ChanReset_In, ChanReset_Out, sender, receiver
<1>2. Queue' = <<>>
  <2>1. CASE ChanReset_In
    BY <2>1 DEF ChanReset_In, Queue
  <2>2. CASE ChanReset_Out
    <3>1. Valid' = 0
      BY <2>2 DEF IInv, ResetInv, ChanReset_Out, Valid, LibMB_Valid_Item
    <3> QED
      BY <3>1, <2>2 DEF Queue
  <2> QED
    BY <2>1, <2>2 DEF ResetStep
<1> QED
  BY <1>1, <1>2 DEF Fifo!Reset, Queue

\* The ring of N slots is a queue of N - 1 items: every call of LibMB_Write
\* and LibMB_Read takes effect at once, at its index store, and nothing else
\* the two sides and a reset do can be told from outside.
THEOREM RefinesFifo == Spec => ImplementsFifo
<1>1. Init => Fifo!Init
  BY DEF Init, Fifo!Init, Valid, LibMB_Valid_Item
<1>2. IInv /\ IInv' /\ BatchInv /\ [Next]_vars => [Fifo!Next]_(Fifo!vars)
  <2> SUFFICES ASSUME IInv, IInv', BatchInv, [Next]_vars
               PROVE  Fifo!Next \/ UNCHANGED Fifo!vars
    OBVIOUS
  <2>1. CASE \/ \E n \in 0 .. MaxBatch : LibMB_Write(n) \/ LibMB_Read(n)
             \/ WriteItem_Copy
             \/ ReadItem_Copy
             \/ UNCHANGED vars
    <3>1. UNCHANGED <<Queue, published, wret, delivered>>
      BY <2>1, Stutters
    <3> QED
      BY <3>1 DEF Fifo!vars, Queue
  <2>2. CASE WriteItem_Publish
    BY <2>2, WriteIsPut DEF Fifo!Next
  <2>3. ASSUME NEW n \in 0 .. MaxBatch, LibMB_Write_NoBuf(n) PROVE Fifo!Next
    BY <2>3, NoBufIsRefusal DEF Fifo!Next
  <2>4. CASE ReadItem_Publish
    BY <2>4, ReadIsGet DEF Fifo!Next
  <2>5. ASSUME NEW n \in 0 .. MaxBatch, LibMB_Read_None(n) PROVE Fifo!Next
    BY <2>5, NoneIsGetNone DEF Fifo!Next
  <2>6. CASE ResetStep
    BY <2>6, ResetIsReset DEF Fifo!Next
  <2> QED
    BY <2>1, <2>2, <2>3, <2>4, <2>5, <2>6 DEF Next, SenderStep, ReceiverStep
<1> QED
  BY <1>1, <1>2, Invariance, BatchInvariance, PTL DEF Spec, ImplementsFifo, Fifo!Spec
=============================================================================
