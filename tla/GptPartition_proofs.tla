------------------------- MODULE GptPartition_proofs -------------------------
(***************************************************************************)
(* Finding a partition table, for any devices, versions, tables and        *)
(* buffers: no read leaves the work buffer, what a lookup finds is of the  *)
(* table that was verified, and an undisturbed search ends with the best   *)
(* copy.                                                                   *)
(***************************************************************************)
EXTENDS GptPartition, TLAPS

(***************************************************************************)
(* The inductive invariant.  The properties speak of the ends of calls;    *)
(* the invariant says what each call knows of the device on its way, as    *)
(* long as the history variables say that nobody touched the device.       *)
(***************************************************************************)
Disks == [Devices -> [Copies -> [hdr : HdrContents, ents : EntContents]]]

Types ==
    /\ disk \in Disks
    /\ writer \in [dev : Devices \cup {NoDevice}, copy : Copies,
                   ver : Versions \cup {"none"}, step : {"idle", "entries", "header"}]
    /\ writer.step # "idle" => writer.dev \in Devices /\ writer.ver \in Versions
    /\ pc \in {"idle", "header", "entries", "lookup"}
    /\ trying \in Copies
    /\ g_gpt_hdr \in [copy : Copies, what : HdrContents \cup {"zero"}]
    /\ g_gpt_work_buf_sz \in Nat
    /\ g_gpt_partition_init_done \in BOOLEAN
    /\ disturbed \in BOOLEAN /\ rewritten \in BOOLEAN /\ misused \in BOOLEAN
    /\ pc # "idle" \/ g_gpt_partition_init_done => g_gpt_entry_read_cb \in Devices

\* A lookup goes on in the table it started in.
LookupKnows == pc = "lookup" => g_gpt_hdr.what \in Versions

\* Every read of a call is of the size that the call began with, or smaller.
ReadSize == pc # "idle" => read_sz <= g_gpt_work_buf_sz

\* No answer outlives the header that it was found with.
AnswerIsLast == found # NoTable => pc = "idle"

\* The header in memory is that of the table the last search verified, and the
\* entries on the device are still those of this table.
TableVerified ==
    pc \in {"idle", "lookup"} /\ g_gpt_hdr.what \in Versions /\ ~rewritten /\ ~misused =>
        /\ good = [dev |-> g_gpt_entry_read_cb, ver |-> g_gpt_hdr.what]
        /\ g_gpt_entry_read_cb \in Devices
        /\ disk[g_gpt_entry_read_cb][g_gpt_hdr.copy].ents = g_gpt_hdr.what

\* The copy c of the device d holds a table whose entries fit in the buffer.
Fits(d, c) == Whole(d, c) /\ EntrySize[disk[d][c].hdr] <= g_gpt_work_buf_sz

\* What an undisturbed search has seen of the device.
SearchKnows ==
    /\ pc = "entries" => g_gpt_hdr.copy = trying
    /\ pc = "entries" /\ ~disturbed =>
          /\ g_gpt_hdr.what = disk[g_gpt_entry_read_cb][trying].hdr
          /\ g_gpt_hdr.what # "torn"
    /\ pc \in {"header", "entries"} /\ ~disturbed /\ trying = "SECONDARY" =>
          ~Fits(g_gpt_entry_read_cb, "PRIMARY")

IInv == Types /\ LookupKnows /\ ReadSize /\ ReadFits /\ AnswerIsLast /\ TableVerified
        /\ SearchKnows /\ LookupVerified

-----------------------------------------------------------------------------
(***************************************************************************)
(* Headers and devices                                                     *)
(***************************************************************************)
\* The size of an entry is a number, whatever the header holds.
LEMMA EntryBytesNat == \A h : EntryBytes(h) \in Nat
BY GptAssumption DEF EntryBytes

\* The size of the entries of a version is what its header says.
LEMMA EntryBytesOf == \A h : h.what \in Versions => EntryBytes(h) = EntrySize[h.what]
BY DEF EntryBytes

\* The words for what is no version.
LEMMA NoVersion ==
    /\ "zero" \notin Versions /\ "torn" \notin Versions /\ "void" \notin Versions
    /\ "bad" \notin Versions /\ "none" \notin Versions
BY GptAssumption, Zenon

-----------------------------------------------------------------------------
(***************************************************************************)
(* The steps of the other processor                                        *)
(***************************************************************************)
\* A write to a device is seen in the history variables of whoever uses it.
LEMMA TouchInv ==
    ASSUME IInv, Types', NEW d \in Devices, Touches(d),
           \A e \in Devices \ {d} : disk'[e] = disk[e]
    PROVE  IInv'
<1>1. /\ UNCHANGED <<globals, call, good, misused>>
      /\ disturbed' = (disturbed \/ (pc \in {"header", "entries"} /\ d = g_gpt_entry_read_cb))
      /\ rewritten' = (rewritten \/ d = good.dev)
  BY DEF Touches
<1>2. LookupKnows' /\ ReadSize' /\ ReadFits' /\ AnswerIsLast'
  BY <1>1 DEF globals, call, IInv, LookupKnows, ReadSize, ReadFits, AnswerIsLast
<1>3. LookupVerified'
  BY <1>1, Zenon DEF globals, call, IInv, LookupVerified
<1>4. TableVerified'
  <2> SUFFICES ASSUME pc' \in {"idle", "lookup"}, g_gpt_hdr'.what \in Versions,
                      ~rewritten', ~misused'
               PROVE  /\ good' = [dev |-> g_gpt_entry_read_cb', ver |-> g_gpt_hdr'.what]
                      /\ g_gpt_entry_read_cb' \in Devices
                      /\ disk'[g_gpt_entry_read_cb'][g_gpt_hdr'.copy].ents = g_gpt_hdr'.what
    BY DEF TableVerified
  <2>1. UNCHANGED <<pc, g_gpt_hdr, g_gpt_entry_read_cb, good, misused>>
    BY <1>1 DEF globals, call
  <2>2. ~rewritten /\ d # good.dev
    BY <1>1, Zenon
  <2>3. /\ good = [dev |-> g_gpt_entry_read_cb, ver |-> g_gpt_hdr.what]
        /\ g_gpt_entry_read_cb \in Devices
        /\ disk[g_gpt_entry_read_cb][g_gpt_hdr.copy].ents = g_gpt_hdr.what
    BY <2>1, <2>2, Zenon DEF IInv, TableVerified
  <2>4. disk'[g_gpt_entry_read_cb] = disk[g_gpt_entry_read_cb]
    BY <2>2, <2>3
  <2> QED
    BY <2>1, <2>3, <2>4, Zenon
<1>5. SearchKnows'
  <2>1. UNCHANGED <<pc, trying, g_gpt_hdr, g_gpt_entry_read_cb, g_gpt_work_buf_sz>>
    BY <1>1 DEF globals, call
  <2>2. ASSUME pc \in {"header", "entries"}, ~disturbed'
        PROVE  ~disturbed /\ disk'[g_gpt_entry_read_cb] = disk[g_gpt_entry_read_cb]
    <3>1. ~disturbed /\ d # g_gpt_entry_read_cb
      BY <1>1, <2>2, Zenon
    <3>2. g_gpt_entry_read_cb \in Devices
      BY <2>2, Zenon DEF IInv, Types
    <3> QED
      BY <3>1, <3>2
  <2> QED
    BY <2>1, <2>2 DEF IInv, SearchKnows, Fits, Whole
<1> QED
  BY <1>2, <1>3, <1>4, <1>5 DEF IInv

\* The parts of the state that the other processor leaves alone.
LEMMA TouchTypes ==
    ASSUME Types, NEW d, Touches(d), disk' \in Disks,
           writer' \in [dev : Devices \cup {NoDevice}, copy : Copies,
                        ver : Versions \cup {"none"}, step : {"idle", "entries", "header"}],
           writer'.step # "idle" => writer'.dev \in Devices /\ writer'.ver \in Versions
    PROVE  Types'
<1>1. /\ UNCHANGED <<globals, call, good, misused>>
      /\ disturbed' \in BOOLEAN /\ rewritten' \in BOOLEAN
  BY Zenon DEF Touches, Types
<1> QED
  BY <1>1, Zenon DEF Types, globals, call

\* The header of a copy is erased.
LEMMA RewriteBeginInv ==
    \A d \in Devices, c \in Copies, v \in Versions : IInv /\ RewriteBegin(d, c, v) => IInv'
<1> SUFFICES ASSUME NEW d \in Devices, NEW c \in Copies, NEW v \in Versions,
                    IInv, RewriteBegin(d, c, v)
             PROVE  IInv'
  OBVIOUS
<1>1. /\ disk' = [disk EXCEPT ![d][c].hdr = "torn"]
      /\ writer' = [dev |-> d, copy |-> c, ver |-> v, step |-> "entries"]
      /\ Touches(d)
  BY DEF RewriteBegin
<1>2. disk' \in Disks /\ \A e \in Devices \ {d} : disk'[e] = disk[e]
  <2>1. "torn" \in HdrContents /\ disk \in Disks
    BY DEF HdrContents, IInv, Types
  <2> QED
    BY <1>1, <2>1 DEF Disks
<1>3. Types'
  BY <1>1, <1>2, TouchTypes DEF IInv
<1> QED
  BY <1>1, <1>2, <1>3, TouchInv

\* The entries are written, or lost in a power cut.
LEMMA RewriteEntriesInv == IInv /\ RewriteEntries => IInv'
<1> SUFFICES ASSUME IInv, RewriteEntries PROVE IInv'
  OBVIOUS
<1>1. /\ writer.dev \in Devices /\ writer.copy \in Copies /\ writer.ver \in Versions
      /\ Touches(writer.dev)
  BY DEF RewriteEntries, IInv, Types
<1>2. PICK x \in EntContents, step \in {"idle", "header"} :
         /\ disk' = [disk EXCEPT ![writer.dev][writer.copy].ents = x]
         /\ writer' = [writer EXCEPT !.step = step]
  BY <1>1 DEF RewriteEntries, EntContents
<1>3. disk' \in Disks /\ \A e \in Devices \ {writer.dev} : disk'[e] = disk[e]
  <2>1. disk \in Disks
    BY DEF IInv, Types
  <2>2. PICK d \in Devices, c \in Copies : d = writer.dev /\ c = writer.copy
    BY <1>1
  <2>3. disk' = [disk EXCEPT ![d][c].ents = x]
    BY <1>2, <2>2
  <2>4. disk' \in Disks
    <3> DEFINE r == [hdr |-> disk[d][c].hdr, ents |-> x]
    <3>1. disk[d] \in [Copies -> [hdr : HdrContents, ents : EntContents]]
          /\ disk[d][c] \in [hdr : HdrContents, ents : EntContents]
      BY <2>1 DEF Disks
    <3>2. [disk[d][c] EXCEPT !.ents = x] = r /\ r \in [hdr : HdrContents, ents : EntContents]
      BY <3>1
    <3>3. disk' = [disk EXCEPT ![d] = [disk[d] EXCEPT ![c] = r]]
      BY <2>3, <3>2
    <3> HIDE DEF r
    <3> QED
      BY <2>1, <3>1, <3>2, <3>3 DEF Disks
  <2>5. \A e \in Devices \ {d} : disk'[e] = disk[e]
    BY <2>1, <2>3 DEF Disks
  <2> QED
    BY <2>2, <2>4, <2>5
<1>4. Types'
  <2>1. /\ writer' \in [dev : Devices \cup {NoDevice}, copy : Copies,
                        ver : Versions \cup {"none"}, step : {"idle", "entries", "header"}]
        /\ writer'.dev = writer.dev /\ writer'.ver = writer.ver
    BY <1>2 DEF IInv, Types
  <2> QED
    BY <1>1, <1>3, <2>1, TouchTypes, Zenon DEF IInv
<1> QED
  BY <1>1, <1>3, <1>4, TouchInv, Zenon

\* The header is written, or stays erased.
LEMMA RewriteHeaderInv == IInv /\ RewriteHeader => IInv'
<1> SUFFICES ASSUME IInv, RewriteHeader PROVE IInv'
  OBVIOUS
<1>1. /\ writer.dev \in Devices /\ writer.copy \in Copies /\ writer.ver \in Versions
      /\ Touches(writer.dev)
  BY DEF RewriteHeader, IInv, Types
<1>2. PICK x \in HdrContents :
         /\ disk' = [disk EXCEPT ![writer.dev][writer.copy].hdr = x]
         /\ writer' = [writer EXCEPT !.step = "idle"]
  BY <1>1 DEF RewriteHeader, HdrContents
<1>3. disk' \in Disks /\ \A e \in Devices \ {writer.dev} : disk'[e] = disk[e]
  <2>1. disk \in Disks
    BY DEF IInv, Types
  <2>2. PICK d \in Devices, c \in Copies : d = writer.dev /\ c = writer.copy
    BY <1>1
  <2>3. disk' = [disk EXCEPT ![d][c].hdr = x]
    BY <1>2, <2>2
  <2>4. disk' \in Disks
    <3> DEFINE r == [hdr |-> x, ents |-> disk[d][c].ents]
    <3>1. disk[d] \in [Copies -> [hdr : HdrContents, ents : EntContents]]
          /\ disk[d][c] \in [hdr : HdrContents, ents : EntContents]
      BY <2>1 DEF Disks
    <3>2. [disk[d][c] EXCEPT !.hdr = x] = r /\ r \in [hdr : HdrContents, ents : EntContents]
      BY <3>1
    <3>3. disk' = [disk EXCEPT ![d] = [disk[d] EXCEPT ![c] = r]]
      BY <2>3, <3>2
    <3> HIDE DEF r
    <3> QED
      BY <2>1, <3>1, <3>2, <3>3 DEF Disks
  <2>5. \A e \in Devices \ {d} : disk'[e] = disk[e]
    BY <2>1, <2>3 DEF Disks
  <2> QED
    BY <2>2, <2>4, <2>5
<1>4. Types'
  <2>1. /\ writer' \in [dev : Devices \cup {NoDevice}, copy : Copies,
                        ver : Versions \cup {"none"}, step : {"idle", "entries", "header"}]
        /\ writer'.dev = writer.dev /\ writer'.ver = writer.ver
    BY <1>2 DEF IInv, Types
  <2> QED
    BY <1>1, <1>3, <2>1, TouchTypes, Zenon DEF IInv
<1> QED
  BY <1>1, <1>3, <1>4, TouchInv, Zenon

-----------------------------------------------------------------------------
(***************************************************************************)
(* The steps of rtss_gpt_partition_init and its search                     *)
(***************************************************************************)
\* Before the first call nothing is known.
LEMMA InitInv == Init => IInv
<1> SUFFICES ASSUME Init PROVE IInv
  OBVIOUS
<1>1. disk \in Disks
  <2>1. PICK d \in Devices, content \in Contents, v \in Versions :
           disk = [e \in Devices |-> IF e = d THEN content ELSE Programmed(v)]
    BY DEF Init
  <2>2. content \in [Copies -> [hdr : HdrContents, ents : EntContents]]
        /\ Programmed(v) \in [Copies -> [hdr : HdrContents, ents : EntContents]]
    BY DEF Contents, Programmed, HdrContents, EntContents
  <2> QED
    BY <2>1, <2>2 DEF Disks
<1>2. Types
  BY <1>1 DEF Init, Types, Copies, ZeroHdr
<1>3. "zero" \notin Versions
  BY NoVersion
<1>4. LookupKnows /\ ReadSize /\ ReadFits /\ AnswerIsLast /\ TableVerified /\ SearchKnows
      /\ LookupVerified
  BY <1>3 DEF Init, LookupKnows, ReadSize, ReadFits, AnswerIsLast, TableVerified, SearchKnows,
              LookupVerified, ZeroHdr
<1> QED
  BY <1>2, <1>4 DEF IInv

\* A call with too small a buffer is remembered; any other begins to search.
LEMMA PartitionInitInv ==
    \A d \in Devices, b \in BufSizes, a \in Alignments :
        IInv /\ rtss_gpt_partition_init(d, b, a) => IInv'
<1> SUFFICES ASSUME NEW d \in Devices, NEW b \in BufSizes, NEW a \in Alignments,
                    IInv, rtss_gpt_partition_init(d, b, a)
             PROVE  IInv'
  OBVIOUS
<1> USE DEF rtss_gpt_partition_init
<1>1. /\ pc = "idle" /\ found' = NoTable
      /\ g_gpt_entry_read_cb' = d /\ g_gpt_work_buf_sz' = b
      /\ UNCHANGED <<flash, g_gpt_hdr, g_gpt_partition_init_done, good, rewritten>>
  OBVIOUS
<1>2. \/ pc' = "idle" /\ misused' = TRUE /\ UNCHANGED <<trying, read_sz, disturbed>>
      \/ /\ pc' = "header" /\ trying' = "PRIMARY" /\ read_sz' <= b
         /\ disturbed' = FALSE /\ misused' = misused
  BY <1>1
<1>3. Types'
  <2>1. b \in Nat
    BY GptAssumption
  <2> QED
    BY <1>1, <1>2, <2>1 DEF IInv, Types, flash, Copies
<1>4. LookupKnows' /\ ReadSize' /\ ReadFits' /\ AnswerIsLast'
  BY <1>1, <1>2 DEF LookupKnows, ReadSize, ReadFits, AnswerIsLast
<1>5. TableVerified' /\ SearchKnows' /\ LookupVerified'
  BY <1>1, <1>2 DEF TableVerified, SearchKnows, LookupVerified
<1> QED
  BY <1>3, <1>4, <1>5 DEF IInv

Headers == [copy : Copies, what : HdrContents \cup {"zero"}]

\* A copy is refused; the primary only if it is not the best, or disturbed.
LEMMA TryNextInv ==
    ASSUME IInv, pc \in {"header", "entries"}, NEW h \in Headers, TryNext(h),
           UNCHANGED <<flash, g_gpt_entry_read_cb, g_gpt_work_buf_sz, found>>,
           disturbed' \in BOOLEAN,
           trying = "PRIMARY" /\ ~disturbed' => ~Fits(g_gpt_entry_read_cb, "PRIMARY")
    PROVE  IInv'
<1>1. /\ UNCHANGED <<g_gpt_partition_init_done, rewritten, misused>>
      /\ found = NoTable
  BY DEF TryNext, IInv, AnswerIsLast
<1>2. CASE trying = "PRIMARY"
  <2>1. /\ pc' = "header" /\ trying' = "SECONDARY" /\ g_gpt_hdr' = h
        /\ UNCHANGED read_sz
    BY <1>2 DEF TryNext
  <2>2. Types'
    BY <1>1, <2>1 DEF IInv, Types, Headers, Copies, flash
  <2>3. LookupKnows' /\ ReadSize' /\ ReadFits' /\ AnswerIsLast'
    BY <1>1, <2>1 DEF IInv, LookupKnows, ReadSize, ReadFits, AnswerIsLast
  <2>4. TableVerified' /\ LookupVerified'
    BY <1>1, <2>1 DEF TableVerified, LookupVerified
  <2>5. Fits(g_gpt_entry_read_cb, "PRIMARY")' = Fits(g_gpt_entry_read_cb, "PRIMARY")
    BY DEF Fits, Whole, flash
  <2>6. SearchKnows'
    BY <1>2, <2>1, <2>5 DEF SearchKnows
  <2> QED
    BY <2>2, <2>3, <2>4, <2>6 DEF IInv
<1>3. CASE trying # "PRIMARY"
  <2>1. /\ pc' = "idle" /\ trying' = "PRIMARY" /\ g_gpt_hdr' = ZeroHdr
    BY <1>3 DEF TryNext, Return
  <2>2. ZeroHdr \in Headers /\ ZeroHdr.what \notin Versions
    BY NoVersion DEF Headers, Copies, ZeroHdr
  <2>3. Types'
    BY <1>1, <2>1, <2>2 DEF IInv, Types, Headers, Copies, flash
  <2>4. LookupKnows' /\ ReadSize' /\ ReadFits' /\ AnswerIsLast'
    BY <1>1, <2>1 DEF LookupKnows, ReadSize, ReadFits, AnswerIsLast
  <2>5. TableVerified' /\ LookupVerified' /\ SearchKnows'
    BY <1>1, <2>1, <2>2 DEF TableVerified, LookupVerified, SearchKnows
  <2> QED
    BY <2>3, <2>4, <2>5 DEF IInv
<1> QED
  BY <1>2, <1>3

\* The header on the device that the search looks at.
Seen == [copy |-> trying, what |-> disk[g_gpt_entry_read_cb][trying].hdr]

\* It is a header of some copy, and a real one: only memory is ever all zeroes.
LEMMA SeenIsHeader ==
    ASSUME IInv, pc # "idle"
    PROVE  Seen \in Headers /\ Seen.what = disk[g_gpt_entry_read_cb][trying].hdr
           /\ Seen.what # "zero"
<1>1. g_gpt_entry_read_cb \in Devices /\ trying \in Copies /\ disk \in Disks
  BY DEF IInv, Types
<1>2. disk[g_gpt_entry_read_cb][trying].hdr \in HdrContents
  BY <1>1 DEF Disks
<1>3. "zero" \notin HdrContents
  BY NoVersion DEF HdrContents
<1> QED
  BY <1>1, <1>2, <1>3 DEF Seen, Headers

\* What a header that is refused says of its copy.
LEMMA Refused ==
    ASSUME IInv, pc # "idle", Seen.what = "torn" \/ EntryBytes(Seen) > g_gpt_work_buf_sz
    PROVE  ~Fits(g_gpt_entry_read_cb, trying)
<1>1. SUFFICES ASSUME Fits(g_gpt_entry_read_cb, trying) PROVE FALSE
  OBVIOUS
<1>2. Seen.what \in Versions /\ EntrySize[Seen.what] <= g_gpt_work_buf_sz
  BY <1>1, SeenIsHeader DEF Fits, Whole
<1>3. Seen.what # "torn"
  BY <1>2, NoVersion
<1>4. EntryBytes(Seen) = EntrySize[Seen.what]
  BY <1>2, EntryBytesOf
<1>5. EntryBytes(Seen) \in Nat /\ g_gpt_work_buf_sz \in Nat
  BY EntryBytesNat DEF IInv, Types
<1> QED
  BY <1>2, <1>3, <1>4, <1>5

\* The header of a copy is read.
LEMMA TryHeaderInv == IInv /\ TryHeader => IInv'
<1> SUFFICES ASSUME IInv, TryHeader PROVE IInv'
  OBVIOUS
<1>1. pc = "header" /\ UNCHANGED <<flash, g_gpt_entry_read_cb, g_gpt_work_buf_sz, found>>
  BY DEF TryHeader
<1>2. CASE disturbed' = TRUE /\ TryNext(g_gpt_hdr)
  <2>1. g_gpt_hdr \in Headers
    BY DEF IInv, Types, Headers
  <2> QED
    BY <1>1, <1>2, <2>1, TryNextInv
<1>3. CASE /\ Seen.what = "torn" \/ EntryBytes(Seen) > g_gpt_work_buf_sz
           /\ UNCHANGED disturbed /\ TryNext(Seen)
  <2>1. ~Fits(g_gpt_entry_read_cb, trying)
    BY <1>1, <1>3, Refused
  <2>2. Seen \in Headers /\ disturbed' \in BOOLEAN
    BY <1>1, <1>3, SeenIsHeader DEF IInv, Types
  <2> QED
    BY <1>1, <1>3, <2>1, <2>2, TryNextInv
<1>4. CASE /\ ~ (Seen.what = "torn" \/ EntryBytes(Seen) > g_gpt_work_buf_sz)
           /\ g_gpt_hdr' = Seen /\ pc' = "entries"
           /\ UNCHANGED <<disturbed, trying, read_sz, g_gpt_partition_init_done, good,
                          rewritten, misused>>
  <2>1. Seen \in Headers /\ Seen.copy = trying
        /\ Seen.what = disk[g_gpt_entry_read_cb][trying].hdr
    BY <1>1, SeenIsHeader DEF Seen
  <2>2. Types'
    BY <1>1, <1>4, <2>1 DEF IInv, Types, Headers, flash
  <2>3. EntryBytes(Seen) <= g_gpt_work_buf_sz
    <3>1. EntryBytes(Seen) \in Nat /\ g_gpt_work_buf_sz \in Nat
      BY EntryBytesNat DEF IInv, Types
    <3> QED
      BY <1>4, <3>1
  <2>4. LookupKnows' /\ ReadSize' /\ ReadFits' /\ AnswerIsLast'
    BY <1>1, <1>4, <2>3 DEF IInv, LookupKnows, ReadSize, ReadFits, AnswerIsLast
  <2>5. TableVerified' /\ LookupVerified'
    BY <1>1, <1>4 DEF IInv, AnswerIsLast, TableVerified, LookupVerified
  <2>6. SearchKnows'
    BY <1>1, <1>4, <2>1 DEF IInv, SearchKnows, Fits, Whole, flash
  <2> QED
    BY <2>2, <2>4, <2>5, <2>6 DEF IInv
<1> QED
  BY <1>2, <1>3, <1>4 DEF TryHeader, Seen

\* The entries of a copy are read and compared.
LEMMA TryEntriesInv == IInv /\ TryEntries => IInv'
<1> SUFFICES ASSUME IInv, TryEntries PROVE IInv'
  OBVIOUS
<1>1. /\ pc = "entries" /\ UNCHANGED <<flash, g_gpt_entry_read_cb, g_gpt_work_buf_sz, found>>
      /\ g_gpt_hdr \in Headers /\ g_gpt_hdr.copy = trying /\ found = NoTable
      /\ g_gpt_entry_read_cb \in Devices
  BY DEF TryEntries, IInv, Types, Headers, SearchKnows, AnswerIsLast
<1>2. CASE disturbed' = TRUE /\ TryNext(g_gpt_hdr)
  BY <1>1, <1>2, TryNextInv
<1>3. CASE ~EntriesMatch /\ UNCHANGED disturbed /\ TryNext(g_gpt_hdr)
  <2>1. ~disturbed => ~Fits(g_gpt_entry_read_cb, trying)
    BY <1>1, <1>3 DEF IInv, SearchKnows, EntriesMatch, Fits, Whole
  <2>2. disturbed' \in BOOLEAN
    BY <1>3 DEF IInv, Types
  <2> QED
    BY <1>1, <1>3, <2>1, <2>2, TryNextInv
<1>4. CASE /\ EntriesMatch /\ Return
           /\ g_gpt_partition_init_done' = TRUE
           /\ good' = [dev |-> g_gpt_entry_read_cb, ver |-> g_gpt_hdr.what]
           /\ rewritten' = FALSE /\ misused' = FALSE
           /\ UNCHANGED <<disturbed, g_gpt_hdr>>
  <2>1. pc' = "idle" /\ trying' = "PRIMARY"
    BY <1>4 DEF Return
  <2>2. Types'
    BY <1>1, <1>4, <2>1 DEF IInv, Types, flash, Copies
  <2>3. LookupKnows' /\ ReadSize' /\ ReadFits' /\ AnswerIsLast' /\ SearchKnows'
    BY <2>1 DEF LookupKnows, ReadSize, ReadFits, AnswerIsLast, SearchKnows
  <2>4. LookupVerified'
    BY <1>1 DEF LookupVerified
  <2>5. g_gpt_hdr.what \in Versions => disk[g_gpt_entry_read_cb][trying].ents = g_gpt_hdr.what
    BY <1>4, NoVersion DEF EntriesMatch
  <2>6. TableVerified'
    BY <1>1, <1>4, <2>5 DEF TableVerified, flash
  <2> QED
    BY <2>2, <2>3, <2>4, <2>6 DEF IInv
<1> QED
  BY <1>2, <1>3, <1>4 DEF TryEntries

\* After a deinit nothing is known.
LEMMA DeinitInv == IInv /\ rtss_gpt_partition_deinit => IInv'
<1> SUFFICES ASSUME IInv, rtss_gpt_partition_deinit PROVE IInv'
  OBVIOUS
<1> USE DEF rtss_gpt_partition_deinit
<1>1. ZeroHdr \in Headers /\ ZeroHdr.what \notin Versions
  BY NoVersion DEF Headers, Copies, ZeroHdr
<1>2. Types'
  BY <1>1 DEF IInv, Types, Headers, flash
<1>3. LookupKnows' /\ ReadSize' /\ ReadFits' /\ AnswerIsLast'
  BY DEF LookupKnows, ReadSize, ReadFits, AnswerIsLast
<1>4. TableVerified' /\ SearchKnows' /\ LookupVerified'
  BY <1>1 DEF TableVerified, SearchKnows, LookupVerified
<1> QED
  BY <1>2, <1>3, <1>4 DEF IInv

-----------------------------------------------------------------------------
(***************************************************************************)
(* The steps of rtss_gpt_get_partition_info                                *)
(***************************************************************************)
\* A lookup begins in a table whose entries fit in the buffer there is now.
LEMMA GetInfoInv == \A g \in Guids : IInv /\ rtss_gpt_get_partition_info(g) => IInv'
<1> SUFFICES ASSUME NEW g \in Guids, IInv, rtss_gpt_get_partition_info(g) PROVE IInv'
  OBVIOUS
<1>1. /\ pc = "idle" /\ found' = NoTable
      /\ UNCHANGED <<flash, globals, trying, history>>
      /\ \/ pc' = "idle"
         \/ /\ pc' = "lookup" /\ g_gpt_partition_init_done
            /\ read_sz' = EntryBytes(g_gpt_hdr)
            /\ EntryBytes(g_gpt_hdr) <= g_gpt_work_buf_sz
            /\ NumEntries(g_gpt_hdr) > 0
  BY DEF rtss_gpt_get_partition_info, LookupAllowed
<1>2. pc' = "lookup" => g_gpt_hdr.what \in Versions
  BY <1>1 DEF NumEntries
<1>3. Types'
  BY <1>1 DEF IInv, Types, flash, globals, history
<1>4. LookupKnows' /\ ReadSize' /\ ReadFits' /\ AnswerIsLast'
  BY <1>1, <1>2 DEF LookupKnows, ReadSize, ReadFits, AnswerIsLast, globals
<1>5. TableVerified'
  BY <1>1 DEF IInv, TableVerified, flash, globals, history
<1>6. SearchKnows' /\ LookupVerified'
  BY <1>1 DEF SearchKnows, LookupVerified
<1> QED
  BY <1>3, <1>4, <1>5, <1>6 DEF IInv

\* What a lookup finds is in the entries that are on the device now.
LEMMA LookupEntryInv == IInv /\ LookupEntry => IInv'
<1> SUFFICES ASSUME IInv, LookupEntry PROVE IInv'
  OBVIOUS
<1> DEFINE here == disk[g_gpt_entry_read_cb][g_gpt_hdr.copy].ents
<1>1. /\ pc = "lookup" /\ UNCHANGED <<flash, globals, history>> /\ found = NoTable
      /\ g_gpt_hdr.what \in Versions
  BY DEF LookupEntry, IInv, AnswerIsLast, LookupKnows
<1>2. \/ /\ pc' = "idle" /\ trying' = "PRIMARY"
         /\ found' \in {NoTable, [dev |-> g_gpt_entry_read_cb, ver |-> here]}
      \/ UNCHANGED <<pc, trying, read_sz, found>>
  BY <1>1 DEF LookupEntry, Return
<1>3. Types'
  BY <1>1, <1>2 DEF IInv, Types, flash, globals, history, Copies
<1>4. LookupKnows' /\ ReadSize' /\ ReadFits' /\ AnswerIsLast'
  BY <1>1, <1>2 DEF IInv, LookupKnows, ReadSize, ReadFits, AnswerIsLast, globals
<1>5. TableVerified'
  BY <1>1, <1>2 DEF IInv, TableVerified, flash, globals, history
<1>6. SearchKnows'
  BY <1>1, <1>2 DEF SearchKnows
<1>7. ~rewritten /\ ~misused =>
         /\ good = [dev |-> g_gpt_entry_read_cb, ver |-> g_gpt_hdr.what]
         /\ here = g_gpt_hdr.what
  BY <1>1 DEF IInv, TableVerified
<1>8. LookupVerified'
  <2> HIDE DEF here
  <2> QED
    BY <1>1, <1>2, <1>7 DEF LookupVerified, history
<1> QED
  BY <1>3, <1>4, <1>5, <1>6, <1>8 DEF IInv

-----------------------------------------------------------------------------
(***************************************************************************)
(* The properties                                                          *)
(***************************************************************************)
\* Every step keeps the invariant.
LEMMA NextInv == IInv /\ [Next]_vars => IInv'
<1> SUFFICES ASSUME IInv, [Next]_vars PROVE IInv'
  OBVIOUS
<1>1. CASE UNCHANGED vars
  <2>1. Types'
    BY <1>1 DEF IInv, Types, vars, flash, globals, call, history
  <2>2. LookupKnows' /\ ReadSize' /\ ReadFits' /\ AnswerIsLast' /\ LookupVerified'
    BY <1>1 DEF IInv, LookupKnows, ReadSize, ReadFits, AnswerIsLast, LookupVerified,
                vars, globals, call, history
  <2>3. TableVerified' /\ SearchKnows'
    BY <1>1 DEF IInv, TableVerified, SearchKnows, Fits, Whole,
                vars, flash, globals, call, history
  <2> QED
    BY <2>1, <2>2, <2>3 DEF IInv
<1>2. CASE \E d \in Devices, b \in BufSizes, a \in Alignments : rtss_gpt_partition_init(d, b, a)
  BY <1>2, PartitionInitInv
<1>3. CASE TryHeader \/ TryEntries \/ rtss_gpt_partition_deinit
  BY <1>3, TryHeaderInv, TryEntriesInv, DeinitInv
<1>4. CASE (\E g \in Guids : rtss_gpt_get_partition_info(g)) \/ LookupEntry
  BY <1>4, GetInfoInv, LookupEntryInv
<1>5. CASE (\E d \in Devices, c \in Copies, v \in Versions : RewriteBegin(d, c, v))
           \/ RewriteEntries \/ RewriteHeader
  BY <1>5, RewriteBeginInv, RewriteEntriesInv, RewriteHeaderInv
<1> QED
  BY <1>1, <1>2, <1>3, <1>4, <1>5 DEF Next

\* The invariant holds always.
THEOREM Invariance == Spec => []IInv
BY InitInv, NextInv, PTL DEF Spec

\* No read of the helper library is longer than the caller's work buffer: not
\* the header's, whose size is rounded up to the alignment, and not an entry's,
\* whose size the header states.
THEOREM ReadsFit == Spec => []ReadFits
BY Invariance, PTL DEF IInv

\* What rtss_gpt_get_partition_info finds, although it reads the entries again
\* and without a checksum, is of the table that rtss_gpt_partition_init verified.
THEOREM FoundIsVerified == Spec => []LookupVerified
BY Invariance, PTL DEF IInv

\* An undisturbed search ends with the copy one would take.
LEMMA SearchEnds ==
    ASSUME IInv, [Next]_vars, pc \in {"header", "entries"}, pc' = "idle", ~disturbed',
           \A c \in Copies : disk[g_gpt_entry_read_cb][c].hdr # "void"
    PROVE  g_gpt_id' = Best(g_gpt_entry_read_cb)
<1>1. TryHeader \/ TryEntries
  BY DEF Next, vars, call, rtss_gpt_partition_init, rtss_gpt_partition_deinit,
         rtss_gpt_get_partition_info, LookupEntry, RewriteBegin, RewriteEntries, RewriteHeader,
         Touches
<1>2. Best(g_gpt_entry_read_cb) =
         IF Fits(g_gpt_entry_read_cb, "PRIMARY") THEN "PRIMARY"
         ELSE IF Fits(g_gpt_entry_read_cb, "SECONDARY") THEN "SECONDARY" ELSE "NULL"
  BY DEF Best, Fits
<1>3. trying \in Copies /\ (trying = "SECONDARY" /\ ~disturbed =>
                               ~Fits(g_gpt_entry_read_cb, "PRIMARY"))
  BY DEF IInv, Types, SearchKnows
<1>4. ASSUME NEW h, TryNext(h), ~disturbed, ~Fits(g_gpt_entry_read_cb, trying)
      PROVE  g_gpt_id' = Best(g_gpt_entry_read_cb)
  <2>1. trying # "PRIMARY" /\ g_gpt_id' = "NULL"
    BY <1>4 DEF TryNext
  <2> QED
    BY <1>2, <1>3, <1>4, <2>1 DEF Copies
<1>5. CASE TryHeader
  <2>1. pc = "header" /\ UNCHANGED disturbed /\ TryNext(Seen)
        /\ (Seen.what = "torn" \/ EntryBytes(Seen) > g_gpt_work_buf_sz)
    BY <1>5 DEF TryHeader, Seen
  <2> QED
    BY <1>4, <2>1, Refused
<1>6. CASE TryEntries
  <2>1. /\ pc = "entries" /\ UNCHANGED disturbed
        /\ g_gpt_hdr.what = disk[g_gpt_entry_read_cb][trying].hdr
        /\ g_gpt_hdr.what # "torn" /\ g_gpt_hdr.what # "void"
    BY <1>3, <1>6 DEF TryEntries, IInv, SearchKnows
  <2>2. CASE ~EntriesMatch
    <3>1. TryNext(g_gpt_hdr)
      BY <1>6, <2>1, <2>2 DEF TryEntries
    <3>2. ~Fits(g_gpt_entry_read_cb, trying)
      BY <2>1, <2>2 DEF EntriesMatch, Fits, Whole
    <3> QED
      BY <1>4, <2>1, <3>1, <3>2
  <2>3. CASE EntriesMatch
    <3>1. g_gpt_id' = trying
      BY <1>6, <2>1, <2>3 DEF TryEntries
    <3>2. g_gpt_hdr.what \in Versions
      <4>1. g_gpt_entry_read_cb \in Devices /\ disk \in Disks
        BY <2>1 DEF IInv, Types
      <4>2. disk[g_gpt_entry_read_cb][trying].hdr \in HdrContents
        BY <1>3, <4>1 DEF Disks
      <4> QED
        BY <2>1, <4>2 DEF HdrContents
    <3>3. EntrySize[g_gpt_hdr.what] <= g_gpt_work_buf_sz
      BY <2>1, <3>2, EntryBytesOf DEF IInv, ReadFits
    <3>4. Fits(g_gpt_entry_read_cb, trying)
      BY <2>1, <2>3, <3>2, <3>3 DEF EntriesMatch, Fits, Whole
    <3> QED
      BY <1>2, <1>3, <2>1, <3>1, <3>4 DEF Copies
  <2> QED
    BY <2>2, <2>3
<1> QED
  BY <1>1, <1>5, <1>6

\* rtss_gpt_partition_init, which may try both copies and forgets why it refused
\* the first, ends with the primary if it is whole, else with a whole backup.
THEOREM BestCopyFound == Spec => BestCopy
<1>1. IInv /\ [Next]_vars =>
         [(pc \in {"header", "entries"} /\ pc' = "idle" /\ ~disturbed'
           /\ \A c \in Copies : disk[g_gpt_entry_read_cb][c].hdr # "void")
          => g_gpt_id' = Best(g_gpt_entry_read_cb)]_vars
  BY SearchEnds
<1> QED
  BY <1>1, Invariance, PTL DEF Spec, BestCopy
=============================================================================
