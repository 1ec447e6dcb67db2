----------------------------- MODULE GptPartition -----------------------------
(***************************************************************************)
(* Finding a partition table and looking partitions up in it:              *)
(* apps/rtss-updater/lib/rtss_gpt/src/rtss_guidpt.c.                       *)
(*                                                                         *)
(* A device holds two copies of the table, each a header and the entries   *)
(* it describes.  Its content is a version, or what an interrupted writer  *)
(* leaves.  A checksum tells the entries of one version from those of any  *)
(* other.  Another processor rewrites one copy while the other is whole,   *)
(* at any moment, and may stop in the middle; any read may fail.           *)
(***************************************************************************)
EXTENDS Integers, Sequences

CONSTANTS Devices,     \* the read callbacks
          Versions,    \* of a table
          Table,       \* the entries of each version: a sequence of
                       \* [guid, empty], empty a partition of no blocks
          EntrySize,   \* the entry size that each version's header states
          Guids,       \* what callers look for
          HdrSize,     \* sizeof(rtss_gpt_header_t)
          EntSize,     \* sizeof(rtss_gpt_entry_t)
          BufSizes,    \* the work buffers callers give
          Alignments,  \* the alignments callers give
          MaxWrites    \* bound on the rewrites of a copy

ASSUME GptAssumption ==
    /\ HdrSize \in Nat \ {0} /\ EntSize \in Nat \ {0}
    /\ BufSizes \subseteq Nat /\ Alignments \subseteq Nat
    /\ EntrySize \in [Versions -> Nat]
    /\ \A v \in Versions : Table[v] \in Seq([guid : Guids, empty : BOOLEAN])
    /\ Versions \cap {"zero", "torn", "void", "bad", "none"} = {}
    /\ MaxWrites \in Nat

Copies == {"PRIMARY", "SECONDARY"}
Other(c) == IF c = "PRIMARY" THEN "SECONDARY" ELSE "PRIMARY"

\* "torn" has no signature (it is erased) or a wrong checksum; "void" has the
\* signature and zeroes, whose checksums, over no bytes, are right.
HdrContents == Versions \cup {"torn", "void"}
EntContents == Versions \cup {"bad"}
NoDevice == "NULL"
NoGuid == "none"

VARIABLES
    disk,        \* the copies: [hdr, ents]
    writer,      \* the rewrite under way: [dev, copy, ver, step]
    writes,      \* rewrites begun
    pc,          \* "idle", "header", "entries" or "lookup"
    trying,      \* the copy that rtss_gpt_partition_try is at
    g_gpt_hdr,   \* the header in memory: [copy, what]
    g_gpt_partition_init_done,
    g_gpt_entry_read_cb,
    g_gpt_work_buf_sz,
    g_gpt_id,
    read_sz,     \* the bytes of the read that is next
    want, idx,   \* the lookup: its guid and the next entry
    found,       \* the answer of the last lookup: [dev, ver], or "none"
    good,        \* what the last init verified: [dev, ver], or "none" (history)
    disturbed,   \* a write or a failing read during this init (history)
    rewritten,   \* a write since the last good init (history)
    misused      \* an init refused its arguments since then (history)

globals == <<g_gpt_hdr, g_gpt_partition_init_done, g_gpt_entry_read_cb,
             g_gpt_work_buf_sz, g_gpt_id>>
flash == <<disk, writer, writes>>
call == <<pc, trying, read_sz, want, idx, found>>
history == <<good, disturbed, rewritten, misused>>
vars == <<flash, globals, call, history>>

NoTable == [dev |-> NoDevice, ver |-> "none"]
ZeroHdr == [copy |-> "PRIMARY", what |-> "zero"]

\* A call returns; its local variables are gone.
Return ==
    /\ pc' = "idle"
    /\ trying' = "PRIMARY"
    /\ read_sz' = 0
    /\ want' = NoGuid /\ idx' = 1

\* number_of_partition_entries and size_of_partition_entry of a header.
NumEntries(h) == IF h.what \in Versions THEN Len(Table[h.what]) ELSE 0
EntryBytes(h) == IF h.what \in Versions THEN EntrySize[h.what] ELSE 0

\* The header, rounded up to the alignment.
HeaderBytes(a) == ((HdrSize + a - 1) \div a) * a

-----------------------------------------------------------------------------
(***************************************************************************)
(* rtss_gpt_partition_init                                                 *)
(***************************************************************************)
\* The arguments are stored before the buffer is found too small: what an
\* earlier call found stays in use, on the new device.
rtss_gpt_partition_init(d, buf, a) ==
    /\ pc = "idle"
    /\ a > 0
    /\ g_gpt_entry_read_cb' = d
    /\ g_gpt_work_buf_sz' = buf
    /\ found' = NoTable
    /\ \/ /\ HeaderBytes(a) > buf \/ EntSize > buf
          /\ misused' = TRUE
          /\ UNCHANGED <<pc, trying, read_sz, disturbed>>
       \/ /\ HeaderBytes(a) <= buf /\ EntSize <= buf
          /\ pc' = "header"
          /\ trying' = "PRIMARY"
          /\ read_sz' = HeaderBytes(a)
          /\ disturbed' = FALSE
          /\ UNCHANGED misused
    /\ UNCHANGED <<flash, g_gpt_hdr, g_gpt_partition_init_done, g_gpt_id, want, idx,
                   good, rewritten>>

\* Mutant: the header that was read last stays when no table is found.
TryNext_KeepsHeader(h) ==
    /\ IF trying = "PRIMARY"
       THEN /\ pc' = "header"
            /\ trying' = "SECONDARY"
            /\ g_gpt_hdr' = h
            /\ UNCHANGED <<read_sz, want, idx, g_gpt_id, good>>
       ELSE /\ Return
            /\ g_gpt_id' = "NULL"
            /\ g_gpt_hdr' = h
            /\ good' = NoTable
    /\ UNCHANGED <<g_gpt_partition_init_done, rewritten, misused>>

\* A copy was refused, with h in memory: the secondary is tried after the
\* primary, and after that nothing is left.  init_done is not cleared.
TryNext(h) ==
    /\ IF trying = "PRIMARY"
       THEN /\ pc' = "header"
            /\ trying' = "SECONDARY"
            /\ g_gpt_hdr' = h
            /\ UNCHANGED <<read_sz, want, idx, g_gpt_id, good>>
       ELSE /\ Return
            /\ g_gpt_id' = "NULL"
            /\ g_gpt_hdr' = ZeroHdr
            /\ good' = NoTable
    /\ UNCHANGED <<g_gpt_partition_init_done, rewritten, misused>>

\* rtss_gpt_partition_try up to the checksum of the header.
TryHeader ==
    /\ pc = "header"
    /\ \/ /\ disturbed' = TRUE          \* the read fails
          /\ TryNext(g_gpt_hdr)
       \/ LET h == [copy |-> trying, what |-> disk[g_gpt_entry_read_cb][trying].hdr]
          IN  /\ UNCHANGED disturbed
              /\ IF h.what = "torn" \/ EntryBytes(h) > g_gpt_work_buf_sz
                 THEN TryNext(h)
                 ELSE /\ g_gpt_hdr' = h
                      /\ pc' = "entries"
                      /\ UNCHANGED <<trying, read_sz, want, idx, g_gpt_partition_init_done,
                                     g_gpt_id, good, rewritten, misused>>
    /\ UNCHANGED <<flash, g_gpt_entry_read_cb, g_gpt_work_buf_sz, found>>

\* Mutant: the checksum of the entries is not compared.
EntriesMatch_Any == TRUE

EntriesMatch ==
    g_gpt_hdr.what = "void"
    \/ disk[g_gpt_entry_read_cb][trying].ents = g_gpt_hdr.what

\* rtss_gpt_verify_partition_entry_crc32; entries that change while they are
\* read match nothing, as if the read had failed.
TryEntries ==
    /\ pc = "entries"
    /\ \/ /\ disturbed' = TRUE          \* a read fails
          /\ NumEntries(g_gpt_hdr) > 0
          /\ TryNext(g_gpt_hdr)
       \/ /\ ~EntriesMatch
          /\ UNCHANGED disturbed
          /\ TryNext(g_gpt_hdr)
       \/ /\ EntriesMatch
          /\ Return
          /\ g_gpt_id' = trying
          /\ g_gpt_partition_init_done' = TRUE
          /\ good' = [dev |-> g_gpt_entry_read_cb, ver |-> g_gpt_hdr.what]
          /\ rewritten' = FALSE
          /\ misused' = FALSE
          /\ UNCHANGED <<disturbed, g_gpt_hdr>>
    /\ UNCHANGED <<flash, g_gpt_entry_read_cb, g_gpt_work_buf_sz, found>>

rtss_gpt_partition_deinit ==
    /\ pc = "idle"
    /\ g_gpt_hdr' = ZeroHdr
    /\ g_gpt_entry_read_cb' = NoDevice
    /\ g_gpt_work_buf_sz' = 0
    /\ g_gpt_partition_init_done' = FALSE
    /\ found' = NoTable
    /\ good' = NoTable
    /\ misused' = FALSE
    /\ UNCHANGED <<flash, g_gpt_id, pc, trying, read_sz, want, idx, disturbed, rewritten>>

-----------------------------------------------------------------------------
(***************************************************************************)
(* rtss_gpt_get_partition_info                                             *)
(***************************************************************************)
\* Mutant: the size of an entry is not compared with the buffer.
LookupAllowed_AnySize == g_gpt_partition_init_done

LookupAllowed ==
    /\ g_gpt_partition_init_done
    /\ EntryBytes(g_gpt_hdr) <= g_gpt_work_buf_sz

rtss_gpt_get_partition_info(g) ==
    /\ pc = "idle"
    /\ found' = NoTable
    /\ IF LookupAllowed /\ NumEntries(g_gpt_hdr) > 0
       THEN pc' = "lookup" /\ read_sz' = EntryBytes(g_gpt_hdr) /\ want' = g
       ELSE UNCHANGED <<pc, read_sz, want>>
    /\ UNCHANGED <<flash, globals, trying, idx, history>>

\* The entries that may be at the next place, the guid of one and whether it
\* is empty: what the version there has, or anything.
EntryAt(e, i) ==
    IF e \in Versions /\ i \in DOMAIN Table[e] THEN {Table[e][i]}
    ELSE [guid : Guids, empty : BOOLEAN]

MoreEntries == idx < NumEntries(g_gpt_hdr)

\* An entry is read where the header says, without a checksum.
LookupEntry ==
    /\ pc = "lookup"
    /\ LET here == disk[g_gpt_entry_read_cb][g_gpt_hdr.copy].ents
       IN  \/ Return /\ UNCHANGED found                 \* the read fails
           \/ \E e \in EntryAt(here, idx) :
                 \/ /\ e.guid = want
                    /\ Return
                    /\ found' = IF e.empty THEN NoTable
                                ELSE [dev |-> g_gpt_entry_read_cb, ver |-> here]
                 \/ /\ e.guid # want
                    /\ IF MoreEntries
                       THEN idx' = idx + 1 /\ UNCHANGED <<pc, trying, read_sz, want>>
                       ELSE Return
                    /\ UNCHANGED found
    /\ UNCHANGED <<flash, globals, history>>

-----------------------------------------------------------------------------
(***************************************************************************)
(* The other processor                                                     *)
(***************************************************************************)
Whole(d, c) == disk[d][c].hdr \in Versions /\ disk[d][c].ents = disk[d][c].hdr

Touches(d) ==
    /\ disturbed' = (disturbed \/ (pc \in {"header", "entries"} /\ d = g_gpt_entry_read_cb))
    /\ rewritten' = (rewritten \/ d = good.dev)
    /\ UNCHANGED <<globals, call, good, misused>>

\* One copy is rewritten while the other is whole: the header is erased, ...
RewriteBegin(d, c, v) ==
    /\ writer.step = "idle"
    /\ writes < MaxWrites
    /\ Whole(d, Other(c))
    /\ writes' = writes + 1
    /\ disk' = [disk EXCEPT ![d][c].hdr = "torn"]
    /\ writer' = [dev |-> d, copy |-> c, ver |-> v, step |-> "entries"]
    /\ Touches(d)

\* ... the entries are written, ...
RewriteEntries ==
    /\ writer.step = "entries"
    /\ \/ /\ disk' = [disk EXCEPT ![writer.dev][writer.copy].ents = "bad"]
          /\ writer' = [writer EXCEPT !.step = "idle"]       \* a power cut
       \/ /\ disk' = [disk EXCEPT ![writer.dev][writer.copy].ents = writer.ver]
          /\ writer' = [writer EXCEPT !.step = "header"]
    /\ UNCHANGED writes
    /\ Touches(writer.dev)

\* ... and then the header.
RewriteHeader ==
    /\ writer.step = "header"
    /\ \E what \in {"torn", writer.ver} :
          disk' = [disk EXCEPT ![writer.dev][writer.copy].hdr = what]
    /\ writer' = [writer EXCEPT !.step = "idle"]
    /\ UNCHANGED writes
    /\ Touches(writer.dev)

-----------------------------------------------------------------------------
Contents == [Copies -> [hdr : HdrContents, ents : EntContents]]

Programmed(v) == [c \in Copies |-> [hdr |-> v, ents |-> v]]

\* One device has any content; the others are as the factory left them.
Init ==
    /\ \E d \in Devices, content \in Contents, v \in Versions :
          disk = [e \in Devices |-> IF e = d THEN content ELSE Programmed(v)]
    /\ writer = [dev |-> NoDevice, copy |-> "PRIMARY", ver |-> "none", step |-> "idle"]
    /\ writes = 0
    /\ pc = "idle"
    /\ trying = "PRIMARY"
    /\ g_gpt_hdr = ZeroHdr
    /\ g_gpt_partition_init_done = FALSE
    /\ g_gpt_entry_read_cb = NoDevice
    /\ g_gpt_work_buf_sz = 0
    /\ g_gpt_id = "NULL"
    /\ read_sz = 0
    /\ want = NoGuid /\ idx = 1
    /\ found = NoTable
    /\ good = NoTable
    /\ disturbed = FALSE /\ rewritten = FALSE /\ misused = FALSE

Next ==
    \/ \E d \in Devices, b \in BufSizes, a \in Alignments : rtss_gpt_partition_init(d, b, a)
    \/ TryHeader
    \/ TryEntries
    \/ rtss_gpt_partition_deinit
    \/ \E g \in Guids : rtss_gpt_get_partition_info(g)
    \/ LookupEntry
    \/ \E d \in Devices, c \in Copies, v \in Versions : RewriteBegin(d, c, v)
    \/ RewriteEntries
    \/ RewriteHeader

Spec == Init /\ [][Next]_vars

-----------------------------------------------------------------------------
\* No read is longer than the buffer it goes to, also after a call of
\* rtss_gpt_partition_init that put a smaller buffer beside an old header.
ReadFits ==
    /\ pc \in {"header", "lookup"} => read_sz <= g_gpt_work_buf_sz
    /\ pc = "entries" => EntryBytes(g_gpt_hdr) <= g_gpt_work_buf_sz

\* A partition that was found comes from the very table that the last
\* rtss_gpt_partition_init verified, on the device it was called for: none is
\* found after a search without success or a deinit.  The exceptions: the table
\* was rewritten since, or an init with too small a buffer came in between.
LookupVerified ==
    found # NoTable /\ ~rewritten /\ ~misused => found = good

\* The copy one would take: the primary when it is whole, else the secondary.
Best(d) ==
    LET fits(c) == Whole(d, c) /\ EntrySize[disk[d][c].hdr] <= g_gpt_work_buf_sz
    IN  IF fits("PRIMARY") THEN "PRIMARY"
        ELSE IF fits("SECONDARY") THEN "SECONDARY"
        ELSE "NULL"

\* A search that no write and no failing read disturbs ends with the best copy:
\* a torn or erased primary never hides a whole backup, nor the backup a whole
\* primary.  A void header is taken for an empty table.
BestCopy ==
    [][ (pc \in {"header", "entries"} /\ pc' = "idle" /\ ~disturbed'
         /\ \A c \in Copies : disk[g_gpt_entry_read_cb][c].hdr # "void")
        => g_gpt_id' = Best(g_gpt_entry_read_cb) ]_vars
=============================================================================
