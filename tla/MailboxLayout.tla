---------------------------- MODULE MailboxLayout ----------------------------
(***************************************************************************)
(* The map of a mailbox: LibMB_ChanMapInit and LibMB_Boundary_Check of     *)
(* middleware/safemlib/src/rtss_mailbox_lib.c.                             *)
(*                                                                         *)
(* A configuration is the size of the mailbox and, for each sub-region,    *)
(* its number of items, their size and two byte offsets, of its first and  *)
(* its last byte.  The arithmetic is unsigned and wraps at Word.           *)
(***************************************************************************)
EXTENDS Integers, Sequences

CONSTANTS Word,                   \* 2^32
          MB_HEADER_SIZE,         \* sizeof(mb_desc_t), one sub-region included
          AREA_SIZE,              \* sizeof(mbsub_rgn_area_t)
          MB_SUB_REGION_HEADER_SZ,
          MB_MAX_ITEM_NUM,
          MB_MAX_SUB_REGION_NUM,
          Sizes, Nums, ItemSizes, \* the mb_size, item_max_num and item_max_size
                                  \* of the configurations
          MaxRegions              \* sub-regions of a configuration, at most

ASSUME LayoutAssumption ==
    /\ Word \in Nat \ {0}
    /\ MB_HEADER_SIZE \in Nat \ {0}
    /\ AREA_SIZE \in Nat
    /\ MB_SUB_REGION_HEADER_SZ \in Nat \ {0, 1}
    /\ MB_MAX_ITEM_NUM \in Nat
    /\ MB_MAX_SUB_REGION_NUM \in Nat
    /\ MaxRegions \in Nat
    /\ Sizes \subseteq 0 .. Word - 1
    /\ Nums \subseteq 0 .. Word - 1
    /\ ItemSizes \subseteq 0 .. Word - 1

VARIABLES
    mb_size,     \* mbconfig_t.mb_size
    rgn,         \* subregion_cfg: [num, size, start, end] of each sub-region
    mapret,      \* what LibMB_ChanMapInit returned, "none" before it and
                 \* "by_hand" once an offset was set by hand
    check        \* what LibMB_Boundary_Check said: "none", "accepted" or
                 \* "refused"

Payload(r) == r.num * r.size

\* The mailbox header with its array of n sub-regions, rounded up to 4.
HeaderSize(n) == ((MB_HEADER_SIZE + AREA_SIZE * (n - 1) + 3) \div 4) * 4

-----------------------------------------------------------------------------
(***************************************************************************)
(* LibMB_ChanMapInit                                                       *)
(***************************************************************************)
Placed(r, start, end) == [num |-> r.num, size |-> r.size, start |-> start, end |-> end]

\* The sub-regions one after the other; an end offset is that of the last byte.
ChanMap(cfg) ==
    LET end[i \in 0 .. Len(cfg)] ==
            IF i = 0 THEN HeaderSize(Len(cfg)) + 3
            ELSE (end[i - 1] + MB_SUB_REGION_HEADER_SZ + Payload(cfg[i])) % Word
    IN  [i \in DOMAIN cfg |-> Placed(cfg[i], (end[i - 1] + 1) % Word, end[i])]

\* Without sub-regions the code compares mb_size with the end offset before
\* the first one, which is anything.
MapVerdict(cfg) ==
    IF Len(cfg) > MB_MAX_SUB_REGION_NUM  THEN {"NULL_INPUT"}
    ELSE IF cfg = <<>>                   THEN {"SUCCESS", "INVALID_CFG"}
    ELSE IF mb_size < cfg[Len(cfg)].end  THEN {"INVALID_CFG"}
    ELSE {"SUCCESS"}

MapConfig ==
    /\ check = "none"
    /\ mapret = "none"
    /\ rgn' = IF Len(rgn) <= MB_MAX_SUB_REGION_NUM THEN ChanMap(rgn) ELSE rgn
    /\ mapret' \in MapVerdict(rgn')
    /\ UNCHANGED <<mb_size, check>>

\* The configuration is the caller's: an offset set by hand.
SetOffset ==
    /\ check = "none"
    /\ mapret \in {"SUCCESS", "INVALID_CFG"}
    /\ mapret' = "by_hand"
    /\ \E i \in DOMAIN rgn, ds \in {-1, 0, 1}, de \in {-1, 0, 1} :
          rgn' = [rgn EXCEPT ![i] = Placed(@, (@.start + ds) % Word, (@.end + de) % Word)]
    /\ UNCHANGED <<mb_size, check>>

-----------------------------------------------------------------------------
(***************************************************************************)
(* LibMB_Boundary_Check                                                    *)
(***************************************************************************)
ValidSize(r) == Payload(r) % Word

\* The last byte the items need, as the code computes it.
LastByte(r) == (r.start + MB_SUB_REGION_HEADER_SZ - 1 + ValidSize(r)) % Word

\* Mutant: the last byte must come before the end offset.
CanCover_Strict(r) ==
    /\ r.num <= MB_MAX_ITEM_NUM
    /\ r.start < r.end
    /\ r.num # 0 => ValidSize(r) \div r.num = r.size
    /\ LastByte(r) > r.start
    /\ LastByte(r) < r.end

CanCover(r) ==
    /\ r.num <= MB_MAX_ITEM_NUM
    /\ r.start < r.end
    /\ r.num # 0 => ValidSize(r) \div r.num = r.size
    /\ LastByte(r) > r.start
    /\ LastByte(r) <= r.end

\* Mutant: a region may end where the next one starts.
NoOverlap_Touching ==
    LET n == Len(rgn)
        end(i)   == IF i = 0 THEN HeaderSize(n) ELSE rgn[i].end
        limit(i) == IF i = n THEN mb_size ELSE rgn[i + 1].start
    IN  \A i \in 0 .. n : end(i) <= limit(i) /\ limit(i) <= mb_size

\* Header, sub-regions and the end of the mailbox, in this order.
NoOverlap ==
    LET n == Len(rgn)
        end(i)   == IF i = 0 THEN HeaderSize(n) ELSE rgn[i].end
        limit(i) == IF i = n THEN mb_size ELSE rgn[i + 1].start
    IN  \A i \in 0 .. n : end(i) < limit(i) /\ limit(i) <= mb_size

LibMB_Boundary_Check ==
    /\ Len(rgn) \in 1 .. MB_MAX_SUB_REGION_NUM
    /\ \A i \in DOMAIN rgn : CanCover(rgn[i])
    /\ NoOverlap

-----------------------------------------------------------------------------
(***************************************************************************)
(* The memory a map stands for, in numbers that do not wrap.               *)
(***************************************************************************)
RegionBytes(r) == r.start .. r.start + MB_SUB_REGION_HEADER_SZ - 1 + Payload(r)

HeaderBytes == 0 .. HeaderSize(Len(rgn)) - 1

\* The items and the header together wrap past the start of the region.
WrapsPastStart(r) == Payload(r) \in Word - MB_SUB_REGION_HEADER_SZ + 1 .. Word - 1

Sound == \A i \in DOMAIN rgn : ~WrapsPastStart(rgn[i])

\* In a mailbox that was accepted, the header and the sub-regions with all
\* their items are disjoint and inside the mailbox, whether the offsets come
\* from LibMB_ChanMapInit or were set by hand.  Sound excludes what the check
\* (lib.c:230) lets through: items so large that, with their header, they wrap
\* back past the start of the region, which then ends long before they do.
RegionsDisjoint ==
    check = "accepted" /\ Sound =>
        \A i \in DOMAIN rgn :
            /\ RegionBytes(rgn[i]) \subseteq 0 .. mb_size - 1
            /\ RegionBytes(rgn[i]) \cap HeaderBytes = {}
            /\ \A j \in DOMAIN rgn :
                  i # j => RegionBytes(rgn[i]) \cap RegionBytes(rgn[j]) = {}

\* The map one would draw: the regions after the header, without wrapping.
FitsExactly ==
    LET n == Len(rgn)
        last[i \in 0 .. n] ==
            IF i = 0 THEN HeaderSize(n) + 3
            ELSE last[i - 1] + MB_SUB_REGION_HEADER_SZ + Payload(rgn[i])
    IN  last[n] < mb_size

\* A map that LibMB_ChanMapInit made and accepted is accepted again when the
\* mailbox is created, and one that does not fit is not: the two agree except
\* for a mailbox of no sub-regions, too many items, and a map whose last byte
\* would be at mb_size, which only LibMB_ChanMapInit lets pass.
MapAccepted ==
    mapret = "SUCCESS" /\ check # "none" /\ Sound =>
        (check = "accepted" <=>
                   /\ rgn # <<>>
                   /\ \A i \in DOMAIN rgn : rgn[i].num <= MB_MAX_ITEM_NUM
                   /\ FitsExactly)
=============================================================================
