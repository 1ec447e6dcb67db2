------------------------ MODULE MailboxCreate_proofs ------------------------
(***************************************************************************)
(* Creating a mailbox under a client, for every map, every size and any    *)
(* number of creations, in whatever order their stores are seen: the       *)
(* client's writes stay inside its sub-region, and none is dropped once    *)
(* the mailbox has been whole; the sub-regions of an accepted mailbox      *)
(* share no byte; and a map is accepted exactly when it fits.              *)
(***************************************************************************)
EXTENDS MailboxCreate, SequenceTheorems, WellFoundedInduction, TLAPS

(***************************************************************************)
(* The inductive invariant.  The properties speak of one moment of a       *)
(* write; what they rest on is that the number and the size, once they are *)
(* seen, have the value every later creation stores again, and that every  *)
(* index is one of the ring, so that the loads of a write agree with each  *)
(* other although RTSS restarts between them.                              *)
(***************************************************************************)
Types ==
    /\ pending \subseteq Fields
    /\ creations \in Nat
    /\ whole \in BOOLEAN
    /\ mem \in [magic : BOOLEAN, count : BOOLEAN, start : BOOLEAN,
                num : Nat, size : Nat, in : Nat, out : Nat]
    /\ local \in [batch : Nat, num : Nat, size : Nat, in : Nat, out : Nat]
    /\ sure \in BOOLEAN
    /\ lost \in BOOLEAN

\* A sequence of records; nothing is said of the offsets.
Map(cfg) ==
    /\ Len(cfg) \in Nat
    /\ cfg = [i \in 1 .. Len(cfg) |-> cfg[i]]
    /\ \A i \in 1 .. Len(cfg) :
          /\ cfg[i] = [num |-> cfg[i].num, size |-> cfg[i].size,
                       start |-> cfg[i].start, end |-> cfg[i].end]
          /\ cfg[i].num \in Nat
          /\ cfg[i].size \in Nat

\* From here on the number of the items and their size stay what they are.
Fixed == check = "accepted" \/ mem.magic \/ mem.num # 0 \/ mem.size # 0

MapInv ==
    /\ Map(rgn)
    /\ mapret = "none" =>
          ~Fixed /\ \A i \in 1 .. Len(rgn) : rgn[i].start = 0 /\ rgn[i].end = 0
    /\ creations = 0 => ~Fixed
    /\ Fixed => Len(rgn) > 0

\* What a creation stores is either not seen or what the next one stores.
Index(x) == x # 0 => x < Sub.num

StoresInv ==
    /\ mem.num # 0 => mem.num = Sub.num
    /\ mem.size # 0 => mem.size = Sub.size
    /\ Index(mem.in) /\ Index(mem.out)
    /\ ~mem.magic => mem.in = 0 /\ mem.out = 0

\* What is seen of the stores of a creation, and of all of them.
SeenInv ==
    /\ check # "accepted" => pending = {}
    /\ check = "accepted" =>
          /\ "num" \notin pending => mem.num = Sub.num
          /\ "size" \notin pending => mem.size = Sub.size
          /\ "start" \notin pending => mem.start
          /\ "magic" \notin pending => mem.magic
    /\ whole => mem.magic /\ mem.start /\ mem.num = Sub.num /\ mem.size = Sub.size

\* What each load of a write under way has established.
ClientInv ==
    /\ cpc \in {"idle", "astray", "count", "start", "check num", "check size", "check in",
                "check out", "free in", "free out", "free num", "size", "index", "guard",
                "copy"}
    /\ cpc # "idle" => mem.magic
    /\ sure => whole
    /\ cpc = "astray" => ~sure
    /\ cpc \in {"check size", "check in", "check out"} => (local.num # 0 => local.num = mem.num)
    /\ cpc \in {"free in", "free out", "free num", "size", "index", "guard", "copy"} =>
          Sub.num > 0 /\ mem.num = Sub.num
    /\ cpc \in {"free out", "free num", "guard", "copy"} => local.in < Sub.num
    /\ cpc = "free num" => local.out <= local.in
    /\ cpc \in {"size", "index", "guard", "copy"} => local.batch <= Sub.num
    /\ cpc \in {"index", "guard"} => (local.size = 0 /\ ~sure) \/ local.size = Sub.size
    /\ cpc = "copy" => local.num = Sub.num /\ local.size = Sub.size
    /\ lost => mem.magic /\ Sub.size = 0

IInv == Types /\ MapInv /\ StoresInv /\ SeenInv /\ ClientInv

-----------------------------------------------------------------------------
(***************************************************************************)
(* Sequences and arithmetic                                                *)
(***************************************************************************)
\* A function on 1 .. n is a sequence of length n.
LEMMA LenOf ==
    ASSUME NEW n \in Nat, NEW s, s = [i \in 1 .. n |-> s[i]]
    PROVE  Len(s) = n
<1> DEFINE S == {s[i] : i \in 1 .. n}
<1>1. s \in [1 .. n -> S]
  OBVIOUS
<1>2. s \in Seq(S)
  BY <1>1, SeqDef
<1>3. DOMAIN s = 1 .. Len(s) /\ Len(s) \in Nat
  BY <1>2, LenProperties
<1>4. DOMAIN s = 1 .. n
  BY <1>1
<1> QED
  BY <1>3, <1>4

\* A remainder is no larger than what was divided.
LEMMA ModBound ==
    ASSUME NEW a \in Nat, NEW w \in Nat \ {0}
    PROVE  a % w \in Nat /\ a % w < w /\ a % w <= a
<1>1. CASE a < w
  BY <1>1, SMT
<1>2. CASE a >= w
  BY <1>2, SMT
<1> QED BY <1>1, <1>2

\* Items before the end of the ring lie inside the payload.
LEMMA PayloadMonotone ==
    ASSUME NEW m \in Nat, NEW n \in Nat, NEW size \in Nat, m <= n
    PROVE  m * size <= n * size
BY SMT

\* Other offsets make another map with the same numbers and sizes.
LEMMA NewOffsets ==
    ASSUME NEW cfg, Map(cfg), NEW new,
           new = [i \in 1 .. Len(cfg) |-> new[i]],
           \A i \in 1 .. Len(cfg) :
              new[i] = [num |-> cfg[i].num, size |-> cfg[i].size,
                        start |-> new[i].start, end |-> new[i].end]
    PROVE  /\ Map(new)
           /\ Len(new) = Len(cfg)
           /\ \A i \in 1 .. Len(cfg) : new[i].num = cfg[i].num /\ new[i].size = cfg[i].size
<1>1. Len(new) = Len(cfg)
  BY LenOf DEF Map
<1>2. \A i \in 1 .. Len(cfg) : new[i].num = cfg[i].num /\ new[i].size = cfg[i].size
  OBVIOUS
<1> QED
  BY <1>1, <1>2 DEF Map

-----------------------------------------------------------------------------
(***************************************************************************)
(* The steps of the owner of the mailbox                                   *)
(***************************************************************************)
\* Before the first creation nothing is fixed.
LEMMA InitInv == Init => IInv
<1> SUFFICES ASSUME Init PROVE IInv
  OBVIOUS
<1>1. PICK n \in 0 .. MaxRegions : rgn \in [1 .. n -> Regions]
  BY DEF Init
<1>2. n \in Nat /\ rgn = [i \in 1 .. n |-> rgn[i]]
  BY <1>1
<1>3. Len(rgn) = n
  BY <1>2, LenOf
<1>4. \A i \in 1 .. n : rgn[i] \in [num : Nat, size : Nat, start : {0}, end : {0}]
  <2>1. Nums \subseteq Nat /\ ItemSizes \subseteq Nat
    BY LayoutAssumption
  <2>2. \A i \in 1 .. n : rgn[i] \in Regions
    BY <1>1
  <2> QED
    BY <2>1, <2>2 DEF Regions
<1>5. Map(rgn)
  BY <1>2, <1>3, <1>4 DEF Map
<1>6. MapInv
  BY <1>3, <1>4, <1>5 DEF Init, MapInv, Fixed, Zeroes
<1>7. Types
  BY DEF Init, Types, Zeroes, Locals, Fields
<1>8. StoresInv /\ SeenInv /\ ClientInv
  BY DEF Init, StoresInv, SeenInv, ClientInv, Index, Zeroes
<1> QED
  BY <1>6, <1>7, <1>8 DEF IInv

\* Before anything is fixed, nothing is stored and no write is under way, and
\* the map may change.
LEMMA Pristine ==
    ASSUME IInv, ~Fixed, ~Fixed',
           UNCHANGED <<check, pending, mem, whole, client>>
    PROVE  StoresInv' /\ SeenInv' /\ ClientInv'
<1>1. ~mem.magic /\ mem.num = 0 /\ mem.size = 0 /\ check # "accepted"
  BY DEF Fixed
<1>2. mem.in = 0 /\ mem.out = 0 /\ pending = {} /\ ~whole
  BY <1>1 DEF IInv, StoresInv, SeenInv
<1>3. cpc = "idle" /\ ~sure /\ ~lost
  BY <1>1, <1>2 DEF IInv, ClientInv
<1>4. /\ mem' = mem /\ pending' = {} /\ check' = check
      /\ cpc' = "idle" /\ ~sure' /\ ~lost' /\ ~whole'
  BY <1>2, <1>3 DEF client
<1> QED
  BY <1>1, <1>2, <1>4 DEF StoresInv, SeenInv, ClientInv, Index

\* LibMB_ChanMapInit runs before anything is fixed.
LEMMA ChanMapInitInv == IInv /\ LibMB_ChanMapInit => IInv'
<1> SUFFICES ASSUME IInv, LibMB_ChanMapInit PROVE IInv'
  OBVIOUS
<1> USE DEF LibMB_ChanMapInit, MapConfig, client
<1>1. ~Fixed /\ Map(rgn)
  BY DEF IInv, MapInv
<1>2. Map(rgn')
  <2>1. CASE rgn' = rgn
    BY <1>1, <2>1
  <2>2. CASE rgn' = ChanMap(rgn)
    <3> DEFINE end[i \in 0 .. Len(rgn)] ==
                  IF i = 0 THEN HeaderSize(Len(rgn)) + 3
                  ELSE (end[i - 1] + MB_SUB_REGION_HEADER_SZ + Payload(rgn[i])) % Word
    <3> HIDE DEF end
    <3>1. rgn' = [i \in DOMAIN rgn |->
                    Placed(rgn[i], (end[i - 1] + 1) % Word, end[i])]
      BY <2>2 DEF ChanMap, end
    <3>2. DOMAIN rgn = 1 .. Len(rgn)
      BY <1>1 DEF Map
    <3>3. rgn' = [i \in 1 .. Len(rgn) |-> rgn'[i]]
      BY <3>1, <3>2
    <3>4. ASSUME NEW i \in 1 .. Len(rgn)
          PROVE  rgn'[i] = [num |-> rgn[i].num, size |-> rgn[i].size,
                            start |-> rgn'[i].start, end |-> rgn'[i].end]
      BY <3>1, <3>2 DEF Placed
    <3> QED
      BY <1>1, <3>3, <3>4, NewOffsets
  <2> QED
    BY <2>1, <2>2
<1>3. mapret' # "none"
  BY DEF MapVerdict
<1>4. ~Fixed'
  BY <1>1 DEF Fixed
<1>5. MapInv'
  BY <1>2, <1>3, <1>4 DEF MapInv
<1>6. Types'
  BY DEF IInv, Types
<1>7. StoresInv' /\ SeenInv' /\ ClientInv'
  BY <1>1, <1>4, Pristine DEF LibMB_ChanMapInit, MapConfig, client
<1> QED
  BY <1>5, <1>6, <1>7 DEF IInv

\* The owner changes an offset by hand, before the first creation.
LEMMA OffsetByHandInv == IInv /\ OffsetByHand => IInv'
<1> SUFFICES ASSUME IInv, OffsetByHand PROVE IInv'
  OBVIOUS
<1>1. Map(rgn)
  BY DEF OffsetByHand, SetOffset, IInv, MapInv
<1>2. PICK i \in DOMAIN rgn, ds \in {-1, 0, 1}, de \in {-1, 0, 1} :
         rgn' = [rgn EXCEPT ![i] = Placed(rgn[i], (rgn[i].start + ds) % Word,
                                                  (rgn[i].end + de) % Word)]
  BY DEF OffsetByHand, SetOffset
<1>3. rgn' = [j \in 1 .. Len(rgn) |-> rgn'[j]]
  BY <1>1, <1>2 DEF Map
<1>4. ASSUME NEW j \in 1 .. Len(rgn)
      PROVE  rgn'[j] = [num |-> rgn[j].num, size |-> rgn[j].size,
                        start |-> rgn'[j].start, end |-> rgn'[j].end]
  <2>1. j \in DOMAIN rgn
    BY <1>1 DEF Map
  <2>2. CASE j = i
    BY <1>2, <2>1, <2>2 DEF Placed
  <2>3. CASE j # i
    BY <1>1, <1>2, <2>1, <2>3 DEF Map
  <2> QED
    BY <2>2, <2>3
<1>5. /\ Map(rgn') /\ Len(rgn') = Len(rgn)
      /\ \A j \in 1 .. Len(rgn) : rgn'[j].num = rgn[j].num /\ rgn'[j].size = rgn[j].size
  BY <1>1, <1>3, <1>4, NewOffsets
<1>6. ~Fixed /\ ~Fixed'
  BY DEF OffsetByHand, SetOffset, client, IInv, MapInv, Fixed
<1>7. MapInv'
  BY <1>5, <1>6 DEF OffsetByHand, SetOffset, MapInv
<1>8. StoresInv' /\ SeenInv' /\ ClientInv'
  BY <1>6, Pristine DEF OffsetByHand, SetOffset, client
<1>9. Types'
  BY DEF OffsetByHand, SetOffset, client, IInv, Types
<1> QED
  BY <1>7, <1>8, <1>9 DEF IInv

\* The client's part stays while the client stands still, whatever RTSS does,
\* as long as what it has seen stays.
LEMMA ClientKept ==
    ASSUME ClientInv, Sub' = Sub,
           UNCHANGED client,
           whole => whole',
           mem.magic => mem'.magic,
           mem.num = Sub.num => mem'.num = Sub.num,
           local.num # 0 /\ local.num = mem.num => local.num = mem'.num
    PROVE  ClientInv'
<1>1. cpc' = cpc /\ local' = local /\ sure' = sure /\ lost' = lost
  BY DEF client
<1>2. /\ cpc' # "idle" => mem'.magic
      /\ sure' => whole'
      /\ cpc' = "astray" => ~sure'
      /\ lost' => mem'.magic /\ Sub'.size = 0
  BY <1>1, Zenon DEF ClientInv
<1>3. /\ cpc' \in {"check size", "check in", "check out"} =>
             (local'.num # 0 => local'.num = mem'.num)
      /\ cpc' \in {"free in", "free out", "free num", "size", "index", "guard", "copy"} =>
             Sub'.num > 0 /\ mem'.num = Sub'.num
  BY <1>1, Zenon DEF ClientInv
<1>4. /\ cpc' \in {"free out", "free num", "guard", "copy"} => local'.in < Sub'.num
      /\ cpc' = "free num" => local'.out <= local'.in
      /\ cpc' \in {"size", "index", "guard", "copy"} => local'.batch <= Sub'.num
      /\ cpc' \in {"index", "guard"} => (local'.size = 0 /\ ~sure') \/ local'.size = Sub'.size
      /\ cpc' = "copy" => local'.num = Sub'.num /\ local'.size = Sub'.size
  BY <1>1, Zenon DEF ClientInv
<1>5. cpc' \in {"idle", "astray", "count", "start", "check num", "check size", "check in",
                "check out", "free in", "free out", "free num", "size", "index", "guard",
                "copy"}
  BY <1>1 DEF ClientInv
<1> QED
  BY <1>2, <1>3, <1>4, <1>5, Zenon DEF ClientInv

\* A map that was never made is refused, so that only a made one is created.
LEMMA CreateInv == IInv /\ LibMB_Create => IInv'
<1> SUFFICES ASSUME IInv, LibMB_Create PROVE IInv'
  OBVIOUS
<1> USE DEF LibMB_Create, client
<1>1. LibMB_Boundary_Check => mapret # "none" /\ Len(rgn) > 0
  <2> SUFFICES ASSUME LibMB_Boundary_Check PROVE mapret # "none" /\ Len(rgn) > 0
    OBVIOUS
  <2>1. Len(rgn) \in 1 .. MB_MAX_SUB_REGION_NUM /\ DOMAIN rgn = 1 .. Len(rgn)
    BY DEF LibMB_Boundary_Check, IInv, MapInv, Map
  <2>2. 1 \in 1 .. Len(rgn)
    BY <2>1, LayoutAssumption
  <2>3. rgn[1].start < rgn[1].end
    BY <2>1, <2>2 DEF LibMB_Boundary_Check, CanCover
  <2>4. mapret = "none" => rgn[1].start = 0 /\ rgn[1].end = 0
    BY <2>2 DEF IInv, MapInv
  <2> QED
    BY <2>2, <2>3, <2>4
<1>2. check' = "accepted" => mapret # "none" /\ Len(rgn) > 0
  BY <1>1
<1>3. MapInv'
  BY <1>2 DEF IInv, Types, MapInv, Fixed
<1>4. Sub' = Sub /\ mem' = mem
  BY DEF Sub
<1>5. Types'
  BY DEF IInv, Types, Stores
<1>6. StoresInv'
  BY <1>4 DEF IInv, StoresInv, Index
<1>7. SeenInv'
  <2>1. /\ "num" \notin Stores => mem.num = Sub.num
        /\ "size" \notin Stores => mem.size = Sub.size
        /\ "start" \notin Stores => mem.start
        /\ "magic" \notin Stores => mem.magic
    <3>1. Value("num") = Sub.num /\ Value("size") = Sub.size /\ Value("start") = TRUE
          /\ Value("magic") = TRUE
      BY Zenon DEF Value
    <3>2. /\ "num" \in Fields /\ "size" \in Fields /\ "start" \in Fields /\ "magic" \in Fields
          /\ mem["num"] = mem.num /\ mem["size"] = mem.size
          /\ mem["start"] = mem.start /\ mem["magic"] = mem.magic
      BY DEF Fields
    <3> QED
      BY <3>1, <3>2, Zenon DEF Stores
  <2>2. check' = "accepted" => pending' = Stores
    OBVIOUS
  <2>3. check' # "accepted" => pending' = {}
    OBVIOUS
  <2> QED
    BY <1>4, <2>1, <2>2, <2>3 DEF IInv, SeenInv
<1>8. ClientInv'
  <2>1. whole' = whole /\ UNCHANGED client /\ ClientInv
    BY DEF IInv
  <2> HIDE DEF LibMB_Create, client
  <2> QED
    BY <1>4, <2>1, ClientKept, Zenon
<1> QED
  BY <1>3, <1>5, <1>6, <1>7, <1>8 DEF IInv

\* A store of a creation: the number and the size are what they were, if they
\* have been seen before.
LEMMA CreateStoreInv == IInv /\ CreateStore => IInv'
<1> SUFFICES ASSUME IInv, CreateStore PROVE IInv'
  OBVIOUS
<1>1. PICK f \in pending :
         /\ mem' = [mem EXCEPT ![f] = Value(f)]
         /\ pending' = pending \ {f}
         /\ whole' = (whole \/ pending = {f})
         /\ UNCHANGED <<config, creations, client>>
  BY DEF CreateStore
<1>2. /\ f \in Fields /\ check = "accepted"
      /\ UNCHANGED <<mb_size, rgn, mapret, check, creations, cpc, local, sure, lost>>
  BY <1>1 DEF IInv, Types, SeenInv, config, client
<1>3. Sub' = Sub /\ Sub.num \in Nat /\ Sub.size \in Nat
  BY <1>2 DEF IInv, MapInv, Fixed, Map, Sub
<1>4. /\ f = "magic" => mem' = [mem EXCEPT !.magic = TRUE]
      /\ f = "count" => mem' = [mem EXCEPT !.count = TRUE]
      /\ f = "start" => mem' = [mem EXCEPT !.start = TRUE]
      /\ f = "num" => mem' = [mem EXCEPT !.num = Sub.num]
      /\ f = "size" => mem' = [mem EXCEPT !.size = Sub.size]
      /\ f = "in" => mem' = [mem EXCEPT !.in = 0]
      /\ f = "out" => mem' = [mem EXCEPT !.out = 0]
  BY <1>1, Zenon DEF Value
<1>5. \/ f = "magic" \/ f = "count" \/ f = "start" \/ f = "num" \/ f = "size"
      \/ f = "in" \/ f = "out"
  BY <1>2 DEF Fields
<1>6. mem \in [magic : BOOLEAN, count : BOOLEAN, start : BOOLEAN,
               num : Nat, size : Nat, in : Nat, out : Nat]
  BY DEF IInv, Types
<1>7. /\ mem' \in [magic : BOOLEAN, count : BOOLEAN, start : BOOLEAN,
                   num : Nat, size : Nat, in : Nat, out : Nat]
      /\ mem'.magic = (f = "magic" \/ mem.magic)
      /\ mem'.start = (f = "start" \/ mem.start)
      /\ mem'.num = IF f = "num" THEN Sub.num ELSE mem.num
      /\ mem'.size = IF f = "size" THEN Sub.size ELSE mem.size
      /\ mem'.in = IF f = "in" THEN 0 ELSE mem.in
      /\ mem'.out = IF f = "out" THEN 0 ELSE mem.out
  <2>1. CASE f = "magic" BY <1>4, <1>6, <2>1
  <2>2. CASE f = "count" BY <1>4, <1>6, <2>2
  <2>3. CASE f = "start" BY <1>4, <1>6, <2>3
  <2>4. CASE f = "num" BY <1>3, <1>4, <1>6, <2>4
  <2>5. CASE f = "size" BY <1>3, <1>4, <1>6, <2>5
  <2>6. CASE f = "in" BY <1>4, <1>6, <2>6
  <2>7. CASE f = "out" BY <1>4, <1>6, <2>7
  <2> QED BY <1>5, <2>1, <2>2, <2>3, <2>4, <2>5, <2>6, <2>7
<1>8. Types'
  BY <1>1, <1>2, <1>7 DEF IInv, Types
<1>9. MapInv'
  BY <1>2 DEF IInv, MapInv, Fixed
<1>10. StoresInv'
  BY <1>3, <1>6, <1>7 DEF IInv, StoresInv, Index
<1>11. SeenInv'
  <2>1. /\ "num" \notin pending' => mem'.num = Sub.num
        /\ "size" \notin pending' => mem'.size = Sub.size
        /\ "start" \notin pending' => mem'.start
        /\ "magic" \notin pending' => mem'.magic
    BY <1>1, <1>2, <1>7 DEF IInv, SeenInv
  <2>2. whole' => mem'.magic /\ mem'.start /\ mem'.num = Sub.num /\ mem'.size = Sub.size
    <3>1. CASE whole
      BY <1>7, <3>1 DEF IInv, SeenInv
    <3>2. CASE pending = {f}
      <4>1. pending' = {}
        BY <1>1, <3>2
      <4> QED
        BY <2>1, <4>1
    <3> QED
      BY <1>1, <3>1, <3>2
  <2> QED
    BY <1>2, <1>3, <2>1, <2>2 DEF SeenInv
<1>12. ClientInv'
  <2>1. whole => whole'
    BY <1>1
  <2>2. local.num # 0 /\ local.num = mem.num => local.num = mem'.num
    BY <1>6, <1>7 DEF IInv, StoresInv
  <2>3. mem.magic => mem'.magic
    BY <1>7
  <2>4. mem.num = Sub.num => mem'.num = Sub.num
    BY <1>7
  <2>5. UNCHANGED client /\ ClientInv
    BY <1>2 DEF IInv, client
  <2> QED
    BY <1>3, <2>1, <2>2, <2>3, <2>4, <2>5, ClientKept, Zenon
<1> QED
  BY <1>8, <1>9, <1>10, <1>11, <1>12 DEF IInv

\* The memory survives a restart of RTSS, also in the middle of a creation.
LEMMA RestartInv == IInv /\ Restart => IInv'
<1> SUFFICES ASSUME IInv, Restart PROVE IInv'
  OBVIOUS
<1> USE DEF Restart, client
<1>1. Sub' = Sub
  BY DEF Sub
<1>2. MapInv'
  BY DEF IInv, Types, MapInv, Fixed
<1>3. StoresInv'
  BY <1>1 DEF IInv, StoresInv, Index
<1>4. Types'
  BY DEF IInv, Types
<1>5. ClientInv'
  <2>1. whole' = whole /\ mem' = mem /\ UNCHANGED client /\ ClientInv
    BY DEF IInv
  <2> HIDE DEF Restart, client
  <2> QED
    BY <1>1, <2>1, ClientKept, Zenon
<1>6. SeenInv'
  BY <1>1 DEF IInv, SeenInv
<1> QED
  BY <1>2, <1>3, <1>4, <1>5, <1>6 DEF IInv

\* Reading the ring moves the index of the reader to that of the writer.
LEMMA RtssReadInv == IInv /\ RtssRead => IInv'
<1> SUFFICES ASSUME IInv, RtssRead PROVE IInv'
  OBVIOUS
<1> USE DEF RtssRead, rtss, config, client
<1>1. mem \in [magic : BOOLEAN, count : BOOLEAN, start : BOOLEAN,
               num : Nat, size : Nat, in : Nat, out : Nat]
  BY DEF IInv, Types
<1>2. /\ mem' \in [magic : BOOLEAN, count : BOOLEAN, start : BOOLEAN,
                   num : Nat, size : Nat, in : Nat, out : Nat]
      /\ mem'.magic = mem.magic /\ mem'.start = mem.start /\ mem'.num = mem.num
      /\ mem'.size = mem.size /\ mem'.in = mem.in /\ mem'.out = mem.in
  BY <1>1
<1>3. Sub' = Sub
  BY DEF Sub
<1>4. MapInv' /\ Types'
  BY <1>2 DEF IInv, Types, MapInv, Fixed
<1>5. StoresInv' /\ SeenInv'
  BY <1>2, <1>3 DEF IInv, StoresInv, SeenInv, Index
<1>6. ClientInv'
  <2>1. whole' = whole /\ UNCHANGED client /\ ClientInv
    BY DEF IInv
  <2> HIDE DEF RtssRead, client
  <2> QED
    BY <1>2, <1>3, <2>1, ClientKept, Zenon
<1> QED
  BY <1>4, <1>5, <1>6 DEF IInv

-----------------------------------------------------------------------------
(***************************************************************************)
(* The steps of the client                                                 *)
(***************************************************************************)
\* The steps of a write that change neither the memory nor the map.
LEMMA LoadsInv ==
    ASSUME IInv, UNCHANGED <<mem, rtss>>
    PROVE  MapInv' /\ StoresInv' /\ SeenInv' /\ Sub' = Sub
BY DEF IInv, rtss, config, MapInv, Fixed, StoresInv, SeenInv, Index, Sub

\* What a load does to the locals.
LEMMA LoadLocal ==
    ASSUME IInv
    PROVE  /\ \A n \in Nat : Locals(n) \in [batch : Nat, num : Nat, size : Nat, in : Nat, out : Nat]
           /\ Locals(0) \in [batch : Nat, num : Nat, size : Nat, in : Nat, out : Nat]
           /\ Locals(local.batch) \in [batch : Nat, num : Nat, size : Nat, in : Nat, out : Nat]
           /\ Locals(local.batch).batch = local.batch
           /\ [local EXCEPT !.num = mem.num]
                 = [batch |-> local.batch, num |-> mem.num, size |-> local.size,
                    in |-> local.in, out |-> local.out]
           /\ [local EXCEPT !.size = mem.size]
                 = [batch |-> local.batch, num |-> local.num, size |-> mem.size,
                    in |-> local.in, out |-> local.out]
           /\ [local EXCEPT !.in = mem.in]
                 = [batch |-> local.batch, num |-> local.num, size |-> local.size,
                    in |-> mem.in, out |-> local.out]
           /\ [local EXCEPT !.out = mem.out]
                 = [batch |-> local.batch, num |-> local.num, size |-> local.size,
                    in |-> local.in, out |-> mem.out]
BY DEF IInv, Types, Locals

\* A write begins once the magic number is there.
LEMMA WriteInv == \A n \in Batches : IInv /\ LibMB_Write(n) => IInv'
<1> SUFFICES ASSUME NEW n \in Batches, IInv, LibMB_Write(n) PROVE IInv'
  OBVIOUS
<1>1. MapInv' /\ StoresInv' /\ SeenInv' /\ Sub' = Sub
  BY LoadsInv DEF LibMB_Write
<1>2. n \in Nat
  BY CreateAssumption
<1>3. local' \in [batch : Nat, num : Nat, size : Nat, in : Nat, out : Nat]
  BY <1>2, LoadLocal DEF LibMB_Write
<1>4. Types'
  BY <1>3 DEF LibMB_Write, rtss, config, IInv, Types
<1>5. ClientInv'
  BY <1>1 DEF LibMB_Write, rtss, IInv, ClientInv
<1> QED
  BY <1>1, <1>4, <1>5 DEF IInv

\* A write goes on only if the descriptor is there.
LEMMA CheckIndexInv == IInv /\ CheckIndex => IInv'
<1> SUFFICES ASSUME IInv, CheckIndex PROVE IInv'
  OBVIOUS
<1>1. MapInv' /\ StoresInv' /\ SeenInv' /\ Sub' = Sub
  BY LoadsInv DEF CheckIndex, Return, At
<1>2. local' \in [batch : Nat, num : Nat, size : Nat, in : Nat, out : Nat]
  BY LoadLocal DEF CheckIndex, Return
<1>3. Types'
  BY <1>2 DEF CheckIndex, Return, At, rtss, config, IInv, Types
<1>4. ClientInv'
  BY <1>1 DEF CheckIndex, Return, At, rtss, IInv, ClientInv
<1> QED
  BY <1>1, <1>3, <1>4 DEF IInv

\* Only before the mailbox was whole is the offset of the sub-region not there.
LEMMA FindSubRegionInv == IInv /\ FindSubRegion => IInv'
<1> SUFFICES ASSUME IInv, FindSubRegion PROVE IInv'
  OBVIOUS
<1>1. MapInv' /\ StoresInv' /\ SeenInv' /\ Sub' = Sub
  BY LoadsInv DEF FindSubRegion, At
<1>2. Types'
  BY DEF FindSubRegion, At, rtss, config, IInv, Types
<1>3. ClientInv'
  BY <1>1 DEF FindSubRegion, At, rtss, IInv, SeenInv, ClientInv
<1> QED
  BY <1>1, <1>2, <1>3 DEF IInv

\* An index below the number that was loaded: this number is not 0.
LEMMA SanityInv == IInv /\ LibMB_Mailbox_sanity_check => IInv'
<1> SUFFICES ASSUME IInv, LibMB_Mailbox_sanity_check PROVE IInv'
  OBVIOUS
<1>1. UNCHANGED <<mem, rtss, sure, lost>>
  BY DEF LibMB_Mailbox_sanity_check, LoadNum, LoadSize, LoadIn, Return, At
<1>2. MapInv' /\ StoresInv' /\ SeenInv' /\ Sub' = Sub
  BY <1>1, LoadsInv
<1>3. \/ cpc = "check num" /\ cpc' = "check size" /\ local' = [local EXCEPT !.num = mem.num]
      \/ cpc = "check size" /\ cpc' = "check in" /\ local' = [local EXCEPT !.size = mem.size]
      \/ cpc = "check in" /\ cpc' = "check out" /\ local' = [local EXCEPT !.in = mem.in]
      \/ cpc = "check out" /\ cpc' = "idle" /\ local' = Locals(0)
      \/ /\ cpc = "check out" /\ cpc' = "free in" /\ local' = Locals(local.batch)
         /\ local.in < local.num
  BY DEF LibMB_Mailbox_sanity_check, LoadNum, LoadSize, LoadIn, Return, At
<1>4. \/ cpc = "check num" /\ cpc' = "check size" /\ local'.num = mem.num
      \/ cpc = "check size" /\ cpc' = "check in" /\ local'.num = local.num
      \/ cpc = "check in" /\ cpc' = "check out" /\ local'.num = local.num
      \/ cpc = "check out" /\ cpc' = "idle"
      \/ cpc = "check out" /\ cpc' = "free in" /\ local.in < local.num
  BY <1>3, LoadLocal
<1>5. Types'
  <2>1. local' \in [batch : Nat, num : Nat, size : Nat, in : Nat, out : Nat]
    BY <1>3, LoadLocal DEF IInv, Types
  <2> QED
    BY <1>1, <2>1 DEF rtss, config, IInv, Types
<1>6. cpc' = "free in" => local.num = mem.num /\ mem.num = Sub.num /\ Sub.num > 0
  <2>1. cpc = "check out" /\ local.num # 0 => local.num = mem.num
    BY DEF IInv, ClientInv
  <2>2. mem.num # 0 => mem.num = Sub.num
    BY DEF IInv, StoresInv
  <2>3. local.in \in Nat /\ local.num \in Nat
    BY DEF IInv, Types
  <2>4. cpc' = "free in" => cpc = "check out" /\ local.in < local.num
    BY <1>4
  <2>5. local.in < local.num => local.num # 0 /\ local.num > 0
    BY <2>3
  <2> QED
    BY <2>1, <2>2, <2>4, <2>5, Zenon
<1>7. ClientInv'
  BY <1>1, <1>2, <1>4, <1>6 DEF rtss, IInv, ClientInv
<1> QED
  BY <1>2, <1>5, <1>7 DEF IInv

\* What is free is less than the ring holds, although the indices and the number
\* are loaded one after the other.
LEMMA FewerFree ==
    ASSUME NEW free \in Nat, NEW n \in Nat, free <= n, free > 0, Fits(free),
           local.batch \in Nat
    PROVE  local.batch <= n
<1>1. free - 1 \in Nat /\ Word \in Nat \ {0}
  BY LayoutAssumption
<1>2. (free - 1) % Word \in Nat /\ (free - 1) % Word <= free - 1
  BY <1>1, ModBound, Zenon
<1>3. local.batch <= (free - 1) % Word
  BY DEF Fits
<1> HIDE DEF Fits
<1> DEFINE f == (free - 1) % Word
<1> HIDE DEF f
<1>4. f \in Nat /\ f <= free - 1 /\ local.batch <= f
  BY <1>2, <1>3 DEF f
<1> QED
  BY <1>4

LEMMA FreeItemInv == IInv /\ LibMB_Free_Item => IInv'
<1> SUFFICES ASSUME IInv, LibMB_Free_Item PROVE IInv'
  OBVIOUS
<1>1. UNCHANGED <<mem, rtss, sure, lost>>
  BY DEF LibMB_Free_Item, LoadNum, LoadIn, LoadOut, Return, At
<1>2. MapInv' /\ StoresInv' /\ SeenInv' /\ Sub' = Sub
  BY <1>1, LoadsInv
<1>3. \/ cpc = "free in" /\ cpc' = "free out" /\ local' = [local EXCEPT !.in = mem.in]
      \/ /\ cpc = "free out" /\ cpc' = "free num" /\ local' = [local EXCEPT !.out = mem.out]
         /\ local.in >= mem.out
      \/ cpc \in {"free out", "free num"} /\ cpc' = "idle" /\ local' = Locals(0)
      \/ /\ cpc = "free out" /\ cpc' = "size" /\ local' = Locals(local.batch)
         /\ local.in < mem.out /\ Fits(mem.out - local.in)
      \/ /\ cpc = "free num" /\ cpc' = "size" /\ local' = Locals(local.batch)
         /\ Fits(mem.num - local.in + local.out)
  BY DEF LibMB_Free_Item, LoadNum, LoadIn, LoadOut, Return, At
<1>4. /\ mem.num = Sub.num /\ Sub.num > 0 /\ mem.in < Sub.num /\ mem.out < Sub.num
      /\ cpc \in {"free out", "free num"} => local.in < Sub.num
      /\ cpc = "free num" => local.out <= local.in
  BY <1>3 DEF IInv, Types, StoresInv, Index, ClientInv
<1>5. local' \in [batch : Nat, num : Nat, size : Nat, in : Nat, out : Nat]
  BY <1>3, LoadLocal DEF IInv, Types
<1>6. Types'
  BY <1>1, <1>5 DEF rtss, config, IInv, Types
<1>7. ASSUME cpc' = "size" PROVE local.batch <= Sub.num /\ local'.batch = local.batch
  <2>1. local'.batch = local.batch
    BY <1>3, <1>7, LoadLocal
  <2>2. CASE cpc = "free out"
    <3> DEFINE free == mem.out - local.in
    <3>1. Fits(free) /\ local.in < mem.out
      BY <1>3, <1>7, <2>2
    <3>2. free \in Nat /\ free > 0 /\ free <= Sub.num /\ Sub.num \in Nat /\ local.batch \in Nat
      <4>1. mem.out \in Nat /\ mem.num \in Nat /\ local.in \in Nat /\ local.batch \in Nat
        BY DEF IInv, Types
      <4>2. mem.num = Sub.num /\ mem.out < mem.num /\ local.in < mem.out
        BY <1>4, <3>1
      <4>3. free \in Nat /\ free > 0 /\ free <= mem.num
        BY <4>1, <4>2
      <4> QED
        BY <4>1, <4>2, <4>3, Zenon
    <3> HIDE DEF free
    <3> QED
      BY <2>1, <3>1, <3>2, FewerFree
  <2>3. CASE cpc = "free num"
    <3> DEFINE free == mem.num - local.in + local.out
    <3>1. Fits(free)
      BY <1>3, <1>7, <2>3
    <3>2. free \in Nat /\ free > 0 /\ free <= Sub.num /\ Sub.num \in Nat /\ local.batch \in Nat
      <4>1. mem.num \in Nat /\ local.in \in Nat /\ local.out \in Nat /\ local.batch \in Nat
        BY DEF IInv, Types
      <4>2. mem.num = Sub.num /\ local.in < mem.num /\ local.out <= local.in
        BY <1>4, <2>3
      <4>3. free \in Nat /\ free > 0 /\ free <= mem.num
        BY <4>1, <4>2
      <4> QED
        BY <4>1, <4>2, <4>3, Zenon
    <3> HIDE DEF free
    <3> QED
      BY <2>1, <3>1, <3>2, FewerFree
  <2> QED
    BY <1>3, <1>7, <2>2, <2>3
<1>8. /\ cpc' = "free out" => local'.in = mem.in
      /\ cpc' = "free num" =>
            local'.in = local.in /\ local'.out = mem.out /\ mem.out <= local.in
      /\ cpc' \in {"idle", "free out", "free num", "size"} /\ cpc # "idle"
  BY <1>3, LoadLocal
<1>9. ClientInv'
  <2>1. cpc' = "free num" => cpc = "free out"
    BY <1>3
  <2> QED
    BY <1>1, <1>2, <1>4, <1>7, <1>8, <2>1 DEF rtss, IInv, ClientInv
<1> QED
  BY <1>2, <1>6, <1>9 DEF IInv

\* The size that is loaded is that of the sub-region, and the index one of it.
LEMMA LoadRingInv == IInv /\ LoadRing => IInv'
<1> SUFFICES ASSUME IInv, LoadRing PROVE IInv'
  OBVIOUS
<1>1. UNCHANGED <<mem, rtss, sure, lost>>
  BY DEF LoadRing, LoadSize, LoadIn, At
<1>2. MapInv' /\ StoresInv' /\ SeenInv' /\ Sub' = Sub
  BY <1>1, LoadsInv
<1>3. \/ cpc = "size" /\ cpc' = "index" /\ local' = [local EXCEPT !.size = mem.size]
      \/ cpc = "index" /\ cpc' = "guard" /\ local' = [local EXCEPT !.in = mem.in]
  BY DEF LoadRing, LoadSize, LoadIn, At
<1>4. \/ /\ cpc = "size" /\ cpc' = "index"
         /\ local'.batch = local.batch /\ local'.size = mem.size
      \/ /\ cpc = "index" /\ cpc' = "guard"
         /\ local'.batch = local.batch /\ local'.size = local.size /\ local'.in = mem.in
  BY <1>3, LoadLocal
<1>5. Types'
  <2>1. local' \in [batch : Nat, num : Nat, size : Nat, in : Nat, out : Nat]
    BY <1>3 DEF IInv, Types
  <2> QED
    BY <1>1, <2>1 DEF rtss, config, IInv, Types
<1>6. mem.num = Sub.num /\ Sub.num > 0 /\ mem.in < Sub.num /\ mem.magic
  BY <1>4 DEF IInv, Types, StoresInv, Index, ClientInv
<1>7. (mem.size = 0 /\ ~sure) \/ mem.size = Sub.size
  BY DEF IInv, Types, StoresInv, SeenInv, ClientInv
<1>8. ClientInv'
  BY <1>1, <1>2, <1>4, <1>6, <1>7 DEF rtss, IInv, ClientInv
<1> QED
  BY <1>2, <1>5, <1>8 DEF IInv

\* The guard fires for a size of zero, and for nothing else: the size of the
\* items, or one that the first creation has not shown yet.
LEMMA GuardInv == IInv /\ Guard => IInv'
<1> SUFFICES ASSUME IInv, Guard PROVE IInv'
  OBVIOUS
<1> USE DEF Guard, LoadNum, Return, At
<1>1. MapInv' /\ StoresInv' /\ SeenInv' /\ Sub' = Sub
  BY LoadsInv
<1>2. local' \in [batch : Nat, num : Nat, size : Nat, in : Nat, out : Nat]
  BY DEF IInv, Types, Locals
<1>3. Types'
  BY <1>2 DEF rtss, config, IInv, Types
<1>4. UNCHANGED <<mem, sure, whole>> /\ cpc = "guard" /\ cpc' \in {"idle", "copy"}
  BY DEF rtss
<1>5. /\ mem.magic /\ mem.num = Sub.num /\ Sub.num > 0
      /\ (local.size = 0 /\ ~sure) \/ local.size = Sub.size
      /\ local.in < Sub.num /\ local.batch <= Sub.num
  BY <1>4 DEF IInv, ClientInv
<1>6. ~(mem.num = 0) /\ ~(local.in >= mem.num)
  BY <1>5 DEF IInv, Types
<1>7. lost' => mem.magic /\ Sub.size = 0
  BY <1>5, <1>6 DEF IInv, ClientInv
<1>8. cpc' = "copy" =>
         /\ local'.num = Sub.num /\ local'.size = Sub.size
         /\ local'.in < Sub.num /\ local'.batch <= Sub.num
  <2> SUFFICES ASSUME cpc' = "copy"
               PROVE  /\ local'.num = Sub.num /\ local'.size = Sub.size
                      /\ local'.in < Sub.num /\ local'.batch <= Sub.num
    OBVIOUS
  <2>1. local' = [local EXCEPT !.num = mem.num] /\ ~(local.size = 0)
    OBVIOUS
  <2>2. /\ local'.num = mem.num /\ local'.size = local.size
        /\ local'.in = local.in /\ local'.batch = local.batch
    BY <2>1, LoadLocal
  <2> QED
    BY <1>5, <2>1, <2>2
<1>9. ClientInv'
  BY <1>1, <1>4, <1>5, <1>7, <1>8 DEF IInv, ClientInv
<1> QED
  BY <1>1, <1>3, <1>9 DEF IInv

\* The index that is stored is below the number of the items.
LEMMA PublishInv == IInv /\ Publish => IInv'
<1> SUFFICES ASSUME IInv, Publish PROVE IInv'
  OBVIOUS
<1> DEFINE in == (local.in + local.batch) % local.num
<1>1. /\ cpc = "copy" /\ cpc' = "idle"
      /\ mem' = [mem EXCEPT !.in = in]
      /\ local' = Locals(0)
      /\ UNCHANGED <<mb_size, rgn, mapret, check, pending, creations, whole, sure, lost>>
  BY DEF Publish, Return, At, rtss, config
<1>2. local.num \in Nat \ {0} /\ local.num = Sub.num /\ local.in + local.batch \in Nat
  BY <1>1 DEF IInv, Types, ClientInv
<1>3. in \in Nat /\ in < Sub.num
  <2>1. in \in Nat /\ in < local.num
    BY <1>2, ModBound, Zenon
  <2> QED
    BY <1>2, <2>1
<1> HIDE DEF in
<1>4. mem \in [magic : BOOLEAN, count : BOOLEAN, start : BOOLEAN,
               num : Nat, size : Nat, in : Nat, out : Nat]
  BY DEF IInv, Types
<1>5. /\ mem' \in [magic : BOOLEAN, count : BOOLEAN, start : BOOLEAN,
                   num : Nat, size : Nat, in : Nat, out : Nat]
      /\ mem'.magic = mem.magic /\ mem'.start = mem.start /\ mem'.num = mem.num
      /\ mem'.size = mem.size /\ mem'.in = in /\ mem'.out = mem.out
  BY <1>1, <1>3, <1>4
<1>6. Types'
  BY <1>1, <1>5, LoadLocal DEF IInv, Types
<1>7. MapInv' /\ Sub' = Sub
  BY <1>1, <1>5 DEF IInv, MapInv, Fixed, Sub
<1>8. mem.magic
  BY <1>1 DEF IInv, ClientInv
<1>9. StoresInv' /\ SeenInv'
  BY <1>1, <1>3, <1>5, <1>7, <1>8 DEF IInv, StoresInv, SeenInv, Index
<1>10. ClientInv'
  BY <1>1, <1>5, <1>7 DEF IInv, ClientInv
<1> QED
  BY <1>6, <1>7, <1>9, <1>10 DEF IInv

-----------------------------------------------------------------------------
\* Every step, of RTSS or of the client, keeps the invariant.
LEMMA NextInv == IInv /\ [Next]_vars => IInv'
<1> SUFFICES ASSUME IInv, [Next]_vars PROVE IInv'
  OBVIOUS
<1>1. CASE UNCHANGED vars
  <2>1. MapInv' /\ StoresInv' /\ SeenInv' /\ Sub' = Sub
    BY <1>1, LoadsInv DEF vars
  <2>2. Types'
    BY <1>1 DEF vars, rtss, config, client, IInv, Types
  <2>3. ClientInv'
    <3>1. whole' = whole /\ mem' = mem /\ UNCHANGED client /\ ClientInv
      BY <1>1 DEF vars, rtss, client, IInv
    <3> QED
      BY <2>1, <3>1, ClientKept, Zenon
  <2> QED
    BY <2>1, <2>2, <2>3 DEF IInv
<1>2. CASE Next
  BY <1>2, ChanMapInitInv, OffsetByHandInv, CreateInv, CreateStoreInv, RestartInv, RtssReadInv,
     WriteInv, CheckIndexInv, FindSubRegionInv, SanityInv, FreeItemInv, LoadRingInv, GuardInv,
     PublishInv
     DEF Next
<1> QED
  BY <1>1, <1>2

\* The invariant holds always.
THEOREM Invariance == Spec => []IInv
BY InitInv, NextInv, PTL DEF Spec

-----------------------------------------------------------------------------
(***************************************************************************)
(* The properties                                                          *)
(***************************************************************************)
\* LibMB_Write loads the fields of its sub-region one after the other, and no
\* creation in between, in whatever order its stores are seen, can make them
\* disagree: the copy of LibMB_Write_Item stays inside the items of the client's
\* sub-region, and a write that began on a whole mailbox finds its sub-region.
THEOREM CopyInBoundsAlways == Spec => []CopyInBounds
<1>1. IInv => CopyInBounds
  <2>1. IInv /\ cpc = "astray" => ~sure
    BY DEF IInv, ClientInv
  <2> SUFFICES ASSUME IInv, cpc = "copy", NEW s \in CopiedSlots
               PROVE  (s + 1) * local.size <= Payload(Sub)
    BY <2>1 DEF CopyInBounds
  <2>2. /\ local.in \in Nat /\ local.batch \in Nat /\ local.num \in Nat /\ local.size \in Nat
        /\ local.num = Sub.num /\ local.size = Sub.size
        /\ local.in < local.num /\ local.batch <= local.num
    BY DEF IInv, Types, ClientInv
  <2>3. s \in Nat /\ s + 1 <= local.num
    BY <2>2 DEF CopiedSlots
  <2>4. s + 1 \in Nat
    BY <2>3
  <2>5. (s + 1) * local.size <= local.num * local.size
    BY <2>2, <2>3, <2>4, PayloadMonotone
  <2> QED
    BY <2>2, <2>5 DEF Payload
<1> QED
  BY <1>1, Invariance, PTL

\* The guard of LibMB_Write_Item, whose verdict LibMB_Write ignores, never fires
\* in a write that began on a whole mailbox, unless the items have no bytes.
THEOREM AckedIsWrittenAlways == Spec => []AckedIsWritten
<1>1. IInv => AckedIsWritten
  BY DEF IInv, ClientInv, AckedIsWritten
<1> QED
  BY <1>1, Invariance, PTL

-----------------------------------------------------------------------------
(***************************************************************************)
(* Induction, and what a recursive definition computes                     *)
(***************************************************************************)
\* A set of natural numbers that is not empty has a least element.
LEMMA LeastNumber ==
    ASSUME NEW T, T \subseteq Nat, T # {}
    PROVE  \E m \in T : \A k \in T : m <= k
<1>1. PICK m \in T : \A k \in T : ~ (<<k, m>> \in OpToRel(<, Nat))
  BY WFMin, NatLessThanWellFounded, Zenon
<1>2. \A k \in T : ~ (k < m)
  BY <1>1 DEF OpToRel
<1>3. \A k \in T : m <= k
  <2> TAKE k \in T
  <2>1. k \in Nat /\ m \in Nat /\ ~ (k < m)
    BY <1>2
  <2> QED
    BY <2>1
<1> QED
  BY <1>3

\* What holds of 0, and of a number if it holds of the one before, holds up to n.
LEMMA UpTo ==
    ASSUME NEW n \in Nat, NEW H, H \subseteq Nat, 0 \in H,
           \A i \in 1 .. n : i - 1 \in H => i \in H
    PROVE  \A i \in 0 .. n : i \in H
<1> DEFINE T == {i \in 0 .. n : i \notin H}
<1>1. SUFFICES ASSUME T # {} PROVE FALSE
  BY Zenon
<1>2. PICK m \in T : \A k \in T : m <= k
  <2>1. T \subseteq Nat
    OBVIOUS
  <2> HIDE DEF T
  <2> QED
    BY <1>1, <2>1, LeastNumber
<1>3. m \in 1 .. n /\ m \notin H
  BY <1>2
<1>4. m - 1 \notin H
  BY <1>3
<1>5. m - 1 \in T /\ ~ (m <= m - 1)
  BY <1>3, <1>4
<1> QED
  BY <1>2, <1>5, Zenon

\* A step that is iterated n times from c has a function of its results.
LEMMA IterationExists ==
    ASSUME NEW n \in Nat, NEW c \in Int, NEW step \in [Int \X (1 .. n) -> Int]
    PROVE  \E f \in [0 .. n -> Int] :
              /\ f[0] = c
              /\ \A i \in 1 .. n : f[i] = step[<<f[i - 1], i>>]
<1> DEFINE Iterates(f, m) ==
               /\ f \in [0 .. m -> Int]
               /\ f[0] = c
               /\ \A i \in 1 .. m : f[i] = step[<<f[i - 1], i>>]
           H == {m \in 0 .. n : \E f : Iterates(f, m)}
<1>1. H \subseteq Nat
  OBVIOUS
<1>2. 0 \in H
  <2> DEFINE f == [i \in 0 .. 0 |-> c]
  <2>1. f \in [0 .. 0 -> Int] /\ f[0] = c
    OBVIOUS
  <2>2. \A i \in 1 .. 0 : FALSE
    OBVIOUS
  <2> HIDE DEF f
  <2>3. Iterates(f, 0)
    BY <2>1, <2>2
  <2>4. 0 \in 0 .. n
    OBVIOUS
  <2> QED
    BY <2>3, <2>4
<1>3. ASSUME NEW m \in 1 .. n, m - 1 \in H PROVE m \in H
  <2>1. PICK g : Iterates(g, m - 1)
    BY <1>3
  <2> DEFINE f == [i \in 0 .. m |-> IF i = m THEN step[<<g[m - 1], m>>] ELSE g[i]]
  <2>2. m \in Nat \ {0} /\ g[m - 1] \in Int
    BY <2>1
  <2>3. f[m] = step[<<g[m - 1], m>>] /\ f[m] \in Int
    BY <2>2
  <2>4. \A i \in 0 .. m - 1 : f[i] = g[i]
    BY <2>2
  <2>5. \A i \in 0 .. m : f[i] \in Int
    BY <2>1, <2>2, <2>3, <2>4
  <2>6. f \in [0 .. m -> Int]
    BY <2>5
  <2>7. f[0] = c
    BY <2>1, <2>2, <2>4
  <2>8. \A i \in 1 .. m : f[i] = step[<<f[i - 1], i>>]
    <3> TAKE i \in 1 .. m
    <3> HIDE DEF f
    <3>1. CASE i = m
      BY <2>2, <2>3, <2>4, <3>1
    <3>2. CASE i # m
      <4>1. i \in 1 .. m - 1 /\ i \in 0 .. m - 1 /\ i - 1 \in 0 .. m - 1
        BY <2>2, <3>2
      <4> QED
        BY <2>1, <2>4, <4>1, Zenon
    <3> QED
      BY <3>1, <3>2
  <2> HIDE DEF f
  <2>9. Iterates(f, m)
    BY <2>6, <2>7, <2>8
  <2>10. m \in 0 .. n
    BY <2>2
  <2> QED
    BY <2>9, <2>10
<1>4. n \in H
  <2>1. n \in 0 .. n
    OBVIOUS
  <2> HIDE DEF H
  <2> QED
    BY <1>1, <1>2, <1>3, <2>1, UpTo
<1> QED
  BY <1>4

-----------------------------------------------------------------------------
(***************************************************************************)
(* The map that LibMB_ChanMapInit makes                                    *)
(***************************************************************************)
\* The offsets of the last bytes, as LibMB_ChanMapInit adds them up.
Offsets(cfg, end) ==
    /\ end \in [0 .. Len(cfg) -> Int]
    /\ end[0] = HeaderSize(Len(cfg)) + 3
    /\ \A i \in 1 .. Len(cfg) :
          end[i] = (end[i - 1] + MB_SUB_REGION_HEADER_SZ + Payload(cfg[i])) % Word

\* The numbers of a map are integers.
LEMMA NumbersOfMap ==
    ASSUME NEW cfg, Map(cfg)
    PROVE  /\ HeaderSize(Len(cfg)) \in Int
           /\ \A i \in 1 .. Len(cfg) : Payload(cfg[i]) \in Nat
<1>1. \A a, b \in Nat : a * b \in Nat
  BY SMT
<1>2. AREA_SIZE * (Len(cfg) - 1) \in Int
  BY LayoutAssumption, SMT DEF Map
<1>3. \A a \in Int : (a \div 4) * 4 \in Int
  BY SMT
<1>4. MB_HEADER_SIZE + AREA_SIZE * (Len(cfg) - 1) + 3 \in Int
  BY <1>2, LayoutAssumption
<1>5. HeaderSize(Len(cfg)) \in Int
  BY <1>3, <1>4 DEF HeaderSize
<1>6. \A i \in 1 .. Len(cfg) : Payload(cfg[i]) \in Nat
  BY <1>1 DEF Map, Payload
<1> QED
  BY <1>5, <1>6

\* LibMB_ChanMapInit, unfolded: its offsets are a function of the region.
LEMMA ChanMapOffsets ==
    ASSUME NEW cfg, Map(cfg)
    PROVE  \E end : /\ Offsets(cfg, end)
                    /\ ChanMap(cfg) = [i \in 1 .. Len(cfg) |->
                                          Placed(cfg[i], (end[i - 1] + 1) % Word, end[i])]
<1> DEFINE n == Len(cfg)
           first == HeaderSize(Len(cfg)) + 3
           step == [p \in Int \X (1 .. n) |->
                      (p[1] + MB_SUB_REGION_HEADER_SZ + Payload(cfg[p[2]])) % Word]
           end[i \in 0 .. Len(cfg)] ==
              IF i = 0 THEN HeaderSize(Len(cfg)) + 3
              ELSE (end[i - 1] + MB_SUB_REGION_HEADER_SZ + Payload(cfg[i])) % Word
<1>1. n \in Nat /\ first \in Int /\ DOMAIN cfg = 1 .. n
  BY NumbersOfMap DEF Map
<1>2. step \in [Int \X (1 .. n) -> Int]
  BY LayoutAssumption, NumbersOfMap
<1>3. PICK f \in [0 .. n -> Int] :
         f[0] = first /\ \A i \in 1 .. n : f[i] = step[<<f[i - 1], i>>]
  <2>1. n \in Nat /\ first \in Int
    BY <1>1
  <2> HIDE DEF step, first, n, end
  <2> QED
    BY ONLY <1>2, <2>1, IterationExists, ZenonT(40)
<1>4. f = [i \in 0 .. n |-> IF i = 0 THEN first
             ELSE (f[i - 1] + MB_SUB_REGION_HEADER_SZ + Payload(cfg[i])) % Word]
  <2>1. \A i \in 1 .. n : f[i] = (f[i - 1] + MB_SUB_REGION_HEADER_SZ + Payload(cfg[i])) % Word
    <3> TAKE i \in 1 .. n
    <3>1. <<f[i - 1], i>> \in Int \X (1 .. n)
      BY <1>1, <1>3
    <3>2. step[<<f[i - 1], i>>] = (f[i - 1] + MB_SUB_REGION_HEADER_SZ + Payload(cfg[i])) % Word
      BY <3>1
    <3> QED
      BY <1>3, <3>2
  <2>2. \A i \in 0 .. n : f[i] = IF i = 0 THEN first
             ELSE (f[i - 1] + MB_SUB_REGION_HEADER_SZ + Payload(cfg[i])) % Word
    <3> TAKE i \in 0 .. n
    <3>1. i = 0 \/ i \in 1 .. n
      BY <1>1
    <3> HIDE DEF first, n
    <3> QED
      BY <1>3, <2>1, <3>1
  <2> HIDE DEF step, first
  <2> QED
    BY <1>3, <2>2
<1>5. end = [i \in 0 .. n |-> IF i = 0 THEN first
             ELSE (end[i - 1] + MB_SUB_REGION_HEADER_SZ + Payload(cfg[i])) % Word]
  BY <1>4, Zenon DEF end
<1>6. ChanMap(cfg) = [i \in 1 .. n |-> Placed(cfg[i], (end[i - 1] + 1) % Word, end[i])]
  BY <1>1, Zenon DEF ChanMap
<1>7. Offsets(cfg, end)
  <2> HIDE DEF end
  <2>1. end[0] = first
    BY <1>1, <1>5
  <2>2. \A i \in 1 .. n : end[i] = (end[i - 1] + MB_SUB_REGION_HEADER_SZ + Payload(cfg[i])) % Word
    BY <1>1, <1>5
  <2> DEFINE H == {i \in 0 .. n : end[i] \in Int}
  <2>3. 0 \in H
    BY <1>1, <2>1
  <2>4. ASSUME NEW i \in 1 .. n, i - 1 \in H PROVE i \in H
    <3>1. end[i - 1] \in Int /\ Payload(cfg[i]) \in Int /\ i \in 0 .. n
      BY <1>1, <2>4, NumbersOfMap
    <3>2. end[i] = (end[i - 1] + MB_SUB_REGION_HEADER_SZ + Payload(cfg[i])) % Word
      BY <2>2
    <3>3. end[i] \in Int
      BY <3>1, <3>2, LayoutAssumption
    <3> QED
      BY <3>1, <3>3
  <2>5. \A i \in 0 .. n : i \in H
    <3>1. H \subseteq Nat
      OBVIOUS
    <3> HIDE DEF H
    <3> QED
      BY <1>1, <2>3, <2>4, <3>1, UpTo
  <2>6. end \in [0 .. n -> Int]
    BY <1>5, <2>5
  <2> QED
    BY <2>1, <2>2, <2>6 DEF Offsets
<1> HIDE DEF end
<1> QED
  BY <1>6, <1>7

-----------------------------------------------------------------------------
(***************************************************************************)
(* LibMB_Boundary_Check                                                    *)
(***************************************************************************)
\* The numbers of the code: what an unsigned of Word values holds.
Bytes == 0 .. Word - 1

\* The numbers of a map do not exceed Word.
MapTypes ==
    /\ mb_size \in Bytes
    /\ \A i \in 1 .. Len(rgn) :
          rgn[i].size \in Bytes /\ rgn[i].start \in Bytes /\ rgn[i].end \in Bytes

\* A remainder is a number of Word.
LEMMA ModBytes == \A a \in Int : a % Word \in Bytes
BY LayoutAssumption DEF Bytes

\* A quotient times the divisor is no more than what was divided.
LEMMA QuotientBound ==
    ASSUME NEW v \in Nat, NEW n \in Nat \ {0}
    PROVE  n * (v \div n) <= v
BY SMT

\* A product of natural numbers.
LEMMA ProductNat ==
    ASSUME NEW a \in Nat, NEW b \in Nat
    PROVE  a * b \in Nat
BY SMT

\* A remainder of a sum below twice the divisor.
LEMMA ModOnce ==
    ASSUME NEW a \in Nat, NEW w \in Nat \ {0}, a < 2 * w
    PROVE  /\ a < w => a % w = a
           /\ a >= w => a % w = a - w
BY SMT

\* An unsigned sum that has not wrapped.
LEMMA ModSmall == \A a \in Nat : a < Word => a % Word = a
BY LayoutAssumption, SMT

\* A sum that is seen after its first part has not wrapped.
LEMMA SeenAfter ==
    ASSUME NEW x \in Nat, NEW k \in Nat, x < Word, k <= Word, x < (x + k) % Word
    PROVE  x + k < Word /\ (x + k) % Word = x + k
<1> DEFINE a == x + k
<1>1. Word \in Nat \ {0} /\ a \in Nat /\ a < 2 * Word
  BY LayoutAssumption
<1>2. SUFFICES ASSUME a >= Word PROVE FALSE
  BY <1>1, ModSmall
<1>3. a % Word = a - Word
  <2> HIDE DEF a
  <2> QED
    BY <1>1, <1>2, ModOnce
<1> QED
  BY <1>1, <1>3

\* CanCover, without wrapping: the last item ends at the end offset or before.
LEMMA CoverExact ==
    ASSUME NEW r, r.num \in Nat, r.size \in Bytes, r.start \in Bytes, r.end \in Bytes,
           CanCover(r), ~WrapsPastStart(r)
    PROVE  /\ r.start + MB_SUB_REGION_HEADER_SZ - 1 + Payload(r) <= r.end
           /\ Payload(r) \in Nat
<1> DEFINE P == Payload(r)
           V == ValidSize(r)
           h == MB_SUB_REGION_HEADER_SZ
<1>1. Word \in Nat \ {0} /\ h \in Nat /\ h > 1
  BY LayoutAssumption
<1>2. P \in Nat
  BY ProductNat, <1>1 DEF Payload, Bytes
<1>3. V \in Nat /\ V < Word /\ V <= P
  BY <1>1, <1>2, ModBound DEF ValidSize
<1>4. P <= V
  <2>1. CASE r.num = 0
    <3>1. P = 0
      BY <1>1, <2>1 DEF Payload, Bytes
    <3> QED
      BY <1>3, <3>1
  <2>2. CASE r.num # 0
    <3>1. V \div r.num = r.size
      BY <2>2 DEF CanCover
    <3>2. r.num * r.size <= V
      BY <1>3, <2>2, <3>1, QuotientBound
    <3> QED
      BY <3>2 DEF Payload
  <2> QED
    BY <2>1, <2>2
<1>5. V = P /\ P < Word
  BY <1>2, <1>3, <1>4
<1>6. h + P <= Word
  BY <1>1, <1>2, <1>5 DEF WrapsPastStart
<1> DEFINE last == r.start + h - 1 + P
<1>7. last \in Nat /\ last < 2 * Word /\ r.start \in Nat /\ r.end \in Nat
  BY <1>1, <1>2, <1>6 DEF Bytes
<1>8. last % Word > r.start /\ last % Word <= r.end
  BY <1>5 DEF CanCover, LastByte
<1>9. last < Word
  <2> HIDE DEF P
  <2>1. SUFFICES ASSUME last >= Word PROVE FALSE
    BY <1>1, <1>7
  <2>2. last % Word = last - Word
    BY <1>1, <1>7, <2>1, ModOnce
  <2> QED
    BY <1>1, <1>2, <1>6, <1>7, <1>8, <2>2
<1>10. last % Word = last
  BY <1>1, <1>7, <1>9, ModOnce
<1> QED
  BY <1>2, <1>8, <1>10

\* What LibMB_Boundary_Check has compared, region by region.
LEMMA CheckSays ==
    ASSUME Map(rgn), LibMB_Boundary_Check
    PROVE  /\ Len(rgn) \in Nat /\ Len(rgn) >= 1
           /\ \A i \in 1 .. Len(rgn) : CanCover(rgn[i])
           /\ HeaderSize(Len(rgn)) < rgn[1].start
           /\ rgn[Len(rgn)].end < mb_size
           /\ \A i \in 2 .. Len(rgn) : rgn[i - 1].end < rgn[i].start
<1> DEFINE n == Len(rgn)
           end(i) == IF i = 0 THEN HeaderSize(n) ELSE rgn[i].end
           limit(i) == IF i = n THEN mb_size ELSE rgn[i + 1].start
<1>1. n \in Nat /\ n >= 1 /\ DOMAIN rgn = 1 .. n
  BY LayoutAssumption DEF Map, LibMB_Boundary_Check
<1>2. \A i \in 1 .. n : CanCover(rgn[i])
  BY <1>1 DEF LibMB_Boundary_Check
<1>3. \A i \in 0 .. n : end(i) < limit(i)
  BY DEF LibMB_Boundary_Check, NoOverlap
<1>4. HeaderSize(n) < rgn[1].start /\ rgn[n].end < mb_size
  <2>1. 0 \in 0 .. n /\ n \in 0 .. n /\ 0 # n /\ 0 + 1 = 1
    BY <1>1
  <2>2. end(0) < limit(0) /\ end(n) < limit(n)
    BY <1>3, <2>1
  <2> QED
    BY <2>1, <2>2
<1>5. \A i \in 2 .. n : rgn[i - 1].end < rgn[i].start
  <2> TAKE i \in 2 .. n
  <2>1. i - 1 \in 0 .. n /\ i - 1 # 0 /\ i - 1 # n /\ i - 1 + 1 = i
    BY <1>1
  <2>2. end(i - 1) < limit(i - 1)
    BY <1>3, <2>1
  <2> QED
    BY <2>1, <2>2
<1> QED
  BY <1>1, <1>2, <1>4, <1>5

\* The regions lie in the order of the map.
LEMMA RegionsOrdered ==
    ASSUME Map(rgn), MapTypes, LibMB_Boundary_Check
    PROVE  /\ \A j \in 1 .. Len(rgn) : \A i \in 1 .. Len(rgn) : i < j => rgn[i].end < rgn[j].start
           /\ \A i \in 1 .. Len(rgn) : rgn[i].start < rgn[i].end
<1> DEFINE n == Len(rgn)
           H == {j \in 0 .. n : \A i \in 1 .. n : i < j => rgn[i].end < rgn[j].start}
<1>1. n \in Nat /\ (\A i \in 2 .. n : rgn[i - 1].end < rgn[i].start)
  BY CheckSays
<1>2. \A i \in 1 .. n : rgn[i].start < rgn[i].end /\ rgn[i].start \in Int /\ rgn[i].end \in Int
  BY CheckSays DEF CanCover, MapTypes, Bytes
<1>3. 0 \in H
  BY <1>1
<1>4. ASSUME NEW j \in 1 .. n, j - 1 \in H PROVE j \in H
  <2> SUFFICES ASSUME NEW i \in 1 .. n, i < j PROVE rgn[i].end < rgn[j].start
    BY <1>1
  <2>1. CASE i = j - 1
    BY <1>1, <2>1
  <2>2. CASE i # j - 1
    <3>1. i < j - 1 /\ j - 1 \in 1 .. n /\ j \in 2 .. n
      BY <1>1, <2>2
    <3>2. rgn[i].end < rgn[j - 1].start
      BY <1>4, <3>1
    <3>3. rgn[j - 1].end < rgn[j].start
      BY <1>1, <3>1
    <3>4. /\ rgn[i].end \in Int /\ rgn[j].start \in Int
          /\ rgn[j - 1].start \in Int /\ rgn[j - 1].end \in Int
          /\ rgn[j - 1].start < rgn[j - 1].end
      BY <1>2, <3>1
    <3> QED
      BY ONLY <3>2, <3>3, <3>4
  <2> QED
    BY <2>1, <2>2
<1>5. \A j \in 0 .. n : j \in H
  <2>1. H \subseteq Nat
    OBVIOUS
  <2> HIDE DEF H
  <2> QED
    BY <1>1, <1>3, <1>4, <2>1, UpTo
<1>6. \A j \in 1 .. n : j \in H
  BY <1>1, <1>5
<1> QED
  BY <1>2, <1>6

\* What the boundary check accepts is apart and inside the mailbox.
LEMMA CheckedIsDisjoint ==
    ASSUME Map(rgn), MapTypes, LibMB_Boundary_Check, Sound
    PROVE  \A i \in 1 .. Len(rgn) :
              /\ RegionBytes(rgn[i]) \subseteq 0 .. mb_size - 1
              /\ RegionBytes(rgn[i]) \cap HeaderBytes = {}
              /\ \A j \in 1 .. Len(rgn) :
                    i # j => RegionBytes(rgn[i]) \cap RegionBytes(rgn[j]) = {}
<1> DEFINE n == Len(rgn)
           Span(i) == rgn[i].start .. rgn[i].end
<1>1. n \in Nat /\ DOMAIN rgn = 1 .. n /\ HeaderSize(n) \in Int
  BY NumbersOfMap DEF Map
<1>2. \A i \in 1 .. n : rgn[i].start \in Nat /\ rgn[i].end \in Nat
  BY LayoutAssumption DEF MapTypes, Bytes
<1>3. \A i \in 1 .. n : RegionBytes(rgn[i]) \subseteq Span(i)
  <2> TAKE i \in 1 .. n
  <2>1. rgn[i].num \in Nat /\ CanCover(rgn[i]) /\ ~WrapsPastStart(rgn[i])
    BY <1>1, CheckSays DEF Map, Sound
  <2>2. /\ rgn[i].start + MB_SUB_REGION_HEADER_SZ - 1 + Payload(rgn[i]) <= rgn[i].end
        /\ Payload(rgn[i]) \in Nat
    BY <2>1, CoverExact DEF MapTypes
  <2> QED
    BY <1>2, <2>2, LayoutAssumption DEF RegionBytes
<1>4. \A i \in 1 .. n : HeaderSize(n) < rgn[i].start /\ rgn[i].end < mb_size
  <2> TAKE i \in 1 .. n
  <2>1. HeaderSize(n) < rgn[1].start /\ rgn[n].end < mb_size /\ 1 \in 1 .. n /\ n \in 1 .. n
    BY <1>1, CheckSays
  <2>2. i = 1 \/ (rgn[1].start < rgn[1].end /\ rgn[1].end < rgn[i].start)
    <3>1. i = 1 \/ 1 < i
      BY <1>1
    <3> QED
      BY <2>1, <3>1, RegionsOrdered, Zenon
  <2>3. i = n \/ (rgn[i].end < rgn[n].start /\ rgn[n].start < rgn[n].end)
    <3>1. i = n \/ i < n
      <4> HIDE DEF n
      <4> QED
        BY <1>1
    <3> QED
      BY <2>1, <3>1, RegionsOrdered, Zenon
  <2>4. mb_size \in Int
    BY LayoutAssumption DEF MapTypes, Bytes
  <2>5. HeaderSize(n) < rgn[i].start
    BY <1>1, <1>2, <2>1, <2>2
  <2>6. rgn[i].end < mb_size
    BY <1>2, <2>1, <2>3, <2>4
  <2> QED
    BY <2>5, <2>6
<1>5. ASSUME NEW i \in 1 .. n
      PROVE  RegionBytes(rgn[i]) \subseteq 0 .. mb_size - 1 /\ RegionBytes(rgn[i]) \cap HeaderBytes = {}
  <2>1. rgn[i].start \in Nat /\ rgn[i].end \in Nat /\ mb_size \in Int /\ rgn[i].end < mb_size
    BY <1>2, <1>4, LayoutAssumption DEF MapTypes, Bytes
  <2>2. Span(i) \subseteq 0 .. mb_size - 1
    BY <2>1
  <2>3. Span(i) \cap HeaderBytes = {}
    BY <1>1, <1>4, <2>1 DEF HeaderBytes
  <2> QED
    BY <1>3, <2>2, <2>3, Zenon
<1>6. ASSUME NEW i \in 1 .. n, NEW j \in 1 .. n, i # j
      PROVE  RegionBytes(rgn[i]) \cap RegionBytes(rgn[j]) = {}
  <2>1. rgn[i].end < rgn[j].start \/ rgn[j].end < rgn[i].start
    BY <1>1, <1>6, RegionsOrdered
  <2>2. Span(i) \cap Span(j) = {}
    BY <1>2, <2>1
  <2> QED
    BY <1>3, <2>2, Zenon
<1> QED
  BY <1>5, <1>6

-----------------------------------------------------------------------------
(***************************************************************************)
(* The invariant of the map: where LibMB_ChanMapInit put the regions until *)
(* an offset is set by hand, and that a verdict of LibMB_Boundary_Check    *)
(* stands as long as it is kept.                                           *)
(***************************************************************************)
\* Each region begins after the one before and ends at its offset.
PlacedAt(end) ==
    \A i \in 1 .. Len(rgn) : rgn[i].start = (end[i - 1] + 1) % Word /\ rgn[i].end = end[i]

\* Where LibMB_ChanMapInit puts the regions of an accepted map.
MapMade ==
    mapret = "SUCCESS" =>
        /\ Len(rgn) <= MB_MAX_SUB_REGION_NUM
        /\ Len(rgn) > 0 => rgn[Len(rgn)].end <= mb_size
        /\ \E end : Offsets(rgn, end) /\ PlacedAt(end)

\* What the check said of the map is what it would say now.
CheckKept ==
    /\ check \in {"none", "accepted", "refused"}
    /\ check = "accepted" => LibMB_Boundary_Check
    /\ check = "refused" => ~LibMB_Boundary_Check

LayoutInv == MapTypes /\ MapMade /\ CheckKept

\* The map is not made in the beginning.
LEMMA InitLayout == Init => LayoutInv
<1> SUFFICES ASSUME Init PROVE LayoutInv
  OBVIOUS
<1>1. MapMade /\ CheckKept
  BY DEF Init, MapMade, CheckKept
<1>2. PICK n \in 0 .. MaxRegions : rgn \in [1 .. n -> Regions]
  BY DEF Init
<1>3. Len(rgn) = n
  <2>1. n \in Nat /\ rgn = [i \in 1 .. n |-> rgn[i]]
    BY <1>2
  <2> QED
    BY <2>1, LenOf
<1>4. \A i \in 1 .. n : rgn[i].size \in ItemSizes /\ rgn[i].start = 0 /\ rgn[i].end = 0
  <2> TAKE i \in 1 .. n
  <2>1. rgn[i] \in Regions
    BY <1>2
  <2> QED
    BY <2>1 DEF Regions
<1>5. 0 \in Bytes /\ ItemSizes \subseteq Bytes /\ mb_size \in Bytes
  BY LayoutAssumption DEF Init, Bytes
<1>6. MapTypes
  BY <1>3, <1>4, <1>5 DEF MapTypes
<1> QED
  BY <1>1, <1>6 DEF LayoutInv

\* The offsets follow from the sizes of the regions and from nothing else.
LEMMA SameOffsets ==
    ASSUME NEW cfg, NEW new, Len(new) = Len(cfg), NEW end, Offsets(cfg, end),
           \A i \in 1 .. Len(cfg) : Payload(new[i]) = Payload(cfg[i])
    PROVE  Offsets(new, end)
<1>1. /\ end \in [0 .. Len(new) -> Int]
      /\ end[0] = HeaderSize(Len(new)) + 3
  BY DEF Offsets
<1>2. ASSUME NEW i \in 1 .. Len(new)
      PROVE  end[i] = (end[i - 1] + MB_SUB_REGION_HEADER_SZ + Payload(new[i])) % Word
  <2>1. i \in 1 .. Len(cfg)
    OBVIOUS
  <2>2. end[i] = (end[i - 1] + MB_SUB_REGION_HEADER_SZ + Payload(cfg[i])) % Word
    BY <2>1, Zenon DEF Offsets
  <2> QED
    BY <2>1, <2>2, Zenon
<1> QED
  BY <1>1, <1>2, Zenon DEF Offsets

\* LibMB_ChanMapInit makes the map.
LEMMA ChanMapLayout ==
    ASSUME Map(rgn), Map(rgn'), LayoutInv, MapConfig
    PROVE  LayoutInv'
<1> DEFINE n == Len(rgn)
<1>1. check = "none" /\ check' = check /\ mb_size' = mb_size
  BY DEF MapConfig
<1>2. CheckKept'
  BY <1>1 DEF CheckKept
<1>3. CASE n <= MB_MAX_SUB_REGION_NUM
  <2>1. rgn' = ChanMap(rgn)
    BY <1>3 DEF MapConfig
  <2>2. PICK end : /\ Offsets(rgn, end)
                   /\ rgn' = [i \in 1 .. n |-> Placed(rgn[i], (end[i - 1] + 1) % Word, end[i])]
    BY <2>1, ChanMapOffsets
  <2>3. n \in Nat
    BY DEF Map
  <2>4. Len(rgn') = n
    <3>1. rgn' = [i \in 1 .. n |-> rgn'[i]]
      BY <2>2
    <3> QED
      BY <2>3, <3>1, LenOf
  <2>5. \A i \in 1 .. n : rgn'[i].num = rgn[i].num /\ rgn'[i].size = rgn[i].size
                           /\ rgn'[i].start = (end[i - 1] + 1) % Word /\ rgn'[i].end = end[i]
    BY <2>2 DEF Placed
  <2>6. Offsets(rgn', end)
    <3>1. \A i \in 1 .. n : Payload(rgn'[i]) = Payload(rgn[i])
      BY <2>5 DEF Payload
    <3>2. Len(rgn') = Len(rgn) /\ Offsets(rgn, end)
      BY <2>2, <2>4, Zenon
    <3> QED
      BY ONLY <3>1, <3>2, SameOffsets, Zenon
  <2>7. \A i \in 1 .. n : end[i - 1] \in Int /\ end[i] \in Bytes
    <3> TAKE i \in 1 .. n
    <3>1. end[i - 1] \in Int /\ end[i] = (end[i - 1] + MB_SUB_REGION_HEADER_SZ + Payload(rgn[i])) % Word
      <4>1. i \in 1 .. Len(rgn) /\ i - 1 \in 0 .. Len(rgn)
        BY <2>3
      <4>2. end \in [0 .. Len(rgn) -> Int]
        BY <2>2, Zenon DEF Offsets
      <4>3. end[i] = (end[i - 1] + MB_SUB_REGION_HEADER_SZ + Payload(rgn[i])) % Word
        BY <2>2, <4>1, Zenon DEF Offsets
      <4> QED
        BY ONLY <4>1, <4>2, <4>3
    <3>2. Payload(rgn[i]) \in Nat
      BY NumbersOfMap
    <3>3. end[i - 1] + MB_SUB_REGION_HEADER_SZ + Payload(rgn[i]) \in Int
      BY <3>1, <3>2, LayoutAssumption
    <3> QED
      BY <3>1, <3>2, <3>3, ModBytes, Zenon
  <2>8. MapTypes'
    <3>1. \A i \in 1 .. n : (end[i - 1] + 1) % Word \in Bytes
      BY <2>7, LayoutAssumption DEF Bytes
    <3> QED
      BY <1>1, <2>4, <2>5, <2>7, <3>1 DEF LayoutInv, MapTypes, Bytes
  <2>9. MapMade'
    <3>0. PlacedAt(end)'
      BY <2>4, <2>5 DEF PlacedAt
    <3> SUFFICES ASSUME mapret' = "SUCCESS", n > 0 PROVE rgn'[n].end <= mb_size
      BY <1>3, <1>1, <2>4, <2>6, <3>0 DEF MapMade
    <3>1. rgn' # <<>>
      BY <2>4
    <3>2. ~ (mb_size < rgn'[n].end)
      BY <2>4, <3>1 DEF MapConfig, MapVerdict
    <3>3. mb_size \in Int /\ rgn'[n].end \in Int
      BY <1>1, <2>3, <2>4, <2>8, LayoutAssumption DEF MapTypes, Bytes
    <3> QED
      BY <3>2, <3>3
  <2> QED
    BY <1>2, <2>8, <2>9 DEF LayoutInv
<1>4. CASE ~ (n <= MB_MAX_SUB_REGION_NUM)
  <2>1. rgn' = rgn
    BY <1>4 DEF MapConfig
  <2>2. mapret' = "NULL_INPUT"
    <3>1. Len(rgn') > MB_MAX_SUB_REGION_NUM
      BY <1>4, <2>1, LayoutAssumption DEF Map
    <3> QED
      BY <3>1 DEF MapConfig, MapVerdict
  <2> QED
    BY <1>1, <1>2, <2>1, <2>2 DEF LayoutInv, MapTypes, MapMade, Bytes
<1> QED
  BY <1>3, <1>4

\* An offset set by hand: nothing is known of it but that it is a number of Word.
LEMMA ByHandLayout ==
    ASSUME Map(rgn), LayoutInv, SetOffset
    PROVE  LayoutInv'
<1>1. PICK i \in DOMAIN rgn, ds \in {-1, 0, 1}, de \in {-1, 0, 1} :
         rgn' = [rgn EXCEPT ![i] = Placed(rgn[i], (rgn[i].start + ds) % Word,
                                                  (rgn[i].end + de) % Word)]
  BY DEF SetOffset
<1>2. DOMAIN rgn = 1 .. Len(rgn) /\ Len(rgn) \in Nat
  BY DEF Map
<1>3. Len(rgn') = Len(rgn)
  <2>1. rgn' = [j \in 1 .. Len(rgn) |-> rgn'[j]]
    BY <1>1, <1>2
  <2> QED
    BY <1>2, <2>1, LenOf
<1>4. rgn[i].start \in Int /\ rgn[i].end \in Int /\ rgn[i].size \in Bytes
  BY <1>2, LayoutAssumption DEF LayoutInv, MapTypes, Bytes
<1>5. (rgn[i].start + ds) % Word \in Bytes /\ (rgn[i].end + de) % Word \in Bytes
  <2>1. rgn[i].start + ds \in Int /\ rgn[i].end + de \in Int
    BY <1>4
  <2> QED
    BY <2>1, ModBytes
<1>6. \A j \in 1 .. Len(rgn) :
         rgn'[j].size \in Bytes /\ rgn'[j].start \in Bytes /\ rgn'[j].end \in Bytes
  <2> TAKE j \in 1 .. Len(rgn)
  <2>1. CASE j = i
    BY <1>1, <1>2, <1>4, <1>5, <2>1 DEF Placed
  <2>2. CASE j # i
    <3>1. rgn'[j] = rgn[j]
      BY <1>1, <1>2, <2>2
    <3> QED
      BY <3>1 DEF LayoutInv, MapTypes
  <2> QED
    BY <2>1, <2>2
<1>7. MapTypes'
  <2>1. mb_size' = mb_size
    BY DEF SetOffset
  <2> QED
    BY <1>3, <1>6, <2>1 DEF LayoutInv, MapTypes, Bytes
<1>8. MapMade' /\ CheckKept'
  BY DEF SetOffset, MapMade, CheckKept
<1> QED
  BY <1>7, <1>8 DEF LayoutInv

\* Only the owner's own steps touch the map.
LEMMA OtherLayout ==
    ASSUME LayoutInv, UNCHANGED <<mb_size, rgn, mapret>>,
           \/ check' \in {check, "none"}
           \/ check' = IF LibMB_Boundary_Check THEN "accepted" ELSE "refused"
    PROVE  LayoutInv'
<1>1. MapTypes'
  BY DEF LayoutInv, MapTypes, Bytes
<1>2. MapMade'
  BY DEF LayoutInv, MapMade, PlacedAt
<1>3. LibMB_Boundary_Check' = LibMB_Boundary_Check
  BY DEF LibMB_Boundary_Check, NoOverlap
<1>4. CheckKept'
  BY <1>3 DEF LayoutInv, CheckKept
<1> QED
  BY <1>1, <1>2, <1>4 DEF LayoutInv

\* Every step keeps what is known of the map.
LEMMA NextLayout == IInv /\ IInv' /\ LayoutInv /\ [Next]_vars => LayoutInv'
<1> SUFFICES ASSUME IInv, IInv', LayoutInv, [Next]_vars PROVE LayoutInv'
  OBVIOUS
<1>1. Map(rgn) /\ Map(rgn')
  BY DEF IInv, MapInv
<1>2. CASE LibMB_ChanMapInit
  BY <1>1, <1>2, ChanMapLayout DEF LibMB_ChanMapInit
<1>3. CASE OffsetByHand
  BY <1>1, <1>3, ByHandLayout DEF OffsetByHand
<1>4. CASE LibMB_Create
  BY <1>4, OtherLayout DEF LibMB_Create
<1>5. CASE Restart
  BY <1>5, OtherLayout DEF Restart
<1>6. CASE CreateStore \/ RtssRead
  BY <1>6, OtherLayout DEF CreateStore, RtssRead, rtss, config
<1>7. CASE UNCHANGED rtss
  BY <1>7, OtherLayout DEF rtss, config
<1>8. CASE \/ \E n \in Batches : LibMB_Write(n)
           \/ CheckIndex \/ FindSubRegion \/ LibMB_Mailbox_sanity_check
           \/ LibMB_Free_Item \/ LoadRing \/ Guard \/ Publish
  <2>1. UNCHANGED rtss
    BY <1>8 DEF LibMB_Write, CheckIndex, FindSubRegion, LibMB_Mailbox_sanity_check,
                LibMB_Free_Item, LoadRing, Guard, Publish, At, Return,
                LoadNum, LoadSize, LoadIn, LoadOut
  <2> QED
    BY <1>7, <2>1
<1>9. CASE UNCHANGED vars
  BY <1>7, <1>9 DEF vars
<1> QED
  BY <1>2, <1>3, <1>4, <1>5, <1>6, <1>8, <1>9 DEF Next

\* What is known of the map holds always.
THEOREM LayoutInvariance == Spec => [](IInv /\ LayoutInv)
<1>1. Init => LayoutInv
  BY InitLayout
<1>2. IInv /\ LayoutInv /\ [Next]_vars => (IInv /\ LayoutInv)'
  BY NextInv, NextLayout
<1> QED
  BY <1>1, <1>2, InitInv, PTL DEF Spec

\* LibMB_Boundary_Check lets no two sub-regions of a mailbox share a byte.
THEOREM RegionsDisjointAlways == Spec => []RegionsDisjoint
<1>1. IInv /\ LayoutInv => RegionsDisjoint
  <2> SUFFICES ASSUME IInv, LayoutInv, check = "accepted", Sound, NEW i \in DOMAIN rgn
               PROVE  /\ RegionBytes(rgn[i]) \subseteq 0 .. mb_size - 1
                      /\ RegionBytes(rgn[i]) \cap HeaderBytes = {}
                      /\ \A j \in DOMAIN rgn :
                            i # j => RegionBytes(rgn[i]) \cap RegionBytes(rgn[j]) = {}
    BY DEF RegionsDisjoint
  <2>1. Map(rgn) /\ MapTypes /\ LibMB_Boundary_Check
    BY DEF IInv, MapInv, LayoutInv, CheckKept
  <2>2. DOMAIN rgn = 1 .. Len(rgn)
    BY <2>1 DEF Map
  <2> QED
    BY <2>1, <2>2, CheckedIsDisjoint
<1> QED
  BY <1>1, LayoutInvariance, PTL

-----------------------------------------------------------------------------
(***************************************************************************)
(* LibMB_ChanMapInit and LibMB_Boundary_Check agree                        *)
(***************************************************************************)
\* The last bytes of the map one would draw, in numbers that do not wrap.
Lasts(cfg, last) ==
    /\ last \in [0 .. Len(cfg) -> Int]
    /\ last[0] = HeaderSize(Len(cfg)) + 3
    /\ \A i \in 1 .. Len(cfg) :
          last[i] = last[i - 1] + MB_SUB_REGION_HEADER_SZ + Payload(cfg[i])

\* FitsExactly, unfolded.
LEMMA FitsExactlyLasts ==
    ASSUME Map(rgn)
    PROVE  \E last : Lasts(rgn, last) /\ (FitsExactly <=> last[Len(rgn)] < mb_size)
<1> DEFINE n == Len(rgn)
           first == HeaderSize(Len(rgn)) + 3
           step == [p \in Int \X (1 .. n) |->
                      p[1] + MB_SUB_REGION_HEADER_SZ + Payload(rgn[p[2]])]
           last[i \in 0 .. Len(rgn)] ==
              IF i = 0 THEN HeaderSize(Len(rgn)) + 3
              ELSE last[i - 1] + MB_SUB_REGION_HEADER_SZ + Payload(rgn[i])
<1>1. n \in Nat /\ first \in Int
  BY NumbersOfMap DEF Map
<1>2. step \in [Int \X (1 .. n) -> Int]
  BY LayoutAssumption, NumbersOfMap
<1>3. PICK f \in [0 .. n -> Int] :
         f[0] = first /\ \A i \in 1 .. n : f[i] = step[<<f[i - 1], i>>]
  <2>1. n \in Nat /\ first \in Int
    BY <1>1
  <2> HIDE DEF step, first, n, last
  <2> QED
    BY ONLY <1>2, <2>1, IterationExists, ZenonT(40)
<1>4. \A i \in 1 .. n : f[i] = f[i - 1] + MB_SUB_REGION_HEADER_SZ + Payload(rgn[i])
  <2> TAKE i \in 1 .. n
  <2>1. <<f[i - 1], i>> \in Int \X (1 .. n)
    BY <1>1, <1>3
  <2>2. step[<<f[i - 1], i>>] = f[i - 1] + MB_SUB_REGION_HEADER_SZ + Payload(rgn[i])
    BY <2>1
  <2> QED
    BY <1>3, <2>2
<1>5. f = [i \in 0 .. n |-> IF i = 0 THEN first
             ELSE f[i - 1] + MB_SUB_REGION_HEADER_SZ + Payload(rgn[i])]
  <2>1. \A i \in 0 .. n : f[i] = IF i = 0 THEN first
             ELSE f[i - 1] + MB_SUB_REGION_HEADER_SZ + Payload(rgn[i])
    <3> TAKE i \in 0 .. n
    <3>1. i = 0 \/ i \in 1 .. n
      BY <1>1
    <3> HIDE DEF first, n
    <3> QED
      BY <1>3, <1>4, <3>1
  <2> HIDE DEF step, first
  <2> QED
    BY <1>3, <2>1
<1>6. last = [i \in 0 .. n |-> IF i = 0 THEN first
             ELSE last[i - 1] + MB_SUB_REGION_HEADER_SZ + Payload(rgn[i])]
  BY <1>5, Zenon DEF last
<1>7. FitsExactly <=> last[n] < mb_size
  BY Zenon DEF FitsExactly
<1>8. Lasts(rgn, last)
  <2> HIDE DEF last
  <2>1. last[0] = first
    BY <1>1, <1>6
  <2>2. \A i \in 1 .. n : last[i] = last[i - 1] + MB_SUB_REGION_HEADER_SZ + Payload(rgn[i])
    BY <1>1, <1>6
  <2> DEFINE H == {i \in 0 .. n : last[i] \in Int}
  <2>3. 0 \in H
    BY <1>1, <2>1
  <2>4. ASSUME NEW i \in 1 .. n, i - 1 \in H PROVE i \in H
    BY <1>1, <2>2, <2>4, NumbersOfMap, LayoutAssumption
  <2>5. \A i \in 0 .. n : i \in H
    <3>1. H \subseteq Nat
      OBVIOUS
    <3> HIDE DEF H
    <3> QED
      BY <1>1, <2>3, <2>4, <3>1, UpTo
  <2>6. last \in [0 .. n -> Int]
    BY <1>6, <2>5
  <2> QED
    BY <2>1, <2>2, <2>6 DEF Lasts
<1> HIDE DEF last
<1> QED
  BY <1>7, <1>8

\* The header is a whole number of words, at least one.
LEMMA HeaderPositive ==
    ASSUME NEW n \in Nat \ {0}
    PROVE  HeaderSize(n) \in Nat /\ HeaderSize(n) >= 4
<1>1. AREA_SIZE * (n - 1) \in Nat
  <2>1. n - 1 \in Nat
    OBVIOUS
  <2> QED
    BY <2>1, LayoutAssumption, ProductNat
<1>2. \A a \in Nat : a >= 4 => (a \div 4) * 4 \in Nat /\ (a \div 4) * 4 >= 4
  BY SMT
<1>3. MB_HEADER_SIZE + AREA_SIZE * (n - 1) + 3 \in Nat
      /\ MB_HEADER_SIZE + AREA_SIZE * (n - 1) + 3 >= 4
  BY <1>1, LayoutAssumption
<1> QED
  BY <1>2, <1>3 DEF HeaderSize

\* A map that was made and accepted has wrapped nowhere.
LEMMA AcceptedFits ==
    ASSUME Map(rgn), MapTypes, LibMB_Boundary_Check, Sound,
           NEW end, Offsets(rgn, end), PlacedAt(end),
           NEW last, Lasts(rgn, last)
    PROVE  last[Len(rgn)] < mb_size
<1> DEFINE n == Len(rgn)
           hs == HeaderSize(Len(rgn))
           h == MB_SUB_REGION_HEADER_SZ
           H == {i \in 0 .. n : end[i] = last[i]}
<1>1. n \in Nat /\ n >= 1 /\ DOMAIN rgn = 1 .. n
  BY CheckSays DEF Map
<1>2. hs \in Nat /\ hs >= 4 /\ h \in Nat /\ h > 1 /\ Word \in Nat \ {0}
  BY <1>1, HeaderPositive, LayoutAssumption
<1>3. 0 \in H
  BY <1>1 DEF Offsets, Lasts
<1>4. ASSUME NEW i \in 1 .. n PROVE rgn[i].start = end[i - 1] + 1 /\ end[i - 1] \in Nat
  <2>1. rgn[i].start = (end[i - 1] + 1) % Word /\ rgn[i].start \in Nat /\ rgn[i].start < Word
    BY <1>2 DEF MapTypes, Bytes, PlacedAt
  <2>2. CASE i = 1
    <3>1. end[i - 1] = hs + 3
      BY <2>2 DEF Offsets
    <3>2. hs < rgn[i].start
      BY <2>2, CheckSays
    <3>3. rgn[i].start = (hs + 4) % Word
      BY <1>2, <2>1, <3>1
    <3> HIDE DEF hs, n, H
    <3>4. hs < Word /\ 4 <= Word /\ hs < (hs + 4) % Word
      BY <1>2, <2>1, <3>2, <3>3
    <3>5. (hs + 4) % Word = hs + 4
      BY <1>2, <3>4, SeenAfter
    <3> QED
      BY <1>2, <3>1, <3>3, <3>5
  <2>3. CASE i # 1
    <3>1. i - 1 \in 1 .. n /\ i \in 2 .. n
      BY <1>1, <2>3
    <3>2. end[i - 1] = rgn[i - 1].end
      BY <3>1 DEF PlacedAt
    <3>3. end[i - 1] \in Nat /\ end[i - 1] < Word
      BY <1>2, <3>1, <3>2 DEF MapTypes, Bytes
    <3>4. end[i - 1] < rgn[i].start
      BY <3>1, <3>2, CheckSays
    <3>5. end[i - 1] + 1 < Word
      BY <1>2, <2>1, <3>3, <3>4
    <3>6. (end[i - 1] + 1) % Word = end[i - 1] + 1
      <4>1. end[i - 1] + 1 \in Nat
        BY <3>3
      <4> QED
        BY <3>5, <4>1, ModSmall, Zenon
    <3> QED
      BY <2>1, <3>3, <3>6
  <2> QED
    BY <2>2, <2>3
<1>5. ASSUME NEW i \in 1 .. n, i - 1 \in H PROVE i \in H
  <2>1. rgn[i].start = end[i - 1] + 1 /\ end[i - 1] \in Nat
    BY <1>4
  <2>2. rgn[i].num \in Nat /\ CanCover(rgn[i]) /\ ~WrapsPastStart(rgn[i])
    BY <1>1, CheckSays DEF Map, Sound
  <2>3. /\ rgn[i].start + h - 1 + Payload(rgn[i]) <= rgn[i].end
        /\ Payload(rgn[i]) \in Nat
    BY <2>2, CoverExact DEF MapTypes
  <2>4. rgn[i].end \in Nat /\ rgn[i].end < Word
    BY <1>2 DEF MapTypes, Bytes
  <2>5. end[i - 1] + h + Payload(rgn[i]) \in Nat /\ end[i - 1] + h + Payload(rgn[i]) < Word
    <3> DEFINE P == Payload(rgn[i])
    <3>1. rgn[i].start = end[i - 1] + 1 /\ P \in Nat /\ rgn[i].start + h - 1 + P <= rgn[i].end
      BY <2>1, <2>3
    <3> HIDE DEF P, n, hs, H
    <3>2. end[i - 1] + h + P \in Nat /\ end[i - 1] + h + P < Word
      BY <1>2, <2>1, <2>4, <3>1
    <3> QED
      BY <3>2 DEF P
  <2>6. end[i] = end[i - 1] + h + Payload(rgn[i])
    <3>1. end[i] = (end[i - 1] + h + Payload(rgn[i])) % Word
      BY DEF Offsets
    <3> QED
      BY <2>5, <3>1, ModSmall, Zenon
  <2>7. last[i] = last[i - 1] + h + Payload(rgn[i])
    BY DEF Lasts
  <2> QED
    BY <1>1, <1>5, <2>6, <2>7
<1>6. \A i \in 0 .. n : i \in H
  <2>1. H \subseteq Nat
    OBVIOUS
  <2> HIDE DEF H
  <2> QED
    BY <1>1, <1>3, <1>5, <2>1, UpTo
<1>7. end[n] = last[n] /\ end[n] = rgn[n].end
  BY <1>1, <1>6 DEF PlacedAt
<1> QED
  BY <1>7, CheckSays

\* The last byte of a region, from the byte before its start.
LEMMA LastByteOf ==
    ASSUME NEW r, NEW b \in Nat, r.start = b + 1, Payload(r) \in Nat,
           b + MB_SUB_REGION_HEADER_SZ + Payload(r) < Word
    PROVE  /\ ValidSize(r) = Payload(r)
           /\ LastByte(r) = b + MB_SUB_REGION_HEADER_SZ + Payload(r)
<1> DEFINE h == MB_SUB_REGION_HEADER_SZ
           P == Payload(r)
<1>1. h \in Nat /\ Word \in Nat
  BY LayoutAssumption
<1> HIDE DEF P
<1>2. P % Word = P
  <2>1. P < Word /\ P \in Nat
    BY <1>1 DEF P
  <2> QED
    BY <2>1, ModSmall
<1>3. r.start + h - 1 + P = b + h + P
  BY <1>1 DEF P
<1>4. (b + h + P) % Word = b + h + P
  <2>1. b + h + P \in Nat /\ b + h + P < Word
    BY <1>1 DEF P
  <2> QED
    BY <2>1, ModSmall, Zenon
<1> QED
  BY <1>2, <1>3, <1>4 DEF P, ValidSize, LastByte

\* A quotient of a product.
LEMMA DivideProduct ==
    ASSUME NEW m \in Nat \ {0}, NEW s \in Nat
    PROVE  (m * s) \div m = s
BY SMT

\* A map that was made and fits is accepted.
LEMMA FittingAccepted ==
    ASSUME Map(rgn), MapTypes, Len(rgn) \in 1 .. MB_MAX_SUB_REGION_NUM,
           \A i \in 1 .. Len(rgn) : rgn[i].num <= MB_MAX_ITEM_NUM,
           NEW end, Offsets(rgn, end), PlacedAt(end),
           NEW last, Lasts(rgn, last), last[Len(rgn)] < mb_size
    PROVE  LibMB_Boundary_Check
<1> DEFINE n == Len(rgn)
           hs == HeaderSize(Len(rgn))
           h == MB_SUB_REGION_HEADER_SZ
<1>1. n \in Nat /\ n >= 1 /\ DOMAIN rgn = 1 .. n
  BY LayoutAssumption DEF Map
<1>2. hs \in Nat /\ hs >= 4 /\ h \in Nat /\ h > 1 /\ Word \in Nat \ {0}
      /\ mb_size \in Nat /\ mb_size < Word
  BY <1>1, HeaderPositive, LayoutAssumption DEF MapTypes, Bytes
<1>3. \A i \in 1 .. n : Payload(rgn[i]) \in Nat
  BY NumbersOfMap
<1>4. \A i \in 1 .. n : last[i] = last[i - 1] + h + Payload(rgn[i])
  BY DEF Lasts
<1>5. \A i \in 0 .. n : last[i] \in Int
  BY DEF Lasts
<1>6. \A i \in 0 .. n : last[i] >= hs + 3
  <2> DEFINE H == {i \in 0 .. n : last[i] >= hs + 3}
  <2>1. 0 \in H
    BY <1>1, <1>2 DEF Lasts
  <2>2. ASSUME NEW i \in 1 .. n, i - 1 \in H PROVE i \in H
    <3>1. last[i] = last[i - 1] + h + Payload(rgn[i]) /\ Payload(rgn[i]) \in Nat
      BY <1>3, <1>4
    <3>2. i - 1 \in 0 .. n /\ i \in 0 .. n /\ last[i - 1] >= hs + 3
      BY <1>1, <2>2
    <3>3. last[i - 1] \in Int /\ last[i] \in Int
      BY <1>5, <3>2
    <3>4. last[i] >= hs + 3
      <4> HIDE DEF hs
      <4> QED
        BY <1>2, <3>1, <3>2, <3>3
    <3> QED
      BY <3>2, <3>4
  <2>3. H \subseteq Nat
    OBVIOUS
  <2>4. \A i \in 0 .. n : i \in H
    <3> HIDE DEF H
    <3> QED
      BY <1>1, <2>1, <2>2, <2>3, UpTo
  <2> QED
    BY <2>4
<1>7. \A i \in 0 .. n : last[i] < mb_size
  <2> DEFINE H == {k \in 0 .. n : last[n - k] < mb_size}
  <2>1. 0 \in H
    BY <1>1
  <2>2. ASSUME NEW k \in 1 .. n, k - 1 \in H PROVE k \in H
    <3>1. n - k + 1 \in 1 .. n /\ n - k + 1 - 1 = n - k /\ n - (k - 1) = n - k + 1
          /\ n - k \in 0 .. n
      BY <1>1
    <3>2. last[n - k + 1] = last[n - k] + h + Payload(rgn[n - k + 1])
      BY <1>4, <3>1
    <3>3. last[n - k] \in Int /\ last[n - k + 1] < mb_size /\ Payload(rgn[n - k + 1]) \in Nat
      BY <1>3, <1>5, <2>2, <3>1
    <3> QED
      BY <1>2, <3>1, <3>2, <3>3
  <2>3. H \subseteq Nat
    OBVIOUS
  <2>4. \A k \in 0 .. n : k \in H
    <3> HIDE DEF H
    <3> QED
      BY <1>1, <2>1, <2>2, <2>3, UpTo
  <2> TAKE i \in 0 .. n
  <2>5. n - i \in H /\ n - (n - i) = i
    BY <1>1, <2>4
  <2> QED
    BY <2>5
<1>8. \A i \in 0 .. n : last[i] \in Nat /\ last[i] < Word /\ last[i] >= 7
  BY <1>2, <1>5, <1>6, <1>7
<1>9. \A i \in 0 .. n : end[i] = last[i]
  <2> DEFINE H == {i \in 0 .. n : end[i] = last[i]}
  <2>1. 0 \in H
    BY <1>1 DEF Offsets, Lasts
  <2>2. ASSUME NEW i \in 1 .. n, i - 1 \in H PROVE i \in H
    <3>1. end[i] = (end[i - 1] + h + Payload(rgn[i])) % Word /\ end[i - 1] = last[i - 1]
      BY <2>2 DEF Offsets
    <3>2. end[i] = last[i] % Word
      BY <1>4, <3>1
    <3>3. last[i] \in Nat /\ last[i] < Word
      BY <1>8
    <3> QED
      BY <3>2, <3>3, ModSmall
  <2>3. H \subseteq Nat
    OBVIOUS
  <2>4. \A i \in 0 .. n : i \in H
    <3> HIDE DEF H
    <3> QED
      BY <1>1, <2>1, <2>2, <2>3, UpTo
  <2> QED
    BY <2>4
<1>10. ASSUME NEW i \in 1 .. n
       PROVE  /\ rgn[i].end = last[i]
              /\ rgn[i].start = last[i - 1] + 1
              /\ last[i] = last[i - 1] + h + Payload(rgn[i])
              /\ rgn[i].start < rgn[i].end
  <2>1. i - 1 \in 0 .. n /\ i \in 0 .. n
    BY <1>1
  <2>2. rgn[i].end = last[i] /\ rgn[i].start = (last[i - 1] + 1) % Word
    BY <1>9, <2>1 DEF PlacedAt
  <2>3. /\ last[i - 1] \in Nat /\ last[i] \in Nat /\ last[i] < Word /\ Payload(rgn[i]) \in Nat
        /\ last[i] = last[i - 1] + h + Payload(rgn[i])
    <3>1. last[i - 1] \in Nat /\ last[i] \in Nat /\ last[i] < Word
      BY <1>8, <2>1, Zenon
    <3>2. Payload(rgn[i]) \in Nat /\ last[i] = last[i - 1] + h + Payload(rgn[i])
      BY <1>3, <1>4, Zenon
    <3> QED
      BY <3>1, <3>2, Zenon
  <2>4. last[i - 1] + 1 < last[i] /\ last[i - 1] + 1 < Word
    <3> DEFINE P == Payload(rgn[i])
    <3>1. /\ last[i - 1] \in Nat /\ last[i] \in Nat /\ last[i] < Word /\ P \in Nat
          /\ last[i] = last[i - 1] + h + P
      BY <2>3
    <3> HIDE DEF n, hs, P
    <3> QED
      BY <1>2, <3>1
  <2>5. (last[i - 1] + 1) % Word = last[i - 1] + 1
    <3>1. last[i - 1] + 1 \in Nat
      BY <2>3
    <3> QED
      BY <2>4, <3>1, ModSmall, Zenon
  <2> QED
    BY <2>2, <2>3, <2>4, <2>5
<1>11. ASSUME NEW i \in 1 .. n PROVE CanCover(rgn[i])
  <2> DEFINE P == Payload(rgn[i])
  <2>1. /\ P \in Nat /\ last[i - 1] \in Nat /\ last[i] \in Nat /\ last[i] < Word
        /\ rgn[i].num \in Nat /\ rgn[i].size \in Nat
    <3>1. i - 1 \in 0 .. n /\ i \in 0 .. n
      BY <1>1
    <3>2. P \in Nat /\ rgn[i].num \in Nat /\ rgn[i].size \in Nat
      BY <1>3 DEF Map
    <3> HIDE DEF n, P
    <3> QED
      BY <1>8, <3>1, <3>2, Zenon
  <2>2. /\ rgn[i].start = last[i - 1] + 1
        /\ last[i] = last[i - 1] + h + P
    BY <1>10
  <2>3. ValidSize(rgn[i]) = P /\ LastByte(rgn[i]) = last[i]
    BY <2>1, <2>2, LastByteOf, Zenon
  <2>4. rgn[i].num # 0 => P \div rgn[i].num = rgn[i].size
    BY <2>1, DivideProduct DEF Payload
  <2>5. LastByte(rgn[i]) > rgn[i].start
    BY <1>10, <2>1, <2>3
  <2> QED
    BY <1>1, <1>10, <2>1, <2>3, <2>4, <2>5 DEF CanCover
<1>12. NoOverlap
  <2> DEFINE e(i) == IF i = 0 THEN hs ELSE rgn[i].end
             limit(i) == IF i = n THEN mb_size ELSE rgn[i + 1].start
  <2>1. ASSUME NEW i \in 0 .. n PROVE e(i) < limit(i) /\ limit(i) <= mb_size
    <3>1. e(i) <= last[i]
      <4>1. CASE i = 0
        BY <1>2, <1>6, <4>1, <1>5
      <4>2. CASE i # 0
        <5>1. i \in 1 .. n
          BY <1>1, <4>2
        <5>2. rgn[i].end = last[i]
          BY <1>10, <5>1
        <5> QED
          BY <1>5, <4>2, <5>2
      <4> QED
        BY <4>1, <4>2
    <3>2. last[i] < limit(i) /\ limit(i) <= mb_size /\ limit(i) \in Int
      <4>1. CASE i = n
        BY <1>2, <1>7, <4>1
      <4>2. CASE i # n
        <5>1. i + 1 \in 1 .. n /\ i + 1 \in 0 .. n
          <6> HIDE DEF n
          <6> QED
            BY <1>1, <4>2
        <5>2. rgn[i + 1].start = last[i] + 1 /\ rgn[i + 1].start < rgn[i + 1].end
              /\ rgn[i + 1].end = last[i + 1]
          <6>1. i + 1 - 1 = i
            BY <1>1
          <6> QED
            BY <1>10, <5>1, <6>1
        <5> QED
          BY <1>2, <1>5, <1>7, <4>2, <5>1, <5>2
      <4> QED
        BY <4>1, <4>2
    <3>3. e(i) \in Int /\ last[i] \in Int
      <4>1. i = 0 \/ i \in 1 .. n
        BY <1>1
      <4> QED
        BY <1>2, <1>5, <1>10, <4>1
    <3> HIDE DEF e, limit
    <3> QED
      BY <3>1, <3>2, <3>3
  <2> QED
    BY <2>1 DEF NoOverlap
<1> QED
  BY <1>1, <1>11, <1>12 DEF LibMB_Boundary_Check

\* LibMB_ChanMapInit and LibMB_Boundary_Check agree on which maps fit.
THEOREM MapAcceptedAlways == Spec => []MapAccepted
<1>1. IInv /\ LayoutInv => MapAccepted
  <2> SUFFICES ASSUME IInv, LayoutInv, mapret = "SUCCESS", check # "none", Sound
               PROVE  check = "accepted" <=>
                         /\ rgn # <<>>
                         /\ \A i \in DOMAIN rgn : rgn[i].num <= MB_MAX_ITEM_NUM
                         /\ FitsExactly
    BY DEF MapAccepted
  <2>1. Map(rgn) /\ MapTypes /\ Len(rgn) \in Nat /\ DOMAIN rgn = 1 .. Len(rgn)
    BY DEF IInv, MapInv, LayoutInv, Map
  <2>2. PICK end : Offsets(rgn, end) /\ PlacedAt(end)
    BY DEF LayoutInv, MapMade, PlacedAt
  <2>3. PICK last : Lasts(rgn, last) /\ (FitsExactly <=> last[Len(rgn)] < mb_size)
    BY <2>1, FitsExactlyLasts
  <2>4. rgn # <<>> <=> Len(rgn) >= 1
    <3>1. rgn = <<>> => Len(rgn) = 0
      OBVIOUS
    <3>2. Len(rgn) = 0 => rgn = <<>>
      BY <2>1 DEF Map
    <3> QED
      BY <2>1, <3>1, <3>2
  <2>5. ASSUME LibMB_Boundary_Check
        PROVE  /\ rgn # <<>>
               /\ \A i \in DOMAIN rgn : rgn[i].num <= MB_MAX_ITEM_NUM
               /\ FitsExactly
    <3>1. last[Len(rgn)] < mb_size
      BY <2>1, <2>2, <2>3, <2>5, AcceptedFits
    <3>2. Len(rgn) >= 1 /\ \A i \in 1 .. Len(rgn) : CanCover(rgn[i])
      BY <2>1, <2>5, CheckSays
    <3> QED
      BY <2>1, <2>3, <2>4, <3>1, <3>2 DEF CanCover
  <2>6. ASSUME rgn # <<>>, \A i \in DOMAIN rgn : rgn[i].num <= MB_MAX_ITEM_NUM, FitsExactly
        PROVE  LibMB_Boundary_Check
    <3>1. Len(rgn) \in 1 .. MB_MAX_SUB_REGION_NUM
      BY <2>1, <2>4, <2>6, LayoutAssumption DEF LayoutInv, MapMade
    <3> QED
      BY <2>1, <2>2, <2>3, <2>6, <3>1, FittingAccepted
  <2>7. check \in {"accepted", "refused"}
    BY DEF LayoutInv, CheckKept
  <2> QED
    BY <2>5, <2>6, <2>7 DEF LayoutInv, CheckKept
<1> QED
  BY <1>1, LayoutInvariance, PTL
=============================================================================
