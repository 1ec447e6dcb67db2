--------------------------- MODULE OtaBuffer_proofs ---------------------------
(***************************************************************************)
(* Sharing the OTA buffer, for any number of threads and of mappings: no   *)
(* reference is lost or counted twice, and who has the buffer has a live   *)
(* mapping.                                                                *)
(***************************************************************************)
EXTENDS OtaBuffer, FiniteSetTheorems, TLAPS

(***************************************************************************)
(* The inductive invariant.  A thread's reference outlives its pointer: it *)
(* clears the pointer first and gives the reference up under the lock.  A  *)
(* mapping outlives its last reference in the same way, until the thread   *)
(* that took it out of the context has unmapped it.                        *)
(***************************************************************************)
TypeInv ==
    /\ TypeOK
    /\ maps \in 0..MaxMaps

\* The threads whose reference is counted.
Holders == {t \in Threads : client[t] # NULL \/ pc[t] \in {"release", "drop"}}

\* Nothing runs the handler before the first signal.
HandlerIdle ==
    /\ pc["handler"] = "idle"
    /\ \A c \in Contexts : pc[c] \notin {"signalled", "exit"}

\* The count is the number of holders, and they have a mapping to share.
Counted ==
    /\ refcount = Cardinality(Holders)
    /\ base_addr # NULL <=> Holders # {}

\* A thread that has the buffer is in no call, and has the shared mapping.
ClientsShare ==
    \A t \in Threads : client[t] # NULL => client[t] = base_addr /\ pc[t] = "idle"

\* Each mapping that was taken out of the context is one thread's to unmap,
\* and no mapping is made twice.
TornApart ==
    /\ base_addr <= maps
    /\ \A c \in Contexts : torn[c] # NULL =>
           /\ pc[c] = "unmap"
           /\ torn[c] # base_addr
           /\ torn[c] <= maps
           /\ \A d \in Contexts : torn[d] = torn[c] => d = c

\* The process has the shared mapping and those about to be unmapped.
MappedIsOwned ==
    mapped = ({base_addr} \cup {torn[c] : c \in Contexts}) \ {NULL}

Sound ==
    /\ HandlerIdle
    /\ Counted
    /\ ClientsShare
    /\ TornApart
    /\ MappedIsOwned

IInv == TypeInv /\ (signals = 0 => Sound)

-----------------------------------------------------------------------------
(***************************************************************************)
(* Types.                                                                  *)
(***************************************************************************)
\* The initial values have their types.
LEMMA InitTypes == Init => TypeInv
BY OtaAssumption DEF Init, TypeInv, TypeOK, NULL, Contexts, ctx

\* Every step keeps the types.  The count stays a natural number because a
\* release tests it first; a mapping is numbered within the bound.
LEMMA NextTypes == TypeInv /\ [Next]_vars => TypeInv'
<1> SUFFICES ASSUME TypeInv, [Next]_vars PROVE TypeInv'
  OBVIOUS
<1> USE OtaAssumption DEF TypeInv, TypeOK, Goto, At, NULL, Contexts, ctx, pthread_mutex_lock
<1>1. ASSUME NEW t \in Threads, Get_Lock(t) PROVE TypeInv'
  BY <1>1 DEF Get_Lock
<1>2. ASSUME NEW t \in Threads, Get_Shared(t) PROVE TypeInv'
  BY <1>2 DEF Get_Shared
<1>3. ASSUME NEW t \in Threads, Get_Map(t) PROVE TypeInv'
  <2>1. maps' \in 1..MaxMaps
    BY <1>3 DEF Get_Map
  <2> QED
    BY <1>3, <2>1 DEF Get_Map
<1>4. ASSUME NEW t \in Threads, Get_MapFails(t) PROVE TypeInv'
  BY <1>4 DEF Get_MapFails
<1>5. ASSUME NEW c \in Contexts, Release_Clear(c) PROVE TypeInv'
  <2>1. client' = [client EXCEPT ![ClientOf(c)] = NULL]
    BY <1>5 DEF Release_Clear
  <2>2. client' \in [Threads -> 0..MaxMaps]
    <3>1. client \in [Threads -> 0..MaxMaps] /\ NULL \in 0..MaxMaps
      OBVIOUS
    <3> HIDE OtaAssumption DEF TypeInv, TypeOK, Contexts, ctx, NULL
    <3> QED
      BY <2>1, <3>1
  <2>3. pc' = [pc EXCEPT ![c] = "release"] /\ UNCHANGED <<ctx, lock, torn, mapped, maps, signals>>
    BY <1>5 DEF Release_Clear
  <2> QED
    BY <2>2, <2>3
<1>6. ASSUME NEW c \in Contexts, Release_Lock(c) PROVE TypeInv'
  BY <1>6 DEF Release_Lock
<1>7. ASSUME NEW c \in Contexts, Release_Drop(c) PROVE TypeInv'
  <2>1. refcount' \in Nat
    BY <1>7 DEF Release_Drop
  <2>2. base_addr' \in 0..MaxMaps /\ torn' \in [Contexts -> 0..MaxMaps]
    BY <1>7 DEF Release_Drop
  <2> QED
    BY <1>7, <2>1, <2>2 DEF Release_Drop
<1>8. ASSUME NEW c \in Contexts, Release_Unmap(c) PROVE TypeInv'
  <2>1. pc' \in [Contexts -> {"idle", "get", "signalled", "release", "drop", "unmap", "exit"}]
    BY <1>8 DEF Release_Unmap
  <2>2. mapped' \subseteq 1..MaxMaps
    BY <1>8 DEF Release_Unmap
  <2>3. torn' \in [Contexts -> 0..MaxMaps]
    BY <1>8 DEF Release_Unmap
  <2>4. UNCHANGED <<base_addr, refcount, lock, client, maps, signals>>
    BY <1>8 DEF Release_Unmap
  <2> QED
    BY <2>1, <2>2, <2>3, <2>4
<1>9. CASE Signal
  BY <1>9 DEF Signal
<1>10. CASE Handler_Exit
  BY <1>10 DEF Handler_Exit
<1>11. CASE UNCHANGED vars
  BY <1>11 DEF vars
<1> QED
  BY <1>1, <1>2, <1>3, <1>4, <1>5, <1>6, <1>7, <1>8, <1>9, <1>10, <1>11
     DEF Next, GetStep, ReleaseStep

-----------------------------------------------------------------------------
(***************************************************************************)
(* The steps before the first signal.                                      *)
(***************************************************************************)
LEMMA InitSound == Init => Sound
<1> SUFFICES ASSUME Init PROVE Sound
  OBVIOUS
<1>1. Holders = {}
  BY DEF Init, Holders, NULL, Contexts
<1>2. Counted
  BY <1>1, FS_EmptySet DEF Init, Counted
<1>3. HandlerIdle /\ ClientsShare /\ TornApart
  BY DEF Init, HandlerIdle, ClientsShare, TornApart, NULL, Contexts
<1>4. MappedIsOwned
  BY DEF Init, MappedIsOwned, NULL
<1> QED
  BY <1>2, <1>3, <1>4 DEF Sound

\* There are finitely many holders, so that one more adds one to their number
\* and one fewer takes one away.
LEMMA HoldersFinite == IsFiniteSet(Holders)
BY OtaAssumption, FS_Subset DEF Holders

\* One more holder.
LEMMA HolderAdded ==
    ASSUME NEW t, t \notin Holders, Holders' = Holders \cup {t}
    PROVE  Cardinality(Holders') = Cardinality(Holders) + 1
BY HoldersFinite, FS_AddElement

\* One holder less.
LEMMA HolderRemoved ==
    ASSUME NEW t, t \in Holders, Holders' = Holders \ {t}
    PROVE  Cardinality(Holders') = Cardinality(Holders) - 1
BY HoldersFinite, FS_RemoveElement

\* Steps that keep the count, the mappings and the holders: a call that takes
\* the lock, a failed mapping, and a thread that clears its pointer.
LEMMA QuietStep ==
    ASSUME TypeInv, TypeInv', Sound, NEW t \in Threads,
           Get_Lock(t) \/ Get_MapFails(t) \/ Release_Clear(t) \/ Release_Lock(t)
    PROVE  Sound'
<1> USE OtaAssumption DEF Sound, TypeInv, TypeOK, Goto, At, NULL, Contexts, ctx, pthread_mutex_lock
<1>1. pc[t] \in {"idle", "get", "release"} /\ pc'[t] \in {"get", "idle", "release", "drop"}
  BY DEF Get_Lock, Get_MapFails, Release_Clear, Release_Lock, HandlerIdle
<1>2. \A c \in Contexts : c # t => pc'[c] = pc[c]
  BY DEF Get_Lock, Get_MapFails, Release_Clear, Release_Lock
<1>3. UNCHANGED <<base_addr, refcount, torn, mapped, maps>>
  BY DEF Get_Lock, Get_MapFails, Release_Clear, Release_Lock
<1>4. \A s \in Threads : client'[s] # NULL => client'[s] = client[s] /\ s # t
  BY DEF Get_Lock, Get_MapFails, Release_Clear, Release_Lock, ClientOf, ClientsShare
<1>5. Holders' = Holders
  <2>1. CASE Get_Lock(t) \/ Get_MapFails(t) \/ Release_Lock(t)
    BY <2>1 DEF Get_Lock, Get_MapFails, Release_Lock, Holders
  <2>2. CASE Release_Clear(t)
    <3>1. t \in Holders /\ pc'[t] = "release"
      BY <2>2 DEF Release_Clear, HandlerIdle, Holders
    <3>2. \A s \in Threads : s # t => client'[s] = client[s]
      BY <2>2 DEF Release_Clear, ClientOf
    <3> QED
      BY <3>1, <3>2, <1>2 DEF Holders
  <2> QED
    BY <2>1, <2>2
<1>6. Counted'
  BY <1>3, <1>5 DEF Counted
<1>7. ClientsShare'
  BY <1>2, <1>3, <1>4 DEF ClientsShare
<1>8. TornApart' /\ MappedIsOwned'
  BY <1>1, <1>2, <1>3 DEF TornApart, MappedIsOwned
<1>9. HandlerIdle'
  BY <1>1, <1>2 DEF HandlerIdle
<1> QED
  BY <1>6, <1>7, <1>8, <1>9

\* One more thread shares the mapping.
LEMMA SharedStep ==
    ASSUME TypeInv, Sound, NEW t \in Threads, Get_Shared(t)
    PROVE  Sound'
<1> USE DEF Sound, TypeInv, TypeOK, Goto, At, NULL, Contexts, ctx
<1>1. /\ pc[t] = "get" /\ pc' = [pc EXCEPT ![t] = "idle"]
      /\ base_addr # NULL
      /\ client[t] = NULL /\ client' = [client EXCEPT ![t] = base_addr]
      /\ refcount' = refcount + 1
      /\ UNCHANGED <<base_addr, torn, mapped, maps>>
  BY DEF Get_Shared, ClientsShare
<1>2. t \notin Holders /\ Holders' = Holders \cup {t}
  BY <1>1 DEF Holders
<1>3. Counted'
  BY <1>1, <1>2, HolderAdded DEF Counted
<1>4. ClientsShare'
  BY <1>1 DEF ClientsShare
<1>5. TornApart'
  BY <1>1 DEF TornApart
<1>6. MappedIsOwned' /\ HandlerIdle'
  BY <1>1, OtaAssumption DEF MappedIsOwned, HandlerIdle
<1> QED
  BY <1>3, <1>4, <1>5, <1>6

\* The first reference makes the mapping, which is none that is being unmapped.
LEMMA MapStep ==
    ASSUME TypeInv, TypeInv', Sound, NEW t \in Threads, Get_Map(t)
    PROVE  Sound'
<1> USE DEF Sound, TypeInv, TypeOK, Goto, At, NULL, Contexts, ctx
<1>1. /\ pc[t] = "get" /\ pc' = [pc EXCEPT ![t] = "idle"]
      /\ base_addr = NULL /\ base_addr' = maps' /\ maps' = maps + 1
      /\ client[t] = NULL /\ client' = [client EXCEPT ![t] = base_addr']
      /\ refcount' = 1
      /\ mapped' = mapped \cup {base_addr'}
      /\ UNCHANGED torn
  BY DEF Get_Map, ClientsShare
<1>2. base_addr' # NULL /\ (\A c \in Contexts : torn[c] # base_addr')
  BY <1>1, OtaAssumption DEF TornApart
<1>3. Holders = {} /\ Holders' = {t}
  <2>1. Holders = {}
    BY <1>1 DEF Counted
  <2>2. t \notin Holders /\ Holders' = Holders \cup {t}
    BY <1>1, <1>2 DEF Holders
  <2> QED
    BY <2>1, <2>2
<1>4. Counted'
  BY <1>1, <1>2, <1>3, FS_Singleton DEF Counted
<1>5. ClientsShare'
  <2>1. \A s \in Threads : client[s] = NULL
    BY <1>3 DEF Holders
  <2> QED
    BY <1>1, <2>1 DEF ClientsShare
<1>6. TornApart'
  BY <1>1, <1>2, OtaAssumption DEF TornApart
<1>7. MappedIsOwned'
  BY <1>1, <1>2 DEF MappedIsOwned
<1>8. HandlerIdle'
  BY <1>1, OtaAssumption DEF HandlerIdle
<1> QED
  BY <1>4, <1>5, <1>6, <1>7, <1>8

\* A reference is given up; the last one takes the mapping out of the context,
\* and no thread has it then.
LEMMA DropStep ==
    ASSUME TypeInv, Sound, NEW t \in Threads, Release_Drop(t)
    PROVE  Sound'
<1> USE DEF Sound, TypeInv, TypeOK, Goto, At, NULL, Contexts, ctx
<1>1. /\ pc[t] = "drop" /\ pc' = [pc EXCEPT ![t] = "unmap"]
      /\ client[t] = NULL /\ torn[t] = NULL
      /\ UNCHANGED <<client, mapped, maps>>
  BY DEF Release_Drop, ClientsShare, TornApart
<1>2. t \in Holders /\ Holders' = Holders \ {t}
  BY <1>1 DEF Holders
<1>3. refcount > 0 /\ base_addr # NULL
  <2>1. refcount # 0
    BY <1>2, HoldersFinite, FS_EmptySet DEF Counted
  <2> QED
    BY <1>2, <2>1 DEF Counted
<1>4. refcount' = refcount - 1 /\ refcount' = Cardinality(Holders')
  <2>1. refcount' = refcount - 1
    BY <1>3 DEF Release_Drop
  <2>2. Cardinality(Holders') = Cardinality(Holders) - 1
    BY <1>2, HolderRemoved, Zenon
  <2> QED
    BY <2>1, <2>2 DEF Counted
<1>5. HandlerIdle'
  BY <1>1, OtaAssumption DEF HandlerIdle
<1>6. IsFiniteSet(Holders')
  BY <1>2, HoldersFinite, FS_RemoveElement
<1>7. CASE refcount' = 0
  <2>1. base_addr' = NULL /\ torn' = [torn EXCEPT ![t] = base_addr]
    BY <1>3, <1>7 DEF Release_Drop
  <2>2. Holders' = {}
    BY <1>4, <1>6, <1>7, FS_EmptySet
  <2>3. Counted'
    BY <1>4, <2>1, <2>2 DEF Counted
  <2>4. ClientsShare'
    BY <2>2 DEF Holders, ClientsShare
  <2>5. TornApart'
    BY <1>1, <1>3, <2>1 DEF TornApart
  <2>6. MappedIsOwned'
    BY <1>1, <2>1 DEF MappedIsOwned
  <2> QED
    BY <1>5, <2>3, <2>4, <2>5, <2>6
<1>8. CASE refcount' # 0
  <2>1. UNCHANGED <<base_addr, torn>>
    BY <1>3, <1>8 DEF Release_Drop
  <2>2. Holders' # {}
    BY <1>4, <1>8, FS_EmptySet
  <2>3. Counted'
    BY <1>3, <1>4, <2>1, <2>2 DEF Counted
  <2>4. ClientsShare' /\ TornApart' /\ MappedIsOwned'
    BY <1>1, <2>1 DEF ClientsShare, TornApart, MappedIsOwned
  <2> QED
    BY <1>5, <2>3, <2>4
<1> QED
  BY <1>7, <1>8

\* What a thread unmaps outside the lock is its own.
LEMMA UnmapStep ==
    ASSUME TypeInv, Sound, NEW t \in Threads, Release_Unmap(t)
    PROVE  Sound'
<1> USE DEF Sound, TypeInv, TypeOK, Goto, At, NULL, Contexts, ctx
<1>1. t # "handler"
  BY OtaAssumption
<1>2. /\ pc[t] = "unmap" /\ pc' = [pc EXCEPT ![t] = "idle"]
      /\ mapped' = mapped \ {torn[t]}
      /\ torn' = [torn EXCEPT ![t] = NULL]
      /\ UNCHANGED <<base_addr, refcount, client, maps>>
  BY <1>1 DEF Release_Unmap
<1>3. Holders' = Holders
  BY <1>2 DEF Holders
<1>4. Counted' /\ ClientsShare'
  BY <1>2, <1>3 DEF Counted, ClientsShare
<1>5. TornApart'
  BY <1>2 DEF TornApart
<1>6. MappedIsOwned'
  <2>1. torn[t] = NULL \/ (torn[t] # base_addr /\ \A d \in Contexts : torn[d] = torn[t] => d = t)
    BY DEF TornApart
  <2> QED
    BY <1>2, <2>1 DEF MappedIsOwned
<1>7. HandlerIdle'
  BY <1>1, <1>2 DEF HandlerIdle
<1> QED
  BY <1>4, <1>5, <1>6, <1>7

\* A step before the first signal is a thread's, or is the signal.
LEMMA NextSound ==
    ASSUME TypeInv, TypeInv', Sound, [Next]_vars, signals' = 0
    PROVE  Sound'
<1>1. ASSUME NEW t \in Threads, GetStep(t) PROVE Sound'
  <2>1. CASE Get_Lock(t) \/ Get_MapFails(t)
    BY <2>1, QuietStep
  <2>2. CASE Get_Shared(t)
    BY <2>2, SharedStep
  <2>3. CASE Get_Map(t)
    BY <2>3, MapStep
  <2> QED
    BY <1>1, <2>1, <2>2, <2>3 DEF GetStep
<1>2. ASSUME NEW t \in Threads, ReleaseStep(t) PROVE Sound'
  <2>1. CASE Release_Clear(t) \/ Release_Lock(t)
    BY <2>1, QuietStep
  <2>2. CASE Release_Drop(t)
    BY <2>2, DropStep
  <2>3. CASE Release_Unmap(t)
    BY <2>3, UnmapStep
  <2> QED
    BY <1>2, <2>1, <2>2, <2>3 DEF ReleaseStep
<1>3. ~ReleaseStep("handler")
  BY OtaAssumption DEF ReleaseStep, Release_Clear, Release_Lock, Release_Drop, Release_Unmap, At, Sound, HandlerIdle, Contexts
<1>4. ~Signal
  BY DEF Signal, TypeInv, TypeOK
<1>5. ~Handler_Exit
  BY DEF Handler_Exit, At, Sound, HandlerIdle
<1>6. CASE UNCHANGED vars
  BY <1>6 DEF vars, ctx, Sound, HandlerIdle, Counted, Holders, ClientsShare, TornApart, MappedIsOwned
<1> QED
  BY <1>1, <1>2, <1>3, <1>4, <1>5, <1>6 DEF Next, Contexts

\* Signals are only ever added.
LEMMA SignalsGrow ==
    ASSUME TypeInv, [Next]_vars, signals' = 0
    PROVE  signals = 0
<1>1. signals' = signals \/ signals' = signals + 1
  BY DEF Next, vars, ctx, GetStep, ReleaseStep, Get_Lock, Get_Shared, Get_Map, Get_MapFails,
         Release_Clear, Release_Lock, Release_Drop, Release_Unmap, Signal, Handler_Exit
<1> QED
  BY <1>1 DEF TypeInv, TypeOK

\* The invariant holds in every state of every behaviour.
THEOREM Invariance == Spec => []IInv
<1>1. Init => IInv
  BY InitTypes, InitSound DEF IInv
<1>2. IInv /\ [Next]_vars => IInv'
  <2> SUFFICES ASSUME IInv, [Next]_vars PROVE IInv'
    OBVIOUS
  <2>1. TypeInv'
    BY NextTypes DEF IInv
  <2>2. ASSUME signals' = 0 PROVE Sound'
    BY <2>1, <2>2, SignalsGrow, NextSound DEF IInv
  <2> QED
    BY <2>1, <2>2 DEF IInv
<1> QED
  BY <1>1, <1>2, PTL DEF Spec

-----------------------------------------------------------------------------
(***************************************************************************)
(* What the invariant says about the buffer.                               *)
(***************************************************************************)
\* For any number of threads and signals the reference count never goes below
\* zero, although the handler releases without a reference.
THEOREM TypeCorrect == Spec => []TypeOK
<1>1. IInv => TypeOK
  BY DEF IInv, TypeInv
<1> QED
  BY <1>1, Invariance, PTL

\* A thread that has the buffer has a live mapping, the same as every other
\* thread's, although the last release unmaps outside the lock.
THEOREM ClientsMapped == Spec => []NoDanglingClient
<1>1. IInv => NoDanglingClient
  BY DEF IInv, Sound, ClientsShare, MappedIsOwned, NoDanglingClient
<1> QED
  BY <1>1, Invariance, PTL

\* With no call under way the count is the number of threads that have the
\* buffer, and there is a mapping exactly when there are some.
THEOREM Balanced == Spec => []ReferencesBalanced
<1>1. IInv => ReferencesBalanced
  <2> SUFFICES ASSUME IInv, signals = 0, \A c \in Contexts : pc[c] = "idle"
               PROVE  /\ refcount = Cardinality({t \in Threads : client[t] # NULL})
                      /\ mapped = (IF refcount = 0 THEN {} ELSE {base_addr})
    BY DEF ReferencesBalanced
  <2>1. Sound /\ TypeInv
    BY DEF IInv
  <2>2. Holders = {t \in Threads : client[t] # NULL}
    BY DEF Holders, Contexts
  <2>3. refcount = 0 <=> base_addr = NULL
    BY <2>1, HoldersFinite, FS_EmptySet DEF Sound, Counted
  <2>4. \A c \in Contexts : torn[c] = NULL
    BY <2>1 DEF Sound, TornApart
  <2>5. mapped = {base_addr} \ {NULL}
    BY <2>1, <2>4 DEF Sound, MappedIsOwned, Contexts
  <2> QED
    BY <2>1, <2>2, <2>3, <2>5 DEF Sound, Counted
<1> QED
  BY <1>1, Invariance, PTL
=============================================================================
