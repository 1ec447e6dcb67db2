------------------------------ MODULE OtaBuffer ------------------------------
(***************************************************************************)
(* The shared mapping of the OTA buffer: rtss_upd_get_ota_buffer and       *)
(* rtss_upd_release_ota_buffer of                                          *)
(* apps/rtss-updater/lib/rtss_update/src/rtss_update_lib.c, called by      *)
(* several threads, and the signal handler of the updater that calls the   *)
(* second one from wherever its thread is.                                 *)
(*                                                                         *)
(* Threads take the lock in their own time; what happens under the lock is *)
(* one step, except that a signal may come between taking and leaving it.  *)
(***************************************************************************)
EXTENDS Integers, FiniteSets

CONSTANTS Threads,     \* the threads that use the buffer
          Main,        \* the one that signals are delivered to
          MaxMaps,     \* bound on the mappings ever made
          MaxSignals   \* bound on the signals

ASSUME OtaAssumption ==
    /\ IsFiniteSet(Threads)
    /\ Main \in Threads
    /\ MaxMaps \in Nat
    /\ MaxSignals \in Nat
    /\ "handler" \notin Threads

NULL == 0
Contexts == Threads \cup {"handler"}   \* the handler runs on the thread Main

VARIABLES
    base_addr,  \* rtss_ota_ctx.base_addr: a mapping, or NULL
    refcount,   \* rtss_ota_ctx.refcount
    lock,       \* rtss_ota_ctx.lock: the context that holds it, or "free"
    pc,         \* where each context is
    client,     \* each thread's pOtaBaseAddr
    torn,       \* each context's addr: what it is about to unmap
    mapped,     \* the mappings the process has
    maps,       \* mappings made
    signals,    \* signals received
    exited      \* exit() was called

ctx  == <<base_addr, refcount>>
vars == <<ctx, lock, pc, client, torn, mapped, maps, signals, exited>>

Init ==
    /\ base_addr = NULL /\ refcount = 0
    /\ lock = "free"
    /\ pc = [c \in Contexts |-> "idle"]
    /\ client = [t \in Threads |-> NULL]
    /\ torn = [c \in Contexts |-> NULL]
    /\ mapped = {}
    /\ maps = 0 /\ signals = 0 /\ exited = FALSE

\* The client data a context works on: the handler's is Main's.
ClientOf(c) == IF c = "handler" THEN Main ELSE c

\* A context runs unless the process is gone or it is Main interrupted.
Running(c) == ~exited /\ (c = Main => pc["handler"] = "idle")

At(c, l) == Running(c) /\ pc[c] = l
Goto(c, l) == pc' = [pc EXCEPT ![c] = l]

pthread_mutex_lock(c) ==
    /\ lock = "free"
    /\ lock' = c

-----------------------------------------------------------------------------
(***************************************************************************)
(* rtss_upd_get_ota_buffer                                                 *)
(***************************************************************************)
\* A thread asks for the buffer once before it gives it back.
Get_Lock(t) ==
    /\ At(t, "idle")
    /\ client[t] = NULL
    /\ pthread_mutex_lock(t)
    /\ Goto(t, "get")
    /\ UNCHANGED <<ctx, client, torn, mapped, maps, signals, exited>>

\* Mutant: the reference is not counted.
Get_Shared_NotCounted(t) ==
    /\ At(t, "get")
    /\ base_addr # NULL
    /\ client' = [client EXCEPT ![t] = base_addr]
    /\ lock' = "free"
    /\ Goto(t, "idle")
    /\ UNCHANGED <<ctx, torn, mapped, maps, signals, exited>>

Get_Shared(t) ==
    /\ At(t, "get")
    /\ base_addr # NULL
    /\ client' = [client EXCEPT ![t] = base_addr]
    /\ refcount' = refcount + 1
    /\ lock' = "free"
    /\ Goto(t, "idle")
    /\ UNCHANGED <<base_addr, torn, mapped, maps, signals, exited>>

\* map_ota_buffer_locked: opening the device, the ioctl or mmap may fail.
Get_Map(t) ==
    /\ At(t, "get")
    /\ base_addr = NULL
    /\ maps < MaxMaps
    /\ maps' = maps + 1
    /\ mapped' = mapped \cup {maps'}
    /\ base_addr' = maps'
    /\ refcount' = 1
    /\ client' = [client EXCEPT ![t] = maps']
    /\ lock' = "free"
    /\ Goto(t, "idle")
    /\ UNCHANGED <<torn, signals, exited>>

\* Mutant: the return after a failed mapping forgets the lock.
Get_MapFails_KeepsLock(t) ==
    /\ At(t, "get")
    /\ base_addr = NULL
    /\ Goto(t, "idle")
    /\ UNCHANGED <<ctx, lock, client, torn, mapped, maps, signals, exited>>

Get_MapFails(t) ==
    /\ At(t, "get")
    /\ base_addr = NULL
    /\ lock' = "free"
    /\ Goto(t, "idle")
    /\ UNCHANGED <<ctx, client, torn, mapped, maps, signals, exited>>

-----------------------------------------------------------------------------
(***************************************************************************)
(* rtss_upd_release_ota_buffer                                             *)
(***************************************************************************)
\* Called by a thread that has the buffer, and by the handler in any case;
\* the caller's pointer is cleared before the lock is taken.
Release_Clear(c) ==
    /\ \/ c \in Threads /\ At(c, "idle") /\ client[c] # NULL
       \/ At(c, "signalled")
    /\ client' = [client EXCEPT ![ClientOf(c)] = NULL]
    /\ Goto(c, "release")
    /\ UNCHANGED <<ctx, lock, torn, mapped, maps, signals, exited>>

Release_Lock(c) ==
    /\ At(c, "release")
    /\ pthread_mutex_lock(c)
    /\ Goto(c, "drop")
    /\ UNCHANGED <<ctx, client, torn, mapped, maps, signals, exited>>

\* Mutant: the count may go below zero.
Release_Drop_Unchecked(c) ==
    /\ At(c, "drop")
    /\ refcount' = refcount - 1
    /\ IF refcount' = 0
       THEN /\ torn' = [torn EXCEPT ![c] = base_addr]
            /\ base_addr' = NULL
       ELSE UNCHANGED <<torn, base_addr>>
    /\ lock' = "free"
    /\ Goto(c, "unmap")
    /\ UNCHANGED <<client, mapped, maps, signals, exited>>

\* The reference is given up and, with the last one, the mapping taken out of
\* the context.
Release_Drop(c) ==
    /\ At(c, "drop")
    /\ IF refcount <= 0
       THEN UNCHANGED <<ctx, torn>>
       ELSE /\ refcount' = refcount - 1
            /\ IF refcount' = 0
               THEN /\ torn' = [torn EXCEPT ![c] = base_addr]
                    /\ base_addr' = NULL
               ELSE UNCHANGED <<torn, base_addr>>
    /\ lock' = "free"
    /\ Goto(c, "unmap")
    /\ UNCHANGED <<client, mapped, maps, signals, exited>>

\* Mutant: the mapping is never given back.
Release_Unmap_Never(c) ==
    /\ At(c, "unmap")
    /\ torn' = [torn EXCEPT ![c] = NULL]
    /\ Goto(c, IF c = "handler" THEN "exit" ELSE "idle")
    /\ UNCHANGED <<ctx, lock, client, mapped, maps, signals, exited>>

\* munmap, outside the lock, and the return.
Release_Unmap(c) ==
    /\ At(c, "unmap")
    /\ mapped' = mapped \ {torn[c]}
    /\ torn' = [torn EXCEPT ![c] = NULL]
    /\ Goto(c, IF c = "handler" THEN "exit" ELSE "idle")
    /\ UNCHANGED <<ctx, lock, client, maps, signals, exited>>

-----------------------------------------------------------------------------
(***************************************************************************)
(* rtss_updater_exit_handler                                               *)
(***************************************************************************)
Signal ==
    /\ ~exited
    /\ pc["handler"] = "idle"
    /\ signals < MaxSignals
    /\ signals' = signals + 1
    /\ Goto("handler", "signalled")
    /\ UNCHANGED <<ctx, lock, client, torn, mapped, maps, exited>>

Handler_Exit ==
    /\ At("handler", "exit")
    /\ exited' = TRUE
    /\ UNCHANGED <<ctx, lock, pc, client, torn, mapped, maps, signals>>

-----------------------------------------------------------------------------
GetStep(t) == Get_Lock(t) \/ Get_Shared(t) \/ Get_Map(t) \/ Get_MapFails(t)

ReleaseStep(c) ==
    \/ Release_Clear(c)
    \/ Release_Lock(c)
    \/ Release_Drop(c)
    \/ Release_Unmap(c)

Next ==
    \/ \E t \in Threads : GetStep(t)
    \/ \E c \in Contexts : ReleaseStep(c)
    \/ Signal
    \/ Handler_Exit

Spec == Init /\ [][Next]_vars

\* Every context is scheduled and gives the lock back, and the other threads
\* do not keep the handler from a lock that is free again and again.
FairSpec ==
    /\ Spec
    /\ SF_vars(Release_Lock("handler"))
    /\ \A t \in Threads : WF_vars(Get_Shared(t) \/ Get_Map(t) \/ Get_MapFails(t))
    /\ \A c \in Contexts : WF_vars(ReleaseStep(c))
    /\ WF_vars(Handler_Exit)

-----------------------------------------------------------------------------
\* The reference count never goes below zero, by whatever releases without a
\* reference.
TypeOK ==
    /\ base_addr \in 0..MaxMaps
    /\ refcount \in Nat
    /\ lock \in Contexts \cup {"free"}
    /\ pc \in [Contexts -> {"idle", "get", "signalled", "release", "drop", "unmap", "exit"}]
    /\ client \in [Threads -> 0..MaxMaps]
    /\ torn \in [Contexts -> 0..MaxMaps]
    /\ mapped \subseteq 1..MaxMaps
    /\ signals \in 0..MaxSignals

\* A thread that has the buffer has a live mapping, and the same one as any
\* other thread, although the last release unmaps outside the lock while
\* others may already be mapping again (the comments at
\* rtss_update_lib.c:217-220 and :274).
NoDanglingClient ==
    signals = 0 =>
        \A t \in Threads : client[t] # NULL => client[t] \in mapped /\ client[t] = base_addr

\* With no call under way the count is the number of threads that have the
\* buffer, and it is mapped exactly when there are some: no failed mapping,
\* refused release or race of the two loses a reference or a mapping.
ReferencesBalanced ==
    signals = 0 /\ (\A c \in Contexts : pc[c] = "idle") =>
        /\ refcount = Cardinality({t \in Threads : client[t] # NULL})
        /\ mapped = (IF refcount = 0 THEN {} ELSE {base_addr})

\* A signal ends the program unless it interrupts the main thread while that
\* thread holds the lock, which the handler then waits for in vain
\* (rtss_updater_exit_handler calls rtss_upd_release_ota_buffer).
HandlerExits ==
    signals > 0 ~> exited \/ lock = Main
=============================================================================
