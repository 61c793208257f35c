----------------------------- MODULE SyncArena -----------------------------
(***************************************************************************)
(* arena_b::SyncArena (src/lib.rs): an Arena behind a std Mutex, used by   *)
(* several threads.  scope(f) locks, opens a Scope of the arena, runs the  *)
(* closure and drops first the Scope and then the lock, also when the      *)
(* closure panics; a poisoned lock is used as if it were not.              *)
(*                                                                         *)
(* The arena is the one of module Arena with a guard for each thread.      *)
(* A closure that calls the SyncArena it runs in locks a Mutex its thread  *)
(* already has, which std leaves open: the call panics or never returns.   *)
(***************************************************************************)
EXTENDS Arena

CONSTANT NoThread

VARIABLES
  holder,    \* the thread that has the lock
  waiting,   \* the threads blocked in the lock() of scope
  reading,   \* the threads blocked in the lock() of stats or bytes_allocated
  poisoned   \* has a thread panicked with the lock?

lock == <<holder, waiting, reading, poisoned>>
syncVars == <<vars, lock>>

SyncInit ==
  /\ Init
  /\ holder = NoThread /\ waiting = {} /\ reading = {} /\ poisoned = FALSE

\* scope is called.
CallScope(t) ==
  /\ t \notin waiting \cup reading /\ holder # t
  /\ waiting' = waiting \cup {t}
  /\ UNCHANGED <<vars, holder, reading, poisoned>>

\* lock() succeeds, or fails with a poison error whose guard is taken all the
\* same; the scope is opened.
EnterUnlessPoisoned(t) ==
  /\ t \in waiting /\ holder = NoThread /\ ~poisoned
  /\ OpenScope(t)
  /\ holder' = t /\ waiting' = waiting \ {t}
  /\ UNCHANGED <<reading, poisoned>>
EnterRegardless(t) ==
  /\ t \in waiting
  /\ OpenScope(t)
  /\ holder' = t /\ waiting' = waiting \ {t}
  /\ UNCHANGED <<reading, poisoned>>
Enter(t) ==
  /\ t \in waiting /\ holder = NoThread
  /\ OpenScope(t)
  /\ holder' = t /\ waiting' = waiting \ {t}
  /\ UNCHANGED <<reading, poisoned>>

\* stats and bytes_allocated are called, lock, read and unlock; they take the
\* guard of a poisoned lock as well.
CallStats(t) ==
  /\ t \notin waiting \cup reading /\ holder # t
  /\ reading' = reading \cup {t}
  /\ UNCHANGED <<vars, holder, waiting, poisoned>>

Stats(t) ==
  /\ Alive
  /\ t \in reading /\ holder = NoThread
  /\ reading' = reading \ {t}
  /\ UNCHANGED <<vars, holder, waiting, poisoned>>

\* The closure is running, not waiting for the lock its own thread has.
Running == holder # NoThread /\ holder \notin waiting \cup reading

\* The closure calls scope, or stats or bytes_allocated, of the SyncArena it
\* runs in and is blocked for good; that the call panics instead is Panic.
Reenter ==
  /\ Alive /\ Running
  /\ \/ waiting' = waiting \cup {holder} /\ UNCHANGED reading
     \/ reading' = reading \cup {holder} /\ UNCHANGED waiting
  /\ UNCHANGED <<vars, holder, poisoned>>

\* What the closure does with its Scope.
InClosure ==
  /\ Running
  /\ \/ \E l \in Layouts : AllocateRaw(l)
     \/ TakeCheckpoint
     \/ \E c \in held : RewindToCheckpoint(c)
     \/ ResetScope(holder)
  /\ UNCHANGED lock

\* The closure returns: the scope is dropped, then the lock.
Return ==
  /\ Running
  /\ DropScope(holder)
  /\ holder' = NoThread
  /\ UNCHANGED <<waiting, reading, poisoned>>

\* The closure panics: the same while unwinding, and the lock is poisoned.
PanicKeepsScope ==
  /\ Running /\ Alive
  /\ holder' = NoThread
  /\ poisoned' = TRUE
  /\ scopes' = [scopes EXCEPT ![holder] = NoScope]
  /\ UNCHANGED <<memory, stats, checkpoints, current_checkpoint_id, held, outOfOrder,
                 outcome, waiting, reading>>
PanicKeepsLock ==
  /\ Running
  /\ DropScope(holder)
  /\ poisoned' = TRUE
  /\ UNCHANGED <<holder, waiting, reading>>
Panic ==
  /\ Running
  /\ DropScope(holder)
  /\ holder' = NoThread
  /\ poisoned' = TRUE
  /\ UNCHANGED <<waiting, reading>>

SyncNext ==
  \/ \E t \in Guards : CallScope(t) \/ Enter(t) \/ CallStats(t) \/ Stats(t)
  \/ Reenter \/ InClosure \/ Return \/ Panic

\* A free lock is taken by one of the threads waiting for it, not by any
\* particular one: a std Mutex is not fair.  Closures that run end.
SyncSpec ==
  /\ SyncInit /\ [][SyncNext]_syncVars
  /\ WF_syncVars(\E t \in Guards : Enter(t) \/ Stats(t))
  /\ WF_syncVars(Return \/ Panic)

-----------------------------------------------------------------------------
(* Properties *)

\* The type invariant of the lock: exactly the thread that has it has an open
\* scope, and a thread waits in one call at a time.
LockOK ==
  /\ holder \in Guards \cup {NoThread} /\ poisoned \in BOOLEAN
  /\ waiting \subseteq Guards /\ reading \subseteq Guards /\ waiting \cap reading = {}
  /\ \A t \in Guards : scopes[t] # NoScope <=> holder = t

\* Whoever gets the lock finds an empty arena: nothing that an earlier
\* closure allocated is left, in the chunks or in the counters stats()
\* reports, even if that closure panicked halfway.
FreeLockMeansEmptyArena ==
  holder = NoThread =>
    /\ log = <<>> /\ checkpoints = <<>>
    /\ current_chunk = 1 /\ \A i \in DOMAIN chunks : chunks[i].used = 0
    /\ bytes_used = 0 /\ allocation_count = 0

\* Only a closure that re-enters keeps the lock: otherwise, whether closures
\* return or panic, it is free again and again.
LockIsFreedUnlessReentered ==
  holder # NoThread ~> holder = NoThread \/ holder \in waiting \cup reading \/ ~Alive

WaitedFor ==
  /\ waiting \cup reading # {} /\ holder = NoThread
  /\ Alive /\ current_checkpoint_id < MaxId

\* A panic in one closure never locks the others out: a free lock that
\* threads wait for goes to one of them, again and again.  (Running out of
\* memory ends the process, and the number of scopes is bounded by MaxId.)
WaitingThreadsGetIn ==
  []<>~WaitedFor \/ []<><<\E t \in Guards : Enter(t) \/ Stats(t)>>_syncVars

=============================================================================
