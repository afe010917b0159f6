-------------------------- MODULE LockGuardRelease --------------------------
(***************************************************************************)
(* LockGuardReleaseVisitor: the calls of release() and unlock() of a       *)
(* translation unit, in the order in which they are written; the visitor   *)
(* knows nothing of blocks, branches or loops, and nothing of the calls    *)
(* that shouldProcessExpr() skips, in a macro or on a NOLINT line: they    *)
(* are "hidden".                                                           *)
(***************************************************************************)
EXTENDS Traversal

CONSTANT Pointers   \* the variables that point to mutexes

VARIABLES
  m_potential_mutex_not_unlocked,  \* variables with the result of release()
  m_release_unique_shared_lock,    \* calls whose result is taken for unused
  done,                            \* was printDiagnostic called
  reports,                         \* diagnostics emitted
  pointer_calls,                   \* history: see PointerCall
  discarded                        \* history: see Discard

history == <<pointer_calls, discarded>>
vars == <<open, next, m_potential_mutex_not_unlocked, m_release_unique_shared_lock, done,
          reports, history>>

(* What becomes of the result of release().  "pass": it is returned, given  *)
(* to a function, written to a field, or cast on its way to a variable.     *)
Fates == {"discard", "pass", "unlock"}

(* A release() whose result goes into a variable, or pointer->unlock().     *)
PointerCall ==
  [call : Nodes, what : {"release", "unlock"}, pointer : Pointers, hidden : BOOLEAN]

(* A release() whose result is thrown away.  *)
Discard == [call : Nodes, hidden : BOOLEAN]

-----------------------------------------------------------------------------

Init ==
  /\ TraversalInit
  /\ m_potential_mutex_not_unlocked = {}
  /\ m_release_unique_shared_lock = {}
  /\ done = FALSE
  /\ reports = {}
  /\ pointer_calls = {}
  /\ discarded = {}

(* UnitedVisitor calls VisitCXXMemberCallExpr. *)
VisitCall ==
  /\ ~done
  /\ VisitLeaf
  /\ UNCHANGED done

(* VisitCXXMemberCallExpr of a call that is hidden. *)
Skip == UNCHANGED <<m_potential_mutex_not_unlocked, m_release_unique_shared_lock, reports>>

RememberPointerCall(what, pointer, hidden) ==
  /\ pointer_calls' = pointer_calls \cup
       {[call |-> next, what |-> what, pointer |-> pointer, hidden |-> hidden]}
  /\ UNCHANGED discarded

RememberDiscard(fate, hidden) ==
  /\ discarded' = discarded \cup
       (IF fate = "discard" THEN {[call |-> next, hidden |-> hidden]} ELSE {})
  /\ UNCHANGED pointer_calls

(* VisitCXXMemberCallExpr of release(), where a variable is initialised     *)
(* with the result or is assigned it.                                       *)
VisitStoredRelease(pointer, hidden) ==
  /\ VisitCall
  /\ RememberPointerCall("release", pointer, hidden)
  /\ \/ hidden /\ Skip
     \/ /\ ~hidden
        /\ m_potential_mutex_not_unlocked' = m_potential_mutex_not_unlocked \cup {pointer}
        /\ UNCHANGED <<m_release_unique_shared_lock, reports>>

(* Faulty variant of VisitRelease: only the first call is kept. *)
VisitRelease_First(fate, hidden) ==
  /\ VisitCall
  /\ RememberDiscard(fate, hidden)
  /\ \/ hidden /\ Skip
     \/ /\ ~hidden
        /\ m_release_unique_shared_lock' =
             IF fate = "unlock" \/ m_release_unique_shared_lock # {}
               THEN m_release_unique_shared_lock ELSE {next}
        /\ reports' = IF fate = "unlock"
                        THEN reports \cup {[what |-> "bad-code", of |-> next]} ELSE reports
        /\ UNCHANGED m_potential_mutex_not_unlocked

(* VisitCXXMemberCallExpr of release() anywhere else; "unlock" is           *)
(* lock.release()->unlock().                                                *)
VisitRelease(fate, hidden) ==
  /\ VisitCall
  /\ RememberDiscard(fate, hidden)
  /\ \/ hidden /\ Skip
     \/ /\ ~hidden
        /\ m_release_unique_shared_lock' =
             IF fate = "unlock" THEN m_release_unique_shared_lock
             ELSE m_release_unique_shared_lock \cup {next}
        /\ reports' = IF fate = "unlock"
                        THEN reports \cup {[what |-> "bad-code", of |-> next]} ELSE reports
        /\ UNCHANGED m_potential_mutex_not_unlocked

(* Faulty variant of VisitPointerUnlock: every variable is erased. *)
VisitPointerUnlock_All(pointer, hidden) ==
  /\ VisitCall
  /\ RememberPointerCall("unlock", pointer, hidden)
  /\ \/ hidden /\ Skip
     \/ /\ ~hidden
        /\ m_potential_mutex_not_unlocked' = {}
        /\ UNCHANGED <<m_release_unique_shared_lock, reports>>

(* VisitCXXMemberCallExpr of pointer->unlock(). *)
VisitPointerUnlock(pointer, hidden) ==
  /\ VisitCall
  /\ RememberPointerCall("unlock", pointer, hidden)
  /\ \/ hidden /\ Skip
     \/ /\ ~hidden
        /\ m_potential_mutex_not_unlocked' = m_potential_mutex_not_unlocked \ {pointer}
        /\ UNCHANGED <<m_release_unique_shared_lock, reports>>

(* VisitCXXMemberCallExpr of unlock() of a lock: the branch for unlock()    *)
(* does not return, and what follows is about release().  A hidden one does *)
(* nothing, like one that comes while no variable waits.                    *)
VisitLockUnlock ==
  /\ VisitCall
  /\ m_release_unique_shared_lock' =
       IF m_potential_mutex_not_unlocked # {}
         THEN m_release_unique_shared_lock \cup {next} ELSE m_release_unique_shared_lock
  /\ UNCHANGED <<m_potential_mutex_not_unlocked, reports, history>>

printDiagnostic ==
  /\ ~done
  /\ done' = TRUE
  /\ reports' = reports
       \cup {[what |-> "unused", of |-> call] : call \in m_release_unique_shared_lock}
       \cup {[what |-> "not-unlocked", of |-> p] : p \in m_potential_mutex_not_unlocked}
  /\ UNCHANGED <<open, next, m_potential_mutex_not_unlocked,
                 m_release_unique_shared_lock, history>>

Next ==
  \/ \E p \in Pointers, hidden \in BOOLEAN :
       VisitStoredRelease(p, hidden) \/ VisitPointerUnlock(p, hidden)
  \/ \E fate \in Fates, hidden \in BOOLEAN : VisitRelease(fate, hidden)
  \/ VisitLockUnlock
  \/ printDiagnostic

Spec == Init /\ [][Next]_vars

-----------------------------------------------------------------------------

(* The variables have their types; no call is both reported as bad code and *)
(* kept as unused.                                                          *)
TypeOK ==
  /\ TraversalTypeOK({})
  /\ m_potential_mutex_not_unlocked \subseteq Pointers
  /\ m_release_unique_shared_lock \subseteq Nodes
  /\ done \in BOOLEAN
  /\ \A r \in reports :
       \/ r \in [what : {"bad-code"}, of : Nodes \ m_release_unique_shared_lock]
       \/ r \in [what : {"unused"}, of : Nodes]
       \/ r \in [what : {"not-unlocked"}, of : Pointers]
  /\ pointer_calls \subseteq PointerCall
  /\ discarded \subseteq Discard

(* The calls that the visitor looks at, and the releases among them that no *)
(* unlock() through the same variable follows.                              *)
Seen(what) == {c \in pointer_calls : c.what = what /\ ~c.hidden}
Pending ==
  {r \in Seen("release") :
     ~\E u \in Seen("unlock") : u.pointer = r.pointer /\ u.call > r.call}

(* A variable waits to be reported exactly if, outside of hidden code, a    *)
(* mutex was released into it and no unlock() through it came later.        *)
PendingReleasesAreExact == m_potential_mutex_not_unlocked = {r.pointer : r \in Pending}

Unused(call) == [what |-> "unused", of |-> call]
NotUnlocked(pointer) == [what |-> "not-unlocked", of |-> pointer]

(* When all is printed, a release() whose result is thrown away is reported *)
(* unless it is hidden, and a variable if and only if, outside of hidden    *)
(* code, it got a mutex that no later unlock() through it can have unlocked.*)
LockedMutexesAreReported ==
  done =>
    /\ \A d \in discarded : Unused(d.call) \in reports <=> ~d.hidden
    /\ \A p \in Pointers : NotUnlocked(p) \in reports <=> \E r \in Pending : r.pointer = p

(* Is the mutex of a release() unlocked, by any call, before the variable   *)
(* gets another one?                                                        *)
IsUnlocked(r) ==
  \E u \in pointer_calls :
    /\ u.what = "unlock" /\ u.pointer = r.pointer /\ u.call > r.call
    /\ \A s \in pointer_calls :
         s.what = "release" /\ s.pointer = r.pointer /\ s.call > r.call => s.call > u.call

(* Every mutex that is released into a variable and not unlocked through it *)
(* is reported, where none of this is hidden ("Detects                      *)
(* (unique|shared)_lock::release without unlock call on returned mutex",    *)
(* Checks.md).  The code does not keep this: see the README.                *)
ReleasesAreFollowed ==
  done =>
    \A r \in Seen("release") :
      (\A c \in pointer_calls : c.pointer = r.pointer => ~c.hidden) /\ ~IsUnlocked(r)
        => NotUnlocked(r.pointer) \in reports

=============================================================================
