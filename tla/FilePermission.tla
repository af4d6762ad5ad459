--------------------------- MODULE FilePermission ---------------------------
(***************************************************************************)
(* What FilePermissionResolver promises the requesters of one file: any    *)
(* number of locks, one access at a time, no deletion while a lock is held *)
(* and neither a lock nor an access once a deletion has been granted.      *)
(***************************************************************************)
CONSTANT Request

VARIABLES
  lockers,    \* the requests holding a lock
  accessors,  \* the requests holding the access
  deleters,   \* the requests holding the right to delete
  doomed      \* whether the right to delete has ever been granted

permVars == <<lockers, accessors, deleters, doomed>>

PermInit ==
  /\ lockers = {}
  /\ accessors = {}
  /\ deleters = {}
  /\ doomed = FALSE

(* A deletion is granted, by itself or together with the release of the     *)
(* last lock, which lockers' then shows.                                   *)
GrantUnlink ==
  /\ lockers' = {}
  /\ doomed' = TRUE
  /\ \E r \in Request : deleters' = deleters \cup {r}

NoGrant == UNCHANGED <<deleters, doomed>>

GrantLock(r) ==
  /\ ~doomed
  /\ lockers' = lockers \cup {r}
  /\ UNCHANGED accessors /\ NoGrant

ReleaseLock(r) ==
  /\ lockers' = lockers \ {r}
  /\ UNCHANGED accessors
  /\ NoGrant \/ GrantUnlink

GrantAccess(r) ==
  /\ ~doomed
  /\ accessors = {}
  /\ accessors' = {r}
  /\ UNCHANGED lockers /\ NoGrant

(* The access passes to the next request, or to nobody: nobody may write   *)
(* then, and a deletion may follow.                                        *)
ReleaseAccess(r) ==
  /\ accessors = {r}
  /\ UNCHANGED lockers
  /\ \/ ~doomed /\ (\E s \in Request : accessors' = {s}) /\ NoGrant
     \/ accessors' = {} /\ (NoGrant \/ GrantUnlink)

Unlink ==
  /\ UNCHANGED <<lockers, accessors>>
  /\ GrantUnlink

(* A finished deletion leaves the file doomed; the next one is granted.     *)
ReleaseUnlink(r) ==
  /\ r \in deleters
  /\ UNCHANGED <<lockers, accessors, doomed>>
  /\ \/ deleters' = deleters \ {r}
     \/ lockers = {} /\ \E s \in Request : deleters' = (deleters \ {r}) \cup {s}

PermNext ==
  \/ \E r \in Request :
       \/ GrantLock(r) \/ ReleaseLock(r)
       \/ GrantAccess(r) \/ ReleaseAccess(r) \/ ReleaseUnlink(r)
  \/ Unlink

PermSpec == PermInit /\ [][PermNext]_permVars
=============================================================================
