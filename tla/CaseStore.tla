------------------------------ MODULE CaseStore ------------------------------
(***************************************************************************)
(* The local open-item board: one SQLite connection shared by every        *)
(* request thread, serialised by one lock.  A record is four statements    *)
(* and a commit; a statement may fail, and then the transaction it was in  *)
(* is either rolled back by SQLite or left open on the shared connection,  *)
(* to be read by everyone and committed by whoever commits next.  A commit *)
(* may take effect and the caller never hear of it.  The process may       *)
(* crash, which loses what was not committed.                              *)
(***************************************************************************)
EXTENDS Naturals, FiniteSets

CONSTANTS
  Caller,              \* request threads
  Tenant, Item,
  Label,               \* access labels
  MaxWrites, MaxFailures, MaxCrashes,      \* bounds
  NoRow, Nobody

ASSUME StoreAssumption ==
  /\ Nobody \notin Caller
  /\ MaxWrites \in Nat /\ MaxFailures \in Nat /\ MaxCrashes \in Nat

Key == Tenant \X Item
Record == [serial : 1..MaxWrites, labels : SUBSET Label]
Database == [row : [Key -> Record \cup {NoRow}], acl : [Key -> SUBSET Label]]

VARIABLES
  lock,                \* who holds the connection's lock
  step,                \* step[c]: the statement caller c executes next, or its return
  writing,             \* writing[c]: the key and record c was called with
  conn,                \* the database as the connection sees it
  disk,                \* the database as last committed
  acked,               \* acked[k]: the record last acknowledged to a caller
  doubtful,            \* doubtful[k]: records attempted since, and not acknowledged
  shown,               \* the keys the last reader was shown
  writes, failures, crashes

vars == <<lock, step, writing, conn, disk, acked, doubtful, shown, writes,
          failures, crashes>>

Statement == {"insert row", "delete acl", "insert acl", "commit"}
Inside == Statement \cup {"return"}

TypeOK ==
  /\ lock \in Caller \cup {Nobody}
  /\ step \in [Caller -> Inside \cup {"idle"}]
  /\ writing \in [Caller -> [key : Key, record : Record] \cup {NoRow}]
  /\ conn \in Database
  /\ disk \in Database
  /\ acked \in [Key -> Record \cup {NoRow}]
  /\ doubtful \in [Key -> SUBSET Record]
  /\ shown \subseteq Key
  /\ writes \in 0..MaxWrites
  /\ failures \in 0..MaxFailures
  /\ crashes \in 0..MaxCrashes

Empty == [row |-> [k \in Key |-> NoRow], acl |-> [k \in Key |-> {}]]

Init ==
  /\ lock = Nobody
  /\ step = [c \in Caller |-> "idle"]
  /\ writing = [c \in Caller |-> NoRow]
  /\ conn = Empty
  /\ disk = Empty
  /\ acked = [k \in Key |-> NoRow]
  /\ doubtful = [k \in Key |-> {}]
  /\ shown = {}
  /\ writes = 0
  /\ failures = 0
  /\ crashes = 0

-----------------------------------------------------------------------------
KeyOf(c) == writing[c].key
RecordOf(c) == writing[c].record

\* record: the lock is taken before the first statement.
Acquire(c) ==
  /\ lock = Nobody
  /\ writes < MaxWrites
  /\ lock' = c
  /\ writes' = writes + 1
  /\ \E k \in Key, labels \in SUBSET Label :
       writing' = [writing EXCEPT ![c] =
         [key |-> k, record |-> [serial |-> writes + 1, labels |-> labels]]]
  /\ step' = [step EXCEPT ![c] = "insert row"]
  /\ UNCHANGED <<conn, disk, acked, doubtful, shown, failures, crashes>>

InsertRow(c) ==
  /\ step[c] = "insert row"
  /\ conn' = [conn EXCEPT !.row[KeyOf(c)] = RecordOf(c)]
  /\ step' = [step EXCEPT ![c] = "delete acl"]
  /\ UNCHANGED <<lock, writing, disk, acked, doubtful, shown, writes, failures,
                 crashes>>

\* Slip: the labels of the row that was replaced are left behind.
DeleteAcl_Skipped(c) ==
  /\ step[c] = "delete acl"
  /\ step' = [step EXCEPT ![c] = "insert acl"]
  /\ UNCHANGED <<lock, writing, conn, disk, acked, doubtful, shown, writes,
                 failures, crashes>>

DeleteAcl(c) ==
  /\ step[c] = "delete acl"
  /\ conn' = [conn EXCEPT !.acl[KeyOf(c)] = {}]
  /\ step' = [step EXCEPT ![c] = "insert acl"]
  /\ UNCHANGED <<lock, writing, disk, acked, doubtful, shown, writes, failures,
                 crashes>>

InsertAcl(c) ==
  /\ step[c] = "insert acl"
  /\ conn' = [conn EXCEPT !.acl[KeyOf(c)] = @ \cup RecordOf(c).labels]
  /\ step' = [step EXCEPT ![c] = "commit"]
  /\ UNCHANGED <<lock, writing, disk, acked, doubtful, shown, writes, failures,
                 crashes>>

Release(c) ==
  /\ lock' = Nobody
  /\ step' = [step EXCEPT ![c] = "idle"]
  /\ writing' = [writing EXCEPT ![c] = NoRow]

\* Slip: the call returns with its transaction open.
Commit_Forgotten(c) ==
  /\ step[c] = "commit"
  /\ doubtful' = [doubtful EXCEPT ![KeyOf(c)] = @ \cup {RecordOf(c)}]
  /\ step' = [step EXCEPT ![c] = "return"]
  /\ UNCHANGED <<lock, writing, conn, disk, acked, shown, writes, failures, crashes>>

\* Whatever the connection holds is committed, an earlier caller's
\* unfinished statements included; the caller has not heard of it yet.
Commit(c) ==
  /\ step[c] = "commit"
  /\ disk' = conn
  /\ doubtful' = [doubtful EXCEPT ![KeyOf(c)] = @ \cup {RecordOf(c)}]
  /\ step' = [step EXCEPT ![c] = "return"]
  /\ UNCHANGED <<lock, writing, conn, acked, shown, writes, failures, crashes>>

Return(c) ==
  /\ step[c] = "return"
  /\ acked' = [acked EXCEPT ![KeyOf(c)] = RecordOf(c)]
  /\ doubtful' = [doubtful EXCEPT ![KeyOf(c)] = {}]
  /\ Release(c)
  /\ UNCHANGED <<conn, disk, shown, writes, failures, crashes>>

\* The commit reports an error after it took effect.
CommitFailsLate(c) ==
  /\ step[c] = "return"
  /\ failures < MaxFailures
  /\ failures' = failures + 1
  /\ Release(c)
  /\ UNCHANGED <<conn, disk, acked, doubtful, shown, writes, crashes>>

\* What a failing statement leaves on the connection: the statements before
\* it, some of its own rows, or nothing of the transaction.
AfterFailure(c) ==
  {conn, disk} \cup
    (IF step[c] = "insert acl"
       THEN {[conn EXCEPT !.acl[KeyOf(c)] = ls] : ls \in SUBSET RecordOf(c).labels}
       ELSE {})

\* Slip: the lock is released on success only.
StatementFails_KeepsLock(c) ==
  /\ step[c] \in Statement
  /\ failures < MaxFailures
  /\ failures' = failures + 1
  /\ conn' \in AfterFailure(c)
  /\ doubtful' = [doubtful EXCEPT ![KeyOf(c)] = @ \cup {RecordOf(c)}]
  /\ step' = [step EXCEPT ![c] = "idle"]
  /\ writing' = [writing EXCEPT ![c] = NoRow]
  /\ UNCHANGED <<lock, disk, acked, shown, writes, crashes>>

\* The error leaves record, and the lock with it; nothing rolls back.
StatementFails(c) ==
  /\ step[c] \in Statement
  /\ failures < MaxFailures
  /\ failures' = failures + 1
  /\ conn' \in AfterFailure(c)
  /\ doubtful' = [doubtful EXCEPT ![KeyOf(c)] = @ \cup {RecordOf(c)}]
  /\ Release(c)
  /\ UNCHANGED <<disk, acked, shown, writes, crashes>>

-----------------------------------------------------------------------------
\* The labels NOT IN filter: with no entitlement the list is (NULL), which
\* no label is found to be outside of.
Lacks(labels, entitlements) ==
  entitlements # {} /\ labels \ entitlements # {}

OpenItems(tenant, entitlements) ==
  {k \in Key : /\ k[1] = tenant
               /\ conn.row[k] # NoRow
               /\ ~Lacks(conn.acl[k], entitlements)}

\* Slip: reads do not take the lock.
Read_Unlocked(tenant, entitlements) ==
  /\ shown' = OpenItems(tenant, entitlements)
  /\ UNCHANGED <<lock, step, writing, conn, disk, acked, doubtful, writes,
                 failures, crashes>>

Read(tenant, entitlements) ==
  /\ lock = Nobody
  /\ shown' = OpenItems(tenant, entitlements)
  /\ UNCHANGED <<lock, step, writing, conn, disk, acked, doubtful, writes,
                 failures, crashes>>

\* The process dies; its transaction dies with it and the file is reopened.
Crash ==
  /\ crashes < MaxCrashes
  /\ crashes' = crashes + 1
  /\ lock' = Nobody
  /\ step' = [c \in Caller |-> "idle"]
  /\ writing' = [c \in Caller |-> NoRow]
  /\ conn' = disk
  /\ UNCHANGED <<disk, acked, doubtful, shown, writes, failures>>

Work(c) ==
  \/ InsertRow(c) \/ DeleteAcl(c) \/ InsertAcl(c) \/ Commit(c) \/ Return(c)
  \/ StatementFails(c) \/ CommitFailsLate(c)

Next ==
  \/ \E c \in Caller : Acquire(c) \/ Work(c)
  \/ \E tenant \in Tenant, entitlements \in SUBSET Label : Read(tenant, entitlements)
  \/ Crash

Spec == Init /\ [][Next]_vars

\* A thread inside record keeps executing: no statement waits on the lock.
FairSpec == Spec /\ \A c \in Caller : WF_vars(Work(c))

-----------------------------------------------------------------------------
(* An acknowledged row survives a crash, whatever failed in between: what  *)
(* is on disk for a key is the record last acknowledged, or one attempted  *)
(* after it (_record_locked commits before it returns).                    *)
AcknowledgedSurvives ==
  \A k \in Key : disk.row[k] \in {acked[k]} \cup doubtful[k]

(* A row never carries another record's labels: on disk, and on the        *)
(* connection while nobody writes, a row whose writes all returned has     *)
(* exactly the labels of its record, even when other callers' statements   *)
(* failed or were committed late (the DELETE before the INSERTs).          *)
LabelsFollowRow ==
  \A k \in Key :
    /\ disk.row[k] # NoRow /\ doubtful[k] = {} =>
         disk.acl[k] = disk.row[k].labels
    /\ lock = Nobody /\ conn.row[k] # NoRow /\ doubtful[k] = {} =>
         conn.acl[k] = conn.row[k].labels

(* The board shows a reader every acknowledged row of the tenant that      *)
(* carries no label the reader lacks, no other, and no half-written one,   *)
(* for keys whose writes all returned (open_items under the lock).         *)
BoardShowsEntitledRows ==
  [][\A tenant \in Tenant : \A entitlements \in (SUBSET Label) \ {{}} :
       Read(tenant, entitlements) =>
         \A k \in Key : doubtful[k] = {} =>
           (k \in shown' <=> /\ k[1] = tenant
                             /\ acked[k] # NoRow
                             /\ acked[k].labels \subseteq entitlements)]_vars

(* The board is never left locked: whoever writes is done sooner or later, *)
(* also when a statement fails (the lock is a context manager).            *)
LockReleased == \A c \in Caller : lock = c ~> lock # c

-----------------------------------------------------------------------------
(* open_items's docstring: "An empty entitlement set therefore sees        *)
(* untagged rows and nothing else".                                        *)
EmptyEntitlementsSeeUntagged ==
  [][\A tenant \in Tenant : Read(tenant, {}) =>
       \A k \in shown' : conn.acl[k] = {}]_vars
=============================================================================
