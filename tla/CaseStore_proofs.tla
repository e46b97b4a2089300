--------------------------- MODULE CaseStore_proofs ---------------------------
(***************************************************************************)
(* For any number of threads, tenants, items, labels, failures and         *)
(* crashes: acknowledged rows survive, labels follow their row, and        *)
(* readers see exactly the rows they are entitled to.                      *)
(***************************************************************************)
EXTENDS CaseStore, TLAPS

(* The caller inside record is the one that holds the lock. *)
OneWriter ==
  \A c \in Caller : (step[c] \in Inside) <=> (lock = c)

WriterHasRecord ==
  \A c \in Caller : step[c] \in Inside =>
    KeyOf(c) \in Key /\ RecordOf(c) \in Record

(* What the statements so far have put on the connection, and a commit that *)
(* took effect on the disk. *)
Written ==
  \A c \in Caller :
    /\ step[c] \in {"delete acl", "insert acl", "commit"} =>
         conn.row[KeyOf(c)] = RecordOf(c)
    /\ step[c] = "insert acl" => conn.acl[KeyOf(c)] = {}
    /\ step[c] = "commit" => conn.acl[KeyOf(c)] = RecordOf(c).labels
    /\ step[c] = "return" => /\ conn = disk
                             /\ disk.row[KeyOf(c)] = RecordOf(c)
                             /\ disk.acl[KeyOf(c)] = RecordOf(c).labels

(* Nobody has changed k since the last commit, failures apart. *)
Untouched(k) ==
  \A c \in Caller : step[c] \in {"delete acl", "insert acl", "commit"} => KeyOf(c) # k

(* On the connection, too, a row is the one acknowledged or one attempted. *)
ConnectionAccounted ==
  \A k \in Key : Untouched(k) => conn.row[k] \in {acked[k]} \cup doubtful[k]

(* The connection and the disk agree wherever every write returned. *)
CommittedAgrees ==
  \A k \in Key : Untouched(k) /\ doubtful[k] = {} =>
    conn.row[k] = disk.row[k] /\ conn.acl[k] = disk.acl[k]

DiskLabels ==
  \A k \in Key : disk.row[k] # NoRow /\ doubtful[k] = {} =>
    disk.acl[k] = disk.row[k].labels

IInv ==
  /\ TypeOK
  /\ OneWriter
  /\ WriterHasRecord
  /\ Written
  /\ AcknowledgedSurvives
  /\ ConnectionAccounted
  /\ CommittedAgrees
  /\ DiskLabels

LEMMA InvInit == Init => IInv
<1> SUFFICES ASSUME Init PROVE IInv
  OBVIOUS
<1> USE DEF Init, Empty
<1>1. TypeOK
  <2>1. Empty \in Database
    BY DEF Database
  <2> QED BY <2>1, StoreAssumption DEF TypeOK
<1>2. OneWriter /\ WriterHasRecord /\ Written
  BY StoreAssumption DEF OneWriter, WriterHasRecord, Written, Inside, Statement
<1>3. AcknowledgedSurvives /\ ConnectionAccounted /\ CommittedAgrees /\ DiskLabels
  BY DEF AcknowledgedSurvives, ConnectionAccounted, CommittedAgrees, DiskLabels
<1> QED BY <1>1, <1>2, <1>3 DEF IInv

(* When c is inside record, nobody else is. *)
LEMMA Alone ==
  ASSUME OneWriter, NEW c \in Caller, step[c] \in Inside,
         NEW d \in Caller, step[d] \in Inside
  PROVE  d = c
BY DEF OneWriter

(* A caller inside record is writing something: its record is typed, and   *)
(* its key is the only one touched.                                        *)
LEMMA InsideRecord ==
  ASSUME IInv, NEW c \in Caller, step[c] \in Inside
  PROVE  /\ KeyOf(c) \in Key /\ RecordOf(c) \in Record /\ RecordOf(c).labels \subseteq Label
         /\ lock = c
         /\ \A k \in Key \ {KeyOf(c)} : Untouched(k)
         /\ \A d \in Caller \ {c} : step[d] = "idle"
<1>1. \A d \in Caller \ {c} : step[d] \notin Inside
  BY Alone DEF IInv
<1> QED BY <1>1 DEF IInv, WriterHasRecord, OneWriter, Untouched, Record, TypeOK, Inside,
                    Statement

(* The call is over: the lock is free and nothing is being written.        *)
LEMMA ReleaseEffect ==
  ASSUME IInv, NEW c \in Caller, step[c] \in Inside, Release(c)
  PROVE  /\ lock' = Nobody
         /\ \A d \in Caller : step'[d] = "idle"
         /\ step' \in [Caller -> Inside \cup {"idle"}]
         /\ writing' \in [Caller -> [key : Key, record : Record] \cup {NoRow}]
         /\ OneWriter' /\ WriterHasRecord' /\ Written' /\ \A k \in Key : Untouched(k)'
<1>1. step' = [step EXCEPT ![c] = "idle"] /\ step \in [Caller -> Inside \cup {"idle"}]
  BY DEF Release, IInv, TypeOK
<1>2. \A d \in Caller : step'[d] = "idle"
  BY <1>1, InsideRecord
<1>3. lock' = Nobody /\ writing' = [writing EXCEPT ![c] = NoRow]
  BY DEF Release
<1> QED BY <1>1, <1>2, <1>3, StoreAssumption
        DEF OneWriter, WriterHasRecord, Written, Untouched, Inside, Statement, IInv, TypeOK

(* A statement that has put its part on the connection: only its key was   *)
(* changed, and what it has written so far is there.                       *)
LEMMA StatementDone ==
  ASSUME IInv, NEW c \in Caller, step[c] \in Statement,
         NEW s \in {"delete acl", "insert acl", "commit"}, step' = [step EXCEPT ![c] = s],
         UNCHANGED <<lock, writing, disk, acked, doubtful, shown, writes, failures, crashes>>,
         conn' \in Database,
         \A k \in Key \ {KeyOf(c)} : conn'.row[k] = conn.row[k] /\ conn'.acl[k] = conn.acl[k],
         conn'.row[KeyOf(c)] = RecordOf(c),
         s = "insert acl" => conn'.acl[KeyOf(c)] = {},
         s = "commit" => conn'.acl[KeyOf(c)] = RecordOf(c).labels
  PROVE  IInv'
<1> USE DEF IInv
<1>1. TypeOK'
  BY DEF TypeOK, Inside, Statement
<1>2. step \in [Caller -> Inside \cup {"idle"}]
  BY DEF TypeOK
<1>3. \A d \in Caller : KeyOf(d)' = KeyOf(d) /\ RecordOf(d)' = RecordOf(d)
  BY DEF KeyOf, RecordOf
<1>4. OneWriter' /\ WriterHasRecord'
  BY <1>2, <1>3 DEF OneWriter, WriterHasRecord, Inside, Statement
<1>5. Written'
  BY <1>2, <1>3, InsideRecord DEF Written, Inside
<1>6. \A k \in Key : Untouched(k)' => k # KeyOf(c) /\ Untouched(k)
  BY <1>2, <1>3, InsideRecord DEF Untouched, Inside
<1>7. ConnectionAccounted' /\ CommittedAgrees'
  BY <1>6 DEF ConnectionAccounted, CommittedAgrees
<1>8. AcknowledgedSurvives' /\ DiskLabels'
  BY DEF AcknowledgedSurvives, DiskLabels
<1> QED BY <1>1, <1>4, <1>5, <1>7, <1>8

LEMMA InvStep == IInv /\ [Next]_vars => IInv'
<1> SUFFICES ASSUME IInv, [Next]_vars PROVE IInv'
  OBVIOUS
<1> USE DEF IInv
<1>1. /\ step \in [Caller -> Inside \cup {"idle"}]
      /\ conn \in Database /\ disk \in Database
      /\ conn.row \in [Key -> Record \cup {NoRow}] /\ conn.acl \in [Key -> SUBSET Label]
      /\ acked \in [Key -> Record \cup {NoRow}] /\ doubtful \in [Key -> SUBSET Record]
  BY DEF TypeOK, Database
<1>2. ASSUME NEW c \in Caller, Acquire(c) PROVE IInv'
  <2>1. PICK k \in Key, labels \in SUBSET Label :
          writing' = [writing EXCEPT ![c] =
            [key |-> k, record |-> [serial |-> writes + 1, labels |-> labels]]]
    BY <1>2 DEF Acquire
  <2>2. /\ lock = Nobody /\ lock' = c /\ step' = [step EXCEPT ![c] = "insert row"]
        /\ UNCHANGED <<conn, disk, acked, doubtful, shown, failures, crashes>>
    BY <1>2 DEF Acquire
  <2>3. \A d \in Caller : step[d] = "idle"
    BY <1>1, <2>2, StoreAssumption DEF OneWriter
  <2>4. writes' \in 1..MaxWrites /\ writes' = writes + 1
    <3>1. writes < MaxWrites /\ writes' = writes + 1
      BY <1>2 DEF Acquire
    <3>2. writes \in 0..MaxWrites /\ MaxWrites \in Nat
      BY StoreAssumption DEF TypeOK
    <3> QED BY <3>1, <3>2
  <2> DEFINE r == [serial |-> writes + 1, labels |-> labels]
             w == [key |-> k, record |-> r]
  <2>5. r \in Record /\ w \in [key : Key, record : Record]
    BY <2>4 DEF Record
  <2>6. KeyOf(c)' = k /\ RecordOf(c)' = r /\ writing' = [writing EXCEPT ![c] = w]
    BY <2>1 DEF KeyOf, RecordOf, TypeOK
  <2> HIDE DEF r, w
  <2>7. TypeOK'
    <3>1. writes' \in 0..MaxWrites
      BY <2>4, StoreAssumption
    <3>2. step' \in [Caller -> Inside \cup {"idle"}]
      BY <1>1, <2>2 DEF Inside, Statement
    <3>3. writing' \in [Caller -> [key : Key, record : Record] \cup {NoRow}]
      BY <2>5, <2>6 DEF TypeOK
    <3> QED BY <2>2, <3>1, <3>2, <3>3 DEF TypeOK
  <2>8. OneWriter' /\ WriterHasRecord' /\ Written'
    BY <1>1, <2>2, <2>3, <2>5, <2>6 DEF OneWriter, WriterHasRecord, Written, Inside, Statement
  <2>9. \A q \in Key : Untouched(q)
    BY <2>3 DEF Untouched
  <2>10. ConnectionAccounted' /\ CommittedAgrees'
    BY <2>2, <2>9 DEF ConnectionAccounted, CommittedAgrees
  <2>11. AcknowledgedSurvives' /\ DiskLabels'
    BY <2>2 DEF AcknowledgedSurvives, DiskLabels
  <2> QED BY <2>7, <2>8, <2>10, <2>11
<1>3. ASSUME NEW c \in Caller, InsertRow(c) PROVE IInv'
  <2>1. step[c] \in Statement
    BY <1>3 DEF InsertRow, Statement
  <2>2. KeyOf(c) \in Key /\ RecordOf(c) \in Record
    BY <2>1, InsideRecord DEF Inside
  <2>3. conn' = [conn EXCEPT !.row[KeyOf(c)] = RecordOf(c)]
    BY <1>3 DEF InsertRow
  <2>4. conn'.row = [conn.row EXCEPT ![KeyOf(c)] = RecordOf(c)] /\ conn'.acl = conn.acl
    BY <1>1, <2>3 DEF Database
  <2>5. conn' \in Database
    BY <1>1, <2>2, <2>3 DEF Database
  <2> QED BY <1>1, <1>3, <2>1, <2>2, <2>4, <2>5, StatementDone DEF InsertRow
<1>4. ASSUME NEW c \in Caller, DeleteAcl(c) PROVE IInv'
  <2>1. step[c] \in Statement /\ conn.row[KeyOf(c)] = RecordOf(c)
    BY <1>4 DEF DeleteAcl, Statement, Written
  <2>2. KeyOf(c) \in Key
    BY <2>1, InsideRecord DEF Inside
  <2>3. conn' = [conn EXCEPT !.acl[KeyOf(c)] = {}]
    BY <1>4 DEF DeleteAcl
  <2>4. conn'.row = conn.row /\ conn'.acl = [conn.acl EXCEPT ![KeyOf(c)] = {}]
    BY <1>1, <2>3 DEF Database
  <2>5. conn' \in Database
    BY <1>1, <2>2, <2>3 DEF Database
  <2> QED BY <1>1, <1>4, <2>1, <2>2, <2>4, <2>5, StatementDone DEF DeleteAcl
<1>5. ASSUME NEW c \in Caller, InsertAcl(c) PROVE IInv'
  <2>1. step[c] \in Statement /\ conn.row[KeyOf(c)] = RecordOf(c) /\ conn.acl[KeyOf(c)] = {}
    BY <1>5 DEF InsertAcl, Statement, Written
  <2>2. KeyOf(c) \in Key /\ RecordOf(c).labels \subseteq Label
    BY <2>1, InsideRecord DEF Inside
  <2>3. conn' = [conn EXCEPT !.acl[KeyOf(c)] = conn.acl[KeyOf(c)] \cup RecordOf(c).labels]
    BY <1>5 DEF InsertAcl
  <2>4. conn'.row = conn.row /\ conn'.acl = [conn.acl EXCEPT ![KeyOf(c)] = RecordOf(c).labels]
    BY <1>1, <2>1, <2>3 DEF Database
  <2>5. conn' \in Database
    BY <1>1, <2>1, <2>2, <2>3 DEF Database
  <2> QED BY <1>1, <1>5, <2>1, <2>2, <2>4, <2>5, StatementDone DEF InsertAcl
<1>6. ASSUME NEW c \in Caller, Commit(c) PROVE IInv'
  <2>1. /\ step[c] \in Statement
        /\ conn.row[KeyOf(c)] = RecordOf(c) /\ conn.acl[KeyOf(c)] = RecordOf(c).labels
    BY <1>6 DEF Commit, Statement, Written
  <2>2. /\ disk' = conn /\ step' = [step EXCEPT ![c] = "return"]
        /\ doubtful' = [doubtful EXCEPT ![KeyOf(c)] = @ \cup {RecordOf(c)}]
        /\ UNCHANGED <<lock, writing, conn, acked, shown, writes, failures, crashes>>
    BY <1>6 DEF Commit
  <2>3. /\ KeyOf(c) \in Key /\ RecordOf(c) \in Record
        /\ \A k \in Key \ {KeyOf(c)} : Untouched(k)
        /\ \A d \in Caller \ {c} : step[d] = "idle"
    BY <2>1, InsideRecord DEF Inside
  <2>4. /\ doubtful'[KeyOf(c)] = doubtful[KeyOf(c)] \cup {RecordOf(c)}
        /\ \A k \in Key \ {KeyOf(c)} : doubtful'[k] = doubtful[k]
        /\ doubtful' \in [Key -> SUBSET Record]
    BY <1>1, <2>2, <2>3
  <2>5. \A d \in Caller : KeyOf(d)' = KeyOf(d) /\ RecordOf(d)' = RecordOf(d)
    BY <2>2 DEF KeyOf, RecordOf
  <2>6. OneWriter' /\ WriterHasRecord' /\ Written'
    BY <1>1, <2>1, <2>2, <2>3, <2>5 DEF OneWriter, WriterHasRecord, Written, Inside, Statement
  <2>7. TypeOK'
    <3>1. step' \in [Caller -> Inside \cup {"idle"}]
      BY <1>1, <2>2 DEF Inside
    <3> QED BY <2>2, <2>4, <3>1 DEF TypeOK
  <2>8. \A k \in Key : conn.row[k] \in {acked[k]} \cup doubtful'[k]
    BY <2>1, <2>3, <2>4 DEF ConnectionAccounted
  <2>9. AcknowledgedSurvives' /\ ConnectionAccounted' /\ CommittedAgrees'
    BY <2>2, <2>8 DEF AcknowledgedSurvives, ConnectionAccounted, CommittedAgrees
  <2>10. DiskLabels'
    <3> SUFFICES ASSUME NEW k \in Key, conn.row[k] # NoRow, doubtful'[k] = {}
                 PROVE  conn.acl[k] = conn.row[k].labels
      BY <2>2 DEF DiskLabels
    <3>1. k # KeyOf(c) /\ doubtful[k] = {}
      BY <2>4
    <3> QED BY <2>3, <3>1 DEF DiskLabels, CommittedAgrees
  <2> QED BY <2>6, <2>7, <2>9, <2>10
<1>7. ASSUME NEW c \in Caller, Return(c) PROVE IInv'
  <2>1. /\ step[c] \in Inside /\ conn = disk
        /\ disk.row[KeyOf(c)] = RecordOf(c) /\ disk.acl[KeyOf(c)] = RecordOf(c).labels
    BY <1>7 DEF Return, Inside, Written
  <2>2. /\ UNCHANGED <<conn, disk, shown, writes, failures, crashes>>
        /\ acked' = [acked EXCEPT ![KeyOf(c)] = RecordOf(c)]
        /\ doubtful' = [doubtful EXCEPT ![KeyOf(c)] = {}]
        /\ Release(c)
    BY <1>7 DEF Return
  <2>3. /\ KeyOf(c) \in Key /\ RecordOf(c) \in Record
        /\ \A k \in Key \ {KeyOf(c)} : Untouched(k)
    BY <2>1, InsideRecord
  <2>4. OneWriter' /\ WriterHasRecord' /\ Written'
    BY <2>1, <2>2, ReleaseEffect
  <2>5. TypeOK'
    BY <1>1, <2>1, <2>2, <2>3, ReleaseEffect DEF TypeOK
  <2>6. \A k \in Key : disk.row[k] \in {acked'[k]} \cup doubtful'[k]
    BY <1>1, <2>1, <2>2, <2>3 DEF AcknowledgedSurvives
  <2>7. AcknowledgedSurvives' /\ ConnectionAccounted' /\ CommittedAgrees'
    BY <2>1, <2>2, <2>6 DEF AcknowledgedSurvives, ConnectionAccounted, CommittedAgrees
  <2>8. DiskLabels'
    BY <1>1, <2>1, <2>2, <2>3 DEF DiskLabels
  <2> QED BY <2>4, <2>5, <2>7, <2>8
<1>8. ASSUME NEW c \in Caller, CommitFailsLate(c) PROVE IInv'
  <2>1. /\ step[c] \in Inside /\ conn = disk
        /\ UNCHANGED <<conn, disk, acked, doubtful, shown, writes, crashes>>
        /\ failures' = failures + 1 /\ failures < MaxFailures
        /\ Release(c)
    BY <1>8 DEF CommitFailsLate, Inside, Written
  <2>2. OneWriter' /\ WriterHasRecord' /\ Written'
    BY <2>1, ReleaseEffect
  <2>3. TypeOK'
    <3>1. failures' \in 0..MaxFailures
      BY <2>1, StoreAssumption DEF TypeOK
    <3> QED BY <2>1, <3>1, ReleaseEffect DEF TypeOK
  <2>4. AcknowledgedSurvives' /\ ConnectionAccounted' /\ CommittedAgrees' /\ DiskLabels'
    BY <2>1 DEF AcknowledgedSurvives, ConnectionAccounted, CommittedAgrees, DiskLabels
  <2> QED BY <2>2, <2>3, <2>4
<1>9. ASSUME NEW c \in Caller, StatementFails(c) PROVE IInv'
  <2>1. /\ step[c] \in Statement /\ conn' \in AfterFailure(c)
        /\ doubtful' = [doubtful EXCEPT ![KeyOf(c)] = @ \cup {RecordOf(c)}]
        /\ UNCHANGED <<disk, acked, shown, writes, crashes>>
        /\ failures' = failures + 1 /\ failures < MaxFailures
        /\ Release(c)
    BY <1>9 DEF StatementFails
  <2>2. /\ KeyOf(c) \in Key /\ RecordOf(c) \in Record /\ RecordOf(c).labels \subseteq Label
        /\ \A k \in Key \ {KeyOf(c)} : Untouched(k)
    BY <2>1, InsideRecord DEF Inside
  <2>3. /\ doubtful'[KeyOf(c)] = doubtful[KeyOf(c)] \cup {RecordOf(c)}
        /\ \A k \in Key \ {KeyOf(c)} : doubtful'[k] = doubtful[k]
        /\ doubtful' \in [Key -> SUBSET Record]
    BY <1>1, <2>1, <2>2
  <2>4. /\ conn' \in Database
        /\ conn'.row \in {conn.row, disk.row}
        /\ \/ \A k \in Key \ {KeyOf(c)} : conn'.acl[k] = conn.acl[k] /\ conn'.row[k] = conn.row[k]
           \/ conn' = disk
    <3>1. CASE conn' \in {conn, disk}
      BY <1>1, <3>1
    <3>2. ASSUME NEW ls \in SUBSET RecordOf(c).labels, conn' = [conn EXCEPT !.acl[KeyOf(c)] = ls]
          PROVE  /\ conn' \in Database /\ conn'.row = conn.row
                 /\ \A k \in Key \ {KeyOf(c)} : conn'.acl[k] = conn.acl[k]
      <4>1. ls \in SUBSET Label
        BY <2>2
      <4> QED BY <1>1, <2>2, <3>2, <4>1 DEF Database
    <3> QED BY <2>1, <3>1, <3>2 DEF AfterFailure
  <2>5. OneWriter' /\ WriterHasRecord' /\ Written' /\ \A k \in Key : Untouched(k)'
    BY <2>1, ReleaseEffect DEF Inside
  <2>6. TypeOK'
    <3>1. failures' \in 0..MaxFailures
      BY <2>1, StoreAssumption DEF TypeOK
    <3> QED BY <2>1, <2>3, <2>4, <3>1, ReleaseEffect DEF TypeOK, Inside
  <2>7. AcknowledgedSurvives'
    BY <1>1, <2>1, <2>2, <2>3 DEF AcknowledgedSurvives
  <2>8. ConnectionAccounted'
    <3> SUFFICES ASSUME NEW k \in Key PROVE conn'.row[k] \in {acked[k]} \cup doubtful'[k]
      BY <2>1 DEF ConnectionAccounted
    <3>1. disk.row[k] \in {acked[k]} \cup doubtful'[k]
      BY <2>1, <2>3 DEF AcknowledgedSurvives
    <3>2. CASE k # KeyOf(c)
      BY <2>2, <2>3, <2>4, <3>1, <3>2 DEF ConnectionAccounted
    <3>3. CASE k = KeyOf(c)
      <4>1. CASE step[c] = "insert row"
        <5>1. Untouched(k)
          BY <2>1, <4>1, InsideRecord DEF Untouched, Inside
        <5> QED BY <2>3, <2>4, <3>1, <3>3, <5>1 DEF ConnectionAccounted
      <4>2. CASE step[c] # "insert row"
        BY <2>1, <2>3, <2>4, <3>1, <3>3, <4>2 DEF Written, Statement
      <4> QED BY <4>1, <4>2
    <3> QED BY <3>2, <3>3
  <2>9. CommittedAgrees'
    BY <2>1, <2>2, <2>3, <2>4 DEF CommittedAgrees
  <2>10. DiskLabels'
    BY <2>1, <2>3 DEF DiskLabels
  <2> QED BY <2>5, <2>6, <2>7, <2>8, <2>9, <2>10
<1>10. ASSUME NEW tenant \in Tenant, NEW entitlements \in SUBSET Label, Read(tenant, entitlements)
      PROVE  IInv'
  <2>1. UNCHANGED <<lock, step, writing, conn, disk, acked, doubtful, writes, failures, crashes>>
    BY <1>10 DEF Read
  <2>2. shown' \subseteq Key
    BY <1>10 DEF Read, OpenItems
  <2> QED BY <2>1, <2>2
          DEF TypeOK, OneWriter, WriterHasRecord, Written, AcknowledgedSurvives,
              ConnectionAccounted, CommittedAgrees, DiskLabels, Untouched, KeyOf, RecordOf
<1>11. CASE Crash
  <2>1. /\ lock' = Nobody /\ step' = [c \in Caller |-> "idle"]
        /\ writing' = [c \in Caller |-> NoRow] /\ conn' = disk
        /\ crashes < MaxCrashes /\ crashes' = crashes + 1
        /\ UNCHANGED <<disk, acked, doubtful, shown, writes, failures>>
    BY <1>11 DEF Crash
  <2>2. TypeOK'
    BY <2>1, StoreAssumption DEF TypeOK
  <2>3. OneWriter' /\ WriterHasRecord' /\ Written'
    BY <2>1, StoreAssumption DEF OneWriter, WriterHasRecord, Written, Inside, Statement
  <2>4. AcknowledgedSurvives' /\ ConnectionAccounted' /\ CommittedAgrees' /\ DiskLabels'
    BY <2>1 DEF AcknowledgedSurvives, ConnectionAccounted, CommittedAgrees, DiskLabels
  <2> QED BY <2>2, <2>3, <2>4
<1>12. CASE UNCHANGED vars
  BY <1>12 DEF vars, TypeOK, OneWriter, WriterHasRecord, Written, AcknowledgedSurvives,
               ConnectionAccounted, CommittedAgrees, DiskLabels, Untouched, KeyOf, RecordOf
<1> QED BY <1>2, <1>3, <1>4, <1>5, <1>6, <1>7, <1>8, <1>9, <1>10, <1>11, <1>12
        DEF Next, Work

LEMMA Invariant == Spec => []IInv
BY InvInit, InvStep, PTL DEF Spec

(* While nobody holds the lock, no key is half written.                    *)
LEMMA NobodyWrites == ASSUME IInv, lock = Nobody PROVE \A k \in Key : Untouched(k)
BY StoreAssumption DEF IInv, OneWriter, Untouched, Inside, Statement

-----------------------------------------------------------------------------
(* Whatever failed or crashed, and whoever committed whose statements, an  *)
(* acknowledged row is on disk until a later record of its key is          *)
(* attempted (record).                                                     *)
THEOREM AcknowledgedRowsSurvive == Spec => []AcknowledgedSurvives
<1>1. IInv => AcknowledgedSurvives
  BY DEF IInv
<1> QED BY <1>1, Invariant, PTL

(* A row whose writes all returned has exactly its own record's labels,    *)
(* on disk and, between calls, on the connection (record).                 *)
THEOREM LabelsAreTheRows == Spec => []LabelsFollowRow
<1>1. IInv => LabelsFollowRow
  <2> SUFFICES ASSUME IInv, NEW k \in Key, doubtful[k] = {}
               PROVE  /\ disk.row[k] # NoRow => disk.acl[k] = disk.row[k].labels
                      /\ lock = Nobody /\ conn.row[k] # NoRow =>
                           conn.acl[k] = conn.row[k].labels
    BY DEF LabelsFollowRow
  <2>1. disk.row[k] # NoRow => disk.acl[k] = disk.row[k].labels
    BY DEF IInv, DiskLabels
  <2>2. ASSUME lock = Nobody
        PROVE  conn.row[k] = disk.row[k] /\ conn.acl[k] = disk.acl[k]
    BY <2>2, NobodyWrites DEF IInv, CommittedAgrees
  <2> QED BY <2>1, <2>2
<1> QED BY <1>1, Invariant, PTL

(* A reader with entitlements is shown exactly the acknowledged rows of    *)
(* the tenant it is entitled to, for keys whose writes all returned        *)
(* (open_items).                                                           *)
THEOREM ReadersSeeTheirRows == Spec => BoardShowsEntitledRows
<1> DEFINE Exact ==
      \A tenant \in Tenant : \A entitlements \in (SUBSET Label) \ {{}} :
        Read(tenant, entitlements) =>
          \A k \in Key : doubtful[k] = {} =>
            (k \in shown' <=> /\ k[1] = tenant
                              /\ acked[k] # NoRow
                              /\ acked[k].labels \subseteq entitlements)
<1>1. IInv => Exact
  <2> SUFFICES ASSUME IInv, NEW tenant \in Tenant, NEW entitlements \in (SUBSET Label) \ {{}},
                      Read(tenant, entitlements), NEW k \in Key, doubtful[k] = {}
               PROVE  k \in shown' <=> /\ k[1] = tenant
                                       /\ acked[k] # NoRow
                                       /\ acked[k].labels \subseteq entitlements
    OBVIOUS
  <2>1. lock = Nobody /\ shown' = OpenItems(tenant, entitlements)
    BY DEF Read
  <2>2. Untouched(k)
    BY <2>1, NobodyWrites
  <2>3. conn.row[k] = acked[k] /\ conn.row[k] = disk.row[k] /\ conn.acl[k] = disk.acl[k]
    BY <2>2 DEF IInv, ConnectionAccounted, CommittedAgrees
  <2>4. acked[k] # NoRow => conn.acl[k] = acked[k].labels
    BY <2>3 DEF IInv, DiskLabels
  <2>5. Lacks(conn.acl[k], entitlements) <=> ~(conn.acl[k] \subseteq entitlements)
    <3>1. entitlements # {}
      OBVIOUS
    <3>2. conn.acl[k] \ entitlements # {} <=> ~(conn.acl[k] \subseteq entitlements)
      BY Zenon
    <3> QED BY <3>1, <3>2 DEF Lacks
  <2>6. k \in shown' <=> k[1] = tenant /\ acked[k] # NoRow /\ conn.acl[k] \subseteq entitlements
    BY <2>1, <2>3, <2>5 DEF OpenItems
  <2> QED BY <2>4, <2>6
<1>2. Exact => [Exact]_vars
  OBVIOUS
<1> QED BY <1>1, <1>2, Invariant, PTL DEF BoardShowsEntitledRows
=============================================================================
