------------------------- MODULE SnapshotDetailProofs -------------------------
(***************************************************************************)
(* Proofs about SnapshotDetail, for any set of snapshots, compactors and   *)
(* readers.  The inductive invariant IInv says that a thread's private     *)
(* copy of the detail can be torn only once the snapshot is compacted.     *)
(***************************************************************************)
EXTENDS SnapshotDetail, FiniteSetTheorems, TLAPS

\* The number of ingested snapshots is a natural number, so created_at
\* positions start at one.
LEMMA IngestedCard == Cardinality(Ingested) \in Nat
  <1>1. IsFiniteSet(Ingested)
    BY SnapshotAssumption, FS_Subset DEF Ingested
  <1> QED
    BY <1>1, FS_CardinalityType

\* A finite set of snapshots has a natural number of elements.
LEMMA SubsetCard == \A S \in SUBSET Snapshots : Cardinality(S) \in Nat
  BY SnapshotAssumption, FS_Subset, FS_CardinalityType

\* Init establishes the invariant: nothing is ingested and no thread runs.
LEMMA InitIInv == Init => IInv
  <1> SUFFICES ASSUME Init PROVE IInv
    OBVIOUS
  <1> USE SnapshotAssumption DEF Init
  <1>1. TypeOK
    BY DEF TypeOK, Detail, EmptyDetail, ProcState, IdleProc, Thread, PCs, Calls, Retentions
  <1>2. Ingested = {}
    BY DEF Ingested
  <1>3. \A p \in Procs : ProcInv(p)
    BY <1>2 DEF ProcInv, IdleProc, Thread
  <1>4. CountedOnce
    BY DEF CountedOnce, IdleProc, Thread, Procs
  <1>5. ReadsComplete /\ ObservationsAllOrNone
    BY DEF ReadsComplete, ObservationsAllOrNone, IdleProc, Thread, Procs
  <1> QED
    BY <1>1, <1>2, <1>3, <1>4, <1>5 DEF IInv, DetailIntact, BaselinesKept

\* A thread that does not move keeps its part of the invariant: ingestion,
\* offers and payloads are never taken back.
LEMMA ProcFrame ==
    ASSUME NEW p \in Procs, TypeOK, ProcInv(p), proc'[p] = proc[p],
           Ingested \subseteq Ingested', offered \subseteq offered',
           \A s \in Snapshots : payload[s] # NoPayload => payload'[s] # NoPayload
    PROVE  ProcInv(p)'
  <1> DEFINE me == proc[p]
  <1>1. me.pc \notin {"idle", "batch"} => me.snap \in Snapshots
    BY DEF ProcInv, Ingested
  <1>2. me.pc \notin {"idle", "batch"} /\ payload'[me.snap] = NoPayload
            => payload[me.snap] = NoPayload
    BY <1>1
  <1> QED
    BY <1>1, <1>2 DEF ProcInv

\* An idle thread satisfies its part of the invariant.
LEMMA ProcIdle ==
    ASSUME NEW p \in Procs, proc'[p] = IdleProc
    PROVE  ProcInv(p)'
  BY SnapshotAssumption DEF ProcInv, IdleProc, Thread, Procs

-----------------------------------------------------------------------------
\* Steps that move one thread p and leave the database as it is preserve the
\* invariant as soon as they preserve it for p.
LEMMA LocalStep ==
    ASSUME IInv, NEW p \in Procs, NEW q \in ProcState, UNCHANGED store,
           faults' \in 0..MaxFaults, proc' = [proc EXCEPT ![p] = q],
           ProcInv(p)', q.inserted = proc[p].inserted \/ q.inserted = {},
           q.pc = "done" => p \in Readers /\
              /\ q.call # "test_observation_sets" =>
                    \A t \in Fields(q.call) : q.read[t] = Report[q.snap][t]
              /\ q.call = "test_observation_sets" =>
                    /\ q.read["test_names"] = Report[q.snap]["test_names"]
                    /\ q.read["test_coverage"] \in {Report[q.snap]["test_coverage"], {}}
    PROVE  IInv'
  <1>1. /\ proc' \in [Procs -> ProcState] /\ proc'[p] = q
        /\ \A o \in Procs \ {p} : proc'[o] = proc[o]
    BY DEF IInv, TypeOK
  <1>2. TypeOK'
    BY <1>1 DEF IInv, TypeOK, store
  <1>3. Ingested' = Ingested
    BY DEF Ingested, store
  <1>4. \A o \in Procs : ProcInv(o)'
    <2> SUFFICES ASSUME NEW o \in Procs, o # p PROVE ProcInv(o)'
      OBVIOUS
    <2> QED
      BY <1>1, <1>3, ProcFrame DEF IInv, store
  <1>5. CountedOnce'
    BY <1>1 DEF IInv, CountedOnce, Procs
  <1>6. ReadsComplete' /\ ObservationsAllOrNone'
    <2> SUFFICES ASSUME NEW r \in Readers, proc'[r].pc = "done"
                 PROVE  /\ proc'[r].call # "test_observation_sets" =>
                            \A t \in Fields(proc'[r].call) :
                                proc'[r].read[t] = Report[proc'[r].snap][t]
                        /\ proc'[r].call = "test_observation_sets" =>
                            /\ proc'[r].read["test_names"] = Report[proc'[r].snap]["test_names"]
                            /\ proc'[r].read["test_coverage"]
                                    \in {Report[proc'[r].snap]["test_coverage"], {}}
      BY DEF ReadsComplete, ObservationsAllOrNone
    <2>1. CASE r = p
      BY <1>1, <2>1
    <2>2. CASE r # p
      BY <1>1, <2>2 DEF IInv, ReadsComplete, ObservationsAllOrNone, Procs
    <2> QED
      BY <2>1, <2>2
  <1> QED
    BY <1>2, <1>3, <1>4, <1>5, <1>6 DEF IInv, DetailIntact, BaselinesKept, store

\* A thread that becomes idle, with or without an error, preserves the invariant.
LEMMA IdleStep ==
    ASSUME IInv, NEW p \in Procs, UNCHANGED store, faults' \in 0..MaxFaults,
           proc' = [proc EXCEPT ![p] = IdleProc]
    PROVE  IInv'
  <1>1. IdleProc \in ProcState
    BY DEF IdleProc, Thread, ProcState, PCs, Calls, Detail, EmptyDetail
  <1>2. proc'[p] = IdleProc
    BY DEF IInv, TypeOK
  <1>3. ProcInv(p)'
    BY <1>2, ProcIdle
  <1>4. IdleProc.inserted = {} /\ IdleProc.pc = "idle"
    BY DEF IdleProc, Thread
  <1> QED
    BY <1>1, <1>3, <1>4, LocalStep

\* The background worker or compact_now selects its batch.
LEMMA CompactProjectStep ==
    ASSUME IInv, NEW c \in Compactors, compact_project(c) PROVE IInv'
  <1> DEFINE q == Thread("batch", "none", NoSnapshot, Candidates, {})
  <1>1. c \in Procs
    BY DEF Procs
  <1>2. Candidates \subseteq Ingested \cap offered
    BY DEF IInv, TypeOK, Candidates, Eligible, Ingested, Retentions
  <1>3. q \in ProcState /\ q.inserted = {} /\ q.pc = "batch" /\ q.batch = Candidates
    BY <1>2 DEF IdleProc, Thread, ProcState, PCs, Calls, Detail, EmptyDetail, Ingested
  <1>4. proc'[c] = q
    BY <1>1 DEF compact_project, IInv, TypeOK
  <1>5. ProcInv(c)'
    BY <1>2, <1>3, <1>4, SnapshotAssumption DEF ProcInv, compact_project, store, Ingested
  <1> HIDE DEF q
  <1>6. UNCHANGED store /\ faults' \in 0..MaxFaults /\ proc' = [proc EXCEPT ![c] = q]
    BY DEF compact_project, IInv, TypeOK, q
  <1> QED
    BY <1>1, <1>3, <1>5, <1>6, LocalStep

\* The pass moves on to the oldest snapshot of its batch.
LEMMA CompactNextStep ==
    ASSUME IInv, NEW c \in Compactors, compact_next(c) PROVE IInv'
  <1>1. c \in Procs
    BY DEF Procs
  <1>2. PICK s \in proc[c].batch : proc' = [proc EXCEPT ![c] =
                Thread("detail_payload", "none", s, proc[c].batch \ {s}, proc[c].inserted)]
    BY DEF compact_next
  <1> DEFINE q == Thread("detail_payload", "none", s, proc[c].batch \ {s}, proc[c].inserted)
  <1>3. proc[c] \in ProcState /\ ProcInv(c)
    BY <1>1 DEF IInv, TypeOK
  <1>4. s \in Ingested \cap offered /\ s \in Snapshots
    BY <1>3 DEF ProcInv, Ingested
  <1>5. q \in ProcState /\ q.pc = "detail_payload" /\ q.snap = s /\ q.step = 1
        /\ q.inserted = proc[c].inserted /\ q.batch = proc[c].batch \ {s}
    BY <1>3, <1>4 DEF IdleProc, Thread, ProcState, PCs, Calls, Detail, EmptyDetail
  <1>6. proc'[c] = q
    BY <1>1, <1>2 DEF IInv, TypeOK
  <1> HIDE DEF q
  <1>7. UNCHANGED store /\ faults' \in 0..MaxFaults
    BY DEF compact_next, IInv, TypeOK
  <1>8. ProcInv(c)'
    BY <1>3, <1>4, <1>5, <1>6, <1>7, SnapshotAssumption DEF ProcInv, store, Ingested
  <1>9. proc' = [proc EXCEPT ![c] = q]
    BY <1>2 DEF q
  <1> QED
    BY <1>1, <1>5, <1>7, <1>8, <1>9, LocalStep

\* One of the four SELECTs of detail_payload, in a compactor or in a reader.
LEMMA DetailPayloadStep ==
    ASSUME IInv, NEW p \in Procs, detail_payload(p) PROVE IInv'
  <1> DEFINE me == proc[p]
             t == TableOrder[me.step]
             q == Advance(me, IF me.step < 4 THEN "detail_payload"
                              ELSE IF p \in Compactors THEN "publish"
                              ELSE "compacted_detail",
                          IF me.step = 4 THEN 4 ELSE me.step + 1,
                          [me.read EXCEPT ![t] = rows[me.snap][t]])
  <1>1. me \in ProcState /\ ProcInv(p) /\ me.pc = "detail_payload"
    BY DEF IInv, TypeOK, detail_payload
  <1>2. me.snap \in Ingested /\ me.snap \in Snapshots
    BY <1>1 DEF ProcInv, Ingested
  <1>3. t \in Tables /\ me.step \in 1..4
    BY <1>1 DEF ProcState, TableOrder, Tables
  <1>4. rows[me.snap] \in Detail /\ me.read \in Detail
    BY <1>1, <1>2 DEF IInv, TypeOK, ProcState
  <1>5. [me.read EXCEPT ![t] = rows[me.snap][t]] \in Detail
    BY <1>3, <1>4 DEF Detail
  <1>6. q \in ProcState
    BY <1>1, <1>3, <1>5 DEF ProcState, PCs, Advance
  <1>7. proc' = [proc EXCEPT ![p] = q]
    BY DEF detail_payload
  <1>8. proc'[p] = q
    BY <1>7 DEF IInv, TypeOK
  <1>9. UNCHANGED store /\ faults' \in 0..MaxFaults
    BY DEF detail_payload, IInv, TypeOK
  <1>10. /\ q.call = me.call /\ q.snap = me.snap /\ q.batch = me.batch
         /\ q.inserted = me.inserted
         /\ q.step = IF me.step = 4 THEN 4 ELSE me.step + 1
         /\ q.pc = IF me.step < 4 THEN "detail_payload"
                   ELSE IF p \in Compactors THEN "publish" ELSE "compacted_detail"
         /\ q.read = [me.read EXCEPT ![t] = rows[me.snap][t]]
    BY <1>1 DEF ProcState, Advance
  <1> HIDE DEF q
  <1>11. payload[me.snap] = NoPayload =>
            \A i \in 1..4 : i <= me.step =>
                q.read[TableOrder[i]] = Report[me.snap][TableOrder[i]]
    <2> SUFFICES ASSUME payload[me.snap] = NoPayload, NEW i \in 1..4, i <= me.step
                 PROVE  q.read[TableOrder[i]] = Report[me.snap][TableOrder[i]]
      OBVIOUS
    <2>1. rows[me.snap] = Report[me.snap]
      BY <1>2, SnapshotAssumption DEF IInv, DetailIntact
    <2>2. CASE i = me.step
      <3>1. t \in Tables /\ q.read[t] = rows[me.snap][t]
        BY <1>3, <1>4, <1>10 DEF Detail
      <3> QED
        BY <1>3, <2>1, <2>2, <3>1
    <2>3. CASE i < me.step
      <3>1. me.read[TableOrder[i]] = Report[me.snap][TableOrder[i]]
        BY <1>1, <2>3 DEF ProcInv
      <3>2. TableOrder[i] # t /\ TableOrder[i] \in Tables
        BY <1>3, <2>3 DEF TableOrder, Tables
      <3> QED
        BY <1>3, <1>4, <1>10, <3>1, <3>2 DEF Detail
    <2> QED
      BY <1>3, <2>2, <2>3
  <1>12. me.step = 4 /\ payload[me.snap] = NoPayload => q.read = Report[me.snap]
    <2> SUFFICES ASSUME me.step = 4, payload[me.snap] = NoPayload
                 PROVE  q.read = Report[me.snap]
      OBVIOUS
    <2>1. \A u \in Tables : q.read[u] = Report[me.snap][u]
      BY <1>11 DEF TableOrder, Tables
    <2>2. q.read \in Detail /\ Report[me.snap] \in Detail
      BY <1>2, <1>5, <1>10, SnapshotAssumption
    <2> QED
      BY <2>1, <2>2 DEF Detail
  <1>13. ProcInv(p)'
    <2>1. CASE me.step < 4
      <3>1. q.pc = "detail_payload" /\ q.step = me.step + 1
        BY <1>3, <1>10, <2>1
      <3>2. payload[q.snap] = NoPayload =>
               \A i \in 1..4 : i < q.step => q.read[TableOrder[i]] = Report[q.snap][TableOrder[i]]
        <4>1. \A i \in 1..4 : i < me.step + 1 => i <= me.step
          BY <1>3
        <4>2. q.snap = me.snap
          BY <1>10
        <4> QED
          BY <1>11, <3>1, <4>1, <4>2
      <3> QED
        BY <1>1, <1>2, <1>8, <1>9, <1>10, <3>1, <3>2 DEF ProcInv, store, Ingested
    <2>2. CASE me.step = 4 /\ p \in Compactors
      BY <1>1, <1>2, <1>3, <1>8, <1>9, <1>10, <1>12, <2>2, SnapshotAssumption
         DEF ProcInv, store, Ingested
    <2>3. CASE me.step = 4 /\ p \notin Compactors
      BY <1>1, <1>2, <1>3, <1>8, <1>9, <1>10, <1>12, <2>3, SnapshotAssumption
         DEF ProcInv, store, Ingested, Procs, Calls
    <2> QED
      BY <1>3, <2>1, <2>2, <2>3
  <1> QED
    BY <1>6, <1>7, <1>9, <1>10, <1>13, LocalStep

\* The publishing transaction, whether its caller learns of the commit (the pass
\* goes on) or not (the pass ends): a torn read loses against ON CONFLICT.
LEMMA PublishStep ==
    ASSUME IInv, NEW c \in Compactors, proc[c].pc = "publish", PublishPayload(c),
           NEW q \in ProcState, proc' = [proc EXCEPT ![c] = q],
           q.pc \in {"idle", "batch"}, q.batch \subseteq proc[c].batch,
           \/ q.inserted = {}
           \/ q.inserted = IF payload[proc[c].snap] = NoPayload
                           THEN proc[c].inserted \cup {proc[c].snap} ELSE proc[c].inserted,
           UNCHANGED <<created, retention, policy, lastCount, offered>>,
           faults' \in 0..MaxFaults
    PROVE  IInv'
  <1> DEFINE s == proc[c].snap
  <1>1. c \in Procs /\ c \notin Readers
    BY SnapshotAssumption DEF Procs
  <1>2. proc[c] \in ProcState /\ ProcInv(c)
    BY <1>1 DEF IInv, TypeOK
  <1>3. s \in Ingested /\ s \in Snapshots /\ s \in offered
    BY <1>2 DEF ProcInv, Ingested
  <1>4. payload[s] = NoPayload => proc[c].read = Report[s]
    BY <1>2 DEF ProcInv
  <1>5. Report[s] \in Detail /\ EmptyDetail \in Detail
    BY <1>3, SnapshotAssumption DEF Detail, EmptyDetail
  <1>6. /\ payload' = IF payload[s] = NoPayload
                      THEN [payload EXCEPT ![s] = Report[s]] ELSE payload
        /\ rows' = IF payload[s] = NoPayload
                   THEN [rows EXCEPT ![s] = EmptyDetail] ELSE rows
    BY <1>4 DEF PublishPayload
  <1>7. /\ proc' \in [Procs -> ProcState] /\ proc'[c] = q
        /\ \A o \in Procs \ {c} : proc'[o] = proc[o]
    BY <1>1 DEF IInv, TypeOK
  <1>8. TypeOK'
    BY <1>3, <1>5, <1>6, <1>7 DEF IInv, TypeOK
  <1>9. Ingested' = Ingested
    BY DEF Ingested
  <1>10. /\ \A o \in Snapshots : payload[o] # NoPayload => payload'[o] # NoPayload
         /\ payload'[s] # NoPayload
         /\ \A o \in Snapshots \ {s} : payload'[o] = payload[o] /\ rows'[o] = rows[o]
    BY <1>3, <1>5, <1>6, SnapshotAssumption DEF IInv, TypeOK
  <1>11. DetailIntact'
    <2> SUFFICES ASSUME NEW o \in Ingested
                 PROVE  \/ payload'[o] = NoPayload /\ rows'[o] = Report[o]
                        \/ payload'[o] = Report[o] /\ rows'[o] = EmptyDetail
      BY <1>9 DEF DetailIntact
    <2>1. CASE o = s
      BY <1>3, <1>6, <2>1 DEF IInv, TypeOK, DetailIntact
    <2>2. CASE o # s
      BY <1>10, <2>2 DEF IInv, DetailIntact, Ingested
    <2> QED
      BY <2>1, <2>2
  <1>12. ProcInv(c)'
    <2>1. q.batch \subseteq Ingested \cap offered
      BY <1>2 DEF ProcInv
    <2>2. q.inserted \subseteq {o \in Snapshots : payload'[o] # NoPayload}
      BY <1>2, <1>3, <1>10 DEF ProcInv
    <2> QED
      BY <1>1, <1>7, <1>9, <2>1, <2>2 DEF ProcInv
  <1>13. \A o \in Procs : ProcInv(o)'
    <2> SUFFICES ASSUME NEW o \in Procs, o # c PROVE ProcInv(o)'
      BY <1>12
    <2> QED
      BY <1>7, <1>9, <1>10, ProcFrame DEF IInv
  <1>14. CountedOnce'
    <2> SUFFICES ASSUME NEW o \in Compactors, o # c
                 PROVE  proc'[o].inserted \cap proc'[c].inserted = {}
      BY <1>7 DEF IInv, CountedOnce, Procs
    <2>1. proc'[o] = proc[o] /\ ProcInv(o)
      BY <1>7 DEF IInv, Procs
    <2>2. payload[s] = NoPayload => s \notin proc[o].inserted
      BY <2>1 DEF ProcInv
    <2> QED
      BY <1>7, <2>1, <2>2 DEF IInv, CountedOnce
  <1>15. BaselinesKept'
    BY <1>3, <1>10 DEF IInv, BaselinesKept
  <1>16. ReadsComplete' /\ ObservationsAllOrNone'
    BY <1>1, <1>7 DEF IInv, ReadsComplete, ObservationsAllOrNone, Procs
  <1>17. \A o \in Snapshots : created'[o] = 0 => payload'[o] = NoPayload
    BY <1>3, <1>10 DEF IInv, Ingested
  <1> QED
    BY <1>8, <1>9, <1>11, <1>13, <1>14, <1>15, <1>16, <1>17 DEF IInv

\* compact_snapshot_detail and its late variant are publishing transactions.
LEMMA CompactSnapshotStep ==
    ASSUME IInv, NEW c \in Compactors,
           compact_snapshot_detail(c) \/ compact_snapshot_late(c)
    PROVE  IInv'
  <1>1. proc[c] \in ProcState /\ c \in Procs
    BY DEF IInv, TypeOK, Procs
  <1>2. CASE compact_snapshot_detail(c)
    <2> DEFINE q == Thread("batch", "none", NoSnapshot, proc[c].batch,
                           IF payload[proc[c].snap] = NoPayload
                           THEN proc[c].inserted \cup {proc[c].snap} ELSE proc[c].inserted)
    <2>1. proc[c].snap \in Snapshots /\ proc[c].pc = "publish"
      BY <1>1, <1>2 DEF compact_snapshot_detail, IInv, ProcInv, Ingested
    <2>2. q \in ProcState /\ q.pc = "batch" /\ q.batch = proc[c].batch
          /\ q.inserted = IF payload[proc[c].snap] = NoPayload
                          THEN proc[c].inserted \cup {proc[c].snap} ELSE proc[c].inserted
      BY <1>1, <2>1 DEF Thread, ProcState, PCs, Calls, Detail, EmptyDetail
    <2>3. /\ proc' = [proc EXCEPT ![c] = q] /\ PublishPayload(c) /\ faults' \in 0..MaxFaults
          /\ UNCHANGED <<created, retention, policy, lastCount, offered>>
      BY <1>2 DEF compact_snapshot_detail, IInv, TypeOK
    <2> HIDE DEF q
    <2> QED
      BY <2>1, <2>2, <2>3, PublishStep
  <1>3. CASE compact_snapshot_late(c)
    <2>1. IdleProc \in ProcState /\ IdleProc.pc = "idle" /\ IdleProc.batch = {}
          /\ IdleProc.inserted = {}
      BY DEF IdleProc, Thread, ProcState, PCs, Calls, Detail, EmptyDetail
    <2>2. /\ proc' = [proc EXCEPT ![c] = IdleProc] /\ PublishPayload(c)
          /\ proc[c].pc = "publish"
          /\ UNCHANGED <<created, retention, policy, lastCount, offered>>
      BY <1>3 DEF compact_snapshot_late
    <2>3. faults' \in 0..MaxFaults
      BY <1>3, SnapshotAssumption DEF compact_snapshot_late, IInv, TypeOK
    <2> QED
      BY <2>1, <2>2, <2>3, PublishStep
  <1> QED
    BY <1>2, <1>3

\* The end of a pass writes only the status row.
LEMMA CompactFinishStep ==
    ASSUME IInv, NEW c \in Compactors, compact_finish(c) PROVE IInv'
  <1>1. c \in Procs /\ proc[c] \in ProcState
    BY DEF IInv, TypeOK, Procs
  <1>2. Cardinality(proc[c].inserted) \in Nat
    BY <1>1, SubsetCard DEF ProcState
  <1>3. IdleProc \in ProcState /\ IdleProc.pc = "idle" /\ IdleProc.inserted = {}
    BY DEF IdleProc, Thread, ProcState, PCs, Calls, Detail, EmptyDetail
  <1>4. proc'[c] = IdleProc /\ \A o \in Procs \ {c} : proc'[o] = proc[o]
    BY <1>1 DEF compact_finish, IInv, TypeOK
  <1>5. TypeOK'
    BY <1>2, <1>3 DEF compact_finish, IInv, TypeOK
  <1>6. Ingested' = Ingested
    BY DEF Ingested, compact_finish
  <1>7. \A p \in Procs : ProcInv(p)'
    <2> SUFFICES ASSUME NEW p \in Procs PROVE ProcInv(p)'
      OBVIOUS
    <2>1. CASE p = c
      BY <1>4, <2>1, ProcIdle
    <2>2. CASE p # c
      BY <1>4, <1>6, <2>2, ProcFrame DEF IInv, compact_finish
    <2> QED
      BY <2>1, <2>2
  <1>8. CountedOnce' /\ ReadsComplete' /\ ObservationsAllOrNone'
    BY <1>3, <1>4, SnapshotAssumption
       DEF IInv, CountedOnce, ReadsComplete, ObservationsAllOrNone, Procs
  <1> QED
    BY <1>5, <1>6, <1>7, <1>8 DEF IInv, compact_finish, DetailIntact, BaselinesKept

-----------------------------------------------------------------------------
\* A query starts on an ingested snapshot.
LEMMA BeginReadStep ==
    ASSUME IInv, NEW r \in Readers, NEW call \in Calls \ {"none"}, NEW s \in Snapshots,
           begin_read(r, call, s)
    PROVE  IInv'
  <1> DEFINE q == Thread(IF call = "measurement_report" THEN "detail_payload" ELSE "rows",
                         call, s, {}, {})
  <1>1. r \in Procs /\ r \notin Compactors
    BY SnapshotAssumption DEF Procs
  <1>2. /\ q \in ProcState /\ q.call = call /\ q.snap = s /\ q.batch = {} /\ q.inserted = {}
        /\ q.pc = (IF call = "measurement_report" THEN "detail_payload" ELSE "rows")
        /\ q.read = EmptyDetail /\ q.step = 1
    BY DEF Thread, ProcState, PCs, Calls, Detail, EmptyDetail
  <1>3. proc' = [proc EXCEPT ![r] = q] /\ UNCHANGED store /\ faults' \in 0..MaxFaults
    BY DEF begin_read, IInv, TypeOK
  <1>4. proc'[r] = q /\ s \in Ingested
    BY <1>1, <1>3 DEF IInv, TypeOK, begin_read, Ingested
  <1> HIDE DEF q
  <1>5. ProcInv(r)'
    BY <1>1, <1>2, <1>3, <1>4 DEF ProcInv, store, Ingested, Calls
  <1> QED
    BY <1>1, <1>2, <1>3, <1>5, LocalStep

\* A row-first reader finds rows, or goes on to the payload.
LEMMA ReadRowsStep ==
    ASSUME IInv, NEW r \in Readers, read_rows(r) PROVE IInv'
  <1> DEFINE me == proc[r]
             t == FirstTable(me.call)
             found == rows[me.snap][t]
             q == Advance(me, IF found = {} THEN "compacted_detail"
                              ELSE IF me.call = "test_observation_sets" THEN "observations"
                              ELSE "done",
                          me.step, [me.read EXCEPT ![t] = found])
  <1>1. r \in Procs /\ r \notin Compactors
    BY SnapshotAssumption DEF Procs
  <1>2. me \in ProcState /\ ProcInv(r) /\ me.pc = "rows"
    BY <1>1 DEF IInv, TypeOK, read_rows
  <1>3. /\ me.snap \in Ingested /\ me.snap \in Snapshots /\ me.read = EmptyDetail
        /\ me.call \in {"files", "lines_all", "test_observation_sets"}
    BY <1>2 DEF ProcInv, Ingested
  <1>4. t \in Tables /\ rows[me.snap] \in Detail /\ Report[me.snap] \in Detail
    BY <1>3, SnapshotAssumption DEF FirstTable, Tables, IInv, TypeOK
  <1>5. [me.read EXCEPT ![t] = found] \in Detail
    BY <1>3, <1>4 DEF Detail, EmptyDetail
  <1>6. q \in ProcState
    BY <1>2, <1>5 DEF ProcState, PCs, Advance
  <1>7. /\ q.call = me.call /\ q.snap = me.snap /\ q.batch = me.batch
        /\ q.inserted = me.inserted /\ q.read = [me.read EXCEPT ![t] = found]
        /\ q.pc = IF found = {} THEN "compacted_detail"
                  ELSE IF me.call = "test_observation_sets" THEN "observations" ELSE "done"
    BY DEF Advance
  <1>8. proc' = [proc EXCEPT ![r] = q] /\ UNCHANGED store /\ faults' \in 0..MaxFaults
    BY DEF read_rows, IInv, TypeOK
  <1>9. proc'[r] = q
    BY <1>1, <1>8 DEF IInv, TypeOK
  <1>10. q.read[t] = found /\ \A u \in Tables \ {t} : q.read[u] = {}
    BY <1>3, <1>4, <1>7 DEF EmptyDetail
  <1>11. found # {} \/ payload[me.snap] = NoPayload => found = Report[me.snap][t]
    BY <1>3, <1>4, SnapshotAssumption DEF IInv, DetailIntact, EmptyDetail
  <1> HIDE DEF q, t, found
  <1>12. ProcInv(r)'
    <2>1. me.call = "files" => t = "files" /\ Fields(me.call) = {"files"}
      BY DEF FirstTable, Fields, t
    <2>2. me.call = "lines_all" => t = "lines" /\ Fields(me.call) = {"lines"}
      BY DEF FirstTable, Fields, t
    <2>3. me.call = "test_observation_sets" => t = "test_names"
      BY DEF FirstTable, t
    <2>4. me.call = "test_observation_sets" => q.read["test_coverage"] = {}
      BY <1>10, <2>3 DEF Tables
    <2>5. CASE found = {}
      <3>1. payload[me.snap] = NoPayload /\ me.call # "test_observation_sets" =>
                \A u \in Fields(me.call) : q.read[u] = Report[me.snap][u]
        BY <1>3, <1>10, <1>11, <2>1, <2>2
      <3>2. payload[me.snap] = NoPayload /\ me.call = "test_observation_sets" =>
                q.read["test_names"] = Report[me.snap]["test_names"]
        BY <1>10, <1>11, <2>3
      <3>3. q.pc = "compacted_detail" /\ payload' = payload /\ offered' = offered
            /\ Ingested' = Ingested
        BY <1>7, <1>8, <2>5 DEF store, Ingested
      <3>4. q.batch \subseteq Ingested \cap offered /\ q.inserted = {} /\ q.snap \in Ingested
            /\ q.call \in Calls \ {"none"}
        BY <1>2, <1>3, <1>7 DEF ProcInv, Calls
      <3>5. payload[q.snap] = NoPayload /\ q.call # "test_observation_sets" =>
                \A u \in Fields(q.call) : q.read[u] = Report[q.snap][u]
        BY <1>7, <3>1
      <3>6. payload[q.snap] = NoPayload /\ q.call = "test_observation_sets" =>
                q.read["test_names"] = Report[q.snap]["test_names"]
                /\ q.read["test_coverage"] = {}
        BY <1>7, <2>4, <3>2
      <3> QED
        BY <1>1, <1>9, <3>3, <3>4, <3>5, <3>6 DEF ProcInv
    <2>6. CASE found # {}
      BY <1>1, <1>2, <1>3, <1>7, <1>8, <1>9, <1>10, <1>11, <2>3, <2>6
         DEF ProcInv, store, Ingested, Calls
    <2> QED
      BY <2>5, <2>6
  <1>13. q.pc = "done" =>
            /\ q.call # "test_observation_sets"
            /\ \A u \in Fields(q.call) : q.read[u] = Report[q.snap][u]
    BY <1>3, <1>7, <1>10, <1>11 DEF Fields, FirstTable, t
  <1> QED
    BY <1>1, <1>6, <1>7, <1>8, <1>12, <1>13, LocalStep

\* The second read of test_observation_sets sees all observations or, after a
\* compaction in between, none.
LEMMA ReadObservationsStep ==
    ASSUME IInv, NEW r \in Readers, read_observations(r) PROVE IInv'
  <1> DEFINE me == proc[r]
             found == rows[me.snap]["test_coverage"]
             q == Advance(me, "done", me.step, [me.read EXCEPT !["test_coverage"] = found])
  <1>1. r \in Procs /\ r \notin Compactors
    BY SnapshotAssumption DEF Procs
  <1>2. me \in ProcState /\ ProcInv(r) /\ me.pc = "observations"
    BY <1>1 DEF IInv, TypeOK, read_observations
  <1>3. /\ me.snap \in Ingested /\ me.snap \in Snapshots
        /\ me.call = "test_observation_sets"
        /\ me.read["test_names"] = Report[me.snap]["test_names"]
    BY <1>1, <1>2 DEF ProcInv, Ingested
  <1>4. rows[me.snap] \in Detail /\ me.read \in Detail
    BY <1>2, <1>3 DEF IInv, TypeOK, ProcState
  <1>5. [me.read EXCEPT !["test_coverage"] = found] \in Detail
    BY <1>4 DEF Detail, Tables
  <1>6. q \in ProcState
    BY <1>2, <1>5 DEF ProcState, PCs, Advance
  <1>7. /\ q.call = me.call /\ q.snap = me.snap /\ q.batch = me.batch /\ q.pc = "done"
        /\ q.inserted = me.inserted
        /\ q.read = [me.read EXCEPT !["test_coverage"] = found]
    BY DEF Advance
  <1>8. proc' = [proc EXCEPT ![r] = q] /\ UNCHANGED store /\ faults' \in 0..MaxFaults
    BY DEF read_observations, IInv, TypeOK
  <1>9. proc'[r] = q
    BY <1>1, <1>8 DEF IInv, TypeOK
  <1>10. q.read["test_coverage"] = found /\ q.read["test_names"] = me.read["test_names"]
    BY <1>4, <1>7 DEF Detail, Tables
  <1>11. found \in {Report[me.snap]["test_coverage"], {}}
    BY <1>3 DEF IInv, DetailIntact, EmptyDetail, Tables
  <1> HIDE DEF q, found
  <1>12. ProcInv(r)'
    BY <1>1, <1>2, <1>3, <1>7, <1>8, <1>9 DEF ProcInv, store, Ingested
  <1> QED
    BY <1>1, <1>3, <1>6, <1>7, <1>8, <1>10, <1>11, <1>12, LocalStep

\* A payload, when there is one, is the whole report; when there is none, the
\* rows read before it were.
LEMMA CompactedDetailStep ==
    ASSUME IInv, NEW r \in Readers, compacted_detail(r) PROVE IInv'
  <1> DEFINE me == proc[r]
             got == IF payload[me.snap] = NoPayload THEN me.read ELSE payload[me.snap]
             q == Advance(me, "done", me.step, got)
  <1>1. r \in Procs /\ r \notin Compactors
    BY SnapshotAssumption DEF Procs
  <1>2. me \in ProcState /\ ProcInv(r) /\ me.pc = "compacted_detail"
    BY <1>1 DEF IInv, TypeOK, compacted_detail
  <1>3. me.snap \in Ingested /\ me.snap \in Snapshots /\ me.call \in Calls \ {"none"}
    BY <1>2 DEF ProcInv, Ingested
  <1>4. got \in Detail
    BY <1>2, <1>3 DEF IInv, TypeOK, ProcState
  <1>5. q \in ProcState
    BY <1>2, <1>4 DEF ProcState, PCs, Advance
  <1>6. /\ q.call = me.call /\ q.snap = me.snap /\ q.batch = me.batch /\ q.pc = "done"
        /\ q.inserted = me.inserted /\ q.read = got
    BY DEF Advance
  <1>7. proc' = [proc EXCEPT ![r] = q] /\ UNCHANGED store /\ faults' \in 0..MaxFaults
    BY DEF compacted_detail, IInv, TypeOK
  <1>8. proc'[r] = q
    BY <1>1, <1>7 DEF IInv, TypeOK
  <1>9. payload[me.snap] # NoPayload => got = Report[me.snap]
    BY <1>3 DEF IInv, DetailIntact
  <1>10. /\ me.call # "test_observation_sets" =>
                \A u \in Fields(me.call) : got[u] = Report[me.snap][u]
         /\ me.call = "test_observation_sets" =>
                /\ got["test_names"] = Report[me.snap]["test_names"]
                /\ got["test_coverage"] \in {Report[me.snap]["test_coverage"], {}}
    BY <1>2, <1>9 DEF ProcInv
  <1> HIDE DEF q, got
  <1>11. ProcInv(r)'
    BY <1>1, <1>2, <1>3, <1>6, <1>7, <1>8 DEF ProcInv, store, Ingested
  <1> QED
    BY <1>1, <1>5, <1>6, <1>7, <1>10, <1>11, LocalStep

-----------------------------------------------------------------------------
\* Ingestion, retention changes and policy changes preserve the invariant.
LEMMA EnvironmentStep ==
    ASSUME IInv, NEW s \in Snapshots, NEW x \in Retentions,
           NEW e \in BOOLEAN, NEW n \in Nat,
           \/ store_report(s, x)
           \/ set_snapshot_detail_retention(s, x)
           \/ update_project_settings(e, n)
    PROVE  IInv'
  <1>1. Cardinality(Ingested) \in Nat
    BY IngestedCard
  <1>2. Report[s] \in Detail
    BY SnapshotAssumption
  <1>3. TypeOK'
    BY <1>1, <1>2 DEF IInv, TypeOK, store_report, set_snapshot_detail_retention,
                      update_project_settings
  <1>4. /\ proc' = proc /\ payload' = payload /\ offered \subseteq offered'
        /\ \A o \in Snapshots : created[o] # 0 => created'[o] = created[o] /\ rows'[o] = rows[o]
    BY <1>1 DEF IInv, TypeOK, store_report, set_snapshot_detail_retention,
                update_project_settings
  <1>5. Ingested \subseteq Ingested'
    BY <1>4 DEF Ingested
  <1>6. \A o \in Snapshots : created[o] = 0 /\ created'[o] # 0 => rows'[o] = Report[o]
    BY DEF IInv, TypeOK, store_report, set_snapshot_detail_retention,
           update_project_settings
  <1>7. DetailIntact'
    <2> SUFFICES ASSUME NEW o \in Snapshots, created'[o] # 0
                 PROVE  \/ payload'[o] = NoPayload /\ rows'[o] = Report[o]
                        \/ payload'[o] = Report[o] /\ rows'[o] = EmptyDetail
      BY DEF DetailIntact, Ingested
    <2>1. CASE created[o] = 0
      BY <1>4, <1>6, <2>1 DEF IInv
    <2>2. CASE created[o] # 0
      BY <1>4, <2>2 DEF IInv, DetailIntact, Ingested
    <2> QED
      BY <2>1, <2>2
  <1>8. \A p \in Procs : ProcInv(p)'
    BY <1>4, <1>5, ProcFrame DEF IInv
  <1>9. \A o \in Ingested' : retention'[o] = "compactable" => o \in offered'
    BY DEF IInv, TypeOK, Ingested, store_report, set_snapshot_detail_retention,
           update_project_settings
  <1>10. \A o \in Snapshots : created'[o] = 0 => payload'[o] = NoPayload
    BY <1>4 DEF IInv, TypeOK
  <1> QED
    BY <1>3, <1>4, <1>7, <1>8, <1>9, <1>10
       DEF IInv, BaselinesKept, CountedOnce, ReadsComplete, ObservationsAllOrNone

\* A restart forgets every thread and keeps the database.
LEMMA RestartStep == ASSUME IInv, restart PROVE IInv'
  <1>1. \A p \in Procs : proc'[p] = IdleProc
    BY DEF restart
  <1>2. IdleProc \in ProcState /\ IdleProc.pc = "idle" /\ IdleProc.inserted = {}
    BY DEF IdleProc, Thread, ProcState, PCs, Calls, Detail, EmptyDetail
  <1>3. faults' \in 0..MaxFaults
    BY SnapshotAssumption DEF restart, IInv, TypeOK
  <1>4. TypeOK'
    BY <1>1, <1>2, <1>3 DEF restart, store, IInv, TypeOK
  <1>5. \A p \in Procs : ProcInv(p)'
    BY <1>1, ProcIdle
  <1>6. CountedOnce' /\ ReadsComplete' /\ ObservationsAllOrNone'
    BY <1>1, <1>2 DEF CountedOnce, ReadsComplete, ObservationsAllOrNone, Procs
  <1> QED
    BY <1>4, <1>5, <1>6 DEF restart, store, IInv, DetailIntact, BaselinesKept, Ingested

\* A failed call leaves the database as it is.
LEMMA FailStep == ASSUME IInv, NEW p \in Procs, fail_operation(p) PROVE IInv'
  <1>1. faults' \in 0..MaxFaults
    BY SnapshotAssumption DEF fail_operation, IInv, TypeOK
  <1> QED
    BY <1>1, IdleStep DEF fail_operation

\* A query that returned is forgotten.
LEMMA FinishReadStep == ASSUME IInv, NEW r \in Readers, finish_read(r) PROVE IInv'
  <1>1. faults' \in 0..MaxFaults /\ r \in Procs
    BY DEF finish_read, IInv, TypeOK, Procs
  <1> QED
    BY <1>1, IdleStep DEF finish_read

\* IInv is inductive.
LEMMA NextIInv == IInv /\ [Next]_vars => IInv'
  <1> SUFFICES ASSUME IInv, [Next]_vars PROVE IInv'
    OBVIOUS
  <1>1. ASSUME NEW c \in Compactors, Compact(c) PROVE IInv'
    <2>1. c \in Procs
      BY DEF Procs
    <2> QED
      BY <1>1, <2>1, CompactProjectStep, CompactNextStep, DetailPayloadStep,
         CompactSnapshotStep, CompactFinishStep DEF Compact
  <1>2. ASSUME NEW r \in Readers, Read(r) PROVE IInv'
    <2>1. r \in Procs
      BY DEF Procs
    <2> QED
      BY <1>2, <2>1, BeginReadStep, ReadRowsStep, ReadObservationsStep,
         DetailPayloadStep, CompactedDetailStep, FinishReadStep DEF Read
  <1>3. ASSUME Environment PROVE IInv'
    <2>1. ASSUME NEW s \in Snapshots, NEW x \in Retentions,
                 store_report(s, x) \/ set_snapshot_detail_retention(s, x)
          PROVE  IInv'
      BY <2>1, EnvironmentStep
    <2>2. ASSUME NEW e \in BOOLEAN, NEW n \in 1..(Cardinality(Ingested) + 1),
                 update_project_settings(e, n)
          PROVE  IInv'
      <3>1. n \in Nat
        BY IngestedCard
      <3>2. CASE Snapshots = {}
        <4>1. TypeOK'
          BY <2>2, <3>1 DEF IInv, TypeOK, update_project_settings
        <4>2. \A p \in Procs : ProcInv(p)'
          BY <2>2, ProcFrame DEF IInv, update_project_settings, Ingested
        <4> QED
          BY <2>2, <4>1, <4>2 DEF IInv, update_project_settings, DetailIntact, Ingested,
             BaselinesKept, CountedOnce, ReadsComplete, ObservationsAllOrNone
      <3>3. CASE Snapshots # {}
        <4>1. PICK s \in Snapshots : TRUE
          BY <3>3
        <4>2. "compactable" \in Retentions
          BY DEF Retentions
        <4> QED
          BY <2>2, <3>1, <4>1, <4>2, EnvironmentStep
      <3> QED
        BY <3>2, <3>3
    <2>3. ASSUME NEW c \in Compactors, compact_snapshot_late(c) PROVE IInv'
      BY <2>3, CompactSnapshotStep
    <2>4. ASSUME NEW p \in Procs, fail_operation(p) PROVE IInv'
      BY <2>4, FailStep
    <2> QED
      BY <1>3, <2>1, <2>2, <2>3, <2>4, RestartStep DEF Environment
  <1>4. CASE UNCHANGED vars
    <2>1. TypeOK' /\ Ingested' = Ingested
      BY <1>4 DEF IInv, TypeOK, vars, Ingested
    <2>2. \A p \in Procs : ProcInv(p)'
      BY <1>4, <2>1, ProcFrame DEF IInv, vars
    <2> QED
      BY <1>4, <2>1, <2>2 DEF IInv, vars, DetailIntact, BaselinesKept, CountedOnce,
         ReadsComplete, ObservationsAllOrNone
  <1> QED
    BY <1>1, <1>2, <1>3, <1>4 DEF Next

-----------------------------------------------------------------------------
\* The invariant holds in every reachable state.
THEOREM Invariance == Spec => []IInv
  BY InitIInv, NextIInv, PTL DEF Spec

\* Type correctness of the compaction model.
THEOREM TypeCorrect == Spec => []TypeOK
  <1>1. IInv => TypeOK
    BY DEF IInv
  <1> QED
    BY <1>1, Invariance, PTL

\* Compaction, however many passes race and wherever they fail, keeps the exact
\* detail of every snapshot in exactly one place (compact_snapshot_detail).
THEOREM CompactionKeepsDetail == Spec => []DetailIntact
  <1>1. IInv => DetailIntact
    BY DEF IInv
  <1> QED
    BY <1>1, Invariance, PTL

\* measurement_report, files and lines_all return complete detail although each
\* takes several database operations and compaction may run in between.
THEOREM ReadersSeeCompleteDetail == Spec => []ReadsComplete
  <1>1. IInv => ReadsComplete
    BY DEF IInv
  <1> QED
    BY <1>1, Invariance, PTL

\* test_observation_sets returns every test name, with all observations or none.
THEOREM ObservationsNeverPartial == Spec => []ObservationsAllOrNone
  <1>1. IInv => ObservationsAllOrNone
    BY DEF IInv
  <1> QED
    BY <1>1, Invariance, PTL

\* A snapshot that never was compactable is never compacted.
THEOREM BaselinesNeverCompacted == Spec => []BaselinesKept
  <1>1. IInv => BaselinesKept
    BY DEF IInv
  <1> QED
    BY <1>1, Invariance, PTL

\* Racing passes never both count the same snapshot as compacted.
THEOREM CompactionsCountedOnce == Spec => []CountedOnce
  <1>1. IInv => CountedOnce
    BY DEF IInv
  <1> QED
    BY <1>1, Invariance, PTL

\* Nothing the model does replaces or removes a published payload.
THEOREM PublishedPayloadsStay == Spec => PayloadsImmutable
  <1>1. IInv /\ [Next]_vars =>
          [\A s \in Snapshots : payload[s] # NoPayload => payload'[s] = payload[s]]_vars
    <2> SUFFICES ASSUME IInv, Next, NEW s \in Snapshots, payload[s] # NoPayload
                 PROVE  payload'[s] = payload[s]
      OBVIOUS
    <2>1. ASSUME NEW c \in Compactors, PublishPayload(c) PROVE payload'[s] = payload[s]
      BY <2>1 DEF PublishPayload, IInv, TypeOK
    <2> QED
      BY <2>1 DEF Next, Compact, Read, Environment, compact_project, compact_next,
         detail_payload, compact_snapshot_detail, compact_finish, begin_read, read_rows,
         read_observations, compacted_detail, finish_read, store_report,
         set_snapshot_detail_retention, update_project_settings, compact_snapshot_late,
         fail_operation, restart, store
  <1> QED
    BY <1>1, Invariance, PTL DEF Spec, PayloadsImmutable

-----------------------------------------------------------------------------
\* Under the invariant the detail of a snapshot is a function of created alone.
LEMMA DetailMapIs ==
    IInv => DetailMap = [s \in Snapshots |-> IF created[s] = 0 THEN NoPayload ELSE Report[s]]
  BY SnapshotAssumption DEF IInv, DetailIntact, Ingested, DetailMap, DetailOf

\* Only ingestion is visible; it is one Ingest step of the abstract store.
LEMMA StepRefines == IInv /\ IInv' /\ [Next]_vars => [Abstract!Next]_DetailMap
  <1> SUFFICES ASSUME IInv, IInv', [Next]_vars PROVE [Abstract!Next]_DetailMap
    OBVIOUS
  <1> DEFINE map(c) == [s \in Snapshots |-> IF c[s] = 0 THEN NoPayload ELSE Report[s]]
  <1>1. DetailMap = map(created)
    BY DetailMapIs
  <1>2. DetailMap' = map(created')
    <2>1. (IInv => DetailMap = [s \in Snapshots |->
                                IF created[s] = 0 THEN NoPayload ELSE Report[s]])'
      BY DetailMapIs, PTL
    <2> QED
      BY <2>1
  <1>3. ASSUME NEW s \in Snapshots, NEW x \in Retentions, store_report(s, x)
        PROVE  Abstract!Next
    <2>1. DetailMap[s] = NoPayload
      BY <1>1, <1>3 DEF store_report
    <2>2. Cardinality(Ingested) + 1 # 0
      BY IngestedCard
    <2>3. map(created') = [map(created) EXCEPT ![s] = Report[s]]
      BY <1>3, <2>2 DEF store_report, IInv, TypeOK
    <2> QED
      BY <1>1, <1>2, <2>1, <2>3 DEF Abstract!Next, Abstract!Ingest
  <1>4. ASSUME created' = created PROVE DetailMap' = DetailMap
    BY <1>1, <1>2, <1>4
  <1>5. \/ \E s \in Snapshots, x \in Retentions : store_report(s, x)
        \/ created' = created
    BY DEF Next, Compact, Read, Environment, compact_project, compact_next,
       detail_payload, compact_snapshot_detail, compact_finish, begin_read, read_rows,
       read_observations, compacted_detail, finish_read,
       set_snapshot_detail_retention, update_project_settings, compact_snapshot_late,
       fail_operation, restart, store, vars
  <1> QED
    BY <1>3, <1>4, <1>5

\* SnapshotDetail implements SnapshotStore: no reader of the whole database can
\* tell that detail is ever moved.
THEOREM Refinement == Spec => AbstractSpec
  <1>1. Init => Abstract!Init
    BY DEF Init, Abstract!Init, DetailMap, DetailOf
  <1> QED
    BY <1>1, StepRefines, Invariance, PTL DEF Spec, AbstractSpec, Abstract!Spec
==============================================================================
