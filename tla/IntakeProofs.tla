---------------------------- MODULE IntakeProofs ----------------------------
(***************************************************************************)
(* Proofs about Intake for any intakes, threads and delays: an intake that *)
(* no two requests worked on at once and no fault hit is acted on at most  *)
(* once, and shows what was asked for; and a silent user is reminded of an *)
(* intake max_reminders times, and once more for each mark that was lost.  *)
(***************************************************************************)
EXTENDS Intake, FiniteSetTheorems, SequenceTheorems, TLAPS

-----------------------------------------------------------------------------
(* Shapes: what of the types the argument needs *)

Steps == {"edit", "prepare", "forward", "mark"}

RowShape(row) ==
  /\ row = [status |-> row.status, version |-> row.version, summary |-> row.summary,
            expires |-> row.expires, updated |-> row.updated]
  /\ row.expires \in Nat

ThreadShape(th) ==
  \/ th = Idle
  \/ /\ th = [step |-> th.step, id |-> th.id, version |-> th.version]
     /\ th.step \in Steps /\ th.id \in Intakes

RowsShape(tbl) == tbl = [i \in Intakes |-> tbl[i]] /\ \A i \in Intakes : RowShape(tbl[i])
ThreadsShape(th) == th = [t \in Thread |-> th[t]] /\ \A t \in Thread : ThreadShape(th[t])
ActionsShape(act) ==
  /\ act = [i \in Intakes |-> act[i]]
  /\ \A i \in Intakes : /\ act[i] = [times |-> act[i].times, last |-> act[i].last]
                        /\ act[i].times \in Nat

Shapes == now \in Nat /\ RowsShape(rows) /\ ThreadsShape(thread) /\ ActionsShape(actions)

-----------------------------------------------------------------------------
(* The inductive invariant *)

\* Whoever reads row i now finds an intake that takes no more edits and
\* cannot be confirmed.
SettledRow(row) == Expired(row).status \notin ActiveStatuses \cup {"none"}

\* An intake one thread at a time works on: it is acted on once, from the
\* version its row shows, and settled before it is.
Orderly(i) ==
  /\ \A t, u \in Working(i) : t = u
  /\ actions[i].times <= 1
  /\ actions[i].times > 0 => /\ SettledRow(rows[i])
                             /\ actions[i].last = rows[i].version
                             /\ \A t \in Working(i) : thread[t].step = "mark"
  /\ \A t \in Working(i) :
       /\ thread[t].step \in {"forward", "mark"} => SettledRow(rows[i])
       /\ thread[t].step \in {"prepare", "forward"} =>
            rows[i].status # "none" /\ thread[t].version = rows[i].version

IntakeInv == Shapes /\ \A i \in Intakes \ excused : Orderly(i)

\* A step that does not take version or settlement from a row.
Keeps(old, new) ==
  /\ RowShape(new)
  /\ old.status # "none" => new.status # "none" /\ new.version = old.version

LEMMA ExpiredKeeps ==
  ASSUME NEW row, RowShape(row)
  PROVE  /\ Keeps(row, Expired(row))
         /\ Expired(row).status = "none" <=> row.status = "none"
         /\ Expired(Expired(row)) = Expired(row)
         /\ Expired(row).expires = row.expires
         /\ Expired(row).version = row.version
  <1>1. CASE row.status \in ActiveStatuses /\ row.expires <= now
    <2> DEFINE e == Expired(row)
    <2>1. e = [row EXCEPT !.status = "expired", !.updated = 0,
                          !.summary = [count |-> 0, enabled |-> FALSE, next |-> 0]]
      BY <1>1 DEF Expired, Inactive
    <2>2. RowShape(e) /\ e.status = "expired" /\ e.expires = row.expires /\ e.version = row.version
      BY <2>1 DEF RowShape
    <2> HIDE DEF e
    <2>3. Expired(e) = e
      BY <2>2 DEF Expired, ActiveStatuses, Collecting
    <2>4. row.status # "none"
      BY <1>1 DEF ActiveStatuses, Collecting
    <2> QED
      BY <2>2, <2>3, <2>4 DEF Keeps, e
  <1>2. CASE ~(row.status \in ActiveStatuses /\ row.expires <= now)
    <2>1. Expired(row) = row
      BY <1>2 DEF Expired
    <2> QED
      BY <2>1 DEF Keeps
  <1> QED
    BY <1>1, <1>2

LEMMA InactiveSettles ==
  ASSUME NEW row, RowShape(row),
         NEW st \in {"confirmed", "failed", "cancelled", "forwarded_to_yggdrasil"}
  PROVE  /\ RowShape(Inactive(row, st)) /\ SettledRow(Inactive(row, st))
         /\ Inactive(row, st).status = st
         /\ Inactive(row, st).version = row.version
  <1>1. /\ RowShape(Inactive(row, st)) /\ Inactive(row, st).status = st
        /\ Inactive(row, st).version = row.version
    <2> DEFINE new == Inactive(row, st)
    <2>1. new = [row EXCEPT !.status = st, !.updated = 0,
                            !.summary = [count |-> 0, enabled |-> FALSE, next |-> 0]]
      BY DEF Inactive
    <2> QED
      BY <2>1 DEF RowShape
  <1>2. Expired(Inactive(row, st)) = Inactive(row, st)
    BY <1>1 DEF Expired, ActiveStatuses, Collecting
  <1> QED
    BY <1>1, <1>2 DEF SettledRow, ActiveStatuses, Collecting

LEMMA SettledStays ==
  ASSUME NEW row, RowShape(row)
  PROVE  SettledRow(Expired(row)) <=> SettledRow(row)
  BY ExpiredKeeps DEF SettledRow

\* One row is stored.
LEMMA PutRow ==
  ASSUME Shapes, NEW i \in Intakes, NEW row, RowShape(row)
  PROVE  RowsShape([rows EXCEPT ![i] = row])
  BY DEF Shapes, RowsShape

\* A step of the store alone.
LEMMA RowsStep ==
  ASSUME IntakeInv, RowsShape(rows'), UNCHANGED <<thread, actions>>, now' \in Nat,
         excused \subseteq excused',
         \A i \in Intakes : /\ Keeps(rows[i], rows'[i])
                            /\ SettledRow(rows[i]) => SettledRow(rows[i])'
  PROVE  IntakeInv'
  <1>1. Shapes'
    BY DEF IntakeInv, Shapes
  <1>2. ASSUME NEW i \in Intakes \ excused' PROVE Orderly(i)'
    <2>1. Orderly(i) /\ (SettledRow(rows[i]) => SettledRow(rows[i])')
      BY DEF IntakeInv
    <2>2. SettledRow(rows[i]) => rows[i].status # "none"
      BY ExpiredKeeps DEF SettledRow, IntakeInv, Shapes, RowsShape
    <2>3. rows[i].status # "none" => rows'[i].status # "none" /\ rows'[i].version = rows[i].version
      BY DEF Keeps
    <2> QED
      BY <2>1, <2>2, <2>3 DEF Orderly, Working
  <1> QED
    BY <1>1, <1>2 DEF IntakeInv

\* A step of thread t about intake i.
LEMMA OwnStep ==
  ASSUME IntakeInv, NEW t \in Thread, NEW i \in Intakes, NEW x,
         thread' = [thread EXCEPT ![t] = x], ThreadShape(x),
         thread[t] = Idle \/ thread[t].id = i, x = Idle \/ x.id = i,
         RowsShape(rows'), ActionsShape(actions'), now' = now, excused \subseteq excused',
         \A j \in Intakes : j # i => rows'[j] = rows[j] /\ actions'[j] = actions[j],
         i \notin excused' => Orderly(i)'
  PROVE  IntakeInv'
  <1>1. Shapes'
    BY DEF IntakeInv, Shapes, ThreadsShape
  <1>2. ASSUME NEW j \in Intakes \ excused', j # i PROVE Orderly(j)'
    <2>1. Orderly(j) /\ rows'[j] = rows[j] /\ actions'[j] = actions[j]
      BY <1>2 DEF IntakeInv
    <2>2. \A u \in Thread : u # t => thread'[u] = thread[u]
      BY DEF IntakeInv, Shapes, ThreadsShape
    <2>3. thread'[t] = x
      BY DEF IntakeInv, Shapes, ThreadsShape
    <2>4. Working(j)' = Working(j) /\ t \notin Working(j)
      BY <1>2, <2>2, <2>3 DEF Working
    <2>5. SettledRow(rows[j])' <=> SettledRow(rows[j])
      BY <2>1 DEF SettledRow, Expired
    <2>6. \A u \in Working(j) : thread'[u] = thread[u]
      BY <2>2, <2>4 DEF Working
    <2> QED
      BY <2>1, <2>4, <2>5, <2>6 DEF Orderly
  <1> QED
    BY <1>1, <1>2 DEF IntakeInv

\* What it must do to i, when no other thread works on it.
LEMMA LoneOrderly ==
  ASSUME Shapes, NEW t \in Thread, NEW i \in Intakes, NEW x, Working(i) \subseteq {t},
         thread' = [thread EXCEPT ![t] = x],
         actions'[i].times <= 1,
         actions'[i].times > 0 => /\ SettledRow(rows[i])' /\ actions'[i].last = rows'[i].version
                                  /\ x = Idle \/ x.step = "mark",
         x # Idle /\ x.step \in {"forward", "mark"} => SettledRow(rows[i])',
         x # Idle /\ x.step \in {"prepare", "forward"} =>
           rows'[i].status # "none" /\ x.version = rows'[i].version
  PROVE  Orderly(i)'
  <1>1. /\ thread'[t] = x
        /\ \A u \in Thread : u # t => thread'[u] = thread[u]
    BY DEF Shapes, ThreadsShape
  <1>2. Working(i)' \subseteq {t} /\ (Working(i)' # {} => x # Idle)
    BY <1>1 DEF Working
  <1> QED
    BY <1>1, <1>2 DEF Orderly

LEMMA Alone ==
  ASSUME IntakeInv, NEW t \in Thread, thread[t] # Idle, thread[t].id \notin excused
  PROVE  /\ thread[t].id \in Intakes /\ Orderly(thread[t].id)
         /\ t \in Working(thread[t].id) /\ Working(thread[t].id) \subseteq {t}
  <1>1. thread[t].id \in Intakes
    BY DEF IntakeInv, Shapes, ThreadsShape, ThreadShape
  <1>2. Orderly(thread[t].id) /\ t \in Working(thread[t].id)
    BY <1>1 DEF IntakeInv, Working
  <1> QED
    BY <1>1, <1>2 DEF Orderly

-----------------------------------------------------------------------------
(* The steps *)

\* Storing a row that is complete: refused on a closed intake.
LEMMA StoreRow ==
  ASSUME IntakeInv, NEW i \in Intakes, NEW row, RowShape(row), Store(i, row)
  PROVE  /\ RowsShape(rows')
         /\ \A j \in Intakes : j # i => rows'[j] = rows[j]
         /\ \/ rows'[i] = row
            \/ Closed(Expired(rows[i])) /\ rows'[i] = rows[i]
  <1>1. CASE Closed(Expired(rows[i]))
    BY <1>1 DEF Store, IntakeInv, Shapes
  <1>2. CASE ~Closed(Expired(rows[i]))
    <2>1. rows' = [rows EXCEPT ![i] = row]
      BY <1>2 DEF Store
    <2>2. RowsShape(rows')
      BY <2>1, PutRow DEF IntakeInv
    <2> QED
      BY <2>1, <2>2 DEF IntakeInv, Shapes, RowsShape
  <1> QED
    BY <1>1, <1>2

\* One row of the table changes and the threads do nothing.
LEMMA OneRow ==
  ASSUME IntakeInv, NEW i \in Intakes, NEW row, Keeps(rows[i], row),
         SettledRow(rows[i]) => SettledRow(row),
         rows' = [rows EXCEPT ![i] = row], UNCHANGED <<now, thread, actions>>,
         excused \subseteq excused'
  PROVE  IntakeInv'
  <1>1. RowsShape(rows') /\ now' \in Nat
    BY PutRow DEF Keeps, IntakeInv, Shapes
  <1>2. ASSUME NEW j \in Intakes
        PROVE  /\ Keeps(rows[j], rows'[j])
               /\ SettledRow(rows[j]) => SettledRow(rows[j])'
    <2>1. rows'[j] = IF j = i THEN row ELSE rows[j]
      BY DEF IntakeInv, Shapes, RowsShape
    <2>2. RowShape(rows[j])
      BY DEF IntakeInv, Shapes, RowsShape
    <2> QED
      BY <2>1, <2>2 DEF Keeps, SettledRow, Expired
  <1> QED
    BY <1>1, <1>2, RowsStep

LEMMA SameRows ==
  ASSUME IntakeInv, UNCHANGED <<rows, now, thread, actions>>, excused \subseteq excused'
  PROVE  IntakeInv'
  BY RowsStep DEF IntakeInv, Shapes, RowsShape, Keeps, SettledRow, Expired

LEMMA CreateKeeps ==
  ASSUME IntakeInv, NEW t \in Thread, NEW i \in Intakes, CreateIntake(t, i)
  PROVE  IntakeInv'
  <1>1. PICK status \in ActiveStatuses :
          rows' = [rows EXCEPT ![i] = [status |-> status, version |-> 0, summary |-> FreshSummary,
                                       expires |-> now + Ttl, updated |-> now]]
    BY DEF CreateIntake, ActiveStatuses
  <1> DEFINE row == [status |-> status, version |-> 0, summary |-> FreshSummary,
                     expires |-> now + Ttl, updated |-> now]
  <1>2. RowShape(row)
    BY IntakeAssumption DEF RowShape, IntakeInv, Shapes
  <1>3. rows[i].status = "none" /\ RowShape(rows[i])
    BY DEF CreateIntake, Stored, IntakeInv, Shapes, RowsShape
  <1>4. ~SettledRow(rows[i])
    BY <1>3, ExpiredKeeps DEF SettledRow
  <1> HIDE DEF row
  <1> QED
    BY <1>1, <1>2, <1>3, <1>4, OneRow DEF CreateIntake, Keeps, row

LEMMA ReadKeeps ==
  ASSUME IntakeInv, NEW i \in Intakes, ReadIntake(i)
  PROVE  IntakeInv'
  <1>1. RowShape(rows[i])
    BY DEF IntakeInv, Shapes, RowsShape
  <1>2. rows' = [rows EXCEPT ![i] = Expired(rows[i])]
    BY DEF ReadIntake, Touched
  <1> QED
    BY <1>1, <1>2, ExpiredKeeps, SettledStays, OneRow DEF ReadIntake

LEMMA CancelKeeps ==
  ASSUME IntakeInv, NEW i \in Intakes, CancelIntake(i)
  PROVE  IntakeInv'
  <1> DEFINE e == Expired(rows[i])
  <1>1. RowShape(rows[i]) /\ RowShape(e) /\ e.version = rows[i].version
    BY ExpiredKeeps DEF IntakeInv, Shapes, RowsShape, Keeps
  <1>2. excused \subseteq excused' /\ UNCHANGED <<now, thread, actions>> /\ rows[i].status # "none"
    BY DEF CancelIntake, Overlap, Stored
  <1>3. \/ rows' = rows
        \/ rows' = [rows EXCEPT ![i] = Inactive(e, "cancelled")]
    BY DEF CancelIntake, Store
  <1> HIDE DEF e
  <1>4. Keeps(rows[i], Inactive(e, "cancelled")) /\ SettledRow(Inactive(e, "cancelled"))
    BY <1>1, InactiveSettles DEF Keeps
  <1> QED
    BY <1>2, <1>3, <1>4, OneRow, SameRows

\* A thread starts on an intake that can still be edited or confirmed.
LEMMA BeginKeeps ==
  ASSUME IntakeInv, NEW t \in Thread, NEW i \in Intakes, NEW step \in {"edit", "prepare"},
         thread[t] = Idle, Stored(i), rows' = Touched(i),
         Expired(rows[i]).status \in ActiveStatuses, Begin(t, i, step), UNCHANGED <<now, actions>>
  PROVE  IntakeInv'
  <1> DEFINE x == [step |-> step, id |-> i, version |-> rows[i].version]
  <1>1. thread' = [thread EXCEPT ![t] = x] /\ excused \subseteq excused' /\ ThreadShape(x)
    BY DEF Begin, Overlap, ThreadShape, Steps
  <1>2. RowShape(rows[i]) /\ rows[i].status # "none"
    BY DEF IntakeInv, Shapes, RowsShape, Stored
  <1>3. /\ RowsShape(rows') /\ rows'[i] = Expired(rows[i])
        /\ \A j \in Intakes : j # i => rows'[j] = rows[j]
    BY <1>2, ExpiredKeeps, PutRow DEF IntakeInv, Shapes, RowsShape, Touched, Keeps
  <1>4. ASSUME i \notin excused' PROVE Orderly(i)'
    <2>1. Working(i) = {} /\ i \notin excused
      BY <1>4 DEF Begin, Overlap
    <2>2. actions[i].times <= 1 /\ ~(actions[i].times > 0)
      BY <2>1 DEF IntakeInv, Orderly, SettledRow
    <2>3. rows'[i].status # "none" /\ rows'[i].version = rows[i].version
      BY <1>2, <1>3, ExpiredKeeps
    <2>4. x.step = step /\ x.version = rows[i].version
      OBVIOUS
    <2> HIDE DEF x
    <2> QED
      BY <1>1, <2>1, <2>2, <2>3, <2>4, LoneOrderly DEF IntakeInv
  <1>5. x.id = i
    OBVIOUS
  <1> HIDE DEF x
  <1> QED
    BY <1>1, <1>3, <1>4, <1>5, OwnStep DEF IntakeInv, Shapes

\* The validated edit is stored by the only thread at work on the intake.
LEMMA EditKeeps ==
  ASSUME IntakeInv, NEW t \in Thread, StoreEdit(t)
  PROVE  IntakeInv'
  <1>1. PICK i \in Intakes : thread[t].id = i
    BY DEF StoreEdit, IntakeInv, Shapes, ThreadsShape, ThreadShape, Idle
  <1>2. thread[t].step = "edit" /\ thread[t] # Idle /\ Finish(t) /\ UNCHANGED <<now, actions, excused>>
    BY DEF StoreEdit, Idle
  <1>3. PICK status : Store(i, Completed(Expired(rows[i]), thread[t].version + 1, status))
    BY <1>1 DEF StoreEdit
  <1> DEFINE new == Completed(Expired(rows[i]), thread[t].version + 1, status)
  <1>4. RowShape(new)
    <2> DEFINE e == Expired(rows[i])
    <2>1. RowShape(e)
      BY <1>1, ExpiredKeeps DEF IntakeInv, Shapes, RowsShape, Keeps
    <2>2. new = [e EXCEPT !.status = status, !.version = thread[t].version + 1,
                          !.summary = FreshSummary, !.updated = now]
      BY DEF Completed
    <2> HIDE DEF e, new
    <2> QED
      BY <2>1, <2>2 DEF RowShape
  <1> HIDE DEF new
  <1>5. RowsShape(rows') /\ \A j \in Intakes : j # i => rows'[j] = rows[j]
    BY <1>1, <1>3, <1>4, StoreRow DEF new
  <1>6. ASSUME i \notin excused' PROVE Orderly(i)'
    <2>1. Orderly(i) /\ t \in Working(i) /\ Working(i) \subseteq {t}
      BY <1>1, <1>2, <1>6, Alone
    <2>2. actions[i].times <= 1 /\ ~(actions[i].times > 0)
      BY <1>1, <1>2, <2>1 DEF Orderly
    <2> QED
      BY <1>1, <1>2, <2>1, <2>2, LoneOrderly DEF IntakeInv, Finish
  <1> QED
    BY <1>1, <1>2, <1>5, <1>6, OwnStep DEF Finish, ThreadShape, IntakeInv, Shapes

\* Thread t stores a final status of its intake, or finds it closed.
LEMMA SettlesIntake ==
  ASSUME IntakeInv, NEW i \in Intakes,
         NEW st \in {"confirmed", "failed", "cancelled", "forwarded_to_yggdrasil"},
         Store(i, Inactive(Expired(rows[i]), st)), now' = now
  PROVE  /\ RowsShape(rows')
         /\ \A j \in Intakes : j # i => rows'[j] = rows[j]
         /\ SettledRow(rows[i])'
         /\ rows'[i].version = rows[i].version
  <1> DEFINE e == Expired(rows[i])
  <1>1. RowShape(rows[i]) /\ RowShape(e) /\ e.version = rows[i].version
    BY ExpiredKeeps DEF IntakeInv, Shapes, RowsShape, Keeps
  <1>2. Closed(e) => SettledRow(rows[i])
    BY DEF Closed, SettledRow, ActiveStatuses, Collecting
  <1>3. Store(i, Inactive(e, st))
    OBVIOUS
  <1> HIDE DEF e
  <1>4. /\ RowShape(Inactive(e, st)) /\ SettledRow(Inactive(e, st))
        /\ Inactive(e, st).version = rows[i].version
    BY <1>1, InactiveSettles
  <1>5. /\ RowsShape(rows')
        /\ \A j \in Intakes : j # i => rows'[j] = rows[j]
        /\ \/ rows'[i] = Inactive(e, st)
           \/ Closed(e) /\ rows'[i] = rows[i]
    BY <1>3, <1>4, StoreRow DEF e
  <1>6. SettledRow(rows'[i]) /\ rows'[i].version = rows[i].version
    BY <1>2, <1>4, <1>5
  <1> QED
    BY <1>5, <1>6 DEF SettledRow, Expired

LEMMA AcceptKeeps ==
  ASSUME IntakeInv, NEW t \in Thread, Accept(t)
  PROVE  IntakeInv'
  <1>1. PICK i \in Intakes : thread[t].id = i
    BY DEF Accept, IntakeInv, Shapes, ThreadsShape, ThreadShape, Idle
  <1> DEFINE x == [thread[t] EXCEPT !.step = "forward"]
  <1>2. /\ thread[t].step = "prepare" /\ thread[t] # Idle /\ thread' = [thread EXCEPT ![t] = x]
        /\ UNCHANGED <<now, actions, excused>>
    BY DEF Accept, Goto, Idle, IntakeInv, Shapes, ThreadsShape
  <1>3. /\ i \in Intakes /\ ThreadShape(x) /\ x.id = i /\ x.step = "forward"
        /\ x.version = thread[t].version
    BY <1>1, <1>2 DEF IntakeInv, Shapes, ThreadsShape, ThreadShape, Steps
  <1>4. /\ RowsShape(rows')
        /\ \A j \in Intakes : j # i => rows'[j] = rows[j]
        /\ SettledRow(rows[i])' /\ rows'[i].version = rows[i].version
    BY <1>1, <1>2, <1>3, SettlesIntake DEF Accept
  <1> HIDE DEF x
  <1>5. ASSUME i \notin excused' PROVE Orderly(i)'
    <2>1. Orderly(i) /\ t \in Working(i) /\ Working(i) \subseteq {t}
      BY <1>1, <1>2, <1>5, Alone
    <2>2. /\ actions[i].times <= 1 /\ ~(actions[i].times > 0)
          /\ thread[t].version = rows[i].version
      BY <1>1, <1>2, <2>1 DEF Orderly
    <2>3. RowShape(rows'[i]) /\ rows'[i].status # "none"
      <3>1. RowShape(rows[i])'
        BY <1>1, <1>3, <1>4 DEF RowsShape
      <3> QED
        BY <1>1, <1>4, <3>1, ExpiredKeeps DEF SettledRow, Expired, ActiveStatuses, Collecting
    <2> QED
      BY <1>1, <1>2, <1>3, <1>4, <2>1, <2>2, <2>3, LoneOrderly DEF IntakeInv
  <1> QED
    BY <1>1, <1>2, <1>3, <1>4, <1>5, OwnStep DEF IntakeInv, Shapes

LEMMA RejectKeeps ==
  ASSUME IntakeInv, NEW t \in Thread, Reject(t)
  PROVE  IntakeInv'
  <1>1. PICK i \in Intakes : thread[t].id = i
    BY DEF Reject, IntakeInv, Shapes, ThreadsShape, ThreadShape, Idle
  <1>2. /\ thread[t].step = "prepare" /\ thread[t] # Idle /\ thread' = [thread EXCEPT ![t] = Idle]
        /\ UNCHANGED <<now, actions, excused>>
    BY <1>1 DEF Reject, Finish, Idle
  <1>3. RowsShape(rows') /\ \A j \in Intakes : j # i => rows'[j] = rows[j]
    BY <1>1, <1>2, SettlesIntake DEF Reject, IntakeInv, Shapes
  <1>4. ASSUME i \notin excused' PROVE Orderly(i)'
    <2>1. Orderly(i) /\ t \in Working(i) /\ Working(i) \subseteq {t}
      BY <1>1, <1>2, <1>4, Alone
    <2>2. actions[i].times <= 1 /\ ~(actions[i].times > 0)
      BY <1>1, <1>2, <2>1 DEF Orderly
    <2> QED
      BY <1>1, <1>2, <2>1, <2>2, LoneOrderly DEF IntakeInv
  <1> QED
    BY <1>1, <1>2, <1>3, <1>4, OwnStep DEF IntakeInv, Shapes, ThreadShape

\* Yggdrasil acts on a settled intake for the first time.
LEMMA SendKeeps ==
  ASSUME IntakeInv, NEW t \in Thread, SendToYggdrasil(t)
  PROVE  IntakeInv'
  <1>1. PICK i \in Intakes : thread[t].id = i
    BY DEF SendToYggdrasil, IntakeInv, Shapes, ThreadsShape, ThreadShape, Idle
  <1> DEFINE act == [times |-> actions[i].times + 1, last |-> thread[t].version]
  <1>2. /\ thread[t].step = "forward" /\ thread[t] # Idle /\ UNCHANGED <<now, rows, excused>>
        /\ actions' = actions \/ actions' = [actions EXCEPT ![i] = act]
    BY <1>1 DEF SendToYggdrasil, Idle, IntakeInv, Shapes, ActionsShape
  <1>3. i \in Intakes /\ thread[t] = [step |-> "forward", id |-> i, version |-> thread[t].version]
    BY <1>1, <1>2 DEF IntakeInv, Shapes, ThreadsShape, ThreadShape
  <1>4. act.times \in Nat /\ act.times = actions[i].times + 1 /\ act.last = thread[t].version
        /\ act = [times |-> act.times, last |-> act.last]
    BY <1>1, <1>3 DEF IntakeInv, Shapes, ActionsShape
  <1> HIDE DEF act
  <1>5. ActionsShape(actions')
    BY <1>1, <1>2, <1>3, <1>4 DEF IntakeInv, Shapes, ActionsShape
  <1>6. \A j \in Intakes : j # i => rows'[j] = rows[j] /\ actions'[j] = actions[j]
    BY <1>1, <1>2 DEF IntakeInv, Shapes, ActionsShape
  <1>7. actions'[i] = actions[i] \/ actions'[i] = act
    BY <1>1, <1>2, <1>3 DEF IntakeInv, Shapes, ActionsShape
  <1> DEFINE y == [step |-> "mark", id |-> i, version |-> 0]
  <1>8. ThreadShape(y) /\ y.id = i /\ y.step = "mark"
    BY DEF ThreadShape, Steps
  <1>9. thread' = [thread EXCEPT ![t] = y]
    BY <1>1 DEF SendToYggdrasil, IntakeInv, Shapes, ThreadsShape
  <1> HIDE DEF y
  <1>10. ASSUME i \notin excused' PROVE Orderly(i)'
    <2>1. Orderly(i) /\ t \in Working(i) /\ Working(i) \subseteq {t}
      BY <1>1, <1>2, <1>10, Alone
    <2>2. /\ actions[i].times <= 1 /\ ~(actions[i].times > 0) /\ actions[i].times \in Nat
          /\ thread[t].version = rows[i].version /\ SettledRow(rows[i])
      BY <1>1, <1>2, <1>3, <2>1 DEF Orderly, IntakeInv, Shapes, ActionsShape
    <2>3. actions'[i].times <= 1
      BY <1>1, <1>4, <1>7, <2>2
    <2>4. actions'[i].times > 0 => actions'[i].last = rows'[i].version
      BY <1>1, <1>2, <1>4, <1>7, <2>2
    <2>5. SettledRow(rows[i])'
      BY <1>1, <1>2, <2>2 DEF SettledRow, Expired
    <2> QED
      BY <1>1, <1>3, <1>8, <1>9, <2>1, <2>3, <2>4, <2>5, LoneOrderly DEF IntakeInv
  <1>11. RowsShape(rows')
    BY <1>1, <1>2 DEF IntakeInv, Shapes
  <1> QED
    BY <1>1, <1>2, <1>3, <1>5, <1>6, <1>8, <1>9, <1>10, <1>11, OwnStep

LEMMA MarkKeeps ==
  ASSUME IntakeInv, NEW t \in Thread, MarkForwarded(t)
  PROVE  IntakeInv'
  <1>1. PICK i \in Intakes : thread[t].id = i
    BY DEF MarkForwarded, IntakeInv, Shapes, ThreadsShape, ThreadShape, Idle
  <1>2. /\ thread[t].step = "mark" /\ thread[t] # Idle /\ thread' = [thread EXCEPT ![t] = Idle]
        /\ UNCHANGED <<now, actions, excused>>
    BY <1>1 DEF MarkForwarded, Finish, Idle
  <1>3. /\ RowsShape(rows')
        /\ \A j \in Intakes : j # i => rows'[j] = rows[j]
        /\ SettledRow(rows[i])' /\ rows'[i].version = rows[i].version
    BY <1>1, <1>2, SettlesIntake DEF MarkForwarded
  <1>4. ASSUME i \notin excused' PROVE Orderly(i)'
    <2>1. Orderly(i) /\ t \in Working(i) /\ Working(i) \subseteq {t}
      BY <1>1, <1>2, <1>4, Alone
    <2>2. /\ actions[i].times <= 1
          /\ actions[i].times > 0 => actions[i].last = rows[i].version
      BY <2>1 DEF Orderly
    <2> QED
      BY <1>1, <1>2, <1>3, <2>1, <2>2, LoneOrderly DEF IntakeInv
  <1> QED
    BY <1>1, <1>2, <1>3, <1>4, OwnStep DEF IntakeInv, Shapes, ThreadShape

\* A fault excuses the intake it hits.
LEMMA FaultKeeps ==
  ASSUME IntakeInv, NEW t \in Thread, Fault(t)
  PROVE  IntakeInv'
  <1>1. PICK i \in Intakes : thread[t].id = i
    BY DEF Fault, IntakeInv, Shapes, ThreadsShape, ThreadShape, Idle
  <1> DEFINE x == [thread[t] EXCEPT !.step = "forward"]
  <1>2. /\ thread[t].step \in {"mark", "prepare"} /\ thread[t] # Idle
        /\ \/ thread' = [thread EXCEPT ![t] = Idle]
           \/ thread' = [thread EXCEPT ![t] = x]
        /\ excused' = excused \cup {i} /\ UNCHANGED <<now, rows, actions>>
    BY <1>1 DEF Fault, Finish, Goto, Idle, IntakeInv, Shapes, ThreadsShape
  <1>3. i \in Intakes /\ ThreadShape(x) /\ x.id = i /\ ThreadShape(Idle)
    BY <1>1, <1>2 DEF IntakeInv, Shapes, ThreadsShape, ThreadShape, Steps
  <1> HIDE DEF x
  <1> QED
    BY <1>1, <1>2, <1>3, OwnStep DEF IntakeInv, Shapes

-----------------------------------------------------------------------------
(* The bridge and the clock *)

LEMMA ListKeeps ==
  ASSUME IntakeInv, ListDue
  PROVE  IntakeInv'
  <1>1. PICK seen : rows' = [i \in Intakes |-> IF i \in seen THEN Read(i) ELSE rows[i]]
    BY DEF ListDue
  <1>2. UNCHANGED <<now, thread, actions, excused>>
    BY DEF ListDue
  <1>3. ASSUME NEW i \in Intakes
        PROVE  /\ RowShape(rows[i]) /\ Keeps(rows[i], rows'[i])
               /\ SettledRow(rows[i]) => SettledRow(rows'[i])
    <2>1. rows'[i] = rows[i] \/ rows'[i] = Expired(rows[i])
      BY <1>1 DEF Read
    <2>2. RowShape(rows[i])
      BY DEF IntakeInv, Shapes, RowsShape
    <2> QED
      BY <2>1, <2>2, ExpiredKeeps, SettledStays DEF Keeps
  <1>4. RowsShape(rows')
    BY <1>1, <1>3 DEF RowsShape, Keeps
  <1>5. \A i \in Intakes : SettledRow(rows[i])' <=> SettledRow(rows'[i])
    BY <1>2 DEF SettledRow, Expired
  <1> QED
    BY <1>2, <1>3, <1>4, <1>5, RowsStep DEF IntakeInv, Shapes

LEMMA MarkFollowupKeeps ==
  ASSUME IntakeInv, MarkFollowup
  PROVE  IntakeInv'
  <1> DEFINE i == Head(bridge.queue)
             e == Expired(rows[i])
  <1>1. UNCHANGED <<now, thread, actions, excused>>
    BY DEF MarkFollowup
  <1>2. CASE rows' = rows
    BY <1>1, <1>2, SameRows
  <1>3. CASE i \in Intakes /\ e.status \in ActiveStatuses /\ rows' = [rows EXCEPT ![i] = MarkedSent(e)]
    <2>1. RowShape(rows[i]) /\ RowShape(e) /\ e.version = rows[i].version
      BY <1>3, ExpiredKeeps DEF IntakeInv, Shapes, RowsShape, Keeps
    <2>2. ~SettledRow(rows[i])
      BY <1>3 DEF SettledRow
    <2> HIDE DEF e
    <2>3. PICK summary : MarkedSent(e) = [e EXCEPT !.updated = now, !.summary = summary]
      BY DEF MarkedSent
    <2>4. RowShape(MarkedSent(e)) /\ MarkedSent(e).status = e.status /\ MarkedSent(e).version = e.version
      BY <2>1, <2>3 DEF RowShape
    <2>5. Keeps(rows[i], MarkedSent(e))
      BY <1>3, <2>1, <2>4 DEF Keeps, ActiveStatuses, Collecting
    <2> HIDE DEF i
    <2> QED
      BY <1>1, <1>3, <2>2, <2>5, OneRow
  <1>4. CASE i \notin Intakes /\ rows' = [rows EXCEPT ![i] = MarkedSent(e)]
    <2>1. rows' = rows
      BY <1>4 DEF IntakeInv, Shapes, RowsShape
    <2> QED
      BY <1>1, <2>1, SameRows
  <1> QED
    BY <1>2, <1>3, <1>4 DEF MarkFollowup

LEMMA TickKeeps ==
  ASSUME IntakeInv, Tick
  PROVE  IntakeInv'
  <1>1. now \in Nat /\ now' = now + 1 /\ UNCHANGED <<rows, thread, actions, excused>>
    BY DEF Tick, IntakeInv, Shapes
  <1>2. ASSUME NEW i \in Intakes
        PROVE  /\ RowShape(rows[i]) /\ rows[i].expires \in Nat
               /\ SettledRow(rows[i]) => SettledRow(rows[i])'
    <2>1. RowShape(rows[i]) /\ rows[i].expires \in Nat
      BY DEF IntakeInv, Shapes, RowsShape, RowShape
    <2>2. CASE rows[i].status \in ActiveStatuses /\ rows[i].expires <= now
      <3>1. /\ Expired(rows[i])' = Inactive(rows[i], "expired")
            /\ Expired(rows[i]) = Inactive(rows[i], "expired")
        BY <1>1, <2>1, <2>2 DEF Expired
      <3> QED
        BY <2>1, <3>1 DEF SettledRow
    <2>3. CASE rows[i].status \in ActiveStatuses /\ ~(rows[i].expires <= now)
      <3>1. Expired(rows[i]) = rows[i]
        BY <2>3 DEF Expired
      <3> QED
        BY <2>1, <2>3, <3>1 DEF SettledRow
    <2>4. CASE rows[i].status \notin ActiveStatuses
      <3>1. Expired(rows[i])' = rows[i] /\ Expired(rows[i]) = rows[i]
        BY <1>1, <2>4 DEF Expired
      <3> QED
        BY <2>1, <3>1 DEF SettledRow
    <2> QED
      BY <2>1, <2>2, <2>3, <2>4
  <1> QED
    BY <1>1, <1>2, RowsStep DEF IntakeInv, Shapes, Keeps

-----------------------------------------------------------------------------
(* The theorems *)

LEMMA InitIntakeInv == Init => IntakeInv
  <1> SUFFICES ASSUME Init PROVE IntakeInv
    OBVIOUS
  <1>1. Shapes
    BY DEF Init, Shapes, RowsShape, RowShape, NoRow, ThreadsShape, ThreadShape, ActionsShape
  <1>2. \A i \in Intakes : Working(i) = {} /\ actions[i].times = 0
    BY DEF Init, Working
  <1> QED
    BY <1>1, <1>2 DEF IntakeInv, Orderly

LEMMA ThreadKeeps ==
  ASSUME IntakeInv, NEW t \in Thread, ThreadStep(t)
  PROVE  IntakeInv'
  <1>1. ASSUME NEW i \in Intakes, ReadForEdit(t, i) PROVE IntakeInv'
    <2>1. Expired(rows[i]).status \in ActiveStatuses
      BY <1>1 DEF ReadForEdit, Editable, ActiveStatuses
    <2> QED
      BY <1>1, <2>1, BeginKeeps DEF ReadForEdit
  <1>2. ASSUME NEW i \in Intakes, ReadForConfirm(t, i) PROVE IntakeInv'
    <2>1. Expired(rows[i]).status \in ActiveStatuses
      BY <1>2 DEF ReadForConfirm, Confirmable, ActiveStatuses
    <2> QED
      BY <1>2, <2>1, BeginKeeps DEF ReadForConfirm
  <1> QED
    BY <1>1, <1>2, CreateKeeps, EditKeeps, AcceptKeeps, RejectKeeps, SendKeeps, MarkKeeps,
       FaultKeeps DEF ThreadStep

\* The invariant of the intakes is inductive (intake_store.py, route_chat).
THEOREM IntakeInvariant == Spec => []IntakeInv
  <1>1. IntakeInv /\ [Next]_vars => IntakeInv'
    <2> SUFFICES ASSUME IntakeInv, [Next]_vars PROVE IntakeInv'
      OBVIOUS
    <2>1. ASSUME NEW t \in Thread, ThreadStep(t) PROVE IntakeInv'
      BY <2>1, ThreadKeeps
    <2>2. ASSUME NEW i \in Intakes, ReadIntake(i) \/ CancelIntake(i) PROVE IntakeInv'
      BY <2>2, ReadKeeps, CancelKeeps
    <2>3. CASE ListDue
      BY <2>3, ListKeeps
    <2>4. CASE SendFollowup
      BY <2>4, SameRows DEF SendFollowup
    <2>5. CASE MarkFollowup
      BY <2>5, MarkFollowupKeeps
    <2>6. CASE AbortPass
      BY <2>6, SameRows DEF AbortPass
    <2>7. CASE Tick
      BY <2>7, TickKeeps
    <2>8. CASE UNCHANGED vars
      BY <2>8, SameRows DEF vars
    <2> QED
      BY <2>1, <2>2, <2>3, <2>4, <2>5, <2>6, <2>7, <2>8 DEF Next, BridgeStep
  <1> QED
    BY <1>1, InitIntakeInv, PTL DEF Spec

\* However often a user confirms, edits or cancels an intake, and however it
\* expires meanwhile, Yggdrasil acts on it at most once unless two messages
\* were handled at once or an answer or a commit was lost
\* (confirm_intake_response).
THEOREM IntakesForwardedOnce == Spec => []ForwardedOnce
  <1>1. IntakeInv => ForwardedOnce
    BY DEF IntakeInv, Orderly, ForwardedOnce
  <1> QED
    BY <1>1, IntakeInvariant, PTL

\* With the same exceptions a forwarded intake shows what Yggdrasil was asked
\* to do: no edit reaches its row after it was read for the confirmation.
THEOREM ForwardedIsShown == Spec => []ShownAsForwarded
  <1>1. IntakeInv => ShownAsForwarded
    BY DEF IntakeInv, Orderly, ShownAsForwarded
  <1> QED
    BY <1>1, IntakeInvariant, PTL

-----------------------------------------------------------------------------
(* Numbers *)

\* Every set of naturals that is not empty has a least element.
LEMMA LeastElement ==
  ASSUME NEW T \in SUBSET Nat, T # {}
  PROVE  \E n \in T : \A m \in T : n <= m
  <1>1. PICK n \in T : \A m \in T : ~(<<m, n>> \in OpToRel(<, Nat))
    BY WFMin, NatLessThanWellFounded
  <1>2. \A m \in T : ~(m < n)
    BY <1>1 DEF OpToRel
  <1> QED
    BY <1>2

\* The longest of the delays: there is one, and Max finds it.
LEMMA LongestDelay ==
  /\ Max(Range(Delays)) \in Nat \ {0}
  /\ \A n \in DOMAIN Delays : Delays[n] \in Nat \ {0} /\ Delays[n] <= Max(Range(Delays))
  <1> DEFINE Topped(k) == \E j \in 1..Len(Delays) : \A n \in 1..k : Delays[n] <= Delays[j]
             Bad == {k \in 1..Len(Delays) : ~Topped(k)}
  <1>1. Len(Delays) \in Nat \ {0} /\ \A n \in 1..Len(Delays) : Delays[n] \in Nat \ {0}
    BY IntakeAssumption
  <1>2. Bad = {}
    <2> SUFFICES ASSUME Bad # {} PROVE FALSE
      OBVIOUS
    <2>1. PICK k \in Bad : \A m \in Bad : k <= m
      <3>1. Bad \in SUBSET Nat
        BY <1>1
      <3> HIDE DEF Bad
      <3> QED
        BY <3>1, LeastElement
    <2>2. k \in 1..Len(Delays) /\ k # 1 /\ ~Topped(k)
      BY <1>1, <2>1
    <2>3. Topped(k - 1)
      <3>1. k - 1 \in 1..Len(Delays) /\ ~(k <= k - 1)
        BY <1>1, <2>2
      <3> HIDE DEF Topped
      <3> QED
        BY <2>1, <3>1
    <2>4. PICK j \in 1..Len(Delays) : \A n \in 1..(k - 1) : Delays[n] <= Delays[j]
      BY <2>3
    <2>5. Topped(k)
      <3>1. CASE Delays[k] <= Delays[j]
        BY <2>2, <2>4, <3>1
      <3>2. CASE Delays[j] <= Delays[k]
        <4>1. ASSUME NEW n \in 1..k PROVE Delays[n] <= Delays[k]
          <5>1. n = k \/ n \in 1..(k - 1)
            BY <2>2
          <5>2. Delays[n] \in Nat /\ Delays[j] \in Nat /\ Delays[k] \in Nat
            BY <1>1, <2>2, <2>4
          <5> QED
            BY <2>4, <3>2, <5>1, <5>2
        <4> QED
          BY <2>2, <4>1
      <3> QED
        BY <1>1, <2>2, <3>1, <3>2
    <2> QED
      BY <2>2, <2>5
  <1>3. Topped(Len(Delays))
    BY <1>1, <1>2
  <1>4. PICK j \in 1..Len(Delays) : \A n \in 1..Len(Delays) : Delays[n] <= Delays[j]
    BY <1>3
  <1> HIDE DEF Topped, Bad
  <1>5. DOMAIN Delays = 1..Len(Delays)
    BY IntakeAssumption
  <1>6. Delays[j] \in Range(Delays) /\ \A d \in Range(Delays) : Delays[j] >= d
    BY <1>1, <1>4, <1>5 DEF Range
  <1>7. Max(Range(Delays)) \in Range(Delays) /\ \A d \in Range(Delays) : Max(Range(Delays)) >= d
    BY <1>6 DEF Max
  <1> QED
    BY <1>1, <1>5, <1>7 DEF Range

\* What zero is compared with.
LEMMA SumsOfNaturals == \A a, b \in Nat : 0 <= a /\ 0 <= a + b /\ 0 <= 0 + a + 1 /\ 0 <= 0 + a + 0
  OBVIOUS

LEMMA SmallerOfTwo ==
  ASSUME NEW a \in Nat, NEW b \in Nat
  PROVE  Min({a, b}) = IF a <= b THEN a ELSE b
  <1>1. \E x \in {a, b} : \A y \in {a, b} : x <= y
    OBVIOUS
  <1>2. Min({a, b}) \in {a, b} /\ \A y \in {a, b} : Min({a, b}) <= y
    BY <1>1 DEF Min
  <1> QED
    BY <1>2

-----------------------------------------------------------------------------
(* Types *)

\* The bridge sends or marks what is in its queue, each intake once; what waits
\* there has not been reminded as often as it may be.
InQueue == {bridge.queue[n] : n \in DOMAIN bridge.queue}
BridgeOrder ==
  /\ bridge = [step |-> bridge.step, queue |-> bridge.queue]
  /\ bridge.step # "idle" => bridge.queue # <<>>
  /\ \A m, n \in DOMAIN bridge.queue : bridge.queue[m] = bridge.queue[n] => m = n
  /\ \A i \in InQueue :
       /\ rows[i].status # "none" /\ MaxReminders > 0
       /\ rows[i].status \in ActiveStatuses => rows[i].summary.count < MaxReminders

\* An edit begins below the bound on edits.
EditsFit == \A t \in Thread : thread[t] # Idle /\ thread[t].step = "edit" => thread[t].version < MaxEdits

IntakeTypes == TypeOK /\ ThreadsShape(thread) /\ BridgeOrder /\ EditsFit

\* What most steps do to a row: an active row was active, with the same count
\* and expiry, and no row disappears.
Quiet(old, new) ==
  /\ new.status = "none" => old.status = "none"
  /\ new.status \in ActiveStatuses =>
       /\ old.status \in ActiveStatuses
       /\ new.summary.count = old.summary.count /\ new.expires = old.expires

LEMMA Constants ==
  /\ MaxReminders \in Nat /\ Horizon \in Nat /\ MaxEdits \in Nat /\ MaxFaults \in Nat /\ Ttl \in Nat
  /\ Limit \in Nat /\ 0 \in Time /\ 0 \in 0..MaxEdits /\ 0 \in 0..Horizon /\ 0 \in 0..MaxReminders
  /\ 0 \in 0..(Horizon + Max(Range(Delays)))
  BY IntakeAssumption, LongestDelay DEF Time

LEMMA ExpiredRow ==
  ASSUME NEW row \in Row
  PROVE  /\ Expired(row) \in Row /\ Quiet(row, Expired(row))
         /\ Expired(row).version = row.version
         /\ Expired(row).status \in ActiveStatuses => Expired(row) = row /\ ~(row.expires <= now)
  <1>1. CASE row.status \in ActiveStatuses /\ row.expires <= now
    <2> DEFINE new == [row EXCEPT !.status = "expired", !.updated = 0,
                                  !.summary = [count |-> 0, enabled |-> FALSE, next |-> 0]]
    <2>1. Expired(row) = new
      BY <1>1 DEF Expired, Inactive
    <2>2. new \in Row /\ new.status = "expired" /\ new.version = row.version
      BY Constants DEF Row, Summary, Statuses
    <2> HIDE DEF new
    <2> QED
      BY <1>1, <2>1, <2>2 DEF Quiet, ActiveStatuses, Collecting
  <1>2. CASE ~(row.status \in ActiveStatuses /\ row.expires <= now)
    <2>1. Expired(row) = row
      BY <1>2 DEF Expired
    <2> QED
      BY <1>2, <2>1 DEF Quiet
  <1> QED
    BY <1>1, <1>2

LEMMA InactiveRow ==
  ASSUME NEW row \in Row, NEW st \in {"confirmed", "failed", "cancelled", "forwarded_to_yggdrasil"}
  PROVE  /\ Inactive(row, st) \in Row
         /\ Quiet(row, Inactive(row, st))
  <1> DEFINE new == [row EXCEPT !.status = st, !.updated = 0,
                                !.summary = [count |-> 0, enabled |-> FALSE, next |-> 0]]
  <1>1. Inactive(row, st) = new
    BY DEF Inactive
  <1>2. new \in Row /\ new.status = st
    BY Constants DEF Row, Summary, Statuses
  <1> HIDE DEF new
  <1> QED
    BY <1>1, <1>2 DEF Quiet, ActiveStatuses, Collecting

LEMMA FreshIsSummary ==
  ASSUME now \in 0..Horizon
  PROVE  FreshSummary \in Summary /\ FreshSummary.count = 0
  <1>1. Delays[1] \in Nat /\ Delays[1] <= Max(Range(Delays)) /\ Max(Range(Delays)) \in Nat
    BY LongestDelay, IntakeAssumption
  <1>2. now + Delays[1] \in 0..(Horizon + Max(Range(Delays)))
    BY <1>1, Constants
  <1> QED
    BY <1>2, Constants DEF FreshSummary, Summary

LEMMA CompletedRow ==
  ASSUME NEW row \in Row, now \in 0..Horizon, NEW version \in 0..MaxEdits, NEW st \in ActiveStatuses
  PROVE  LET new == Completed(row, version, st)
         IN  new \in Row /\ new.status = st /\ new.summary.count = 0
  <1> DEFINE new == [row EXCEPT !.status = st, !.version = version, !.summary = FreshSummary, !.updated = now]
  <1>1. Completed(row, version, st) = new
    BY DEF Completed
  <1>2. new \in Row /\ new.status = st /\ new.summary = FreshSummary
    BY FreshIsSummary DEF Row, Statuses
  <1> HIDE DEF new
  <1> QED
    BY <1>1, <1>2, FreshIsSummary

LEMMA MarkedRow ==
  ASSUME NEW row \in Row, now \in 0..Horizon, row.summary.count < MaxReminders
  PROVE  LET new == MarkedSent(row)
         IN  /\ new \in Row /\ new.status = row.status /\ new.expires = row.expires
             /\ new.summary.count = row.summary.count + 1
  <1> DEFINE count == row.summary.count + 1
             shortest == Min({count + 1, Len(Delays)})
             summary == IF count >= MaxReminders
                        THEN [count |-> count, enabled |-> FALSE, next |-> 0]
                        ELSE [count |-> count, enabled |-> row.summary.enabled, next |-> now + Delays[shortest]]
  <1>1. row.summary \in Summary /\ row.summary.enabled \in BOOLEAN /\ count \in 0..MaxReminders
    BY Constants DEF Row, Summary
  <1>2. shortest \in DOMAIN Delays
    <2>1. Len(Delays) \in Nat \ {0} /\ DOMAIN Delays = 1..Len(Delays) /\ count + 1 \in Nat \ {0}
      BY <1>1, Constants, IntakeAssumption
    <2> QED
      BY <2>1, SmallerOfTwo
  <1>3. now + Delays[shortest] \in 0..(Horizon + Max(Range(Delays)))
    BY <1>2, LongestDelay, Constants
  <1>4. summary \in Summary /\ summary.count = count
    <2> HIDE DEF shortest, count
    <2> QED
      BY <1>1, <1>3, Constants DEF Summary
  <1>5. MarkedSent(row) = [row EXCEPT !.updated = now, !.summary = summary]
    BY DEF MarkedSent
  <1> HIDE DEF summary
  <1> QED
    BY <1>4, <1>5 DEF Row

-----------------------------------------------------------------------------
(* How often the user has been reminded *)

Marking(i) == bridge.step = "marking" /\ bridge.queue[1] = i

\* A row's count lags behind the reminders sent by those whose mark was lost
\* and the one that is being marked.  A row that has expired unseen is not
\* reminded again once the pass is over.
Counted(i) ==
  /\ rows[i].status = "none" => reminded[i] = 0
  /\ rows[i].status \in ActiveStatuses => reminded[i] <= MaxReminders + faults
  /\ rows[i].status \in ActiveStatuses /\ (rows[i].expires > now \/ i \in InQueue) =>
       reminded[i] <= rows[i].summary.count + faults + (IF Marking(i) THEN 1 ELSE 0)

Reminding == IntakeTypes /\ \A i \in Intakes : Counted(i)

\* A table of threads, each idle or at work on an edit it has room for.
ThreadsFit(th) ==
  /\ th = [t \in Thread |-> th[t]]
  /\ \A t \in Thread : \/ th[t] = Idle
                       \/ th[t] \in Busy /\ (th[t].step = "edit" => th[t].version < MaxEdits)

\* BoundedSeq, unfolded.
LEMMA BoundedQueue ==
  ASSUME NEW q
  PROVE  q \in BoundedSeq(Intakes, Limit) <=> q \in Seq(Intakes) /\ Len(q) <= Limit
  BY Constants DEF BoundedSeq, SeqOf

LEMMA TypesAtHand ==
  ASSUME IntakeTypes
  PROVE  /\ now \in 0..Horizon /\ rows \in [Intakes -> Row] /\ faults \in 0..MaxFaults
         /\ reminded \in [Intakes -> 0..TooMany] /\ excused \subseteq Intakes
         /\ actions \in [Intakes -> [times : Nat, last : 0..MaxEdits]]
         /\ bridge.queue \in Seq(Intakes) /\ Len(bridge.queue) <= Limit
         /\ bridge.step \in {"idle", "sending", "marking"}
         /\ ThreadsFit(thread) /\ InQueue \subseteq Intakes
  <1>1. bridge.queue \in Seq(Intakes) /\ Len(bridge.queue) <= Limit
    BY BoundedQueue DEF IntakeTypes, TypeOK
  <1>2. InQueue \subseteq Intakes
    BY <1>1 DEF InQueue
  <1>3. ThreadsFit(thread)
    BY DEF IntakeTypes, TypeOK, ThreadsShape, EditsFit, ThreadsFit
  <1> QED
    BY <1>1, <1>2, <1>3 DEF IntakeTypes, TypeOK

\* The step of a request, or of the clock.
LEMMA StepKeepsReminding ==
  ASSUME Reminding, bridge' = bridge, rows' \in [Intakes -> Row], ThreadsFit(thread'),
         now' \in 0..Horizon, now' >= now, faults' \in 0..MaxFaults, faults' >= faults,
         reminded' \in [Intakes -> 0..TooMany], excused' \subseteq Intakes,
         actions' \in [Intakes -> [times : Nat, last : 0..MaxEdits]],
         \A i \in Intakes :
           \/ Quiet(rows[i], rows'[i]) /\ reminded'[i] = reminded[i]
           \/ rows'[i].status # "none" /\ rows'[i].summary.count = 0 /\ reminded'[i] = 0
  PROVE  Reminding'
  <1>1. IntakeTypes
    BY DEF Reminding
  <1>2. TypeOK'
    BY <1>1 DEF IntakeTypes, TypeOK, ThreadsFit
  <1>3. ThreadsShape(thread)' /\ EditsFit'
    <2>1. \A t \in Thread : ThreadShape(thread'[t])
      BY DEF ThreadsFit, ThreadShape, Busy, Steps
    <2> QED
      BY <2>1 DEF ThreadsFit, ThreadsShape, EditsFit
  <1>4. BridgeOrder'
    <2>1. BridgeOrder /\ InQueue \subseteq Intakes /\ InQueue' = InQueue
      BY <1>1, TypesAtHand DEF IntakeTypes, InQueue
    <2>2. ASSUME NEW i \in InQueue
          PROVE  /\ rows'[i].status # "none"
                 /\ rows'[i].status \in ActiveStatuses => rows'[i].summary.count < MaxReminders
      BY <2>1, <2>2, Constants DEF BridgeOrder, Quiet
    <2> QED
      BY <2>1, <2>2 DEF BridgeOrder
  <1>5. ASSUME NEW i \in Intakes PROVE Counted(i)'
    <2>1. Counted(i)
      BY DEF Reminding
    <2>2. /\ rows[i].summary.count \in Nat /\ rows'[i].summary.count \in Nat
          /\ rows[i].expires \in Nat /\ faults \in Nat /\ faults' \in Nat
          /\ reminded[i] \in Nat /\ now \in Nat /\ now' \in Nat
      <3>1. rows[i] \in Row /\ rows'[i] \in Row /\ reminded[i] \in 0..TooMany
        BY <1>1, TypesAtHand
      <3>2. TooMany \in Nat
        BY Constants DEF TooMany
      <3> QED
        BY <1>1, <3>1, <3>2, TypesAtHand, Constants DEF Row, Summary, Time
    <2>3. InQueue' = InQueue /\ (Marking(i)' <=> Marking(i))
      BY DEF InQueue, Marking
    <2>4. CASE Quiet(rows[i], rows'[i]) /\ reminded'[i] = reminded[i]
      <3>1. rows'[i].status = "none" => reminded'[i] = 0
        BY <2>1, <2>4 DEF Counted, Quiet
      <3>2. ASSUME rows'[i].status \in ActiveStatuses
            PROVE  /\ reminded'[i] <= MaxReminders + faults'
                   /\ rows'[i].expires > now' \/ i \in InQueue' =>
                        reminded'[i] <= rows'[i].summary.count + faults' + (IF Marking(i)' THEN 1 ELSE 0)
        <4>1. /\ rows[i].status \in ActiveStatuses /\ rows'[i].summary.count = rows[i].summary.count
              /\ rows'[i].expires = rows[i].expires
          BY <2>4, <3>2 DEF Quiet
        <4>2. rows'[i].expires > now' => rows[i].expires > now
          BY <2>2, <4>1
        <4> QED
          BY <2>1, <2>2, <2>3, <2>4, <4>1, <4>2, Constants DEF Counted
      <3> QED
        BY <3>1, <3>2 DEF Counted
    <2>5. CASE rows'[i].status # "none" /\ rows'[i].summary.count = 0 /\ reminded'[i] = 0
      <3>0. MaxReminders \in Nat /\ faults' \in Nat
        BY <2>2, Constants
      <3>1. 0 <= MaxReminders + faults' /\ 0 <= 0 + faults' + 1 /\ 0 <= 0 + faults' + 0
        BY <3>0, SumsOfNaturals
      <3>2. reminded'[i] <= rows'[i].summary.count + faults' + (IF Marking(i)' THEN 1 ELSE 0)
        BY <2>5, <3>0, <3>1
      <3>3. reminded'[i] <= MaxReminders + faults'
        BY <2>5, <3>0, <3>1
      <3> QED
        BY <2>5, <3>2, <3>3 DEF Counted
    <2> QED
      BY <2>4, <2>5
  <1> QED
    BY <1>2, <1>3, <1>4, <1>5 DEF Reminding, IntakeTypes

-----------------------------------------------------------------------------
(* The requests *)

Fits(x) == \/ x = Idle
           \/ x \in Busy /\ (x.step = "edit" => x.version < MaxEdits)

LEMMA PutThread ==
  ASSUME IntakeTypes, NEW t \in Thread, NEW x, Fits(x), thread' = [thread EXCEPT ![t] = x]
  PROVE  ThreadsFit(thread')
  BY TypesAtHand DEF ThreadsFit, Fits

\* A request that changes at most row i, and no count.
LEMMA QuietStep ==
  ASSUME Reminding, NEW i \in Intakes, NEW row \in Row, Quiet(rows[i], row),
         rows' = [rows EXCEPT ![i] = row] \/ rows' = rows,
         UNCHANGED <<now, bridge, reminded>>, ThreadsFit(thread'),
         faults' \in 0..MaxFaults, faults' >= faults, excused' \subseteq Intakes,
         actions' \in [Intakes -> [times : Nat, last : 0..MaxEdits]]
  PROVE  Reminding'
  <1>1. /\ rows \in [Intakes -> Row] /\ now \in 0..Horizon /\ reminded \in [Intakes -> 0..TooMany]
    BY TypesAtHand DEF Reminding
  <1>2. rows' \in [Intakes -> Row]
    BY <1>1
  <1>3. ASSUME NEW j \in Intakes PROVE Quiet(rows[j], rows'[j]) /\ reminded'[j] = reminded[j]
    <2>1. \/ rows'[j] = rows[j]
          \/ j = i /\ rows'[j] = row
      BY <1>1
    <2> QED
      BY <2>1 DEF Quiet
  <1>4. now' \in 0..Horizon /\ now' >= now
    BY <1>1, Constants
  <1> QED
    BY <1>1, <1>2, <1>3, <1>4, StepKeepsReminding

LEMMA InitReminding == Init => Reminding
  <1> SUFFICES ASSUME Init PROVE Reminding
    OBVIOUS
  <1>1. NoRow \in Row
    BY Constants DEF NoRow, Row, Summary, Statuses
  <1>2. bridge = [step |-> "idle", queue |-> <<>>]
    BY DEF Init, Resting
  <1>3. <<>> \in BoundedSeq(Intakes, Limit)
    <2>1. <<>> \in Seq(Intakes) /\ Len(<<>>) = 0
      OBVIOUS
    <2>2. 0 <= Limit
      BY IntakeAssumption, SumsOfNaturals
    <2> QED
      BY <2>1, <2>2, BoundedQueue
  <1>4. 0 \in 0..TooMany /\ 0 \in 0..MaxFaults /\ actions \in [Intakes -> [times : Nat, last : 0..MaxEdits]]
    BY Constants DEF Init, TooMany
  <1>5. TypeOK
    BY <1>1, <1>2, <1>3, <1>4, Constants DEF Init, TypeOK
  <1>6. InQueue = {} /\ DOMAIN bridge.queue = {} /\ bridge.step = "idle"
    BY <1>2 DEF InQueue
  <1>7. BridgeOrder
    BY <1>2, <1>6 DEF BridgeOrder
  <1>8. ThreadsShape(thread) /\ EditsFit
    BY DEF Init, ThreadsShape, ThreadShape, EditsFit
  <1>9. ASSUME NEW i \in Intakes PROVE Counted(i)
    BY DEF Init, Counted, NoRow, ActiveStatuses, Collecting
  <1> QED
    BY <1>5, <1>7, <1>8, <1>9 DEF Reminding, IntakeTypes

LEMMA CreateReminds ==
  ASSUME Reminding, NEW t \in Thread, NEW i \in Intakes, CreateIntake(t, i)
  PROVE  Reminding'
  <1>1. /\ rows \in [Intakes -> Row] /\ now \in 0..Horizon /\ reminded \in [Intakes -> 0..TooMany]
        /\ faults \in 0..MaxFaults /\ excused \subseteq Intakes /\ ThreadsFit(thread)
        /\ actions \in [Intakes -> [times : Nat, last : 0..MaxEdits]]
    BY TypesAtHand DEF Reminding
  <1>2. PICK status \in ActiveStatuses :
          rows' = [rows EXCEPT ![i] = [status |-> status, version |-> 0, summary |-> FreshSummary,
                                       expires |-> now + Ttl, updated |-> now]]
    BY DEF CreateIntake, ActiveStatuses
  <1> DEFINE row == [status |-> status, version |-> 0, summary |-> FreshSummary,
                     expires |-> now + Ttl, updated |-> now]
  <1>3. row \in Row /\ row.summary.count = 0 /\ row.status # "none"
    <2>1. now + Ttl \in Time
      BY <1>1, Constants DEF Time
    <2>2. status \in Statuses /\ status # "none"
      BY DEF Statuses, ActiveStatuses, Collecting
    <2> QED
      BY <1>1, <2>1, <2>2, FreshIsSummary, Constants DEF Row
  <1>4. reminded[i] = 0
    BY DEF Reminding, Counted, CreateIntake, Stored
  <1>5. UNCHANGED <<now, thread, bridge, actions, reminded, excused, faults>>
    BY DEF CreateIntake
  <1>6. rows' = [rows EXCEPT ![i] = row]
    BY <1>2
  <1> HIDE DEF row
  <1>7. rows' \in [Intakes -> Row]
    BY <1>1, <1>3, <1>6
  <1>8. ASSUME NEW j \in Intakes
        PROVE  \/ Quiet(rows[j], rows'[j]) /\ reminded'[j] = reminded[j]
               \/ rows'[j].status # "none" /\ rows'[j].summary.count = 0 /\ reminded'[j] = 0
    <2>1. CASE j = i
      BY <1>1, <1>3, <1>4, <1>5, <1>6, <2>1
    <2>2. CASE j # i
      BY <1>1, <1>5, <1>6, <2>2 DEF Quiet
    <2> QED
      BY <2>1, <2>2
  <1>9. now' \in 0..Horizon /\ now' >= now /\ faults' \in 0..MaxFaults /\ faults' >= faults
    BY <1>1, <1>5, Constants
  <1> QED
    BY <1>1, <1>5, <1>7, <1>8, <1>9, StepKeepsReminding

LEMMA ReadReminds ==
  ASSUME Reminding, NEW i \in Intakes, ReadIntake(i)
  PROVE  Reminding'
  <1>1. /\ rows[i] \in Row /\ faults \in 0..MaxFaults /\ excused \subseteq Intakes
        /\ ThreadsFit(thread) /\ actions \in [Intakes -> [times : Nat, last : 0..MaxEdits]]
    BY TypesAtHand DEF Reminding
  <1>2. faults' \in 0..MaxFaults /\ faults' >= faults /\ rows' = [rows EXCEPT ![i] = Expired(rows[i])]
    BY <1>1, Constants DEF ReadIntake, Touched
  <1>3. Expired(rows[i]) \in Row /\ Quiet(rows[i], Expired(rows[i]))
    BY <1>1, ExpiredRow
  <1> QED
    BY <1>1, <1>2, <1>3, QuietStep DEF ReadIntake

\* A request reads the intake and goes on with it.
LEMMA BeginReminds ==
  ASSUME Reminding, NEW t \in Thread, NEW i \in Intakes, NEW step \in {"edit", "prepare"},
         rows' = Touched(i), Begin(t, i, step), step = "edit" => rows[i].version < MaxEdits,
         UNCHANGED <<now, bridge, actions, reminded, faults>>
  PROVE  Reminding'
  <1> DEFINE x == [step |-> step, id |-> i, version |-> rows[i].version]
  <1>1. /\ rows[i] \in Row /\ faults \in 0..MaxFaults /\ excused \subseteq Intakes
        /\ actions \in [Intakes -> [times : Nat, last : 0..MaxEdits]]
    BY TypesAtHand DEF Reminding
  <1>2. faults' \in 0..MaxFaults /\ faults' >= faults /\ rows' = [rows EXCEPT ![i] = Expired(rows[i])]
    BY <1>1, Constants DEF Touched
  <1>3. Expired(rows[i]) \in Row /\ Quiet(rows[i], Expired(rows[i]))
    BY <1>1, ExpiredRow
  <1>4. Fits(x)
    BY <1>1 DEF Fits, Busy, Row
  <1>5. thread' = [thread EXCEPT ![t] = x] /\ excused' \subseteq Intakes
    BY <1>1 DEF Begin, Overlap
  <1> HIDE DEF x
  <1>6. ThreadsFit(thread')
    BY <1>4, <1>5, PutThread DEF Reminding
  <1> QED
    BY <1>1, <1>2, <1>3, <1>5, <1>6, QuietStep

\* A request takes its intake out of the active ones, or finds it closed.
LEMMA SettleReminds ==
  ASSUME Reminding, NEW i \in Intakes,
         NEW st \in {"confirmed", "failed", "cancelled", "forwarded_to_yggdrasil"},
         Store(i, Inactive(Expired(rows[i]), st)), excused' \subseteq Intakes, ThreadsFit(thread'),
         UNCHANGED <<now, bridge, actions, reminded, faults>>
  PROVE  Reminding'
  <1>1. /\ rows[i] \in Row /\ faults \in 0..MaxFaults
        /\ actions \in [Intakes -> [times : Nat, last : 0..MaxEdits]]
    BY TypesAtHand DEF Reminding
  <1> DEFINE row == Inactive(Expired(rows[i]), st)
  <1>2. Expired(rows[i]) \in Row
    BY <1>1, ExpiredRow
  <1>3. row \in Row /\ Quiet(Expired(rows[i]), row)
    BY <1>2, InactiveRow
  <1>4. rows' = [rows EXCEPT ![i] = row] \/ rows' = rows
    BY DEF Store
  <1>5. faults' \in 0..MaxFaults /\ faults' >= faults
    BY <1>1, Constants
  <1> HIDE DEF row
  <1>6. Quiet(rows[i], row)
    BY <1>1, <1>3, ExpiredRow DEF Quiet
  <1> QED
    BY <1>1, <1>3, <1>4, <1>5, <1>6, QuietStep

LEMMA ReadForReminds ==
  ASSUME Reminding, NEW t \in Thread, NEW i \in Intakes, ReadForEdit(t, i) \/ ReadForConfirm(t, i)
  PROVE  Reminding'
  <1>1. CASE ReadForEdit(t, i)
    BY <1>1, BeginReminds DEF ReadForEdit
  <1>2. CASE ReadForConfirm(t, i)
    BY <1>2, BeginReminds DEF ReadForConfirm
  <1> QED
    BY <1>1, <1>2

\* A busy thread and its intake.
LEMMA AtWork ==
  ASSUME IntakeTypes, NEW t \in Thread, thread[t].step \in {"edit", "prepare", "forward", "mark"}
  PROVE  /\ thread[t] \in Busy /\ thread[t].id \in Intakes
         /\ thread[t].step = "edit" => thread[t].version < MaxEdits
  <1>1. Idle.step = "idle"
    BY DEF Idle
  <1> QED
    BY <1>1, TypesAtHand DEF ThreadsFit, Busy

LEMMA FinishFits ==
  ASSUME IntakeTypes, NEW t \in Thread, Finish(t)
  PROVE  ThreadsFit(thread')
  BY PutThread DEF Finish, Fits

LEMMA GotoFits ==
  ASSUME IntakeTypes, NEW t \in Thread, Goto(t, "forward"), thread[t].step = "prepare"
  PROVE  ThreadsFit(thread')
  <1> DEFINE x == [thread[t] EXCEPT !.step = "forward"]
  <1>1. thread' = [thread EXCEPT ![t] = x]
    BY DEF Goto
  <1>2. thread[t] \in Busy
    BY AtWork
  <1>3. x \in Busy /\ x.step = "forward"
    BY <1>2 DEF Busy
  <1> HIDE DEF x
  <1> QED
    BY <1>1, <1>3, PutThread DEF Fits

\* A stored edit starts the follow-up and the count of reminders over.
LEMMA EditReminds ==
  ASSUME Reminding, NEW t \in Thread, StoreEdit(t)
  PROVE  Reminding'
  <1>1. /\ rows \in [Intakes -> Row] /\ now \in 0..Horizon /\ reminded \in [Intakes -> 0..TooMany]
        /\ faults \in 0..MaxFaults /\ excused \subseteq Intakes
        /\ actions \in [Intakes -> [times : Nat, last : 0..MaxEdits]]
    BY TypesAtHand DEF Reminding
  <1>2. PICK i \in Intakes : thread[t].id = i
    BY AtWork DEF StoreEdit, Reminding
  <1>3. PICK status \in ActiveStatuses :
          Store(i, Completed(Expired(rows[i]), thread[t].version + 1, status))
    BY <1>2 DEF StoreEdit, ActiveStatuses
  <1> DEFINE row == Completed(Expired(rows[i]), thread[t].version + 1, status)
  <1>4. thread[t].version + 1 \in 0..MaxEdits
    <2>1. thread[t] \in Busy /\ thread[t].version < MaxEdits
      BY AtWork DEF StoreEdit, Reminding
    <2>2. thread[t].version \in 0..MaxEdits
      BY <2>1 DEF Busy
    <2> QED
      BY <2>1, <2>2, Constants
  <1>5. row \in Row /\ row.status # "none" /\ row.summary.count = 0
    BY <1>1, <1>4, ExpiredRow, CompletedRow DEF ActiveStatuses, Collecting
  <1>6. /\ rows' = [rows EXCEPT ![i] = row] \/ rows' = rows
        /\ reminded' = IF rows' # rows THEN [reminded EXCEPT ![i] = 0] ELSE reminded
        /\ UNCHANGED <<now, bridge, actions, excused, faults>>
    BY <1>2, <1>3 DEF StoreEdit, Store
  <1>7. ThreadsFit(thread')
    BY FinishFits DEF StoreEdit, Reminding
  <1> HIDE DEF row
  <1>8. CASE rows' = rows
    <2>1. Quiet(rows[i], rows[i]) /\ rows[i] \in Row /\ faults' >= faults
      BY <1>1, <1>6, Constants DEF Quiet
    <2> QED
      BY <1>1, <1>6, <1>7, <1>8, <2>1, QuietStep
  <1>9. CASE rows' # rows
    <2>1. rows' = [rows EXCEPT ![i] = row] /\ reminded' = [reminded EXCEPT ![i] = 0]
      BY <1>6, <1>9
    <2>2. rows' \in [Intakes -> Row] /\ reminded' \in [Intakes -> 0..TooMany]
      <3>1. 0 \in 0..TooMany
        BY Constants DEF TooMany
      <3> QED
        BY <1>1, <1>5, <2>1, <3>1
    <2>3. ASSUME NEW j \in Intakes
          PROVE  \/ Quiet(rows[j], rows'[j]) /\ reminded'[j] = reminded[j]
                 \/ rows'[j].status # "none" /\ rows'[j].summary.count = 0 /\ reminded'[j] = 0
      <3>1. CASE j = i
        BY <1>1, <1>5, <2>1, <3>1
      <3>2. CASE j # i
        BY <1>1, <2>1, <3>2 DEF Quiet
      <3> QED
        BY <3>1, <3>2
    <2>4. now' \in 0..Horizon /\ now' >= now /\ faults' \in 0..MaxFaults /\ faults' >= faults
      BY <1>1, <1>6, Constants
    <2> QED
      BY <1>1, <1>6, <1>7, <2>2, <2>3, <2>4, StepKeepsReminding
  <1> QED
    BY <1>8, <1>9

\* A step of a thread that leaves the rows alone.
LEMMA SameRowsRemind ==
  ASSUME Reminding, ThreadsFit(thread'), UNCHANGED <<now, rows, bridge, reminded>>,
         faults' \in 0..MaxFaults, faults' >= faults, excused' \subseteq Intakes,
         actions' \in [Intakes -> [times : Nat, last : 0..MaxEdits]]
  PROVE  Reminding'
  <1>1. /\ rows \in [Intakes -> Row] /\ now \in 0..Horizon /\ reminded \in [Intakes -> 0..TooMany]
    BY TypesAtHand DEF Reminding
  <1>2. now' \in 0..Horizon /\ now' >= now
    BY <1>1, Constants
  <1> QED
    BY <1>1, <1>2, StepKeepsReminding DEF Quiet

LEMMA RequestReminds ==
  ASSUME Reminding, NEW t \in Thread, Accept(t) \/ Reject(t) \/ MarkForwarded(t)
  PROVE  Reminding'
  <1>1. /\ faults \in 0..MaxFaults /\ excused \subseteq Intakes
        /\ actions \in [Intakes -> [times : Nat, last : 0..MaxEdits]]
    BY TypesAtHand DEF Reminding
  <1>2. PICK i \in Intakes : thread[t].id = i
    BY AtWork DEF Accept, Reject, MarkForwarded, Reminding
  <1>3. ThreadsFit(thread')
    BY FinishFits, GotoFits DEF Accept, Reject, MarkForwarded, Reminding
  <1>4. excused' \subseteq Intakes /\ UNCHANGED <<now, bridge, actions, reminded, faults>>
    BY <1>1 DEF Accept, Reject, MarkForwarded
  <1>5. \/ rows' = rows
        \/ \E st \in {"confirmed", "failed", "forwarded_to_yggdrasil"} :
             Store(i, Inactive(Expired(rows[i]), st))
    BY <1>2 DEF Accept, Reject, MarkForwarded
  <1>6. faults' \in 0..MaxFaults /\ faults' >= faults
    BY <1>1, <1>4, Constants
  <1>7. CASE rows' = rows
    BY <1>1, <1>3, <1>4, <1>6, <1>7, SameRowsRemind
  <1>8. CASE \E st \in {"confirmed", "failed", "forwarded_to_yggdrasil"} :
               Store(i, Inactive(Expired(rows[i]), st))
    BY <1>3, <1>4, <1>8, SettleReminds
  <1> QED
    BY <1>5, <1>7, <1>8

LEMMA SendReminds ==
  ASSUME Reminding, NEW t \in Thread, SendToYggdrasil(t)
  PROVE  Reminding'
  <1>1. /\ faults \in 0..MaxFaults /\ excused \subseteq Intakes
        /\ actions \in [Intakes -> [times : Nat, last : 0..MaxEdits]]
    BY TypesAtHand DEF Reminding
  <1>2. PICK i \in Intakes : thread[t].id = i
    BY AtWork DEF SendToYggdrasil, Reminding
  <1>3. thread[t] \in Busy
    BY AtWork DEF SendToYggdrasil, Reminding
  <1> DEFINE x == [step |-> "mark", id |-> thread[t].id, version |-> 0]
             acted == [times |-> actions[i].times + 1, last |-> thread[t].version]
  <1>4. thread' = [thread EXCEPT ![t] = x]
    BY DEF SendToYggdrasil
  <1>5. Fits(x)
    BY <1>3, Constants DEF Fits, Busy
  <1>6. acted \in [times : Nat, last : 0..MaxEdits]
    <2>1. actions[i] \in [times : Nat, last : 0..MaxEdits]
      BY <1>1
    <2>2. actions[i].times + 1 \in Nat /\ thread[t].version \in 0..MaxEdits
      BY <1>3, <2>1 DEF Busy
    <2> QED
      BY <2>2
  <1>7. actions' = [actions EXCEPT ![i] = acted] \/ actions' = actions
    BY <1>2 DEF SendToYggdrasil
  <1>8. /\ UNCHANGED <<now, rows, bridge, reminded>> /\ faults' \in 0..MaxFaults /\ faults' >= faults
        /\ excused' \subseteq Intakes
    BY <1>1, Constants DEF SendToYggdrasil
  <1> HIDE DEF x, acted
  <1>9. ThreadsFit(thread') /\ actions' \in [Intakes -> [times : Nat, last : 0..MaxEdits]]
    BY <1>1, <1>4, <1>5, <1>6, <1>7, PutThread DEF Reminding
  <1> QED
    BY <1>8, <1>9, SameRowsRemind

LEMMA FaultReminds ==
  ASSUME Reminding, NEW t \in Thread, Fault(t)
  PROVE  Reminding'
  <1>1. /\ faults \in 0..MaxFaults /\ excused \subseteq Intakes
        /\ actions \in [Intakes -> [times : Nat, last : 0..MaxEdits]]
    BY TypesAtHand DEF Reminding
  <1>2. thread[t].id \in Intakes
    BY AtWork DEF Fault, Reminding
  <1>3. ThreadsFit(thread')
    BY FinishFits, GotoFits DEF Fault, Reminding
  <1>4. faults' \in 0..MaxFaults /\ faults' >= faults
    BY <1>1, Constants DEF Fault
  <1>5. UNCHANGED <<now, rows, bridge, actions, reminded>> /\ excused' \subseteq Intakes
    BY <1>1, <1>2 DEF Fault
  <1> QED
    BY <1>1, <1>3, <1>4, <1>5, SameRowsRemind

LEMMA CancelReminds ==
  ASSUME Reminding, NEW i \in Intakes, CancelIntake(i)
  PROVE  Reminding'
  <1>1. excused \subseteq Intakes /\ ThreadsFit(thread)
    BY TypesAtHand DEF Reminding
  <1>2. excused' \subseteq Intakes
    BY <1>1 DEF CancelIntake, Overlap
  <1> QED
    BY <1>1, <1>2, SettleReminds DEF CancelIntake

LEMMA TickReminds ==
  ASSUME Reminding, Tick
  PROVE  Reminding'
  <1>1. /\ rows \in [Intakes -> Row] /\ now \in 0..Horizon /\ reminded \in [Intakes -> 0..TooMany]
        /\ faults \in 0..MaxFaults /\ excused \subseteq Intakes /\ ThreadsFit(thread)
        /\ actions \in [Intakes -> [times : Nat, last : 0..MaxEdits]]
    BY TypesAtHand DEF Reminding
  <1>2. now' \in 0..Horizon /\ now' >= now /\ faults' \in 0..MaxFaults /\ faults' >= faults
    BY <1>1, Constants DEF Tick
  <1>3. UNCHANGED <<rows, thread, bridge, actions, reminded, excused>>
    BY DEF Tick
  <1> QED
    BY <1>1, <1>2, <1>3, StepKeepsReminding DEF Quiet

-----------------------------------------------------------------------------
(* The bridge *)

\* A step of the bridge: what it must show.
LEMMA BridgeReminds ==
  ASSUME Reminding, UNCHANGED <<now, thread, actions, excused>>, rows' \in [Intakes -> Row],
         reminded' \in [Intakes -> 0..TooMany], faults' \in 0..MaxFaults,
         bridge'.queue \in Seq(Intakes), Len(bridge'.queue) <= Limit,
         bridge'.step \in {"idle", "sending", "marking"}, BridgeOrder',
         \A i \in Intakes : Counted(i)'
  PROVE  Reminding'
  <1>1. IntakeTypes
    BY DEF Reminding
  <1>2. (bridge.queue \in BoundedSeq(Intakes, Limit))'
    <2>1. bridge'.queue \in BoundedSeq(Intakes, Limit)
      BY BoundedQueue
    <2> QED
      BY <2>1
  <1>3. TypeOK'
    BY <1>1, <1>2 DEF IntakeTypes, TypeOK
  <1>4. ThreadsShape(thread)' /\ EditsFit'
    BY <1>1 DEF IntakeTypes, ThreadsShape, ThreadShape, EditsFit
  <1> QED
    BY <1>3, <1>4 DEF Reminding, IntakeTypes

\* The pass is over.
LEMMA RestingReminds ==
  ASSUME bridge' = Resting
  PROVE  /\ bridge'.queue \in Seq(Intakes) /\ Len(bridge'.queue) <= Limit /\ bridge'.step = "idle"
         /\ BridgeOrder' /\ InQueue' = {} /\ \A i : ~Marking(i)'
  <1>1. /\ bridge' = [step |-> "idle", queue |-> <<>>]
        /\ bridge'.step = "idle" /\ bridge'.queue = <<>> /\ DOMAIN bridge'.queue = {}
    BY DEF Resting
  <1>2. <<>> \in Seq(Intakes) /\ Len(<<>>) = 0 /\ 0 <= Limit
    BY IntakeAssumption, SumsOfNaturals
  <1>3. InQueue' = {}
    BY <1>1 DEF InQueue
  <1>4. BridgeOrder'
    BY <1>1, <1>3 DEF BridgeOrder
  <1> QED
    BY <1>1, <1>2, <1>3, <1>4 DEF Marking

\* The ranges of what is compared.
LEMMA Numbers ==
  ASSUME Reminding, NEW i \in Intakes
  PROVE  /\ rows[i].summary.count \in 0..MaxReminders /\ rows[i].expires \in Nat /\ faults \in 0..MaxFaults
         /\ reminded[i] \in 0..TooMany /\ reminded[i] \in Nat /\ now \in Nat /\ faults \in Nat
         /\ rows[i].summary.count \in Nat /\ MaxReminders \in Nat /\ TooMany \in Nat /\ rows[i] \in Row
  <1>1. rows[i] \in Row /\ reminded[i] \in 0..TooMany /\ faults \in 0..MaxFaults /\ now \in 0..Horizon
    BY TypesAtHand DEF Reminding
  <1>2. TooMany \in Nat
    BY Constants DEF TooMany
  <1> QED
    BY <1>1, <1>2, Constants DEF Row, Summary, Time

\* A reminder whose mark is lost is one of the faults.
LEMMA AbortReminds ==
  ASSUME Reminding, AbortPass
  PROVE  Reminding'
  <1>1. /\ UNCHANGED <<now, thread, actions, excused, rows, reminded>> /\ bridge' = Resting
        /\ faults' = faults + 1 /\ faults < MaxFaults
    BY DEF AbortPass
  <1>2. /\ rows' \in [Intakes -> Row] /\ reminded' \in [Intakes -> 0..TooMany] /\ faults' \in 0..MaxFaults
    BY <1>1, TypesAtHand, Constants DEF Reminding
  <1>3. ASSUME NEW i \in Intakes PROVE Counted(i)'
    <2>1. Counted(i)
      BY DEF Reminding
    <2>2. ~Marking(i)' /\ InQueue' = {}
      BY <1>1, RestingReminds
    <2>3. reminded[i] <= MaxReminders + faults => reminded[i] <= MaxReminders + faults'
      BY <1>1, Numbers
    <2>4. rows[i].expires > now /\ rows[i].status \in ActiveStatuses =>
            reminded[i] <= rows[i].summary.count + faults' + 0
      BY <1>1, <2>1, Numbers DEF Counted
    <2> QED
      BY <1>1, <2>1, <2>2, <2>3, <2>4 DEF Counted
  <1> QED
    BY <1>1, <1>2, <1>3, RestingReminds, BridgeReminds

LEMMA HeadOfQueue ==
  ASSUME IntakeTypes, bridge.step # "idle"
  PROVE  /\ Head(bridge.queue) = bridge.queue[1] /\ bridge.queue[1] \in Intakes
         /\ bridge.queue[1] \in InQueue /\ DOMAIN bridge.queue = 1..Len(bridge.queue)
         /\ Len(bridge.queue) \in Nat \ {0}
  <1>1. bridge.queue \in Seq(Intakes) /\ bridge.queue # <<>>
    BY TypesAtHand DEF IntakeTypes, BridgeOrder
  <1>2. Len(bridge.queue) \in Nat \ {0} /\ DOMAIN bridge.queue = 1..Len(bridge.queue)
    BY <1>1
  <1>3. 1 \in DOMAIN bridge.queue
    BY <1>2
  <1> QED
    BY <1>1, <1>2, <1>3 DEF InQueue

\* The reminder that is sent was allowed, and is the one being marked.
LEMMA SendFollowupReminds ==
  ASSUME Reminding, SendFollowup
  PROVE  Reminding'
  <1>0. IntakeTypes /\ bridge.step = "sending"
    BY DEF Reminding, SendFollowup
  <1>1. PICK h \in Intakes : h = bridge.queue[1] /\ h = Head(bridge.queue) /\ h \in InQueue
    BY <1>0, HeadOfQueue
  <1>2. /\ UNCHANGED <<now, rows, thread, actions, excused, faults>>
        /\ bridge' = [step |-> "marking", queue |-> bridge.queue]
        /\ reminded' = [reminded EXCEPT ![h] = Min({reminded[h] + 1, TooMany})]
    BY <1>0, <1>1 DEF SendFollowup, IntakeTypes, BridgeOrder
  <1>3. reminded \in [Intakes -> 0..TooMany] /\ rows \in [Intakes -> Row]
    BY <1>0, TypesAtHand
  <1>4. Min({reminded[h] + 1, TooMany}) \in 0..TooMany /\ Min({reminded[h] + 1, TooMany}) <= reminded[h] + 1
    <2>1. reminded[h] + 1 \in Nat /\ TooMany \in Nat
      BY Numbers
    <2> QED
      BY <2>1, SmallerOfTwo
  <1>5. reminded' \in [Intakes -> 0..TooMany] /\ rows' \in [Intakes -> Row]
    BY <1>2, <1>3, <1>4
  <1>6. /\ bridge'.queue = bridge.queue /\ bridge'.step = "marking" /\ bridge.queue # <<>>
    BY <1>0, <1>2 DEF IntakeTypes, BridgeOrder
  <1>7. BridgeOrder'
    BY <1>0, <1>2, <1>6 DEF IntakeTypes, BridgeOrder, InQueue
  <1>8. ASSUME NEW i \in Intakes PROVE Counted(i)'
    <2>1. Counted(i) /\ ~Marking(i) /\ InQueue' = InQueue /\ rows' = rows /\ faults' = faults /\ now' = now
      BY <1>0, <1>2, <1>6 DEF Reminding, Marking, InQueue
    <2>2. CASE i # h
      <3>1. reminded'[i] = reminded[i] /\ ~Marking(i)'
        BY <1>1, <1>2, <1>3, <1>6, <2>2 DEF Marking
      <3> QED
        BY <2>1, <3>1 DEF Counted
    <2>3. CASE i = h
      <3>1. reminded'[i] <= reminded[i] + 1 /\ Marking(i)'
        BY <1>1, <1>2, <1>3, <1>4, <1>6, <2>3 DEF Marking
      <3>2. rows[i].status # "none" /\ (rows[i].status \in ActiveStatuses => rows[i].summary.count < MaxReminders)
        BY <1>0, <1>1, <2>3 DEF IntakeTypes, BridgeOrder
      <3>3. rows[i].status \in ActiveStatuses => reminded[i] <= rows[i].summary.count + faults + 0
        BY <1>1, <2>1, <2>3 DEF Counted
      <3>4. reminded'[i] \in Nat
        BY <1>5, Numbers
      <3>5. rows[i].status \in ActiveStatuses =>
              /\ reminded'[i] <= MaxReminders + faults
              /\ reminded'[i] <= rows[i].summary.count + faults + 1
        BY <3>1, <3>2, <3>3, <3>4, Numbers
      <3> QED
        BY <2>1, <3>1, <3>2, <3>5 DEF Counted
    <2> QED
      BY <2>2, <2>3
  <1> QED
    BY <1>0, <1>2, <1>5, <1>6, <1>7, <1>8, BridgeReminds, TypesAtHand

\* The mark makes up for it; a closed intake ends the pass.
LEMMA MarkFollowupReminds ==
  ASSUME Reminding, MarkFollowup
  PROVE  Reminding'
  <1>0. IntakeTypes /\ bridge.step = "marking"
    BY DEF Reminding, MarkFollowup
  <1>1. PICK h \in Intakes : h = bridge.queue[1] /\ h = Head(bridge.queue) /\ h \in InQueue
    BY <1>0, HeadOfQueue
  <1> DEFINE rest == Tail(bridge.queue)
  <1>2. UNCHANGED <<now, thread, actions, reminded, excused, faults>>
    BY DEF MarkFollowup
  <1>3. /\ reminded \in [Intakes -> 0..TooMany] /\ rows \in [Intakes -> Row] /\ now \in 0..Horizon
        /\ faults \in 0..MaxFaults /\ bridge.queue \in Seq(Intakes) /\ Len(bridge.queue) <= Limit
    BY <1>0, TypesAtHand
  <1>4. CASE Expired(rows[h]).status \notin ActiveStatuses /\ bridge' = Resting /\ rows' = rows
    <2>1. ASSUME NEW i \in Intakes PROVE Counted(i)'
      <3>1. Counted(i) /\ ~Marking(i)' /\ InQueue' = {}
        BY <1>4, RestingReminds DEF Reminding
      <3>2. CASE i # h
        <4>1. ~Marking(i)
          BY <1>1, <3>2 DEF Marking
        <4> QED
          BY <1>2, <1>4, <3>1, <4>1 DEF Counted
      <3>3. CASE i = h
        <4>1. ~(rows[i].status \in ActiveStatuses /\ rows[i].expires > now)
          <5>1. rows[i].expires \in Nat /\ now \in Nat
            BY Numbers
          <5>2. rows[i].status \in ActiveStatuses => rows[i].expires <= now
            BY <1>4, <3>3 DEF Expired
          <5> QED
            BY <5>1, <5>2
        <4> QED
          BY <1>2, <1>4, <3>1, <4>1 DEF Counted
      <3> QED
        BY <3>2, <3>3
    <2> QED
      BY <1>2, <1>3, <1>4, <2>1, RestingReminds, BridgeReminds
  <1>5. CASE /\ Expired(rows[h]).status \in ActiveStatuses
             /\ rows' = [rows EXCEPT ![h] = MarkedSent(Expired(rows[h]))]
             /\ bridge' = IF rest = <<>> THEN Resting ELSE [step |-> "sending", queue |-> rest]
    <2>1. Expired(rows[h]) = rows[h] /\ rows[h].status \in ActiveStatuses
      BY <1>3, <1>5, ExpiredRow
    <2>2. rows[h].summary.count < MaxReminders
      BY <1>0, <1>1, <2>1 DEF IntakeTypes, BridgeOrder
    <2> DEFINE row == MarkedSent(rows[h])
    <2>3. /\ row \in Row /\ row.status = rows[h].status /\ row.expires = rows[h].expires
          /\ row.summary.count = rows[h].summary.count + 1
      BY <1>3, <2>2, MarkedRow
    <2>4. rows' = [rows EXCEPT ![h] = row]
      BY <1>5, <2>1
    <2> HIDE DEF row
    <2>5. rows' \in [Intakes -> Row]
      BY <1>3, <2>3, <2>4
    <2>6. /\ rest \in Seq(Intakes) /\ Len(rest) = Len(bridge.queue) - 1
          /\ \A n \in 1..Len(rest) : rest[n] = bridge.queue[n + 1]
      BY <1>0, <1>3, HeadTailProperties DEF IntakeTypes, BridgeOrder
    <2>7. /\ bridge'.queue \in Seq(Intakes) /\ Len(bridge'.queue) <= Limit
          /\ bridge'.step \in {"idle", "sending", "marking"} /\ \A i : ~Marking(i)'
          /\ InQueue' \subseteq InQueue \ {h}
          /\ \A m, n \in DOMAIN bridge'.queue : bridge'.queue[m] = bridge'.queue[n] => m = n
          /\ bridge' = [step |-> bridge'.step, queue |-> bridge'.queue]
          /\ bridge'.step # "idle" => bridge'.queue # <<>>
      <3>1. CASE rest = <<>>
        BY <1>5, <3>1, RestingReminds DEF BridgeOrder
      <3>2. CASE rest # <<>>
        <4>1. bridge' = [step |-> "sending", queue |-> rest]
          BY <1>5, <3>2
        <4>2. bridge'.step = "sending" /\ bridge'.queue = rest
          BY <4>1
        <4>3. DOMAIN rest = 1..Len(rest) /\ DOMAIN bridge.queue = 1..Len(bridge.queue)
              /\ Len(rest) \in Nat /\ Len(bridge.queue) \in Nat
          BY <1>3, <2>6
        <4>4. \A n \in DOMAIN rest : n + 1 \in DOMAIN bridge.queue /\ n + 1 # 1
          BY <2>6, <4>3
        <4>5. \A m, n \in DOMAIN bridge.queue : bridge.queue[m] = bridge.queue[n] => m = n
          BY <1>0 DEF IntakeTypes, BridgeOrder
        <4>6. \A m, n \in DOMAIN rest : rest[m] = rest[n] => m = n
          BY <2>6, <4>3, <4>4, <4>5
        <4>7. \A n \in DOMAIN rest : rest[n] \in InQueue \ {h}
          <5>1. 1 \in DOMAIN bridge.queue
            BY <1>0, HeadOfQueue
          <5> QED
            BY <1>1, <2>6, <4>3, <4>4, <4>5, <5>1 DEF InQueue
        <4>8. InQueue' \subseteq InQueue \ {h}
          BY <4>2, <4>7 DEF InQueue
        <4>9. Len(rest) <= Limit
          BY <1>3, <2>6, <4>3, Constants
        <4> QED
          BY <2>6, <3>2, <4>1, <4>2, <4>6, <4>8, <4>9 DEF Marking
      <3> QED
        BY <3>1, <3>2
    <2>8. BridgeOrder'
      <3>1. \A i \in InQueue' : /\ rows'[i].status # "none" /\ MaxReminders > 0
                                /\ rows'[i].status \in ActiveStatuses => rows'[i].summary.count < MaxReminders
        <4>1. ASSUME NEW i \in InQueue' PROVE rows'[i] = rows[i] /\ i \in InQueue
          BY <1>0, <1>3, <2>4, <2>7, TypesAtHand
        <4> QED
          BY <1>0, <4>1 DEF IntakeTypes, BridgeOrder
      <3> QED
        BY <2>7, <3>1 DEF BridgeOrder
    <2>9. ASSUME NEW i \in Intakes PROVE Counted(i)'
      <3>1. Counted(i) /\ ~Marking(i)'
        BY <2>7 DEF Reminding
      <3>2. CASE i # h
        <4>1. ~Marking(i) /\ rows'[i] = rows[i] /\ (i \in InQueue' => i \in InQueue)
          BY <1>1, <1>3, <2>4, <2>7, <3>2 DEF Marking
        <4> QED
          BY <1>2, <3>1, <4>1 DEF Counted
      <3>3. CASE i = h
        <4>1. rows'[i] = row /\ rows'[i].status = rows[i].status
          BY <1>3, <2>3, <2>4, <3>3
        <4>2. Marking(i)
          BY <1>0, <1>1, <3>3 DEF Marking
        <4>3. reminded[i] <= rows[i].summary.count + faults + 1 /\ reminded[i] <= MaxReminders + faults
          BY <1>1, <2>1, <3>1, <3>3, <4>2 DEF Counted
        <4>4. reminded[i] <= rows'[i].summary.count + faults + 0
          BY <2>3, <3>3, <4>1, <4>3, Numbers
        <4>5. rows'[i].status # "none"
          BY <2>1, <3>3, <4>1 DEF ActiveStatuses, Collecting
        <4> QED
          BY <1>2, <3>1, <4>3, <4>4, <4>5 DEF Counted
      <3> QED
        BY <3>2, <3>3
    <2> QED
      BY <1>2, <1>3, <2>5, <2>7, <2>8, <2>9, BridgeReminds
  <1> QED
    BY <1>1, <1>4, <1>5 DEF MarkFollowup

\* What list_due_followups returns: intakes whose rows it leaves alone, still
\* to be reminded, each once and no more than the limit.
LEMMA DueList ==
  ASSUME IntakeTypes, NEW due \in Ordered(Examined \cap DueRows)
  PROVE  /\ due \in Seq(Intakes) /\ Len(due) <= Limit
         /\ \A m, n \in DOMAIN due : due[m] = due[n] => m = n
         /\ \A n \in DOMAIN due : due[n] \in DueRows
  <1> DEFINE S == Examined \cap DueRows
             size == Cardinality(S)
  <1>1. S \subseteq Intakes /\ IsFiniteSet(S) /\ IsFiniteSet(Intakes)
    <2>1. S \in SUBSET Intakes
      BY DEF Examined, Listed, Active
    <2> HIDE DEF S
    <2> QED
      BY <2>1, IntakeAssumption, FS_Subset
  <1>2. size \in Nat
    BY <1>1, FS_CardinalityType
  <1>3. /\ due \in [1..size -> S] /\ \A m, n \in 1..size : m # n => due[m] # due[n]
        /\ \A m, n \in 1..size : m < n => Oldest(due[m], due[n])
    BY DEF Ordered, SetToSeqs
  <1>4. due \in Seq(Intakes) /\ Len(due) = size
    <2> HIDE DEF size, S
    <2>1. due \in [1..size -> Intakes]
      BY <1>1, <1>3
    <2>2. due \in Seq(Intakes)
      BY <1>2, <2>1
    <2> QED
      BY <1>2, <2>1, <2>2, LenProperties
  <1>5. size <= Limit
    <2> SUFFICES ASSUME ~(size <= Limit) PROVE FALSE
      OBVIOUS
    <2>1. /\ size - 1 \in Nat /\ Limit \in Nat /\ Limit <= size - 1 /\ size \in 1..size
          /\ \A m \in 1..(size - 1) : m \in 1..size /\ m < size
      <3> HIDE DEF size
      <3> QED
        BY <1>2, IntakeAssumption
    <2> DEFINE last == due[size]
               older == Before(last, DueRows)
               early == [m \in 1..(size - 1) |-> due[m]]
    <2>2. last \in Examined
      BY <1>3, <2>1
    <2>3. Cardinality(older) < Limit
      BY <2>2 DEF Examined
    <2>4. IsFiniteSet(older)
      <3>1. older \in SUBSET Intakes
        BY DEF Before, DueRows, Listed, Active
      <3> HIDE DEF older
      <3> QED
        BY <1>1, <3>1, FS_Subset
    <2>5. early \in [1..(size - 1) -> older]
      BY <1>3, <2>1 DEF Before
    <2>6. IsFiniteSet(1..(size - 1)) /\ Cardinality(1..(size - 1)) = size - 1
      <3>1. 1 \in Int /\ size - 1 \in Int
        BY <2>1
      <3>2. /\ IsFiniteSet(1..(size - 1))
            /\ Cardinality(1..(size - 1)) = IF 1 > size - 1 THEN 0 ELSE (size - 1) - 1 + 1
        BY <3>1, FS_Interval
      <3> QED
        BY <2>1, <3>2, IntakeAssumption
    <2>7. Cardinality(older) < Cardinality(1..(size - 1))
      <3>1. Cardinality(older) \in Nat
        BY <2>4, FS_CardinalityType
      <3> HIDE DEF older, size
      <3> QED
        BY <2>1, <2>3, <2>6, <3>1
    <2>8. \A m, n \in 1..(size - 1) : m # n => early[m] # early[n]
      BY <1>3, <2>1
    <2> HIDE DEF older, early, size
    <2>9. \E m, n \in 1..(size - 1) : m # n /\ early[m] = early[n]
      BY <2>4, <2>5, <2>6, <2>7, FS_PigeonHole
    <2> QED
      BY <2>8, <2>9
  <1>6. DOMAIN due = 1..size /\ \A n \in 1..size : due[n] \in DueRows
    BY <1>3
  <1> HIDE DEF size
  <1> QED
    BY <1>3, <1>4, <1>5, <1>6

LEMMA ListReminds ==
  ASSUME Reminding, ListDue
  PROVE  Reminding'
  <1>0. IntakeTypes /\ bridge.step = "idle"
    BY DEF Reminding, ListDue
  <1>1. UNCHANGED <<now, thread, actions, reminded, excused, faults>>
    BY DEF ListDue
  <1>2. PICK due \in Ordered(Examined \cap DueRows) :
          bridge' = IF due = <<>> THEN Resting ELSE [step |-> "sending", queue |-> due]
    BY DEF ListDue
  <1>3. /\ due \in Seq(Intakes) /\ Len(due) <= Limit
        /\ \A m, n \in DOMAIN due : due[m] = due[n] => m = n
        /\ \A n \in DOMAIN due : due[n] \in DueRows
    BY <1>0, DueList
  <1>4. /\ rows \in [Intakes -> Row] /\ reminded \in [Intakes -> 0..TooMany] /\ faults \in 0..MaxFaults
    BY <1>0, TypesAtHand
  <1>5. ASSUME NEW i \in Intakes
        PROVE  rows'[i] \in Row /\ Quiet(rows[i], rows'[i])
    <2>1. rows'[i] = Expired(rows[i]) \/ rows'[i] = rows[i]
      BY DEF ListDue, Read
    <2>2. Expired(rows[i]) \in Row /\ Quiet(rows[i], Expired(rows[i])) /\ Quiet(rows[i], rows[i])
      BY <1>4, ExpiredRow DEF Quiet
    <2> QED
      BY <1>4, <2>1, <2>2
  <1>6. rows' \in [Intakes -> Row]
    <2>1. rows' = [i \in Intakes |-> rows'[i]]
      BY DEF ListDue
    <2> QED
      BY <1>5, <2>1
  <1>7. ASSUME NEW i \in DueRows
        PROVE  /\ i \in Intakes /\ rows'[i] = rows[i] /\ rows[i].status # "none"
               /\ rows[i].expires > now /\ rows[i].summary.count < MaxReminders
               /\ MaxReminders > 0
    <2>1. i \in Intakes /\ Due(Expired(rows[i]))
      BY DEF DueRows, Listed, Active, Read
    <2>2. Expired(rows[i]) = rows[i] /\ ~(rows[i].expires <= now) /\ Due(rows[i])
      BY <1>4, <2>1, ExpiredRow DEF Due
    <2>3. rows'[i] = rows[i]
      BY <2>1, <2>2 DEF ListDue, Read
    <2>4. rows[i].expires > now
      BY <2>1, <2>2, Numbers
    <2>5. MaxReminders > 0
      BY <2>1, <2>2, Numbers DEF Due
    <2> QED
      BY <2>1, <2>2, <2>3, <2>4, <2>5 DEF Due, ActiveStatuses, Collecting
  <1>8. /\ bridge'.queue \in Seq(Intakes) /\ Len(bridge'.queue) <= Limit
        /\ bridge'.step \in {"idle", "sending", "marking"} /\ \A i : ~Marking(i)'
        /\ InQueue' \subseteq DueRows
        /\ \A m, n \in DOMAIN bridge'.queue : bridge'.queue[m] = bridge'.queue[n] => m = n
        /\ bridge' = [step |-> bridge'.step, queue |-> bridge'.queue]
        /\ bridge'.step # "idle" => bridge'.queue # <<>>
    <2>1. CASE due = <<>>
      BY <1>2, <2>1, RestingReminds DEF BridgeOrder
    <2>2. CASE due # <<>>
      <3>1. bridge' = [step |-> "sending", queue |-> due]
        BY <1>2, <2>2
      <3>2. bridge'.step = "sending" /\ bridge'.queue = due
        BY <3>1
      <3> QED
        BY <1>3, <2>2, <3>1, <3>2 DEF InQueue, Marking
    <2> QED
      BY <2>1, <2>2
  <1>9. BridgeOrder'
    <2>1. ASSUME NEW i \in InQueue'
          PROVE  /\ rows'[i].status # "none" /\ MaxReminders > 0
                 /\ rows'[i].status \in ActiveStatuses => rows'[i].summary.count < MaxReminders
      BY <1>7, <1>8
    <2> QED
      BY <1>8, <2>1 DEF BridgeOrder
  <1>10. ASSUME NEW i \in Intakes PROVE Counted(i)'
    <2>1. Counted(i) /\ ~Marking(i) /\ ~Marking(i)'
      BY <1>0, <1>8 DEF Reminding, Marking
    <2>2. Quiet(rows[i], rows'[i]) /\ (i \in InQueue' => rows[i].expires > now)
      BY <1>5, <1>7, <1>8
    <2>3. rows'[i].status = "none" => reminded'[i] = 0
      BY <1>1, <2>1, <2>2 DEF Counted, Quiet
    <2>4. ASSUME rows'[i].status \in ActiveStatuses
          PROVE  /\ reminded'[i] <= MaxReminders + faults'
                 /\ rows'[i].expires > now' \/ i \in InQueue' =>
                      reminded'[i] <= rows'[i].summary.count + faults' + 0
      <3>1. /\ rows[i].status \in ActiveStatuses
            /\ rows'[i].summary.count = rows[i].summary.count /\ rows'[i].expires = rows[i].expires
        BY <2>2, <2>4 DEF Quiet
      <3> QED
        BY <1>1, <2>1, <2>2, <3>1 DEF Counted
    <2> QED
      BY <2>1, <2>3, <2>4 DEF Counted
  <1> QED
    BY <1>1, <1>4, <1>6, <1>8, <1>9, <1>10, BridgeReminds

-----------------------------------------------------------------------------
(* The theorems *)

LEMMA NextReminds == Reminding /\ [Next]_vars => Reminding'
  <1> SUFFICES ASSUME Reminding, [Next]_vars PROVE Reminding'
    OBVIOUS
  <1>1. ASSUME NEW t \in Thread, ThreadStep(t) PROVE Reminding'
    BY <1>1, CreateReminds, ReadForReminds, EditReminds, RequestReminds, SendReminds, FaultReminds
       DEF ThreadStep
  <1>2. ASSUME NEW i \in Intakes, ReadIntake(i) \/ CancelIntake(i) PROVE Reminding'
    BY <1>2, ReadReminds, CancelReminds
  <1>3. CASE BridgeStep \/ AbortPass \/ Tick
    BY <1>3, ListReminds, SendFollowupReminds, MarkFollowupReminds, AbortReminds, TickReminds DEF BridgeStep
  <1>4. CASE UNCHANGED vars
    <2>1. /\ ThreadsFit(thread) /\ faults \in 0..MaxFaults /\ excused \subseteq Intakes
          /\ actions \in [Intakes -> [times : Nat, last : 0..MaxEdits]]
      BY TypesAtHand DEF Reminding
    <2>2. faults' >= faults
      BY <1>4, <2>1, Constants DEF vars
    <2> QED
      BY <1>4, <2>1, <2>2, SameRowsRemind DEF vars
  <1> QED
    BY <1>1, <1>2, <1>3, <1>4 DEF Next

\* Every row, thread and queue keeps its shape: a follow-up count stays within
\* max_reminders, a next reminder within the longest delay from the clock, and
\* list_due_followups returns no more than its limit (intake_store.py).
THEOREM IntakeTyped == Spec => []TypeOK
  <1>1. Reminding => TypeOK
    BY DEF Reminding, IntakeTypes
  <1> QED
    BY <1>1, InitReminding, NextReminds, PTL DEF Spec

\* A user who does not answer is reminded of an active intake max_reminders
\* times and no more, but for reminders whose mark was lost (mark_followup_sent,
\* _send_due_followups).
THEOREM RemindersAreBounded == Spec => []RemindersBounded
  <1>1. Reminding => RemindersBounded
    BY DEF Reminding, Counted, RemindersBounded
  <1> QED
    BY <1>1, InitReminding, NextReminds, PTL DEF Spec
=============================================================================
