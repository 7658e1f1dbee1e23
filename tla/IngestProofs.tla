---------------------------- MODULE IngestProofs ----------------------------
(***************************************************************************)
(* Theorems of Ingest, for any uploads, workers, documents and faults.     *)
(***************************************************************************)
EXTENDS Ingest, FiniteSetTheorems, TLAPS

-----------------------------------------------------------------------------
(* Types. *)

Busy(w) == pc[w] # "idle"

\* A worker whose message is held works on it.
Held == \A w \in unacked : Busy(w)

TypeInv == TypeOK /\ Held

Keys == [status : Statuses, by : Nat, errors : BOOLEAN]
TableRows == [upload : Uploads, delivery : Nat, part : Nat, total : Nat]

LEMMA WrittenType ==
  ASSUME TypeOK, NEW u \in Uploads, NEW s \in Statuses, NEW n \in Nat, NEW e \in BOOLEAN,
         Written(u, s, n, e) \/ UNCHANGED key
  PROVE  key' \in [Uploads -> Keys]
BY DEF TypeOK, Written, Keys

LEMMA HappensType ==
  ASSUME TypeOK, NEW f \in Faults, Happens(f)
  PROVE  /\ used' \in [Faults -> Nat] /\ used'[f] = used[f] + 1
         /\ \A g \in Faults : g # f => used'[g] = used[g]
BY DEF TypeOK, Happens, Faults

LEMMA RaisesType ==
  ASSUME TypeOK, NEW u \in Uploads, NEW s \in Statuses, NEW n \in Nat, NEW e \in BOOLEAN,
         WriteRaises(u, s, n, e)
  PROVE  key' \in [Uploads -> Keys] /\ used' \in [Faults -> Nat]
BY WrittenType, HappensType DEF WriteRaises, Faults

LEMMA JobType ==
  ASSUME TypeOK, NEW w \in Workers, Busy(w)
  PROVE  /\ job[w].upload \in Uploads /\ job[w].no \in Nat /\ job[w].next \in Nat
         /\ job[w].errors \in BOOLEAN /\ job[w] \in Delivery
BY DEF TypeOK, Busy, Delivery

\* What a step of a busy worker w may do to its own job.
LEMMA JobStays ==
  ASSUME TypeOK, NEW w \in Workers, Busy(w), NEW n \in Nat, NEW e \in BOOLEAN,
         job' = [job EXCEPT ![w].errors = e, ![w].next = n]
  PROVE  job' \in [Workers -> Delivery \cup {NoJob}] /\ job'[w] \in Delivery
<1>1. job[w] \in Delivery
  BY JobType
<1>2. [job[w] EXCEPT !.errors = e, !.next = n] \in Delivery
  BY <1>1 DEF Delivery
<1>3. job' = [job EXCEPT ![w] = [job[w] EXCEPT !.errors = e, !.next = n]]
  BY <1>1 DEF TypeOK
<1> QED
  BY <1>2, <1>3 DEF TypeOK

LEMMA NotedType ==
  ASSUME TypeOK, NEW w \in Workers, Busy(w), Noted(w)
  PROVE  job' \in [Workers -> Delivery \cup {NoJob}] /\ job'[w] \in Delivery
<1>1. job[w] \in Delivery
  BY JobType
<1>2. [job[w] EXCEPT !.errors = TRUE] \in Delivery
  BY <1>1 DEF Delivery
<1>3. job' = [job EXCEPT ![w] = [job[w] EXCEPT !.errors = TRUE]]
  BY <1>1 DEF TypeOK, Noted
<1> QED
  BY <1>2, <1>3 DEF TypeOK

LEMMA ProgressType ==
  ASSUME TypeOK, NEW w \in Workers, Busy(w), Progress(w)
  PROVE  key' \in [Uploads -> Keys]
BY WrittenType, JobType DEF Progress, Statuses

\* What a part of w adds to the table and to the rows that were refused.
LEMMA RowTypes ==
  ASSUME TypeOK, NEW w \in Workers, Busy(w)
  PROVE  /\ WithTotal(RowOf(w, job[w].next), TotalOf(w)) \in TableRows
         /\ RowOf(w, job[w].next) \in [upload : Uploads, delivery : Nat, part : Nat]
<1>1. doc[job[w].upload].parts \in Nat
  BY JobType DEF TypeOK, Parts
<1>2. TotalOf(w) \in Nat
  BY <1>1 DEF TotalOf
<1> QED
  BY <1>2, JobType DEF WithTotal, RowOf, Row, TableRows

LEMMA TypeFrame ==
  ASSUME TypeInv, UNCHANGED <<doc, api, queue, unacked, begun>>,
         NEW w \in Workers, Busy(w), NEW s \in Stages \ {"idle"}, Go(w, s),
         key' \in [Uploads -> Keys],
         job' \in [Workers -> Delivery \cup {NoJob}], job'[w] \in Delivery,
         \A x \in Workers : x # w => job'[x] = job[x],
         used' \in [Faults -> Nat], table' \subseteq TableRows, over' \subseteq Uploads,
         refused' \subseteq [upload : Uploads, delivery : Nat, part : Nat],
         tornOff' \subseteq [upload : Uploads, delivery : Nat]
  PROVE  TypeInv'
BY DEF TypeInv, TypeOK, Held, Busy, Go, Keys, TableRows, Stages

LEMMA ShellType ==
  ASSUME TypeInv, NEW w \in Workers,
         Start(w) \/ Download(w) \/ Complete(w) \/ Fail(w) \/ Images(w)
  PROVE  TypeInv'
<1> USE DEF TypeInv
<1>1. Busy(w)
  BY DEF Start, Download, Complete, Fail, Images, Busy
<1>2. key' \in [Uploads -> Keys] /\ used' \in [Faults -> Nat]
  <2>1. \A s \in Statuses, n \in Nat, e \in BOOLEAN :
          (Written(job[w].upload, s, n, e) => key' \in [Uploads -> Keys])
          /\ (WriteRaises(job[w].upload, s, n, e) =>
               key' \in [Uploads -> Keys] /\ used' \in [Faults -> Nat])
    BY <1>1, JobType, WrittenType, RaisesType
  <2>2. job[w].no \in Nat /\ job[w].errors \in BOOLEAN /\ FALSE \in BOOLEAN
        /\ {"RUNNING", "COMPLETED", "FAILED"} \subseteq Statuses /\ used \in [Faults -> Nat]
    BY <1>1, JobType DEF Statuses, TypeOK
  <2>3. CASE Images(w)
    BY <1>1, <2>2, <2>3, ProgressType DEF Images
  <2>4. CASE Start(w)
    BY <2>1, <2>2, <2>4 DEF Start
  <2>5. CASE Download(w)
    BY <2>1, <2>2, <2>5 DEF Download
  <2>6. CASE Complete(w)
    BY <2>1, <2>2, <2>6 DEF Complete
  <2>7. CASE Fail(w)
    BY <2>1, <2>2, <2>7 DEF Fail
  <2> QED
    BY <2>3, <2>4, <2>5, <2>6, <2>7
<1>3. \E s \in Stages \ {"idle"} : Go(w, s)
  BY DEF Start, Download, Complete, Fail, Images, Stages
<1>4. UNCHANGED <<doc, api, queue, unacked, table, begun, over, refused, tornOff>>
      /\ (UNCHANGED job \/ Noted(w))
  BY DEF Start, Download, Complete, Fail, Images, history
<1>5. /\ job' \in [Workers -> Delivery \cup {NoJob}] /\ job'[w] \in Delivery
      /\ \A x \in Workers : x # w => job'[x] = job[x]
  BY <1>1, <1>4, JobType, NotedType DEF TypeOK, Noted
<1> QED
  BY <1>1, <1>2, <1>3, <1>4, <1>5, TypeFrame DEF TypeOK, TableRows

LEMMA ParseType ==
  ASSUME TypeInv, NEW w \in Workers, Parse(w) \/ Tear(w) PROVE TypeInv'
<1> USE DEF TypeInv
<1>1. Busy(w)
  BY DEF Parse, Tear, Busy
<1>2. key' \in [Uploads -> Keys]
  BY <1>1, ProgressType DEF Parse, Tear, TypeOK, Keys
<1>3. \E s \in Stages \ {"idle"} : Go(w, s)
  BY DEF Parse, Tear, Stages, Go, TypeOK
<1>4. Whole \in Nat
  BY IngestConstantsOK DEF Whole
<1>5. UNCHANGED job \/ Noted(w) \/ job' = [job EXCEPT ![w].errors = TRUE, ![w].next = Whole]
  BY DEF Parse, Tear
<1>6. /\ job' \in [Workers -> Delivery \cup {NoJob}] /\ job'[w] \in Delivery
      /\ \A x \in Workers : x # w => job'[x] = job[x]
  <2>1. CASE UNCHANGED job \/ Noted(w)
    BY <1>1, <2>1, JobType, NotedType DEF TypeOK, Noted
  <2>2. CASE job' = [job EXCEPT ![w].errors = TRUE, ![w].next = Whole]
    BY <1>1, <1>4, <2>2, JobStays DEF TypeOK
  <2> QED
    BY <1>5, <2>1, <2>2
<1>7. tornOff' \subseteq [upload : Uploads, delivery : Nat]
  BY <1>1, JobType DEF Parse, Tear, TypeOK, history
<1>8. UNCHANGED <<doc, api, queue, unacked, used, table, begun, over, refused>>
  BY DEF Parse, Tear, history
<1> QED
  BY <1>1, <1>2, <1>3, <1>6, <1>7, <1>8, TypeFrame DEF TypeOK, TableRows

LEMMA PartType ==
  ASSUME TypeInv, NEW w \in Workers, Part(w) PROVE TypeInv'
<1> USE DEF TypeInv
<1>1. Busy(w)
  BY DEF Part, Busy
<1>2. PICK e \in BOOLEAN : PassOn(w, e)
  BY DEF Part
<1>3. key' \in [Uploads -> Keys]
  BY <1>1, <1>2, ProgressType DEF PassOn, TypeOK, Keys
<1>4. \E s \in Stages \ {"idle"} : Go(w, s)
  BY <1>2 DEF PassOn, AfterPart, Stages
<1>5. /\ job' \in [Workers -> Delivery \cup {NoJob}] /\ job'[w] \in Delivery
      /\ \A x \in Workers : x # w => job'[x] = job[x]
  <2>1. (job[w].errors \/ e) \in BOOLEAN
        /\ (IF LastPart(w) THEN job[w].next ELSE job[w].next + 1) \in Nat
    BY <1>1, JobType
  <2>2. job' = [job EXCEPT ![w].errors = job[w].errors \/ e,
                           ![w].next = IF LastPart(w) THEN job[w].next ELSE job[w].next + 1]
    BY <1>2 DEF PassOn
  <2> QED
    BY <1>1, <2>1, <2>2, JobStays DEF TypeOK
<1>6. table' \subseteq TableRows
      /\ refused' \subseteq [upload : Uploads, delivery : Nat, part : Nat]
  BY <1>1, RowTypes DEF Part, Inserted, TypeOK, TableRows
<1>7. UNCHANGED <<doc, api, queue, unacked, used, begun, over, tornOff>>
  BY <1>2 DEF PassOn
<1> QED
  BY <1>1, <1>3, <1>4, <1>5, <1>6, <1>7, TypeFrame DEF TypeOK

LEMMA TotalsType ==
  ASSUME TypeInv, NEW w \in Workers, Totals(w) PROVE TypeInv'
<1> USE DEF TypeInv
<1>1. Busy(w)
  BY DEF Totals, Busy
<1>2. key' \in [Uploads -> Keys]
  BY <1>1, ProgressType DEF Totals
<1>3. Go(w, "image") /\ "image" \in Stages \ {"idle"}
  BY DEF Totals, Stages
<1>4. /\ job' \in [Workers -> Delivery \cup {NoJob}] /\ job'[w] \in Delivery
      /\ \A x \in Workers : x # w => job'[x] = job[x]
  BY <1>1, JobType, NotedType DEF Totals, TypeOK, Noted
<1>5. table' \subseteq TableRows
  <2>1. \A r \in TableRows : [r EXCEPT !.total = job[w].next] \in TableRows
    BY <1>1, JobType DEF TableRows
  <2>2. table \subseteq TableRows
    BY DEF TypeOK, TableRows
  <2> QED
    BY <2>1, <2>2 DEF Totals
<1>6. UNCHANGED <<doc, api, queue, unacked, used, begun, over, refused, tornOff>>
  BY DEF Totals, history
<1> QED
  BY <1>1, <1>2, <1>3, <1>4, <1>5, <1>6, TypeFrame DEF TypeOK

LEMMA ApiType ==
  ASSUME TypeInv, NEW u \in Uploads, Submit(u) \/ Queued(u) \/ Expire(u) PROVE TypeInv'
<1> USE DEF TypeInv
<1>1. CASE Submit(u)
  <2>1. api' \in [Uploads -> {"idle", "sent", "answered", "refused"}]
        /\ queue' \in [Uploads -> Nat]
    <3>1. CASE api' = [api EXCEPT ![u] = "sent"] /\ queue' = [queue EXCEPT ![u] = @ + 1]
      BY <3>1 DEF TypeOK
    <3>2. CASE api' = [api EXCEPT ![u] = "refused"] /\ UNCHANGED queue
      BY <3>2 DEF TypeOK
    <3> QED
      BY <1>1, <3>1, <3>2 DEF Submit
  <2> QED
    BY <1>1, <2>1 DEF Submit, TypeOK, Held, Busy, work, history
<1>2. CASE Queued(u)
  <2>1. "QUEUED" \in Statuses /\ 0 \in Nat /\ FALSE \in BOOLEAN
    BY DEF Statuses
  <2>2. key' \in [Uploads -> Keys] /\ used' \in [Faults -> Nat]
    BY <1>2, <2>1, WrittenType, RaisesType DEF Queued, TypeOK
  <2> QED
    BY <1>2, <2>2 DEF Queued, TypeOK, Held, Busy, work, history, Keys
<1>3. CASE Expire(u)
  <2>1. key' \in [Uploads -> Keys]
    BY <1>3 DEF Expire, TypeOK, Keys, NoKey, Statuses
  <2>2. used' \in [Faults -> Nat]
    BY <1>3, HappensType DEF Expire, Faults
  <2> QED
    BY <1>3, <2>1, <2>2 DEF Expire, TypeOK, Held, Busy, work, history, Keys
<1> QED
  BY <1>1, <1>2, <1>3

LEMMA ReceiveType ==
  ASSUME TypeInv, NEW w \in Workers, NEW u \in Uploads, Receive(w, u)
  PROVE  /\ TypeInv'
         /\ job'[w] = [upload |-> u, no |-> begun[u] + 1, next |-> 1, errors |-> FALSE]
         /\ pc'[w] = "start"
<1> DEFINE d == [upload |-> u, no |-> begun[u] + 1, next |-> 1, errors |-> FALSE]
<1>1. d \in Delivery
  BY DEF TypeInv, TypeOK, Delivery
<1>2. job' = [job EXCEPT ![w] = d]
  BY DEF Receive
<1>3. job' \in [Workers -> Delivery \cup {NoJob}] /\ job'[w] = d
      /\ \A x \in Workers : x # w => job'[x] = job[x]
  BY <1>1, <1>2 DEF TypeInv, TypeOK
<1>4. queue' \in [Uploads -> Nat] /\ begun' \in [Uploads -> Nat]
  BY DEF TypeInv, TypeOK, Receive
<1>5. pc' \in [Workers -> Stages] /\ pc'[w] = "start"
      /\ \A x \in Workers : x # w => pc'[x] = pc[x]
  BY DEF TypeInv, TypeOK, Receive, Go, Stages
<1> HIDE DEF d
<1>6. \A x \in Workers : pc'[x] # "idle" => job'[x] \in Delivery
  BY <1>1, <1>3, <1>5 DEF TypeInv, TypeOK
<1>7. unacked' = unacked \cup {w} /\ UNCHANGED <<doc, api, key, used, table, over, refused, tornOff>>
  BY DEF Receive
<1>8. TypeInv'
  BY <1>3, <1>4, <1>5, <1>6, <1>7 DEF TypeInv, TypeOK, Held, Busy
<1> QED
  BY <1>3, <1>5, <1>8 DEF d

LEMMA EndType ==
  ASSUME TypeInv, NEW w \in Workers, Ack(w) \/ Crash(w) PROVE TypeInv'
<1>1. Busy(w) /\ pc' \in [Workers -> Stages] /\ pc'[w] = "idle"
      /\ \A x \in Workers : x # w => pc'[x] = pc[x]
  BY DEF TypeInv, TypeOK, Ack, Crash, Go, Busy, Stages
<1>2. job' \in [Workers -> Delivery \cup {NoJob}]
      /\ \A x \in Workers : x # w => job'[x] = job[x]
  BY DEF TypeInv, TypeOK, Ack, Crash
<1>3. unacked' = unacked \ {w} /\ UNCHANGED <<doc, api, key, table, begun, refused, tornOff>>
  BY DEF Ack, Crash, history
<1>4. queue' \in [Uploads -> Nat]
  BY <1>1, JobType DEF TypeInv, TypeOK, Ack, Crash
<1>5. over' \subseteq Uploads
  BY <1>1, JobType DEF TypeInv, TypeOK, Ack, Crash, history
<1>6. used' \in [Faults -> Nat]
  BY HappensType DEF TypeInv, TypeOK, Ack, Crash, Faults
<1> QED
  BY <1>1, <1>2, <1>3, <1>4, <1>5, <1>6 DEF TypeInv, TypeOK, Held, Busy

LEMMA RedeliverType ==
  ASSUME TypeInv, NEW w \in Workers, Redeliver(w) PROVE TypeInv'
<1>1. Busy(w) /\ job[w].upload \in Uploads
  BY JobType DEF TypeInv, Held, Redeliver
<1>2. queue' \in [Uploads -> Nat]
  BY <1>1 DEF TypeInv, TypeOK, Redeliver
<1>3. used' \in [Faults -> Nat]
  BY HappensType DEF TypeInv, Redeliver, Faults
<1> QED
  BY <1>2, <1>3 DEF TypeInv, TypeOK, Held, Busy, Redeliver, history

LEMMA TypeStep == ASSUME TypeInv, [Next]_vars PROVE TypeInv'
<1>1. ASSUME NEW w \in Workers, Step(w) PROVE TypeInv'
  BY <1>1, ShellType, ParseType, PartType, TotalsType, EndType DEF Step
<1>2. ASSUME NEW w \in Workers, Redeliver(w) \/ Crash(w) PROVE TypeInv'
  BY <1>2, RedeliverType, EndType
<1>3. ASSUME NEW w \in Workers, NEW u \in Uploads, Receive(w, u) PROVE TypeInv'
  BY <1>3, ReceiveType
<1>4. ASSUME UNCHANGED vars PROVE TypeInv'
  BY <1>4 DEF TypeInv, TypeOK, Held, Busy, vars, work, history
<1> QED
  BY <1>1, <1>2, <1>3, <1>4, ApiType DEF Next

LEMMA TypeInitially == Init => TypeInv
BY DEF Init, TypeInv, TypeOK, Held, Statuses, NoKey, Stages, Delivery, NoJob

LEMMA Typed == Spec => []TypeInv
BY TypeInitially, TypeStep, PTL DEF Spec

\* Every state of the ingestion is well typed: a busy worker has a delivery.
THEOREM IngestTypeCorrect == Spec => []TypeOK
BY Typed, PTL DEF TypeInv

-----------------------------------------------------------------------------
(* Deliveries. *)

\* Each delivery has a number of its own, and rows and keys are of deliveries that
\* have begun.
NumberInv ==
  /\ \A w \in Workers : Busy(w) => job[w].no \in 1 .. begun[job[w].upload]
  /\ \A w, x \in Workers : w # x /\ Busy(w) /\ Busy(x) =>
       job[w].upload # job[x].upload \/ job[w].no # job[x].no
  /\ \A r \in table : r.delivery \in 1 .. begun[r.upload]
  /\ \A u \in Uploads : key[u].by <= begun[u]

\* How a step of worker w looks from outside.
StepFrame(w) ==
  /\ Busy(w)
  /\ \A x \in Workers : x # w => pc'[x] = pc[x] /\ job'[x] = job[x]
  /\ pc'[w] # "idle" => job'[w].upload = job[w].upload /\ job'[w].no = job[w].no
  /\ doc' = doc /\ begun' = begun
  /\ refused \subseteq refused' /\ tornOff \subseteq tornOff'
  /\ used'["redis"] \in Nat /\ used'["redis"] >= used["redis"]
  /\ \A u \in Uploads : key'[u] = key[u] \/ (u = job[w].upload /\ key'[u].by = job[w].no)
  /\ \A r \in table' : Mine(w, r) \/ r \in table
  /\ \A r \in table : Mine(w, r) \/ r \in table'

LEMMA WrittenKey ==
  ASSUME TypeInv, NEW w \in Workers, Busy(w),
         \/ UNCHANGED key
         \/ \E s, e : Written(job[w].upload, s, job[w].no, e)
  PROVE  \A u \in Uploads : key'[u] = key[u] \/ (u = job[w].upload /\ key'[u].by = job[w].no)
<1>1. CASE UNCHANGED key
  BY <1>1
<1>2. ASSUME NEW s, NEW e, Written(job[w].upload, s, job[w].no, e), NEW u \in Uploads
      PROVE  key'[u] = key[u] \/ (u = job[w].upload /\ key'[u].by = job[w].no)
  <2>1. CASE u # job[w].upload
    BY <1>2, <2>1 DEF TypeInv, TypeOK, Written
  <2>2. CASE u = job[w].upload
    <3>1. key'[u] = [status |-> s, by |-> job[w].no, errors |-> e]
      BY <1>2, <2>2 DEF TypeInv, TypeOK, Written
    <3> QED
      BY <2>2, <3>1
  <2> QED
    BY <2>1, <2>2
<1> QED
  BY <1>1, <1>2

LEMMA StepFrames ==
  ASSUME TypeInv, NEW w \in Workers, Step(w) PROVE StepFrame(w)
<1>1. Busy(w)
  BY DEF Step, Start, Download, Parse, Part, Tear, Totals, Images, Complete, Fail, Ack, Busy
<1>2. \A x \in Workers : x # w => pc'[x] = pc[x]
  BY DEF Step, Start, Download, Parse, Part, PassOn, Tear, Totals, Images, Complete, Fail, Ack,
     Go, TypeInv, TypeOK
<1>3. \A x \in Workers : x # w => job'[x] = job[x]
  BY DEF Step, Start, Download, Parse, Part, PassOn, Tear, Totals, Images, Complete, Fail, Ack,
     Noted, TypeInv, TypeOK
<1>4. pc'[w] # "idle" => job'[w].upload = job[w].upload /\ job'[w].no = job[w].no
  <2>1. job[w] \in Delivery
    BY <1>1, JobType DEF TypeInv
  <2>2. CASE Ack(w)
    BY <2>2 DEF Ack, Go, TypeInv, TypeOK
  <2>3. CASE Part(w)
    <3>1. PICK e \in BOOLEAN : PassOn(w, e)
      BY <2>3 DEF Part
    <3> QED
      BY <2>1, <3>1 DEF PassOn, TypeInv, TypeOK, Delivery
  <2>4. CASE Parse(w) \/ Tear(w) \/ Totals(w) \/ Images(w)
    BY <2>1, <2>4 DEF Parse, Tear, Totals, Images, Noted, TypeInv, TypeOK, Delivery
  <2>5. CASE Start(w) \/ Download(w) \/ Complete(w) \/ Fail(w)
    BY <2>5 DEF Start, Download, Complete, Fail
  <2> QED
    BY <2>2, <2>3, <2>4, <2>5 DEF Step
<1>5. /\ doc' = doc /\ begun' = begun
      /\ refused \subseteq refused' /\ tornOff \subseteq tornOff'
  BY DEF Step, Start, Download, Parse, Part, PassOn, Tear, Totals, Images, Complete, Fail, Ack,
     history
<1>6. used'["redis"] \in Nat /\ used'["redis"] >= used["redis"]
  <2>1. "redis" \in Faults /\ used["redis"] \in Nat
    BY DEF Faults, TypeInv, TypeOK
  <2>2. Happens("redis") => used'["redis"] = used["redis"] + 1
    BY <2>1, HappensType DEF TypeInv
  <2>3. UNCHANGED used \/ Happens("redis")
    BY DEF Step, Start, Download, Parse, Part, PassOn, Tear, Totals, Images, Complete, Fail, Ack,
       history, WriteRaises
  <2> QED
    BY <2>1, <2>2, <2>3
<1>7. \/ UNCHANGED key
      \/ \E s, e : Written(job[w].upload, s, job[w].no, e)
  BY DEF Step, Start, Download, Parse, Part, PassOn, Tear, Totals, Images, Complete, Fail, Ack,
     Progress, WriteRaises
<1>8. /\ \A r \in table' : Mine(w, r) \/ r \in table
      /\ \A r \in table : Mine(w, r) \/ r \in table'
  <2>1. CASE UNCHANGED table
    BY <2>1
  <2>2. CASE Inserted(w)
    BY <2>2 DEF Inserted, WithTotal, RowOf, Row, Mine
  <2>3. CASE table' = {IF Mine(w, r) THEN [r EXCEPT !.total = job[w].next] ELSE r : r \in table}
    <3>1. \A r \in table : Mine(w, r) => Mine(w, [r EXCEPT !.total = job[w].next])
      BY DEF Mine, TypeInv, TypeOK
    <3> QED
      BY <2>3, <3>1
  <2> QED
    BY <2>1, <2>2, <2>3 DEF Step, Start, Download, Parse, Part, PassOn, Tear, Totals, Images,
       Complete, Fail, Ack, history
<1> QED
  BY <1>1, <1>2, <1>3, <1>4, <1>5, <1>6, <1>7, <1>8, WrittenKey DEF StepFrame

LEMMA NumberStep == ASSUME TypeInv, NumberInv, [Next]_vars PROVE NumberInv'
<1>1. ASSUME NEW w \in Workers, Step(w) PROVE NumberInv'
  <2>1. StepFrame(w)
    BY <1>1, StepFrames
  <2>2. job[w].upload \in Uploads /\ job[w].no \in 1 .. begun[job[w].upload]
        /\ begun[job[w].upload] \in Nat
    BY <2>1, JobType DEF TypeInv, TypeOK, NumberInv, StepFrame
  <2>3. \A u \in Uploads : key'[u].by <= begun'[u]
    BY <2>1, <2>2 DEF StepFrame, NumberInv
  <2>4. \A r \in table' : r.delivery \in 1 .. begun'[r.upload]
    BY <2>1, <2>2 DEF StepFrame, NumberInv, Mine
  <2>5. \A x \in Workers : Busy(x)' =>
          Busy(x) /\ job'[x].upload = job[x].upload /\ job'[x].no = job[x].no
    BY <2>1 DEF StepFrame, Busy
  <2> QED
    BY <2>1, <2>3, <2>4, <2>5 DEF NumberInv, StepFrame
<1>2. ASSUME NEW w \in Workers, Redeliver(w) \/ Crash(w) PROVE NumberInv'
  <2>1. \A x \in Workers : Busy(x)' => Busy(x) /\ job'[x] = job[x]
    BY <1>2 DEF Redeliver, Crash, Go, Busy, TypeInv, TypeOK
  <2>2. UNCHANGED <<key, table, begun>>
    BY <1>2 DEF Redeliver, Crash, history
  <2> QED
    BY <2>1, <2>2 DEF NumberInv
<1>3. ASSUME NEW w \in Workers, NEW u \in Uploads, Receive(w, u) PROVE NumberInv'
  <2>1. job'[w].upload = u /\ job'[w].no = begun[u] + 1
    <3>1. job'[w] = [upload |-> u, no |-> begun[u] + 1, next |-> 1, errors |-> FALSE]
      BY <1>3, ReceiveType
    <3> QED
      BY <3>1
  <2>2. /\ \A v \in Uploads : begun[v] \in Nat /\ begun'[v] \in Nat /\ begun[v] <= begun'[v]
        /\ begun'[u] = begun[u] + 1
    BY <1>3 DEF Receive, TypeInv, TypeOK
  <2>3. ~Busy(w) /\ \A x \in Workers : x # w => pc'[x] = pc[x] /\ job'[x] = job[x]
    BY <1>3 DEF Receive, Go, Busy, TypeInv, TypeOK
  <2>4. UNCHANGED <<key, table>>
    BY <1>3 DEF Receive
  <2>5. \A x \in Workers : Busy(x) => job[x].upload \in Uploads /\ job[x].no \in Nat
    BY JobType DEF TypeInv
  <2>6. \A x \in Workers : Busy(x)' => job'[x].no \in 1 .. begun'[job'[x].upload]
    BY <2>1, <2>2, <2>3, <2>5 DEF NumberInv, Busy
  <2>7. \A x, y \in Workers : x # y /\ Busy(x)' /\ Busy(y)' =>
          job'[x].upload # job'[y].upload \/ job'[x].no # job'[y].no
    <3>1. \A x \in Workers : x # w /\ Busy(x)' =>
            job'[x].upload # u \/ job'[x].no # begun[u] + 1
      BY <2>2, <2>3, <2>5 DEF NumberInv, Busy
    <3> QED
      BY <2>1, <2>3, <3>1 DEF NumberInv, Busy
  <2>8. \A r \in table' : r.delivery \in 1 .. begun'[r.upload]
    BY <2>2, <2>4 DEF NumberInv, TypeInv, TypeOK
  <2>9. \A v \in Uploads : key'[v].by <= begun'[v]
    BY <2>2, <2>4 DEF NumberInv, TypeInv, TypeOK
  <2> QED
    BY <2>6, <2>7, <2>8, <2>9 DEF NumberInv
<1>4. ASSUME NEW u \in Uploads, Submit(u) \/ Queued(u) \/ Expire(u) PROVE NumberInv'
  <2>1. UNCHANGED <<table, begun, pc, job>>
    BY <1>4 DEF Submit, Queued, Expire, work, history
  <2>2. \A v \in Uploads : key'[v].by = key[v].by \/ key'[v].by = 0
    BY <1>4 DEF Submit, Queued, Expire, Written, WriteRaises, NoKey, TypeInv, TypeOK
  <2>3. \A v \in Uploads : key'[v].by <= begun[v]
    <3>1. \A v \in Uploads : begun[v] \in Nat /\ key[v].by <= begun[v]
      BY DEF NumberInv, TypeInv, TypeOK
    <3> QED BY ONLY <2>2, <3>1
  <2> QED
    BY <2>1, <2>3 DEF NumberInv, Busy
<1>5. ASSUME UNCHANGED vars PROVE NumberInv'
  BY <1>5 DEF NumberInv, Busy, vars, work, history
<1> QED
  BY <1>1, <1>2, <1>3, <1>4, <1>5 DEF Next

LEMMA NumberInitially == Init => NumberInv
BY DEF Init, NumberInv, Busy, NoKey

LEMMA Numbered == Spec => []NumberInv
BY NumberInitially, NumberStep, Typed, PTL DEF Spec

-----------------------------------------------------------------------------
(* Copies. *)

Asked(u) == IF api[u] \in {"sent", "answered"} THEN 1 ELSE 0

\* Every delivery, begun or waiting, comes from the request or from a fault.
CopyInv ==
  \A u \in Uploads : begun[u] + queue[u] <= Asked(u) + used["crash"] + used["redeliver"]

LEMMA CopyStep == ASSUME TypeInv, CopyInv, [Next]_vars PROVE CopyInv'
<1> USE DEF TypeInv
<1>1. /\ used["crash"] \in Nat /\ used["redeliver"] \in Nat
      /\ \A u \in Uploads : begun[u] \in Nat /\ queue[u] \in Nat /\ Asked(u) \in Nat
  BY DEF TypeOK, Faults, Asked
<1>2. ASSUME NEW f \in Faults, Happens(f)
      PROVE  /\ used'["crash"] = used["crash"] + (IF f = "crash" THEN 1 ELSE 0)
             /\ used'["redeliver"] = used["redeliver"] + (IF f = "redeliver" THEN 1 ELSE 0)
  BY <1>1, <1>2, HappensType DEF Faults
<1>3. ASSUME UNCHANGED <<api, queue, begun>>,
             UNCHANGED used \/ Happens("redis") \/ Happens("expire")
      PROVE  CopyInv'
  <2>1. used'["crash"] = used["crash"] /\ used'["redeliver"] = used["redeliver"]
    BY <1>1, <1>2, <1>3 DEF Faults
  <2> QED
    BY <1>3, <2>1 DEF CopyInv, Asked
<1>4. ASSUME NEW w \in Workers, Step(w) PROVE CopyInv'
  BY <1>3, <1>4 DEF Step, Start, Download, Parse, Part, PassOn, Tear, Totals, Images, Complete,
     Fail, Ack, WriteRaises, history
<1>5. ASSUME NEW w \in Workers, Redeliver(w) \/ Crash(w) PROVE CopyInv'
  <2>1. job[w].upload \in Uploads
    BY <1>5, JobType DEF Held, Redeliver, Crash, Busy
  <2>2. used'["crash"] + used'["redeliver"] = used["crash"] + used["redeliver"] + 1
    BY <1>1, <1>2, <1>5 DEF Redeliver, Crash, Faults
  <2>3. \A u \in Uploads : queue'[u] \in Nat /\ queue'[u] <= queue[u] + 1
    BY <1>1, <1>5, <2>1 DEF Redeliver, Crash, TypeOK
  <2>4. UNCHANGED <<api, begun>>
    BY <1>5 DEF Redeliver, Crash, history
  <2>5. used'["crash"] \in Nat /\ used'["redeliver"] \in Nat
    BY <1>1, <1>2, <1>5 DEF Redeliver, Crash, Faults
  <2> QED
    BY <1>1, <2>2, <2>3, <2>4, <2>5 DEF CopyInv, Asked
<1>6. ASSUME NEW w \in Workers, NEW u \in Uploads, Receive(w, u) PROVE CopyInv'
  <2>1. \A v \in Uploads : begun'[v] + queue'[v] = begun[v] + queue[v]
    BY <1>1, <1>6 DEF Receive, TypeOK
  <2> QED
    BY <1>6, <2>1 DEF CopyInv, Asked, Receive
<1>7. ASSUME NEW u \in Uploads, Submit(u) PROVE CopyInv'
  <2>1. UNCHANGED <<used, begun>>
    BY <1>7 DEF Submit, history
  <2>2. CASE api' = [api EXCEPT ![u] = "sent"] /\ queue' = [queue EXCEPT ![u] = @ + 1]
    <3>1. Asked(u) = 0 /\ Asked(u)' = 1 /\ queue'[u] = queue[u] + 1
      BY <1>7, <2>2 DEF Submit, Asked, TypeOK
    <3>2. \A v \in Uploads : v # u => Asked(v)' = Asked(v) /\ queue'[v] = queue[v]
      BY <2>2 DEF Asked, TypeOK
    <3> QED
      BY <1>1, <2>1, <3>1, <3>2 DEF CopyInv
  <2>3. CASE api' = [api EXCEPT ![u] = "refused"] /\ UNCHANGED queue
    <3>1. \A v \in Uploads : Asked(v)' = Asked(v)
      BY <1>7, <2>3 DEF Submit, Asked, TypeOK
    <3> QED
      BY <2>1, <2>3, <3>1 DEF CopyInv
  <2> QED
    BY <1>7, <2>2, <2>3 DEF Submit
<1>8. ASSUME NEW u \in Uploads, Queued(u) PROVE CopyInv'
  <2>1. \A v \in Uploads : Asked(v)' = Asked(v)
    BY <1>8 DEF Queued, Asked, TypeOK
  <2>2. used'["crash"] = used["crash"] /\ used'["redeliver"] = used["redeliver"]
    <3>1. UNCHANGED used \/ Happens("redis")
      BY <1>8 DEF Queued, WriteRaises
    <3> QED
      BY <1>1, <1>2, <3>1 DEF Faults
  <2> QED
    BY <1>8, <2>1, <2>2 DEF Queued, CopyInv, history
<1>9. ASSUME NEW u \in Uploads, Expire(u) PROVE CopyInv'
  BY <1>3, <1>9 DEF Expire, history
<1>10. ASSUME UNCHANGED vars PROVE CopyInv'
  BY <1>3, <1>10 DEF vars, history
<1> QED
  BY <1>4, <1>5, <1>6, <1>7, <1>8, <1>9, <1>10 DEF Next

\* A document is in the knowledge base at most once more than it was redelivered.
THEOREM CopiesAreAlwaysCaused == Spec => []CopiesAreCaused
<1>1. Init => CopyInv
  BY DEF Init, CopyInv, Asked, Faults
<1>2. TypeInv /\ NumberInv /\ CopyInv => CopiesAreCaused
  <2> SUFFICES ASSUME TypeInv, NumberInv, CopyInv, NEW u \in Uploads
               PROVE  Cardinality({r.delivery : r \in {x \in table : x.upload = u}})
                        <= 1 + used["crash"] + used["redeliver"]
    BY DEF CopiesAreCaused
  <2> DEFINE D == {r.delivery : r \in {x \in table : x.upload = u}}
  <2>1. begun[u] \in Nat /\ queue[u] \in Nat /\ used["crash"] \in Nat
        /\ used["redeliver"] \in Nat /\ Asked(u) \in {0, 1}
    BY DEF TypeInv, TypeOK, Faults, Asked
  <2>2. D \subseteq 1 .. begun[u]
    BY DEF NumberInv
  <2>3. IsFiniteSet(1 .. begun[u]) /\ Cardinality(1 .. begun[u]) = begun[u]
    <3>1. 1 \in Int /\ begun[u] \in Int
      BY <2>1
    <3>2. IsFiniteSet(1 .. begun[u])
          /\ Cardinality(1 .. begun[u]) = IF 1 > begun[u] THEN 0 ELSE begun[u] - 1 + 1
      BY <3>1, FS_Interval
    <3> QED
      BY <2>1, <3>2
  <2>4. IsFiniteSet(D) /\ Cardinality(D) <= begun[u]
    BY <2>2, <2>3, FS_Subset
  <2>5. Cardinality(D) \in Nat
    BY <2>4, FS_CardinalityType
  <2>6. begun[u] <= 1 + used["crash"] + used["redeliver"]
    BY <2>1 DEF CopyInv
  <2> HIDE DEF D
  <2>7. Cardinality(D) <= 1 + used["crash"] + used["redeliver"]
    BY <2>1, <2>4, <2>5, <2>6
  <2> QED
    BY <2>7 DEF D
<1> QED
  BY <1>1, <1>2, CopyStep, Typed, Numbered, PTL DEF Spec

-----------------------------------------------------------------------------
(* FAILED leaves nothing. *)

Excused(u, n) == used["redis"] > 0 \/ [upload |-> u, delivery |-> n] \in tornOff

\* A delivery that is still before its first part, or has failed, has no rows, and one
\* that has failed will make none.
Blank(w) ==
  pc[w] \in {"start", "download", "parse"} => RowsOf(job[w].upload, job[w].no) = {}
Failing(w) ==
  pc[w] = "fail" =>
    RowsOf(job[w].upload, job[w].no) = {} \/ Excused(job[w].upload, job[w].no)
Failed(u) ==
  key[u].status = "FAILED" =>
    \/ Excused(u, key[u].by)
    \/ /\ RowsOf(u, key[u].by) = {}
       /\ \A w \in Workers : job[w].upload = u /\ job[w].no = key[u].by =>
            pc[w] \in {"idle", "ack"}

FailInv ==
  /\ \A w \in Workers : Blank(w) /\ Failing(w)
  /\ \A u \in Uploads : Failed(u)

LEMMA Excuses ==
  ASSUME TypeInv, NEW w \in Workers, StepFrame(w), NEW u, NEW n, Excused(u, n)
  PROVE  Excused(u, n)'
<1>1. used["redis"] \in Nat /\ used'["redis"] \in Nat /\ used'["redis"] >= used["redis"]
  BY DEF StepFrame, TypeInv, TypeOK, Faults
<1>2. tornOff \subseteq tornOff'
  BY DEF StepFrame
<1> QED
  BY <1>1, <1>2 DEF Excused

\* The rows of another delivery are as before.
LEMMA RowsStay ==
  ASSUME NEW w \in Workers, StepFrame(w), NEW u, NEW n,
         u # job[w].upload \/ n # job[w].no
  PROVE  RowsOf(u, n)' = RowsOf(u, n)
BY DEF StepFrame, RowsOf, Mine

\* Two busy workers have different deliveries.
LEMMA Apart ==
  ASSUME NumberInv, NEW w \in Workers, NEW x \in Workers, w # x, Busy(w), Busy(x)
  PROVE  job[x].upload # job[w].upload \/ job[x].no # job[w].no
BY DEF NumberInv

\* Only Fail writes FAILED, and only Complete writes COMPLETED.
LEMMA Verdicts ==
  ASSUME TypeInv, NEW w \in Workers, Step(w), NEW u \in Uploads, key'[u] # key[u]
  PROVE  /\ u = job[w].upload /\ key'[u].by = job[w].no
         /\ key'[u].status = "FAILED" => Fail(w)
         /\ key'[u].status = "COMPLETED" => Complete(w) /\ key'[u].errors = job[w].errors
<1>1. u = job[w].upload /\ key'[u].by = job[w].no
  BY StepFrames DEF StepFrame
<1>2. ASSUME NEW s, NEW e, Written(job[w].upload, s, job[w].no, e)
      PROVE  key'[u].status = s /\ key'[u].errors = e
  <2>1. key'[u] = [status |-> s, by |-> job[w].no, errors |-> e]
    BY <1>1, <1>2 DEF Written, TypeInv, TypeOK
  <2> QED
    BY <2>1
<1>3. CASE Fail(w)
  <2>1. Written(job[w].upload, "FAILED", job[w].no, FALSE)
    BY <1>3 DEF Fail, WriteRaises
  <2>2. key'[u].status = "FAILED"
    BY <1>2, <2>1
  <2> QED
    BY <1>1, <1>3, <2>2
<1>4. CASE Complete(w)
  <2>1. Written(job[w].upload, "COMPLETED", job[w].no, job[w].errors)
    BY <1>4 DEF Complete, WriteRaises
  <2>2. key'[u].status = "COMPLETED" /\ key'[u].errors = job[w].errors
    BY <1>2, <2>1
  <2> QED
    BY <1>1, <1>4, <2>2
<1>5. CASE Step(w) /\ ~Fail(w) /\ ~Complete(w)
  <2>1. Written(job[w].upload, "RUNNING", job[w].no, FALSE)
    BY <1>5 DEF Step, Start, Download, Parse, Part, PassOn, Tear, Totals, Images, Ack,
       Progress, WriteRaises
  <2>2. key'[u].status = "RUNNING"
    BY <1>2, <2>1
  <2> QED
    BY <1>1, <2>2
<1> QED
  BY <1>3, <1>4, <1>5

LEMMA FailOwn ==
  ASSUME TypeInv, FailInv, NEW w \in Workers, Step(w) PROVE Blank(w)' /\ Failing(w)'
<1>1. PICK u, n : u = job[w].upload /\ n = job[w].no
  OBVIOUS
<1>2. StepFrame(w)
  BY StepFrames
<1>3. pc'[w] # "idle" => job'[w].upload = u /\ job'[w].no = n
  BY <1>1, <1>2 DEF StepFrame
<1>4. SUFFICES /\ pc'[w] \in {"start", "download", "parse"} => RowsOf(u, n)' = {}
               /\ pc'[w] = "fail" => RowsOf(u, n)' = {} \/ Excused(u, n)'
  BY <1>3 DEF Blank, Failing, RowsOf, Excused
<1>5. CASE Start(w) \/ Download(w) \/ Parse(w)
  <2>1. pc[w] \in {"start", "download", "parse"} /\ UNCHANGED table
    BY <1>5 DEF Start, Download, Parse, history
  <2>2. RowsOf(u, n) = {}
    BY <1>1, <2>1 DEF FailInv, Blank
  <2> QED
    BY <2>1, <2>2 DEF RowsOf
<1>6. CASE Tear(w)
  BY <1>1, <1>6 DEF Tear, Go, Excused, TypeInv, TypeOK
<1>7. CASE Complete(w)
  <2>1. pc'[w] = "ack" \/ (pc'[w] = "fail" /\ Happens("redis"))
    BY <1>7 DEF Complete, WriteRaises, Go, TypeInv, TypeOK
  <2>2. used["redis"] \in Nat /\ (Happens("redis") => used'["redis"] = used["redis"] + 1)
    BY HappensType DEF TypeInv, TypeOK, Faults
  <2> QED
    BY <2>1, <2>2 DEF Excused
<1>8. CASE Part(w) \/ Totals(w) \/ Images(w) \/ Fail(w) \/ Ack(w)
  <2>1. pc'[w] \in {"part", "totals", "image", "complete", "ack", "idle"}
    BY <1>8 DEF Part, PassOn, AfterPart, Totals, Images, Fail, Ack, Go, TypeInv, TypeOK
  <2> QED
    BY <2>1
<1> QED
  BY <1>5, <1>6, <1>7, <1>8 DEF Step

LEMMA FailKey ==
  ASSUME TypeInv, NumberInv, FailInv, NEW w \in Workers, Step(w), NEW u \in Uploads
  PROVE  Failed(u)'
<1>1. PICK n : n = key'[u].by
  OBVIOUS
<1>2. SUFFICES ASSUME key'[u].status = "FAILED"
      PROVE  \/ Excused(u, n)'
             \/ /\ RowsOf(u, n)' = {}
                /\ \A x \in Workers : job'[x].upload = u /\ job'[x].no = n =>
                     pc'[x] \in {"idle", "ack"}
  BY <1>1 DEF Failed, Excused, RowsOf
<1>3. StepFrame(w)
  BY StepFrames
<1>4. CASE key'[u] = key[u]
  <2>1. \/ Excused(u, n)
        \/ /\ RowsOf(u, n) = {}
           /\ \A x \in Workers : job[x].upload = u /\ job[x].no = n => pc[x] \in {"idle", "ack"}
    BY <1>1, <1>2, <1>4 DEF FailInv, Failed
  <2>2. CASE Excused(u, n)
    BY <1>3, <2>2, Excuses
  <2>3. CASE /\ RowsOf(u, n) = {}
             /\ \A x \in Workers : job[x].upload = u /\ job[x].no = n => pc[x] \in {"idle", "ack"}
    <3>1. CASE job[w].upload = u /\ job[w].no = n
      <4>1. pc[w] = "ack"
        BY <1>3, <2>3, <3>1 DEF StepFrame, Busy
      <4>2. Ack(w)
        BY <4>1 DEF Step, Start, Download, Parse, Part, Tear, Totals, Images, Complete, Fail
      <4>3. pc'[w] = "idle" /\ table' = table
        BY <4>2 DEF Ack, Go, TypeInv, TypeOK
      <4>4. RowsOf(u, n)' = {}
        BY <2>3, <4>3 DEF RowsOf
      <4> QED
        BY <1>3, <2>3, <4>3, <4>4 DEF StepFrame
    <3>2. CASE job[w].upload # u \/ job[w].no # n
      <4>1. RowsOf(u, n)' = {}
        BY <1>3, <2>3, <3>2, RowsStay
      <4>2. job'[w].upload = u /\ job'[w].no = n => pc'[w] = "idle"
        BY <1>3, <3>2 DEF StepFrame
      <4> QED
        BY <1>3, <2>3, <4>1, <4>2 DEF StepFrame
    <3> QED
      BY <3>1, <3>2
  <2> QED
    BY <2>1, <2>2, <2>3
<1>5. CASE key'[u] # key[u]
  <2>1. u = job[w].upload /\ n = job[w].no /\ Fail(w)
    BY <1>1, <1>2, <1>5, Verdicts
  <2>2. pc[w] = "fail" /\ pc'[w] = "ack" /\ UNCHANGED table
    BY <2>1 DEF Fail, Go, TypeInv, TypeOK, history
  <2>3. RowsOf(u, n) = {} \/ Excused(u, n)
    BY <2>1, <2>2 DEF FailInv, Failing
  <2>4. \A x \in Workers : x # w /\ Busy(x) => job[x].upload # u \/ job[x].no # n
    BY <1>3, <2>1, Apart DEF StepFrame
  <2>5. \A x \in Workers : job'[x].upload = u /\ job'[x].no = n => pc'[x] \in {"idle", "ack"}
    BY <1>3, <2>2, <2>4 DEF StepFrame, Busy
  <2>6. RowsOf(u, n) = {} => RowsOf(u, n)' = {}
    BY <2>2 DEF RowsOf
  <2> QED
    BY <1>3, <2>3, <2>5, <2>6, Excuses
<1> QED
  BY <1>4, <1>5

\* A step that is none of a worker leaves rows and verdicts alone.
LEMMA FailFrame ==
  ASSUME FailInv, UNCHANGED <<table, tornOff>>,
         used["redis"] > 0 => used'["redis"] > 0,
         \A x \in Workers : pc'[x] = "idle" \/ (pc'[x] = pc[x] /\ job'[x] = job[x]),
         \A u \in Uploads : key'[u] = key[u] \/ key'[u].status # "FAILED"
  PROVE  FailInv'
BY DEF FailInv, Blank, Failing, Failed, RowsOf, Excused

LEMMA FailStep == ASSUME TypeInv, NumberInv, FailInv, [Next]_vars PROVE FailInv'
<1>1. used["redis"] \in Nat
      /\ \A f \in Faults : Happens(f) => used'["redis"] \in Nat /\ used'["redis"] >= used["redis"]
  <2>1. used["redis"] \in Nat
    BY DEF TypeInv, TypeOK, Faults
  <2>2. ASSUME NEW f \in Faults, Happens(f)
        PROVE  used'["redis"] \in {used["redis"], used["redis"] + 1}
    BY <2>2, HappensType DEF TypeInv, Faults
  <2> QED
    BY <2>1, <2>2
<1>2. ASSUME NEW w \in Workers, Step(w) PROVE FailInv'
  <2>1. StepFrame(w)
    BY <1>2, StepFrames
  <2>2. ASSUME NEW x \in Workers, x # w, Busy(x) PROVE Blank(x)' /\ Failing(x)'
    <3>1. PICK u, n : u = job[x].upload /\ n = job[x].no
      OBVIOUS
    <3>2. u # job[w].upload \/ n # job[w].no
      BY <2>1, <2>2, <3>1, Apart DEF StepFrame
    <3>3. RowsOf(u, n)' = RowsOf(u, n)
      BY <2>1, <3>2, RowsStay
    <3>4. Excused(u, n) => Excused(u, n)'
      BY <2>1, Excuses
    <3>5. job'[x] = job[x] /\ pc'[x] = pc[x]
      BY <2>1, <2>2 DEF StepFrame
    <3> QED
      BY <3>1, <3>3, <3>4, <3>5 DEF FailInv, Blank, Failing, RowsOf, Excused
  <2>3. ASSUME NEW x \in Workers, x # w, ~Busy(x) PROVE Blank(x)' /\ Failing(x)'
    BY <2>1, <2>3 DEF StepFrame, Busy, Blank, Failing
  <2> QED
    BY <1>2, <2>2, <2>3, FailOwn, FailKey DEF FailInv
<1>3. ASSUME NEW w \in Workers, Redeliver(w) \/ Crash(w) PROVE FailInv'
  <2>1. UNCHANGED <<table, tornOff, key>>
    BY <1>3 DEF Redeliver, Crash, history
  <2>2. \A x \in Workers : pc'[x] = "idle" \/ (pc'[x] = pc[x] /\ job'[x] = job[x])
    BY <1>3 DEF Redeliver, Crash, Go, TypeInv, TypeOK
  <2>3. used["redis"] > 0 => used'["redis"] > 0
    BY <1>1, <1>3 DEF Redeliver, Crash, Faults
  <2> QED
    BY <2>1, <2>2, <2>3, FailFrame
<1>4. ASSUME NEW w \in Workers, NEW u \in Uploads, Receive(w, u) PROVE FailInv'
  <2>1. UNCHANGED <<table, tornOff, key, used>>
    BY <1>4 DEF Receive
  <2>2. pc'[w] = "start" /\ job'[w].upload = u /\ job'[w].no = begun[u] + 1
    <3>1. job'[w] = [upload |-> u, no |-> begun[u] + 1, next |-> 1, errors |-> FALSE]
          /\ pc'[w] = "start"
      BY <1>4, ReceiveType
    <3> QED
      BY <3>1
  <2>3. \A x \in Workers : x # w => pc'[x] = pc[x] /\ job'[x] = job[x]
    BY <1>4 DEF Receive, Go, TypeInv, TypeOK
  <2>4. begun[u] \in Nat /\ key[u].by \in Nat /\ key[u].by <= begun[u]
    BY DEF TypeInv, TypeOK, NumberInv
  <2>5. RowsOf(u, begun[u] + 1) = {}
    BY <2>4 DEF RowsOf, NumberInv
  <2>6. key[u].by # begun[u] + 1
    BY <2>4
  <2>7. Blank(w)' /\ Failing(w)'
    BY <2>1, <2>2, <2>5 DEF Blank, Failing, RowsOf
  <2>8. \A x \in Workers : x # w => Blank(x)' /\ Failing(x)'
    BY <2>1, <2>3 DEF FailInv, Blank, Failing, RowsOf, Excused
  <2>9. \A v \in Uploads : Failed(v)'
    BY <2>1, <2>2, <2>3, <2>6 DEF FailInv, Failed, RowsOf, Excused
  <2> QED
    BY <2>7, <2>8, <2>9 DEF FailInv
<1>5. ASSUME NEW u \in Uploads, Submit(u) \/ Queued(u) \/ Expire(u) PROVE FailInv'
  <2>1. UNCHANGED <<table, tornOff, pc, job>>
    BY <1>5 DEF Submit, Queued, Expire, work, history
  <2>2. \A v \in Uploads : key'[v] = key[v] \/ key'[v].status # "FAILED"
    BY <1>5 DEF Submit, Queued, Expire, Written, WriteRaises, NoKey, TypeInv, TypeOK
  <2>3. UNCHANGED used \/ Happens("redis") \/ Happens("expire")
    BY <1>5 DEF Submit, Queued, Expire, WriteRaises
  <2>4. used["redis"] > 0 => used'["redis"] > 0
    BY <1>1, <2>3 DEF Faults
  <2> QED
    BY <2>1, <2>2, <2>4, FailFrame
<1>6. ASSUME UNCHANGED vars PROVE FailInv'
  BY <1>6, FailFrame DEF vars, work, history
<1> QED
  BY <1>2, <1>3, <1>4, <1>5, <1>6 DEF Next

\* FAILED means that the delivery left nothing behind, unless Redis failed it at its
\* verdict or the stream over its PDF broke off.
THEOREM FailedAlwaysLeavesNothing == Spec => []FailedLeavesNothing
<1>1. Init => FailInv
  BY DEF Init, FailInv, Blank, Failing, Failed, NoKey
<1>2. FailInv => FailedLeavesNothing
  BY DEF FailInv, Failed, FailedLeavesNothing, Excused
<1> QED
  BY <1>1, <1>2, FailStep, Typed, Numbered, PTL DEF Spec

-----------------------------------------------------------------------------
(* COMPLETED without an error is whole. *)

\* total_parts of a row while its delivery is at work.
First(u) == IF doc[u].pdf THEN 0 ELSE doc[u].parts

Stored(u, n, p, t) == WithTotal(Row(u, n, p), t) \in RowsOf(u, n) \/ Row(u, n, p) \in refused

\* The parts before part k are in, and no others.
Begun(u, n, k) ==
  /\ k \in PartsOf(u)
  /\ \A p \in 1 .. k - 1 : Stored(u, n, p, First(u))
  /\ \A r \in RowsOf(u, n) : r.part \in 1 .. k - 1 /\ r.total = First(u)

\* All parts are in, and their number is not in all of them yet.
Counted(u, n) ==
  /\ \A p \in PartsOf(u) : (\E r \in RowsOf(u, n) : r.part = p) \/ Row(u, n, p) \in refused
  /\ \A r \in RowsOf(u, n) : r.part \in PartsOf(u)

WholeAt(u, n) ==
  /\ \A p \in PartsOf(u) : Stored(u, n, p, doc[u].parts)
  /\ \A r \in RowsOf(u, n) : r.part \in PartsOf(u) /\ r.total = doc[u].parts

\* How far a delivery that has noted no error is.
Advanced(w) ==
  LET u == job[w].upload
      n == job[w].no IN
  /\ pc[w] \in {"start", "download", "parse"} => job[w].next = 1
  /\ ~job[w].errors =>
       /\ pc[w] = "part" => Begun(u, n, job[w].next)
       /\ pc[w] = "totals" => Counted(u, n) /\ job[w].next = doc[u].parts
       /\ pc[w] \in {"image", "complete"} => WholeAt(u, n)

\* A delivery that was called complete without an error stays whole.
Sealed(u) ==
  key[u].status = "COMPLETED" /\ ~key[u].errors =>
    /\ WholeAt(u, key[u].by)
    /\ \A w \in Workers : job[w].upload = u /\ job[w].no = key[u].by =>
         pc[w] \in {"idle", "fail", "ack"}

WholeInv ==
  /\ \A w \in Workers : Advanced(w)
  /\ \A u \in Uploads : Sealed(u)

LEMMA Monotone ==
  ASSUME doc' = doc, refused \subseteq refused', NEW u, NEW n, RowsOf(u, n)' = RowsOf(u, n)
  PROVE  /\ \A k : Begun(u, n, k) => Begun(u, n, k)'
         /\ Counted(u, n) => Counted(u, n)'
         /\ WholeAt(u, n) => WholeAt(u, n)'
BY DEF Begun, Counted, WholeAt, Stored, First, PartsOf

LEMMA DocTypes ==
  ASSUME TypeInv, NEW u \in Uploads
  PROVE  /\ doc[u].parts \in Nat /\ doc[u].parts >= 1 /\ doc[u].pdf \in BOOLEAN
         /\ Whole \notin PartsOf(u) /\ PartsOf(u) \subseteq Nat
BY IngestConstantsOK DEF TypeInv, TypeOK, Parts, PartsOf, Whole

\* What a part adds to the rows of its delivery.
LEMMA PartRows ==
  ASSUME TypeInv, NEW w \in Workers, Part(w), ~job'[w].errors, ~job[w].errors,
         NEW u, NEW n, u = job[w].upload, n = job[w].no,
         NEW k, k = job[w].next, NEW t, t = TotalOf(w)
  PROVE  /\ refused \subseteq refused'
         /\ \/ RowsOf(u, n)' = RowsOf(u, n) \cup {WithTotal(Row(u, n, k), t)}
            \/ RowsOf(u, n)' = RowsOf(u, n) /\ Row(u, n, k) \in refused'
<1>1. CASE Inserted(w) /\ UNCHANGED refused
  <2>1. table' = table \cup {WithTotal(Row(u, n, k), t)}
    BY <1>1 DEF Inserted, RowOf
  <2>2. WithTotal(Row(u, n, k), t).upload = u /\ WithTotal(Row(u, n, k), t).delivery = n
    BY DEF WithTotal, Row
  <2> QED
    BY <1>1, <2>1, <2>2 DEF RowsOf
<1>2. CASE PassOn(w, TRUE)
  <2>1. Busy(w) /\ job[w] \in Delivery
    BY JobType DEF Part, Busy, TypeInv
  <2>2. job'[w].errors = TRUE
    BY <1>2, <2>1 DEF PassOn, Delivery, TypeInv, TypeOK
  <2> QED
    BY <2>2
<1>3. CASE refused' = refused \cup {RowOf(w, job[w].next)} /\ UNCHANGED table
  BY <1>3 DEF RowOf, RowsOf
<1> QED
  BY <1>1, <1>2, <1>3 DEF Part

LEMMA PartAdvances ==
  ASSUME TypeInv, WholeInv, NEW w \in Workers, Part(w) PROVE Advanced(w)'
<1>1. PICK u, n, k, t : u = job[w].upload /\ n = job[w].no /\ k = job[w].next /\ t = TotalOf(w)
  OBVIOUS
<1>2. StepFrame(w) /\ doc' = doc
  BY StepFrames DEF Step, StepFrame
<1>3. job[w] \in Delivery /\ u \in Uploads /\ pc[w] = "part"
  BY <1>1, JobType DEF Part, Busy, TypeInv
<1>4. PICK e \in BOOLEAN : PassOn(w, e)
  BY DEF Part
<1>5. /\ pc'[w] = AfterPart(w) /\ AfterPart(w) \in {"part", "totals", "image"}
      /\ job'[w].upload = u /\ job'[w].no = n
      /\ job'[w].next = (IF LastPart(w) THEN k ELSE k + 1)
      /\ job'[w].errors = (job[w].errors \/ e)
  <2>1. job'[w] = [job[w] EXCEPT !.errors = job[w].errors \/ e,
                                 !.next = IF LastPart(w) THEN job[w].next ELSE job[w].next + 1]
    BY <1>3, <1>4 DEF PassOn, TypeInv, TypeOK, Delivery
  <2>2. /\ job'[w].upload = job[w].upload /\ job'[w].no = job[w].no
        /\ job'[w].next = (IF LastPart(w) THEN job[w].next ELSE job[w].next + 1)
        /\ job'[w].errors = (job[w].errors \/ e)
    BY <1>3, <2>1 DEF Delivery
  <2>3. pc'[w] = AfterPart(w) /\ AfterPart(w) \in {"part", "totals", "image"}
    BY <1>4 DEF PassOn, AfterPart, Go, TypeInv, TypeOK
  <2> QED
    BY <1>1, <2>2, <2>3
<1>6. SUFFICES ASSUME ~job'[w].errors
      PROVE  /\ pc'[w] = "part" => Begun(u, n, k + 1)' /\ ~LastPart(w)
             /\ pc'[w] = "totals" => Counted(u, n)' /\ job'[w].next = doc[u].parts
             /\ pc'[w] = "image" => WholeAt(u, n)'
  BY <1>2, <1>5 DEF Advanced, Begun, Counted, WholeAt, Stored, RowsOf, First, PartsOf
<1>7. ~job[w].errors
  BY <1>5, <1>6
<1>8. Begun(u, n, k)
  BY <1>1, <1>3, <1>7 DEF WholeInv, Advanced
<1>9. /\ doc[u].parts \in Nat /\ doc[u].parts >= 1 /\ k \in Nat /\ k >= 1 /\ k <= doc[u].parts
      /\ k # Whole /\ (LastPart(w) <=> k = doc[u].parts)
      /\ (Streams(w) <=> doc[u].pdf)
  BY <1>1, <1>3, <1>8, DocTypes DEF Begun, PartsOf, LastPart, Streams
<1>10. /\ refused \subseteq refused'
       /\ \/ RowsOf(u, n)' = RowsOf(u, n) \cup {WithTotal(Row(u, n, k), t)}
          \/ RowsOf(u, n)' = RowsOf(u, n) /\ Row(u, n, k) \in refused'
  BY <1>1, <1>6, <1>7, PartRows
<1>11. WithTotal(Row(u, n, k), t).part = k /\ WithTotal(Row(u, n, k), t).total = t
  BY DEF WithTotal, Row
<1>12. Stored(u, n, k, t)' /\ \A p \in 1 .. k - 1 : Stored(u, n, p, First(u))'
  BY <1>2, <1>8, <1>10 DEF Stored, Begun, First
<1>13. \A r \in RowsOf(u, n)' : \/ (r.part \in 1 .. k - 1 /\ r.total = First(u))
                               \/ (r.part = k /\ r.total = t)
  BY <1>8, <1>10, <1>11 DEF Begun
<1>14. CASE ~LastPart(w)
  <2>1. AfterPart(w) = "part" /\ k + 1 \in 1 .. doc[u].parts
    BY <1>9, <1>14 DEF AfterPart
  <2>2. t = First(u)
    BY <1>1, <1>9, <1>14 DEF TotalOf, First
  <2>3. \A p \in 1 .. (k + 1) - 1 : p = k \/ p \in 1 .. k - 1
    BY <1>9
  <2>4. \A p \in 1 .. k - 1 : p \in 1 .. (k + 1) - 1
    BY <1>9
  <2>5. k \in 1 .. (k + 1) - 1
    BY <1>9
  <2>6. Begun(u, n, k + 1)'
    BY <1>2, <1>12, <1>13, <2>1, <2>2, <2>3, <2>4, <2>5 DEF Begun, First, PartsOf, Stored
  <2> QED
    BY <1>5, <1>14, <2>1, <2>6
<1>15. CASE LastPart(w)
  <2>1. t = doc[u].parts /\ k = doc[u].parts
    BY <1>1, <1>9, <1>15 DEF TotalOf
  <2>2. \A p \in PartsOf(u) : p = k \/ p \in 1 .. k - 1
    BY <1>9, <2>1 DEF PartsOf
  <2>3. k \in PartsOf(u) /\ \A p \in 1 .. k - 1 : p \in PartsOf(u)
    BY <1>9, <2>1 DEF PartsOf
  <2>4. CASE Streams(w) /\ k > 1
    <3>1. AfterPart(w) = "totals" /\ job'[w].next = doc[u].parts
      BY <1>1, <1>5, <1>15, <2>1, <2>4 DEF AfterPart
    <3>2. \A p, s : Stored(u, n, p, s)' =>
            (\E r \in RowsOf(u, n)' : r.part = p) \/ Row(u, n, p) \in refused'
      BY DEF Stored, WithTotal, Row
    <3>3. Counted(u, n)'
      BY <1>2, <1>12, <1>13, <2>2, <2>3, <3>2 DEF Counted, PartsOf
    <3> QED
      BY <1>5, <3>1, <3>3
  <2>5. CASE ~(Streams(w) /\ k > 1)
    <3>1. AfterPart(w) = "image"
      BY <1>1, <1>15, <2>5 DEF AfterPart
    <3>2. k = 1 \/ First(u) = doc[u].parts
      BY <1>9, <2>5 DEF First
    <3>3. ASSUME NEW p \in PartsOf(u) PROVE Stored(u, n, p, doc[u].parts)'
      <4>1. doc' = doc /\ First(u)' = First(u)
        BY <1>2 DEF First
      <4>2. CASE p = k
        BY <1>12, <2>1, <4>1, <4>2 DEF Stored
      <4>3. CASE p \in 1 .. k - 1
        <5>1. k # 1
          BY <1>9, <4>3
        <5> QED
          BY <1>12, <3>2, <4>1, <4>3, <5>1 DEF Stored
      <4> QED
        BY <2>2, <4>2, <4>3
    <3>4. \A r \in RowsOf(u, n)' : r.part \in PartsOf(u) /\ r.total = doc[u].parts
      BY <1>9, <1>13, <2>1, <2>3, <3>2
    <3>5. WholeAt(u, n)'
      BY <1>2, <3>3, <3>4 DEF WholeAt, PartsOf, Stored
    <3> QED
      BY <1>5, <3>1, <3>5
  <2> QED
    BY <2>4, <2>5
<1> QED
  BY <1>14, <1>15

LEMMA TotalsAdvances ==
  ASSUME TypeInv, WholeInv, NEW w \in Workers, Totals(w) PROVE Advanced(w)'
<1>1. PICK u, n, k : u = job[w].upload /\ n = job[w].no /\ k = job[w].next
  OBVIOUS
<1>2. StepFrame(w) /\ doc' = doc
  BY StepFrames DEF Step, StepFrame
<1>3. job[w] \in Delivery /\ pc[w] = "totals" /\ u \in Uploads /\ n \in Nat /\ k \in Nat
  BY <1>1, JobType DEF Totals, Busy, TypeInv
<1>4. pc'[w] = "image" /\ job'[w].upload = u /\ job'[w].no = n
  BY <1>1, <1>2 DEF Totals, Go, StepFrame, TypeInv, TypeOK
<1>5. CASE Noted(w)
  <2>1. job'[w].errors = TRUE
    BY <1>3, <1>5 DEF Noted, TypeInv, TypeOK, Delivery
  <2> QED
    BY <1>4, <2>1 DEF Advanced
<1>6. CASE /\ table' = {IF Mine(w, r) THEN [r EXCEPT !.total = job[w].next] ELSE r : r \in table}
           /\ UNCHANGED job
  <2> SUFFICES ASSUME ~job[w].errors PROVE WholeAt(u, n)'
    BY <1>4, <1>6 DEF Advanced, WholeAt, Stored, RowsOf, PartsOf
  <2>1. Counted(u, n) /\ k = doc[u].parts
    BY <1>1, <1>3 DEF WholeInv, Advanced
  <2>2. ASSUME NEW r \in RowsOf(u, n)
        PROVE  /\ [r EXCEPT !.total = k] \in RowsOf(u, n)'
               /\ [r EXCEPT !.total = k] = WithTotal(Row(u, n, r.part), k)
    <3>1. r \in TableRows /\ Mine(w, r) /\ r \in table
      BY <1>1 DEF TypeInv, TypeOK, TableRows, RowsOf, Mine
    <3>2. [r EXCEPT !.total = k] \in table'
      BY <1>1, <1>6, <3>1
    <3>3. [r EXCEPT !.total = k].upload = u /\ [r EXCEPT !.total = k].delivery = n
      BY <1>1, <3>1 DEF TableRows, Mine
    <3>4. [r EXCEPT !.total = k] = WithTotal(Row(u, n, r.part), k)
      BY <1>1, <3>1 DEF TableRows, Mine, WithTotal, Row
    <3> QED
      BY <3>2, <3>3, <3>4 DEF RowsOf
  <2>3. ASSUME NEW s \in RowsOf(u, n)' PROVE s.part \in PartsOf(u) /\ s.total = doc[u].parts
    <3>1. PICK r \in table : s = IF Mine(w, r) THEN [r EXCEPT !.total = k] ELSE r
      BY <1>1, <1>6 DEF RowsOf
    <3>2. s.upload = u /\ s.delivery = n /\ r \in TableRows
      BY <3>1 DEF RowsOf, TypeInv, TypeOK, TableRows
    <3>3. Mine(w, r)
      BY <1>1, <3>1, <3>2 DEF Mine
    <3>4. r \in RowsOf(u, n) /\ s.part = r.part /\ s.total = k
      BY <1>1, <3>1, <3>2, <3>3 DEF RowsOf, Mine, TableRows
    <3> QED
      BY <2>1, <3>4 DEF Counted
  <2>4. ASSUME NEW p \in PartsOf(u) PROVE Stored(u, n, p, doc[u].parts)'
    <3>1. Row(u, n, p) \in refused \/ \E r \in RowsOf(u, n) : r.part = p
      BY <2>1 DEF Counted
    <3>2. refused' = refused
      BY DEF Totals, history
    <3> QED
      BY <1>2, <2>1, <2>2, <3>1, <3>2 DEF Stored
  <2> QED
    BY <1>2, <2>3, <2>4 DEF WholeAt, PartsOf
<1> QED
  BY <1>5, <1>6 DEF Totals

LEMMA ParseAdvances ==
  ASSUME TypeInv, FailInv, WholeInv, NEW w \in Workers, Parse(w) PROVE Advanced(w)'
<1>1. PICK u, n : u = job[w].upload /\ n = job[w].no
  OBVIOUS
<1>2. StepFrame(w) /\ doc' = doc
  BY StepFrames DEF Step, StepFrame
<1>3. job[w] \in Delivery /\ pc[w] = "parse" /\ u \in Uploads /\ job[w].next = 1
  BY <1>1, JobType DEF Parse, Busy, TypeInv, WholeInv, Advanced
<1>4. pc'[w] \in {"part", "complete", "fail"}
  BY DEF Parse, Go, TypeInv, TypeOK
<1>5. UNCHANGED <<table, refused>> /\ RowsOf(u, n) = {}
  BY <1>1, <1>3 DEF Parse, history, FailInv, Blank
<1>6. CASE Go(w, "part") /\ UNCHANGED job
  <2>1. Begun(u, n, 1)'
    BY <1>2, <1>3, <1>5, DocTypes DEF Begun, RowsOf, PartsOf
  <2> QED
    BY <1>1, <1>3, <1>6, <2>1 DEF Advanced, Go, TypeInv, TypeOK
<1>7. CASE Go(w, "fail") /\ UNCHANGED job
  BY <1>7 DEF Advanced, Go, TypeInv, TypeOK
<1>8. CASE Noted(w) \/ job' = [job EXCEPT ![w].errors = TRUE, ![w].next = Whole]
  <2>1. job'[w].errors = TRUE
    BY <1>3, <1>8 DEF Noted, TypeInv, TypeOK, Delivery
  <2> QED
    BY <1>4, <2>1 DEF Advanced
<1> QED
  BY <1>6, <1>7, <1>8 DEF Parse

LEMMA OwnAdvances ==
  ASSUME TypeInv, FailInv, WholeInv, NEW w \in Workers, Step(w) PROVE Advanced(w)'
<1>1. PICK u, n : u = job[w].upload /\ n = job[w].no
  OBVIOUS
<1>2. StepFrame(w) /\ doc' = doc
  BY StepFrames DEF StepFrame
<1>3. job[w] \in Delivery
  BY <1>2, JobType DEF StepFrame, TypeInv
<1>4. CASE Start(w) \/ Download(w)
  <2>1. pc[w] \in {"start", "download"} /\ job' = job
    BY <1>4 DEF Start, Download
  <2>2. pc'[w] \in {"download", "parse", "fail", "ack"}
    BY <1>4 DEF Start, Download, Go, TypeInv, TypeOK
  <2> QED
    BY <2>1, <2>2 DEF WholeInv, Advanced
<1>5. CASE Complete(w) \/ Fail(w) \/ Ack(w)
  <2>1. pc'[w] \in {"fail", "ack", "idle"}
    BY <1>5 DEF Complete, Fail, Ack, Go, TypeInv, TypeOK
  <2> QED
    BY <2>1 DEF Advanced
<1>6. CASE Tear(w)
  <2>1. CASE Go(w, "fail") /\ UNCHANGED job
    BY <2>1 DEF Advanced, Go, TypeInv, TypeOK
  <2>2. CASE job' = [job EXCEPT ![w].errors = TRUE, ![w].next = Whole] /\ UNCHANGED pc
    <3>1. job'[w].errors = TRUE /\ pc'[w] = "part"
      BY <1>3, <1>6, <2>2 DEF Tear, TypeInv, TypeOK, Delivery
    <3> QED
      BY <3>1 DEF Advanced
  <2> QED
    BY <1>6, <2>1, <2>2 DEF Tear
<1>7. CASE Images(w)
  <2>1. pc[w] = "image" /\ pc'[w] = "complete" /\ UNCHANGED <<table, refused>>
    BY <1>7 DEF Images, Go, TypeInv, TypeOK, history
  <2>2. CASE UNCHANGED job
    <3>1. ~job[w].errors => WholeAt(u, n)'
      <4>1. RowsOf(u, n)' = RowsOf(u, n)
        BY <2>1 DEF RowsOf
      <4> QED
        BY <1>1, <1>2, <2>1, <4>1, Monotone DEF WholeInv, Advanced, StepFrame
    <3> QED
      BY <1>1, <2>1, <2>2, <3>1 DEF Advanced, WholeAt, Stored, RowsOf, PartsOf
  <2>3. CASE Noted(w)
    <3>1. job'[w].errors = TRUE
      BY <1>3, <2>3 DEF Noted, TypeInv, TypeOK, Delivery
    <3> QED
      BY <2>1, <3>1 DEF Advanced
  <2> QED
    BY <1>7, <2>2, <2>3 DEF Images
<1> QED
  BY <1>4, <1>5, <1>6, <1>7, ParseAdvances, PartAdvances, TotalsAdvances DEF Step

LEMMA SealKey ==
  ASSUME TypeInv, NumberInv, WholeInv, NEW w \in Workers, Step(w), NEW u \in Uploads
  PROVE  Sealed(u)'
<1>1. PICK n : n = key'[u].by
  OBVIOUS
<1>2. StepFrame(w) /\ doc' = doc /\ refused \subseteq refused'
  BY StepFrames DEF StepFrame
<1>3. SUFFICES ASSUME key'[u].status = "COMPLETED", ~key'[u].errors
      PROVE  /\ WholeAt(u, n)'
             /\ \A x \in Workers : job'[x].upload = u /\ job'[x].no = n =>
                  pc'[x] \in {"idle", "fail", "ack"}
  BY <1>1 DEF Sealed, WholeAt, Stored, RowsOf, PartsOf
<1>4. CASE key'[u] = key[u]
  <2>1. /\ WholeAt(u, n)
        /\ \A x \in Workers : job[x].upload = u /\ job[x].no = n => pc[x] \in {"idle", "fail", "ack"}
    BY <1>1, <1>3, <1>4 DEF WholeInv, Sealed
  <2>2. CASE job[w].upload = u /\ job[w].no = n
    <3>1. pc[w] \in {"fail", "ack"}
      BY <1>2, <2>1, <2>2 DEF StepFrame, Busy
    <3>2. Fail(w) \/ Ack(w)
      BY <3>1 DEF Step, Start, Download, Parse, Part, Tear, Totals, Images, Complete
    <3>3. pc'[w] \in {"idle", "ack"} /\ table' = table
      BY <3>2 DEF Fail, Ack, Go, TypeInv, TypeOK, history
    <3>4. RowsOf(u, n)' = RowsOf(u, n)
      BY <3>3 DEF RowsOf
    <3>5. WholeAt(u, n)'
      BY <1>2, <2>1, <3>4, Monotone
    <3> QED
      BY <1>2, <2>1, <3>3, <3>5 DEF StepFrame
  <2>3. CASE job[w].upload # u \/ job[w].no # n
    <3>1. RowsOf(u, n)' = RowsOf(u, n)
      BY <1>2, <2>3, RowsStay
    <3>2. WholeAt(u, n)'
      BY <1>2, <2>1, <3>1, Monotone
    <3>3. job'[w].upload = u /\ job'[w].no = n => pc'[w] = "idle"
      BY <1>2, <2>3 DEF StepFrame
    <3> QED
      BY <1>2, <2>1, <3>2, <3>3 DEF StepFrame
  <2> QED
    BY <2>2, <2>3
<1>5. CASE key'[u] # key[u]
  <2>1. u = job[w].upload /\ n = job[w].no /\ Complete(w) /\ ~job[w].errors
    BY <1>1, <1>3, <1>5, Verdicts
  <2>2. pc[w] = "complete" /\ pc'[w] \in {"ack", "fail"} /\ UNCHANGED table
    BY <2>1 DEF Complete, Go, TypeInv, TypeOK, history
  <2>3. WholeAt(u, n)
    BY <2>1, <2>2 DEF WholeInv, Advanced
  <2>4. RowsOf(u, n)' = RowsOf(u, n)
    BY <2>2 DEF RowsOf
  <2>5. WholeAt(u, n)'
    BY <1>2, <2>3, <2>4, Monotone
  <2>6. \A x \in Workers : x # w /\ Busy(x) => job[x].upload # u \/ job[x].no # n
    BY <1>2, <2>1, Apart DEF StepFrame
  <2>7. \A x \in Workers : job'[x].upload = u /\ job'[x].no = n =>
          pc'[x] \in {"idle", "fail", "ack"}
    BY <1>2, <2>2, <2>6 DEF StepFrame, Busy
  <2> QED
    BY <2>5, <2>7
<1> QED
  BY <1>4, <1>5

\* A worker that stays where it is is as far as it was, while the tables stay as they are.
LEMMA AdvancedFrame ==
  ASSUME WholeInv, UNCHANGED <<doc, table, refused>>,
         NEW x \in Workers, pc'[x] = pc[x], job'[x] = job[x]
  PROVE  Advanced(x)'
<1>1. PICK u, n, k : u = job[x].upload /\ n = job[x].no /\ k = job[x].next
  OBVIOUS
<1>2. /\ pc[x] \in {"start", "download", "parse"} => k = 1
      /\ ~job[x].errors =>
           /\ pc[x] = "part" => Begun(u, n, k)
           /\ pc[x] = "totals" => Counted(u, n) /\ k = doc[u].parts
           /\ pc[x] \in {"image", "complete"} => WholeAt(u, n)
  BY <1>1 DEF WholeInv, Advanced
<1>3. RowsOf(u, n)' = RowsOf(u, n)
  BY DEF RowsOf
<1>4. /\ Begun(u, n, k) => Begun(u, n, k)'
      /\ Counted(u, n) => Counted(u, n)'
      /\ WholeAt(u, n) => WholeAt(u, n)'
  BY <1>3, Monotone
<1>5. doc' = doc /\ u = job'[x].upload /\ n = job'[x].no /\ k = job'[x].next
  BY <1>1
<1> QED
  BY <1>1, <1>2, <1>4, <1>5 DEF Advanced

\* A step that is none of a worker leaves rows and verdicts alone.
LEMMA WholeFrame ==
  ASSUME WholeInv, UNCHANGED <<doc, table, refused>>,
         \A x \in Workers : pc'[x] = "idle" \/ (pc'[x] = pc[x] /\ job'[x] = job[x]),
         \A u \in Uploads : key'[u] = key[u] \/ key'[u].status # "COMPLETED"
  PROVE  WholeInv'
<1>1. ASSUME NEW x \in Workers PROVE Advanced(x)'
  <2>1. CASE pc'[x] = "idle"
    BY <2>1 DEF Advanced
  <2>2. CASE pc'[x] = pc[x] /\ job'[x] = job[x]
    BY <2>2, AdvancedFrame
  <2> QED
    BY <2>1, <2>2
<1>2. ASSUME NEW u \in Uploads PROVE Sealed(u)'
  <2>1. CASE key'[u].status # "COMPLETED"
    BY <2>1 DEF Sealed
  <2>2. CASE key'[u] = key[u]
    BY <2>2 DEF WholeInv, Sealed, WholeAt, Stored, RowsOf, PartsOf
  <2> QED
    BY <2>1, <2>2
<1> QED
  BY <1>1, <1>2 DEF WholeInv

LEMMA WholeStep == ASSUME TypeInv, NumberInv, FailInv, WholeInv, [Next]_vars PROVE WholeInv'
<1>1. ASSUME NEW w \in Workers, Step(w) PROVE WholeInv'
  <2>1. StepFrame(w) /\ doc' = doc /\ refused \subseteq refused'
    BY <1>1, StepFrames DEF StepFrame
  <2>2. ASSUME NEW x \in Workers, x # w, Busy(x) PROVE Advanced(x)'
    <3>1. PICK u, n, k : u = job[x].upload /\ n = job[x].no /\ k = job[x].next
      OBVIOUS
    <3>2. u # job[w].upload \/ n # job[w].no
      BY <2>1, <2>2, <3>1, Apart DEF StepFrame
    <3>3. RowsOf(u, n)' = RowsOf(u, n)
      BY <2>1, <3>2, RowsStay
    <3>4. /\ Begun(u, n, k) => Begun(u, n, k)'
          /\ Counted(u, n) => Counted(u, n)'
          /\ WholeAt(u, n) => WholeAt(u, n)'
      BY <2>1, <3>3, Monotone
    <3>5. job'[x] = job[x] /\ pc'[x] = pc[x]
      BY <2>1, <2>2 DEF StepFrame
    <3>6. doc'[u].parts = doc[u].parts
      BY <2>1
    <3>7. Advanced(x)
      BY DEF WholeInv
    <3> QED
      BY <3>1, <3>4, <3>5, <3>6, <3>7
      DEF Advanced, Begun, Counted, WholeAt, Stored, RowsOf, First, PartsOf
  <2>3. ASSUME NEW x \in Workers, x # w, ~Busy(x) PROVE Advanced(x)'
    BY <2>1, <2>3 DEF StepFrame, Busy, Advanced
  <2> QED
    BY <1>1, <2>2, <2>3, OwnAdvances, SealKey DEF WholeInv
<1>2. ASSUME NEW w \in Workers, Redeliver(w) \/ Crash(w) PROVE WholeInv'
  <2>1. UNCHANGED <<doc, table, refused, key>>
    BY <1>2 DEF Redeliver, Crash, history
  <2>2. \A x \in Workers : pc'[x] = "idle" \/ (pc'[x] = pc[x] /\ job'[x] = job[x])
    BY <1>2 DEF Redeliver, Crash, Go, TypeInv, TypeOK
  <2> QED
    BY <2>1, <2>2, WholeFrame
<1>3. ASSUME NEW w \in Workers, NEW u \in Uploads, Receive(w, u) PROVE WholeInv'
  <2>1. UNCHANGED <<doc, table, refused, key>>
    BY <1>3 DEF Receive
  <2>2. pc'[w] = "start" /\ job'[w].upload = u /\ job'[w].no = begun[u] + 1 /\ job'[w].next = 1
    <3>1. job'[w] = [upload |-> u, no |-> begun[u] + 1, next |-> 1, errors |-> FALSE]
          /\ pc'[w] = "start"
      BY <1>3, ReceiveType
    <3> QED
      BY <3>1
  <2>3. \A x \in Workers : x # w => pc'[x] = pc[x] /\ job'[x] = job[x]
    BY <1>3 DEF Receive, Go, TypeInv, TypeOK
  <2>4. key[u].by # begun[u] + 1
    BY DEF TypeInv, TypeOK, NumberInv
  <2>5. Advanced(w)'
    BY <2>2 DEF Advanced
  <2>6. \A x \in Workers : x # w => Advanced(x)'
    BY <2>1, <2>3, AdvancedFrame
  <2>7. \A v \in Uploads : Sealed(v)'
    BY <2>1, <2>2, <2>3, <2>4 DEF WholeInv, Sealed, WholeAt, Stored, RowsOf, PartsOf
  <2> QED
    BY <2>5, <2>6, <2>7 DEF WholeInv
<1>4. ASSUME NEW u \in Uploads, Submit(u) \/ Queued(u) \/ Expire(u) PROVE WholeInv'
  <2>1. UNCHANGED <<doc, table, refused, pc, job>>
    BY <1>4 DEF Submit, Queued, Expire, work, history
  <2>2. \A v \in Uploads : key'[v] = key[v] \/ key'[v].status # "COMPLETED"
    BY <1>4 DEF Submit, Queued, Expire, Written, WriteRaises, NoKey, TypeInv, TypeOK
  <2> QED
    BY <2>1, <2>2, WholeFrame
<1>5. ASSUME UNCHANGED vars PROVE WholeInv'
  BY <1>5, WholeFrame DEF vars, work, history
<1> QED
  BY <1>1, <1>2, <1>3, <1>4, <1>5 DEF Next

\* What is called COMPLETED without an error has each of its parts in BigQuery once,
\* except for the rows BigQuery refused with row errors that nobody reads.
THEOREM CompletedIsAlwaysWhole == Spec => []CompletedIsWhole
<1>1. Init => FailInv /\ WholeInv
  BY DEF Init, FailInv, Blank, Failing, Failed, WholeInv, Advanced, Sealed, NoKey, NoJob
<1>2. WholeInv => CompletedIsWhole
  BY DEF WholeInv, Sealed, WholeAt, Stored, CompletedIsWhole
<1> QED
  BY <1>1, <1>2, FailStep, WholeStep, Typed, Numbered, PTL DEF Spec
=============================================================================
