------------------------------- MODULE Ingest -------------------------------
(***************************************************************************)
(* Background ingestion into the knowledge base.  The API stores the bytes,*)
(* sends core.admin_ingest_gcs_uri and only then writes QUEUED under the   *)
(* key its status endpoint reads; the worker writes RUNNING, parses, puts  *)
(* one row per part of the document into BigQuery and writes its verdict   *)
(* under the same key.                                                     *)
(*                                                                         *)
(* A delivery is one execution of the task.  It makes every doc_id anew, so*)
(* a row is named by its delivery.  An error while a part is embedded,     *)
(* uploaded or inserted is noted in errors and the delivery goes on; an    *)
(* exception from the stream over a PDF, also from its middle, is caught as*)
(* a parse error and the file is ingested once more as one whole part.     *)
(***************************************************************************)
EXTENDS Naturals, FiniteSets

CONSTANTS
  Uploads,   \* requests to ingest
  Workers,   \* threads of the worker-artifacts pool
  MaxParts,  \* the most parts a document is split into
  MaxFaults  \* bound: how many faults happen in all

Faults == {"crash", "redeliver", "redis", "expire"}

ASSUME IngestConstantsOK ==
  /\ MaxParts \in Nat \ {0}
  /\ MaxFaults \in Nat

Parts == 1 .. MaxParts
Whole == MaxParts + 1     \* the one part of a file ingested as a fallback

VARIABLES
  doc,       \* what each upload holds: its format and the parts it splits into
  api,       \* the request of each upload
  queue,     \* messages waiting for a worker
  key,       \* the status under admin_ingest:<id>, with the delivery that wrote it
  pc,        \* what each worker does next
  job,       \* the delivery each worker executes
  unacked,   \* the workers whose message the broker still holds
  used,      \* history: how often each fault has happened
  table,     \* rows of multimodal_docs
  begun,     \* history: deliveries of each upload
  over,      \* history: uploads of which some delivery ran to its end
  refused,   \* history: rows BigQuery refused with row errors nobody reads
  tornOff    \* history: deliveries whose PDF stream broke

work == <<pc, job, unacked>>
history == <<begun, over, refused, tornOff>>
vars == <<doc, api, queue, key, work, used, table, history>>

Row(u, n, p) == [upload |-> u, delivery |-> n, part |-> p]

\* errors: whether anything was noted; next: the part to make.
Delivery == [upload : Uploads, no : Nat, next : Nat, errors : BOOLEAN]
NoJob == [upload |-> "none", no |-> 0, next |-> 0, errors |-> FALSE]

Statuses == {"none", "QUEUED", "RUNNING", "COMPLETED", "FAILED"}
NoKey == [status |-> "none", by |-> 0, errors |-> FALSE]
Stages == {"idle", "start", "download", "parse", "part", "totals", "image",
           "complete", "fail", "ack"}

TypeOK ==
  /\ doc \in [Uploads -> [pdf : BOOLEAN, parts : Parts]]
  /\ api \in [Uploads -> {"idle", "sent", "answered", "refused"}]
  /\ queue \in [Uploads -> Nat]
  /\ key \in [Uploads -> [status : Statuses, by : Nat, errors : BOOLEAN]]
  /\ pc \in [Workers -> Stages]
  /\ job \in [Workers -> Delivery \cup {NoJob}]
  /\ \A w \in Workers : pc[w] # "idle" => job[w] \in Delivery
  /\ unacked \subseteq Workers
  /\ used \in [Faults -> Nat]
  /\ table \subseteq [upload : Uploads, delivery : Nat, part : Nat, total : Nat]
  /\ begun \in [Uploads -> Nat]
  /\ over \subseteq Uploads
  /\ refused \subseteq [upload : Uploads, delivery : Nat, part : Nat]
  /\ tornOff \subseteq [upload : Uploads, delivery : Nat]

Init ==
  /\ doc \in [Uploads -> [pdf : BOOLEAN, parts : Parts]]
  /\ api = [u \in Uploads |-> "idle"]
  /\ queue = [u \in Uploads |-> 0]
  /\ key = [u \in Uploads |-> NoKey]
  /\ pc = [w \in Workers |-> "idle"]
  /\ job = [w \in Workers |-> NoJob]
  /\ unacked = {}
  /\ used = [f \in Faults |-> 0]
  /\ table = {}
  /\ begun = [u \in Uploads |-> 0]
  /\ over = {} /\ refused = {} /\ tornOff = {}

Happens(f) ==
  /\ used["crash"] + used["redeliver"] + used["redis"] + used["expire"] < MaxFaults
  /\ used' = [used EXCEPT ![f] = @ + 1]

-----------------------------------------------------------------------------
\* The status key.

\* A write to Redis: it is done, or it raises, and then it may be done all the same.
Written(u, s, n, e) == key' = [key EXCEPT ![u] = [status |-> s, by |-> n, errors |-> e]]
WriteRaises(u, s, n, e) ==
  Happens("redis") /\ (UNCHANGED key \/ Written(u, s, n, e))

\* The key's hour is over: the endpoint answers PENDING.
Expire(u) ==
  /\ key[u].status # "none"
  /\ Happens("expire")
  /\ key' = [key EXCEPT ![u] = NoKey]
  /\ UNCHANGED <<doc, api, queue, work, table, history>>

-----------------------------------------------------------------------------
\* The API.

\* The object is stored under its hash and the message sent, or the caller gets a 500.
Submit(u) ==
  /\ api[u] = "idle"
  /\ \/ /\ api' = [api EXCEPT ![u] = "sent"]
        /\ queue' = [queue EXCEPT ![u] = @ + 1]
     \/ api' = [api EXCEPT ![u] = "refused"] /\ UNCHANGED queue
  /\ UNCHANGED <<doc, key, work, used, table, history>>

\* QUEUED is written when the worker may long be done; an error is passed over.
Queued(u) ==
  /\ api[u] = "sent"
  /\ api' = [api EXCEPT ![u] = "answered"]
  /\ \/ Written(u, "QUEUED", 0, FALSE) /\ UNCHANGED used
     \/ WriteRaises(u, "QUEUED", 0, FALSE)
  /\ UNCHANGED <<doc, queue, work, table, history>>

-----------------------------------------------------------------------------
\* The task.

Go(w, stage) == pc' = [pc EXCEPT ![w] = stage]
Noted(w) == job' = [job EXCEPT ![w].errors = TRUE]

\* What the worker w inserts as part p, and what a row of it looks like.
RowOf(w, p) == Row(job[w].upload, job[w].no, p)
WithTotal(r, t) == [upload |-> r.upload, delivery |-> r.delivery, part |-> r.part, total |-> t]

\* Mutant: the message is acknowledged on receipt.
Receive_Early(w, u) ==
  /\ pc[w] = "idle" /\ queue[u] > 0
  /\ queue' = [queue EXCEPT ![u] = @ - 1]
  /\ begun' = [begun EXCEPT ![u] = @ + 1]
  /\ job' = [job EXCEPT ![w] = [upload |-> u, no |-> begun[u] + 1, next |-> 1, errors |-> FALSE]]
  /\ Go(w, "start")
  /\ UNCHANGED <<doc, api, key, unacked, used, table, over, refused, tornOff>>

Receive(w, u) ==
  /\ pc[w] = "idle" /\ queue[u] > 0
  /\ queue' = [queue EXCEPT ![u] = @ - 1]
  /\ begun' = [begun EXCEPT ![u] = @ + 1]
  /\ job' = [job EXCEPT ![w] = [upload |-> u, no |-> begun[u] + 1, next |-> 1, errors |-> FALSE]]
  /\ unacked' = unacked \cup {w}
  /\ Go(w, "start")
  /\ UNCHANGED <<doc, api, key, used, table, over, refused, tornOff>>

\* RUNNING is written outside the try block: if that raises the task ends there.
Start(w) ==
  /\ pc[w] = "start"
  /\ \/ /\ Written(job[w].upload, "RUNNING", job[w].no, FALSE)
        /\ Go(w, "download") /\ UNCHANGED used
     \/ /\ WriteRaises(job[w].upload, "RUNNING", job[w].no, FALSE)
        /\ Go(w, "ack")
  /\ UNCHANGED <<doc, api, queue, job, unacked, table, history>>

\* Inside it: the stage is written and the object downloaded, or the task fails.
Download(w) ==
  /\ pc[w] = "download"
  /\ \/ /\ Written(job[w].upload, "RUNNING", job[w].no, FALSE)
        /\ \E stage \in {"parse", "fail"} : Go(w, stage)
        /\ UNCHANGED used
     \/ /\ WriteRaises(job[w].upload, "RUNNING", job[w].no, FALSE)
        /\ Go(w, "fail")
  /\ UNCHANGED <<doc, api, queue, job, unacked, table, history>>

\* A report of progress is dropped by the throttle and by any error of Redis.
Progress(w) ==
  \/ UNCHANGED key
  \/ Written(job[w].upload, "RUNNING", job[w].no, FALSE)

-----------------------------------------------------------------------------
\* The document.

PartsOf(u) == 1 .. doc[u].parts

\* The tables are ensured and the parser run: the parts follow, or nothing where
\* a PDF cannot be opened, or the whole file as one part, or the task fails.
Parse(w) ==
  /\ pc[w] = "parse"
  /\ Progress(w)
  /\ \/ Go(w, "part") /\ UNCHANGED job
     \/ /\ doc[job[w].upload].pdf
        /\ Go(w, "complete") /\ Noted(w)
     \/ /\ Go(w, "part")
        /\ job' = [job EXCEPT ![w].errors = TRUE, ![w].next = Whole]
     \/ Go(w, "fail") /\ UNCHANGED job
  /\ UNCHANGED <<doc, api, queue, unacked, used, table, history>>

LastPart(w) == job[w].next \in {doc[job[w].upload].parts, Whole}
Streams(w) == doc[job[w].upload].pdf /\ job[w].next # Whole

\* total_parts of a row: a stream knows it only when it is at its last part.
TotalOf(w) ==
  IF job[w].next = Whole THEN 1
  ELSE IF Streams(w) /\ ~LastPart(w) THEN 0
  ELSE doc[job[w].upload].parts

\* What follows a part: the next one, the UPDATE of total_parts of a stream that
\* made several, the images.
AfterPart(w) ==
  IF ~LastPart(w) THEN "part"
  ELSE IF Streams(w) /\ job[w].next > 1 THEN "totals" ELSE "image"

Inserted(w) == table' = table \cup {WithTotal(RowOf(w, job[w].next), TotalOf(w))}

\* The delivery passes on to what follows, with an error noted or not.
PassOn(w, error) ==
  /\ job' = [job EXCEPT ![w].errors = @ \/ error,
                        ![w].next = IF LastPart(w) THEN @ ELSE @ + 1]
  /\ Go(w, AfterPart(w))
  /\ (Streams(w) /\ Progress(w)) \/ (~Streams(w) /\ UNCHANGED key)
  /\ UNCHANGED <<doc, api, queue, unacked, used, begun, over, tornOff>>

\* Mutant: an exception of the insert is not noted.
Part_Silent(w) ==
  /\ pc[w] = "part"
  /\ Inserted(w) \/ UNCHANGED table
  /\ PassOn(w, FALSE)
  /\ UNCHANGED refused

\* Mutant: an exception of the insert leaves the loop.
Part_Raises(w) ==
  /\ pc[w] = "part"
  /\ \/ Inserted(w) /\ PassOn(w, FALSE)
     \/ Go(w, "fail") /\ UNCHANGED <<doc, api, queue, key, job, unacked, used, table, begun, over, tornOff>>
  /\ UNCHANGED refused

\* One part is embedded and inserted.  An exception is noted, whether or not the
\* row is in; row errors in the answer are not looked at.
Part(w) ==
  /\ pc[w] = "part"
  /\ \/ /\ Inserted(w) /\ UNCHANGED refused
        /\ \E error \in BOOLEAN : PassOn(w, error)
     \/ UNCHANGED <<table, refused>> /\ PassOn(w, TRUE)
     \/ /\ refused' = refused \cup {RowOf(w, job[w].next)}
        /\ UNCHANGED table /\ PassOn(w, FALSE)

\* A page cannot be read: the rows of the parts before it stay, and the file is
\* ingested as one part, if it need not be split without an encoding at hand.
Tear(w) ==
  /\ pc[w] = "part" /\ Streams(w)
  /\ \/ /\ job' = [job EXCEPT ![w].errors = TRUE, ![w].next = Whole]
        /\ UNCHANGED pc
     \/ Go(w, "fail") /\ UNCHANGED job
  /\ tornOff' = tornOff \cup {[upload |-> job[w].upload, delivery |-> job[w].no]}
  /\ UNCHANGED <<doc, api, queue, key, unacked, used, table, begun, over, refused>>

Mine(w, r) == r.upload = job[w].upload /\ r.delivery = job[w].no

\* total_parts is set in every row of the stream, or the error is noted once the
\* retries on the streaming buffer are used up.
Totals(w) ==
  /\ pc[w] = "totals"
  /\ Progress(w)
  /\ \/ /\ table' = {IF Mine(w, r) THEN [r EXCEPT !.total = job[w].next] ELSE r : r \in table}
        /\ UNCHANGED job
     \/ Noted(w) /\ UNCHANGED table
  /\ Go(w, "image")
  /\ UNCHANGED <<doc, api, queue, unacked, used, history>>

\* The images, if there are any, in one batch: what fails, row errors too, is
\* noted.  Their rows are no parts, and left out of the table here.
Images(w) ==
  /\ pc[w] = "image"
  /\ Progress(w)
  /\ UNCHANGED job \/ Noted(w)
  /\ Go(w, "complete")
  /\ UNCHANGED <<doc, api, queue, unacked, used, table, history>>

-----------------------------------------------------------------------------
\* The verdict.

\* COMPLETED, whatever was noted; if the write raises the task has failed.
Complete(w) ==
  /\ pc[w] = "complete"
  /\ \/ /\ Written(job[w].upload, "COMPLETED", job[w].no, job[w].errors)
        /\ Go(w, "ack") /\ UNCHANGED used
     \/ /\ WriteRaises(job[w].upload, "COMPLETED", job[w].no, job[w].errors)
        /\ Go(w, "fail")
  /\ UNCHANGED <<doc, api, queue, job, unacked, table, history>>

Fail(w) ==
  /\ pc[w] = "fail"
  /\ \/ Written(job[w].upload, "FAILED", job[w].no, FALSE) /\ UNCHANGED used
     \/ WriteRaises(job[w].upload, "FAILED", job[w].no, FALSE)
  /\ Go(w, "ack")
  /\ UNCHANGED <<doc, api, queue, job, unacked, table, history>>

\* Mutant: a message is requeued when its task is over.
Ack_Requeues(w) ==
  /\ pc[w] = "ack"
  /\ Go(w, "idle")
  /\ job' = [job EXCEPT ![w] = NoJob]
  /\ unacked' = unacked \ {w}
  /\ over' = over \cup {job[w].upload}
  /\ queue' = [queue EXCEPT ![job[w].upload] = IF begun[job[w].upload] < 3 THEN 1 ELSE 0]
  /\ UNCHANGED <<doc, api, key, used, table, begun, refused, tornOff>>

\* The task is over, by an answer or an exception: its message is acknowledged.
Ack(w) ==
  /\ pc[w] = "ack"
  /\ Go(w, "idle")
  /\ job' = [job EXCEPT ![w] = NoJob]
  /\ unacked' = unacked \ {w}
  /\ over' = over \cup {job[w].upload}
  /\ UNCHANGED <<doc, api, queue, key, used, table, begun, refused, tornOff>>

-----------------------------------------------------------------------------
\* The broker and the processes.

\* The visibility timeout passes while the worker is still busy.
Redeliver(w) ==
  /\ w \in unacked
  /\ Happens("redeliver")
  /\ queue' = [queue EXCEPT ![job[w].upload] = @ + 1]
  /\ unacked' = unacked \ {w}
  /\ UNCHANGED <<doc, api, key, pc, job, table, history>>

\* Mutant: the worker goes on after a restart, without the job it had.
Crash_GoesOn(w) ==
  /\ pc[w] # "idle"
  /\ Happens("crash")
  /\ queue' = IF w \in unacked THEN [queue EXCEPT ![job[w].upload] = @ + 1] ELSE queue
  /\ unacked' = unacked \ {w}
  /\ job' = [job EXCEPT ![w] = NoJob]
  /\ UNCHANGED <<doc, api, key, pc, table, history>>

\* The worker dies: what it had not acknowledged is delivered again.
Crash(w) ==
  /\ pc[w] # "idle"
  /\ Happens("crash")
  /\ queue' = IF w \in unacked THEN [queue EXCEPT ![job[w].upload] = @ + 1] ELSE queue
  /\ unacked' = unacked \ {w}
  /\ Go(w, "idle")
  /\ job' = [job EXCEPT ![w] = NoJob]
  /\ UNCHANGED <<doc, api, key, table, history>>

-----------------------------------------------------------------------------
Step(w) ==
  \/ Start(w) \/ Download(w) \/ Parse(w) \/ Part(w) \/ Tear(w) \/ Totals(w)
  \/ Images(w) \/ Complete(w) \/ Fail(w) \/ Ack(w)

Next ==
  \/ \E u \in Uploads : Submit(u) \/ Queued(u) \/ Expire(u)
  \/ \E w \in Workers : Step(w) \/ Redeliver(w) \/ Crash(w)
                        \/ \E u \in Uploads : Receive(w, u)

\* Workers run and poll their queue; requests are up to their callers.
Fairness ==
  \A w \in Workers : WF_vars(Step(w)) /\ WF_vars(\E u \in Uploads : Receive(w, u))

Spec == Init /\ [][Next]_vars /\ Fairness

-----------------------------------------------------------------------------
(* Properties. *)

RowsOf(u, n) == {r \in table : r.upload = u /\ r.delivery = n}

\* COMPLETED with no error noted means what it says, to what is in BigQuery: each
\* part of the document has one row that knows the number of parts, and there is
\* no other row of that delivery.  Only row errors that BigQuery answered, which
\* _ingest_with_content and _flush_part do not look at, make it untrue.
CompletedIsWhole ==
  \A u \in Uploads :
    (key[u].status = "COMPLETED" /\ ~key[u].errors) =>
      LET n == key[u].by
          rows == RowsOf(u, n) IN
        /\ \A p \in PartsOf(u) :
             \/ WithTotal(Row(u, n, p), doc[u].parts) \in rows
             \/ Row(u, n, p) \in refused
        /\ \A r \in rows : r.part \in PartsOf(u) /\ r.total = doc[u].parts

\* FAILED means that nothing came of the delivery: it leaves rows behind only if
\* a write of a status to Redis failed or the stream over a PDF broke off.
FailedLeavesNothing ==
  \A u \in Uploads :
    (key[u].status = "FAILED" /\ RowsOf(u, key[u].by) # {}) =>
      used["redis"] > 0 \/ [upload |-> u, delivery |-> key[u].by] \in tornOff

\* A document is in the knowledge base more than once only where a crash or the
\* visibility timeout had it delivered again: nothing removes the earlier rows.
CopiesAreCaused ==
  \A u \in Uploads :
    Cardinality({r.delivery : r \in {x \in table : x.upload = u}})
      <= 1 + used["crash"] + used["redeliver"]

\* An accepted upload is executed to an end, whatever crashes happen.
Decided == \A u \in Uploads : api[u] = "sent" ~> u \in over
=============================================================================
