------------------------------ MODULE JobStream ------------------------------
(***************************************************************************)
(* How the statuses of one job reach its subscribers.                      *)
(*                                                                         *)
(* subscribeToJobStatus reads RedisClient.subscribe, which puts an         *)
(* asyncio.Queue between Redis and the client: a forwarder task subscribes *)
(* to the Redis channel and moves what it hears to the queue, the stream   *)
(* yields from it.  The queue is found by channel in the process-wide      *)
(* _local_bus: streams of one job in one API process take from the same    *)
(* queue, and each of their forwarders puts a copy of every message in it. *)
(*                                                                         *)
(* A message is the number of its publication.  One action is what runs    *)
(* between two awaits of the event loop.                                   *)
(***************************************************************************)
EXTENDS Naturals, Sequences, FiniteSets

CONSTANTS
  Streams,       \* the subscriptions that clients may open
  Statuses,      \* the statuses that are published
  Servers,       \* the API processes
  ServerOf,      \* the process a subscription lands on
  MaxPublished,  \* at most this many messages are published
  MaxFaults,     \* at most this many forwarders break
  MaxPurges,     \* the local bus is purged at most this often
  None           \* no queue

Terminal == {"COMPLETED", "FAILED", "CANCELLED"}

ASSUME StreamConstantsOK ==
  /\ IsFiniteSet(Streams)
  /\ Statuses \subseteq {"RUNNING"} \cup Terminal
  /\ ServerOf \in [Streams -> Servers]
  /\ MaxPublished \in Nat /\ MaxFaults \in Nat /\ MaxPurges \in Nat
  /\ None \notin Streams

Messages == 1..MaxPublished

VARIABLES
  published,  \* the statuses published so far
  bus,        \* _local_bus of each process: the channel's queue, named by the
              \* stream that made it
  queueOf,    \* the queue a stream takes from
  items,      \* what each queue holds
  client,     \* the subscription: "none", "open", "over", "closed"
  forwarder,  \* its task: "none", "starting", "listening", "broken", "cancelled"
  inbox,      \* what Redis has sent to the forwarder's connection
  got,        \* what the client has received
  heard,      \* history: how much was published when Redis subscribed it;
              \* MaxPublished as long as it did not
  faults, purges

vars == <<published, bus, queueOf, items, client, forwarder, inbox, got,
          heard, faults, purges>>

TypeOK ==
  /\ published \in Seq(Statuses) /\ Len(published) <= MaxPublished
  /\ bus \in [Servers -> Streams \cup {None}]
  /\ queueOf \in [Streams -> Streams \cup {None}]
  /\ items \in [Streams -> Seq(Messages)]
  /\ client \in [Streams -> {"none", "open", "over", "closed"}]
  /\ forwarder \in [Streams -> {"none", "starting", "listening", "broken", "cancelled"}]
  /\ inbox \in [Streams -> Seq(Messages)]
  /\ got \in [Streams -> Seq(Messages)]
  /\ heard \in [Streams -> 0..MaxPublished]
  /\ faults \in 0..MaxFaults
  /\ purges \in 0..MaxPurges

Init ==
  /\ published = <<>>
  /\ bus = [p \in Servers |-> None]
  /\ queueOf = [s \in Streams |-> None]
  /\ items = [s \in Streams |-> <<>>]
  /\ client = [s \in Streams |-> "none"]
  /\ forwarder = [s \in Streams |-> "none"]
  /\ inbox = [s \in Streams |-> <<>>]
  /\ got = [s \in Streams |-> <<>>]
  /\ heard = [s \in Streams |-> MaxPublished]
  /\ faults = 0
  /\ purges = 0

IsTerminal(n) == published[n] \in Terminal

-----------------------------------------------------------------------------
\* Mutant: what is sent is the message before.
Publish_OffByOne(status) ==
  /\ Len(published) < MaxPublished
  /\ published' = Append(published, status)
  /\ inbox' = [s \in Streams |-> IF forwarder[s] = "listening"
                                   THEN Append(inbox[s], Len(published))
                                   ELSE inbox[s]]
  /\ UNCHANGED <<bus, queueOf, items, client, forwarder, got, heard, faults, purges>>

\* RedisClient.publish: Redis hands the message to the connections subscribed
\* right now.  Nothing is put in the local queue.
Publish(status) ==
  /\ Len(published) < MaxPublished
  /\ published' = Append(published, status)
  /\ inbox' = [s \in Streams |-> IF forwarder[s] = "listening"
                                   THEN Append(inbox[s], Len(published) + 1)
                                   ELSE inbox[s]]
  /\ UNCHANGED <<bus, queueOf, items, client, forwarder, got, heard, faults, purges>>

\* The first half of subscribe: find or make the channel's queue and start the
\* forwarder.  The job's status is not looked at.
Open(s) ==
  /\ client[s] = "none"
  /\ LET found == bus[ServerOf[s]]
         queue == IF found = None THEN s ELSE found
     IN  /\ bus' = [bus EXCEPT ![ServerOf[s]] = queue]
         /\ queueOf' = [queueOf EXCEPT ![s] = queue]
  /\ client' = [client EXCEPT ![s] = "open"]
  /\ forwarder' = [forwarder EXCEPT ![s] = "starting"]
  /\ UNCHANGED <<published, items, inbox, got, heard, faults, purges>>

\* The forwarder's SUBSCRIBE reaches Redis.
Listen(s) ==
  /\ forwarder[s] = "starting"
  /\ forwarder' = [forwarder EXCEPT ![s] = "listening"]
  /\ heard' = [heard EXCEPT ![s] = Len(published)]
  /\ UNCHANGED <<published, bus, queueOf, items, client, inbox, got, faults, purges>>

\* Mutant: the forwarder puts what it heard at the head of the queue.
Forward_AtHead(s) ==
  /\ forwarder[s] = "listening"
  /\ inbox[s] # <<>>
  /\ inbox' = [inbox EXCEPT ![s] = Tail(@)]
  /\ items' = [items EXCEPT ![queueOf[s]] = <<Head(inbox[s])>> \o @]
  /\ UNCHANGED <<published, bus, queueOf, client, forwarder, got, heard, faults, purges>>

\* Mutant: a message is put and not taken off the connection.
Forward_Twice(s) ==
  /\ forwarder[s] = "listening"
  /\ inbox[s] # <<>>
  /\ Len(items[queueOf[s]]) < 2 * MaxPublished
  /\ items' = [items EXCEPT ![queueOf[s]] = Append(@, Head(inbox[s]))]
  /\ UNCHANGED <<published, bus, queueOf, client, forwarder, inbox, got, heard, faults, purges>>

\* get_message, then put.
Forward(s) ==
  /\ forwarder[s] = "listening"
  /\ inbox[s] # <<>>
  /\ inbox' = [inbox EXCEPT ![s] = Tail(@)]
  /\ items' = [items EXCEPT ![queueOf[s]] = Append(@, Head(inbox[s]))]
  /\ UNCHANGED <<published, bus, queueOf, client, forwarder, got, heard, faults, purges>>

\* An error of Redis ends the forwarder; the stream is not told.
Break(s) ==
  /\ forwarder[s] \in {"starting", "listening"}
  /\ faults < MaxFaults
  /\ faults' = faults + 1
  /\ forwarder' = [forwarder EXCEPT ![s] = "broken"]
  /\ inbox' = [inbox EXCEPT ![s] = <<>>]
  /\ UNCHANGED <<published, bus, queueOf, items, client, got, heard, purges>>

\* Mutant: the loop goes on after a terminal status.
Yield_NeverEnds(s) ==
  /\ client[s] = "open"
  /\ items[queueOf[s]] # <<>>
  /\ items' = [items EXCEPT ![queueOf[s]] = Tail(@)]
  /\ got' = [got EXCEPT ![s] = Append(@, Head(items[queueOf[s]]))]
  /\ UNCHANGED <<published, bus, queueOf, client, forwarder, inbox, heard, faults, purges>>

\* The stream yields the head of the queue to its client; a terminal status is
\* the last one it yields.
Yield(s) ==
  /\ client[s] = "open"
  /\ items[queueOf[s]] # <<>>
  /\ LET n == Head(items[queueOf[s]]) IN
       /\ got' = [got EXCEPT ![s] = Append(@, n)]
       /\ client' = [client EXCEPT ![s] = IF IsTerminal(n) THEN "over" ELSE @]
  /\ items' = [items EXCEPT ![queueOf[s]] = Tail(@)]
  /\ UNCHANGED <<published, bus, queueOf, forwarder, inbox, heard, faults, purges>>

\* The client goes away.
Disconnect(s) ==
  /\ client[s] = "open"
  /\ client' = [client EXCEPT ![s] = "over"]
  /\ UNCHANGED <<published, bus, queueOf, items, forwarder, inbox, got, heard, faults, purges>>

\* The generator is closed, by the event loop and after the stream is over: its
\* finally block cancels the forwarder.  The queue stays in the bus.
Close(s) ==
  /\ client[s] = "over"
  /\ client' = [client EXCEPT ![s] = "closed"]
  /\ forwarder' = [forwarder EXCEPT ![s] = IF @ = "broken" THEN @ ELSE "cancelled"]
  /\ inbox' = [inbox EXCEPT ![s] = <<>>]
  /\ UNCHANGED <<published, bus, queueOf, items, got, heard, faults, purges>>

\* purge_local_bus: later streams get a queue of their own, open ones keep theirs.
Purge(p) ==
  /\ bus[p] # None
  /\ purges < MaxPurges
  /\ purges' = purges + 1
  /\ bus' = [bus EXCEPT ![p] = None]
  /\ UNCHANGED <<published, queueOf, items, client, forwarder, inbox, got, heard, faults>>

Next ==
  \/ \E status \in Statuses : Publish(status)
  \/ \E s \in Streams :
       \/ Open(s) \/ Listen(s) \/ Forward(s) \/ Break(s)
       \/ Yield(s) \/ Disconnect(s) \/ Close(s)
  \/ \E p \in Servers : Purge(p)

Spec == Init /\ [][Next]_vars

\* The event loop runs every task that is ready.
Fairness ==
  \A s \in Streams :
    /\ WF_vars(Listen(s)) /\ WF_vars(Forward(s))
    /\ WF_vars(Yield(s)) /\ WF_vars(Close(s))

FairSpec == Spec /\ Fairness

-----------------------------------------------------------------------------
(* Properties. *)

\* No other stream ever took from, or put into, the queue of s.
Alone(s) == \A u \in Streams \ {s} : queueOf[u] = None \/ queueOf[u] # queueOf[s]

Consecutive(seq) == \A i \in 1..Len(seq) - 1 : seq[i + 1] = seq[i] + 1

\* A stream that has its queue to itself loses, repeats and reorders nothing:
\* what its client received is the run of publications that follows the moment
\* Redis subscribed it, and what is under way continues that run.
FaithfulAlone ==
  \A s \in Streams :
    Alone(s) /\ queueOf[s] = s =>
      LET all == got[s] \o items[s] \o inbox[s]
      IN  Consecutive(all) /\ (all # <<>> => all[1] = heard[s] + 1)

\* Where a sequence holds message n, and what clients of queue q received of it.
Copies(seq, n) == {i \in 1..Len(seq) : seq[i] = n}
Received(q, n) ==
  UNION {{s} \X Copies(got[s], n) : s \in {s \in Streams : queueOf[s] = q}}

\* Whatever is shared, a queue never holds more copies of a message than streams
\* that had subscribed when it was published, less those their clients received.
CopiesAreAccounted ==
  \A q \in Streams : \A n \in 1..Len(published) :
    Cardinality(Copies(items[q], n)) + Cardinality(Received(q, n))
      <= Cardinality({s \in Streams : queueOf[s] = q /\ heard[s] < n})

\* A stream that is alone ends once a terminal status is published while it
\* listens, unless its forwarder breaks or another stream joins its queue.
EndsWithTheJob ==
  \A s \in Streams :
    (Alone(s) /\ client[s] = "open" /\ forwarder[s] = "listening"
       /\ \E i \in 1..Len(inbox[s]) : IsTerminal(inbox[s][i]))
      ~> (client[s] # "open" \/ forwarder[s] = "broken" \/ ~Alone(s))
=============================================================================
