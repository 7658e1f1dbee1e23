--------------------------- MODULE JobStreamProofs ---------------------------
(***************************************************************************)
(* Proofs about JobStream, for any streams, processes, statuses and        *)
(* bounds: types, that a stream with a queue of its own loses, repeats and *)
(* reorders nothing, and how many copies of a message streams that share a *)
(* queue can find in it.                                                   *)
(***************************************************************************)
EXTENDS JobStream, SequenceTheorems, FiniteSetTheorems, TLAPS

\* A stream has a queue and a forwarder from the moment it is opened.
Opened ==
  \A s \in Streams :
    /\ client[s] = "none" <=> queueOf[s] = None
    /\ client[s] = "none" <=> forwarder[s] = "none"

TypeInv == TypeOK /\ Opened

-----------------------------------------------------------------------------
(* Sequences. *)

LEMMA AppendType ==
  ASSUME NEW S, NEW seq \in Seq(S), NEW x \in S
  PROVE  /\ Append(seq, x) \in Seq(S)
         /\ Len(Append(seq, x)) = Len(seq) + 1
         /\ Len(seq) \in Nat
         /\ \A i \in 1..Len(seq) : Append(seq, x)[i] = seq[i]
         /\ Append(seq, x)[Len(seq) + 1] = x
BY AppendProperties, LenProperties

LEMMA HeadTail ==
  ASSUME NEW S, NEW seq \in Seq(S), seq # <<>>
  PROVE  /\ Head(seq) \in S /\ Tail(seq) \in Seq(S)
         /\ Head(seq) = seq[1]
         /\ Len(seq) \in Nat \ {0} /\ Len(Tail(seq)) = Len(seq) - 1
         /\ \A i \in 1..Len(Tail(seq)) : Tail(seq)[i] = seq[i + 1]
BY HeadTailProperties, LenProperties, EmptySeq, ElementOfSeq

\* seq counts on from k: k + 1, k + 2, ...
Run(seq, k) == \A i \in 1..Len(seq) : seq[i] = k + i

LEMMA RunAppend ==
  ASSUME NEW S, NEW seq \in Seq(S), NEW k \in Nat, NEW x \in S,
         Run(seq, k), x = k + Len(seq) + 1
  PROVE  Run(Append(seq, x), k)
<1>1. \A i \in 1..(Len(seq) + 1) : i \in 1..Len(seq) \/ i = Len(seq) + 1
  BY LenProperties
<1>2. k + (Len(seq) + 1) = k + Len(seq) + 1
  BY LenProperties
<1> QED BY <1>1, <1>2, AppendType DEF Run

LEMMA RunTail ==
  ASSUME NEW S, NEW seq \in Seq(S), NEW k \in Nat, Run(seq, k), seq # <<>>
  PROVE  Run(Tail(seq), k + 1) /\ Head(seq) = k + 1
<1>1. \A i \in 1..Len(Tail(seq)) : i + 1 \in 1..Len(seq) /\ k + (i + 1) = (k + 1) + i
  BY HeadTail
<1>2. 1 \in 1..Len(seq)
  BY HeadTail
<1> QED BY <1>1, <1>2, HeadTail DEF Run

LEMMA RunConcat ==
  ASSUME NEW S, NEW a \in Seq(S), NEW b \in Seq(S), NEW k \in Nat,
         Run(a, k), Run(b, k + Len(a))
  PROVE  a \o b \in Seq(S) /\ Len(a \o b) = Len(a) + Len(b) /\ Run(a \o b, k)
<1>1. /\ a \o b \in Seq(S) /\ Len(a \o b) = Len(a) + Len(b)
      /\ Len(a) \in Nat /\ Len(b) \in Nat
      /\ \A i \in 1..(Len(a) + Len(b)) :
           (a \o b)[i] = IF i <= Len(a) THEN a[i] ELSE b[i - Len(a)]
  BY ConcatProperties, LenProperties
<1>2. ASSUME NEW i \in 1..Len(a \o b) PROVE (a \o b)[i] = k + i
  <2>1. CASE i <= Len(a)
    BY <1>1, <2>1 DEF Run
  <2>2. CASE i > Len(a)
    <3>1. i - Len(a) \in 1..Len(b)
      BY <1>1, <2>2
    <3>2. (a \o b)[i] = b[i - Len(a)] /\ b[i - Len(a)] = (k + Len(a)) + (i - Len(a))
      BY <1>1, <2>2, <3>1 DEF Run
    <3> QED BY <1>1, <3>2
  <2> QED BY <1>1, <2>1, <2>2
<1> QED BY <1>1, <1>2 DEF Run

-----------------------------------------------------------------------------
LEMMA TypeInit ==
  ASSUME Init
  PROVE  TypeInv
<1>1. <<>> \in Seq(Statuses) /\ Len(<<>>) = 0 /\ <<>> \in Seq(Messages)
  BY EmptySeq
<1>2. MaxPublished \in 0..MaxPublished /\ 0 \in 0..MaxFaults /\ 0 \in 0..MaxPurges
      /\ 0 <= MaxPublished
  BY StreamConstantsOK
<1>3. TypeOK
  BY <1>1, <1>2 DEF Init, TypeOK
<1>4. Opened
  BY DEF Init, Opened
<1> QED BY <1>3, <1>4 DEF TypeInv

\* A stream that has a queue or is open has one of the streams' queues.
LEMMA QueueType ==
  ASSUME TypeInv, NEW s \in Streams,
         client[s] # "none" \/ forwarder[s] # "none"
  PROVE  queueOf[s] \in Streams /\ client[s] # "none" /\ forwarder[s] # "none"
BY DEF TypeInv, TypeOK, Opened

LEMMA TypeNext ==
  ASSUME TypeInv, [Next]_vars
  PROVE  TypeInv'
<1> USE DEF TypeInv
<1> USE StreamConstantsOK
<1>1. ASSUME NEW status \in Statuses, Publish(status)
      PROVE  TypeInv'
  <2>1. Append(published, status) \in Seq(Statuses)
        /\ Len(Append(published, status)) <= MaxPublished
        /\ Len(published) + 1 \in Messages
    BY <1>1, AppendType DEF Publish, TypeOK, Messages
  <2>2. \A s \in Streams : Append(inbox[s], Len(published) + 1) \in Seq(Messages)
    BY <2>1, AppendType DEF TypeOK
  <2>3. inbox' \in [Streams -> Seq(Messages)]
    BY <1>1, <2>2 DEF Publish, TypeOK
  <2>4. TypeOK'
    BY <1>1, <2>1, <2>3 DEF Publish, TypeOK
  <2>5. Opened'
    BY <1>1 DEF Publish, Opened
  <2> QED BY <2>4, <2>5
<1>2. ASSUME NEW s \in Streams, Open(s)
      PROVE  TypeInv'
  <2> DEFINE queue == IF bus[ServerOf[s]] = None THEN s ELSE bus[ServerOf[s]]
  <2>1. queue \in Streams
    BY DEF TypeOK
  <2>2. TypeOK'
    BY <1>2, <2>1 DEF Open, TypeOK
  <2>3. Opened'
    BY <1>2, <2>1 DEF Open, TypeOK, Opened
  <2> QED BY <2>2, <2>3
<1>3. ASSUME NEW s \in Streams, Listen(s)
      PROVE  TypeInv'
  <2>1. Len(published) \in 0..MaxPublished
    BY LenProperties DEF TypeOK
  <2>2. TypeOK'
    BY <1>3, <2>1 DEF Listen, TypeOK
  <2>3. Opened'
    BY <1>3 DEF Listen, TypeOK, Opened
  <2> QED BY <2>2, <2>3
<1>4. ASSUME NEW s \in Streams, Forward(s)
      PROVE  TypeInv'
  <2>1. inbox[s] \in Seq(Messages) /\ inbox[s] # <<>>
    BY <1>4 DEF Forward, TypeOK
  <2>2. Head(inbox[s]) \in Messages /\ Tail(inbox[s]) \in Seq(Messages)
    BY <2>1, HeadTail
  <2>3. queueOf[s] \in Streams
    BY <1>4, QueueType DEF Forward
  <2>4. Append(items[queueOf[s]], Head(inbox[s])) \in Seq(Messages)
    BY <2>2, <2>3, AppendType DEF TypeOK
  <2>5. TypeOK'
    BY <1>4, <2>2, <2>4 DEF Forward, TypeOK
  <2>6. Opened'
    BY <1>4 DEF Forward, Opened
  <2> QED BY <2>5, <2>6
<1>5. ASSUME NEW s \in Streams, Break(s)
      PROVE  TypeInv'
  <2>1. <<>> \in Seq(Messages)
    BY EmptySeq
  <2>2. TypeOK'
    BY <1>5, <2>1 DEF Break, TypeOK
  <2>3. Opened'
    BY <1>5 DEF Break, TypeOK, Opened
  <2> QED BY <2>2, <2>3
<1>6. ASSUME NEW s \in Streams, Yield(s)
      PROVE  TypeInv'
  <2>1. queueOf[s] \in Streams /\ items[queueOf[s]] # <<>>
    BY <1>6, QueueType DEF Yield
  <2>2. items[queueOf[s]] \in Seq(Messages)
    BY <2>1 DEF TypeOK
  <2>3. Head(items[queueOf[s]]) \in Messages /\ Tail(items[queueOf[s]]) \in Seq(Messages)
    BY <2>1, <2>2, HeadTail
  <2>4. Append(got[s], Head(items[queueOf[s]])) \in Seq(Messages)
    BY <2>3, AppendType DEF TypeOK
  <2>5. TypeOK'
    BY <1>6, <2>3, <2>4 DEF Yield, TypeOK
  <2>6. Opened'
    BY <1>6 DEF Yield, TypeOK, Opened
  <2> QED BY <2>5, <2>6
<1>7. ASSUME NEW s \in Streams, Disconnect(s)
      PROVE  TypeInv'
  BY <1>7 DEF Disconnect, TypeOK, Opened
<1>8. ASSUME NEW s \in Streams, Close(s)
      PROVE  TypeInv'
  <2>1. <<>> \in Seq(Messages)
    BY EmptySeq
  <2>2. TypeOK'
    BY <1>8, <2>1 DEF Close, TypeOK
  <2>3. Opened'
    BY <1>8 DEF Close, TypeOK, Opened
  <2> QED BY <2>2, <2>3
<1>9. ASSUME NEW p \in Servers, Purge(p)
      PROVE  TypeInv'
  BY <1>9 DEF Purge, TypeOK, Opened
<1>10. CASE UNCHANGED vars
  BY <1>10 DEF vars, TypeOK, Opened
<1> QED
  BY <1>1, <1>2, <1>3, <1>4, <1>5, <1>6, <1>7, <1>8, <1>9, <1>10 DEF Next

\* Every state of the streams is well typed, for any constants.
THEOREM StreamTypeCorrect == Spec => []TypeOK
<1>1. Init => TypeInv
  BY TypeInit
<1>2. TypeInv /\ [Next]_vars => TypeInv'
  BY TypeNext
<1>3. TypeInv => TypeOK
  BY DEF TypeInv
<1> QED BY <1>1, <1>2, <1>3, PTL DEF Spec

-----------------------------------------------------------------------------
(* Queues and connections. *)

\* A queue is named by a stream that takes from it: nothing else is in the bus, and
\* nothing lies in a queue that was never made.
Owned ==
  /\ \A s \in Streams : queueOf[s] # None => queueOf[queueOf[s]] = queueOf[s]
  /\ \A p \in Servers : bus[p] # None => queueOf[bus[p]] = bus[p]
  /\ \A q \in Streams : items[q] # <<>> => queueOf[q] = q

\* What Redis has sent to a forwarder are the latest publications, all later than
\* its subscription.
Latest(s) ==
  /\ heard[s] + Len(inbox[s]) <= Len(published)
  /\ Run(inbox[s], Len(published) - Len(inbox[s]))

Connected ==
  \A s \in Streams :
    /\ client[s] = "none" => got[s] = <<>>
    /\ IF forwarder[s] = "listening" THEN Latest(s) ELSE inbox[s] = <<>>

LEMMA OwnedNext ==
  ASSUME TypeInv, Owned, [Next]_vars
  PROVE  Owned'
<1> USE DEF TypeInv
<1>1. None \notin Streams
  BY StreamConstantsOK
<1>2. ASSUME NEW s \in Streams, Open(s)
      PROVE  Owned'
  <2> DEFINE queue == IF bus[ServerOf[s]] = None THEN s ELSE bus[ServerOf[s]]
  <2>1. /\ queueOf[s] = None
        /\ queueOf' = [queueOf EXCEPT ![s] = queue]
        /\ bus' = [bus EXCEPT ![ServerOf[s]] = queue]
        /\ items' = items
    BY <1>2 DEF Open, Opened
  <2>2. queue \in Streams /\ queueOf'[queue] = queue
    BY <2>1, <1>1, StreamConstantsOK DEF TypeOK, Owned
  <2>3. \A u \in Streams \ {s} : queueOf'[u] = queueOf[u]
    BY <2>1 DEF TypeOK
  <2>4. ASSUME NEW u \in Streams, queueOf'[u] # None
        PROVE  queueOf'[queueOf'[u]] = queueOf'[u]
    <3>1. CASE u = s
      BY <2>1, <2>2, <3>1 DEF TypeOK
    <3>2. CASE u # s
      <4>1. queueOf'[u] = queueOf[u] /\ queueOf[u] \in Streams
        BY <2>3, <2>4, <3>2 DEF TypeOK
      <4>2. queueOf[queueOf[u]] = queueOf[u] /\ queueOf[u] # s
        BY <1>1, <2>1, <2>4, <4>1 DEF Owned
      <4> QED BY <2>3, <4>1, <4>2
    <3> QED BY <3>1, <3>2
  <2>5. ASSUME NEW p \in Servers, bus'[p] # None
        PROVE  queueOf'[bus'[p]] = bus'[p]
    <3>1. CASE p = ServerOf[s]
      BY <2>1, <2>2, <3>1 DEF TypeOK
    <3>2. CASE p # ServerOf[s]
      <4>1. bus'[p] = bus[p] /\ bus[p] \in Streams
        BY <2>1, <2>5, <3>2 DEF TypeOK
      <4>2. queueOf[bus[p]] = bus[p] /\ bus[p] # s
        BY <1>1, <2>1, <2>5, <4>1 DEF Owned
      <4> QED BY <2>3, <4>1, <4>2
    <3> QED BY <3>1, <3>2
  <2>6. ASSUME NEW q \in Streams, items'[q] # <<>>
        PROVE  queueOf'[q] = q
    <3>1. queueOf[q] = q /\ q # s
      BY <1>1, <2>1, <2>6 DEF Owned
    <3> QED BY <2>3, <3>1
  <2> QED BY <2>4, <2>5, <2>6 DEF Owned
<1>3. ASSUME NEW s \in Streams, Forward(s)
      PROVE  Owned'
  <2>1. queueOf[s] \in Streams
    BY <1>3, QueueType DEF Forward
  <2>2. queueOf[queueOf[s]] = queueOf[s]
    BY <1>1, <2>1 DEF Owned
  <2>3. \A q \in Streams \ {queueOf[s]} : items'[q] = items[q]
    BY <1>3 DEF Forward, TypeOK
  <2>4. queueOf' = queueOf /\ bus' = bus
    BY <1>3 DEF Forward
  <2> QED BY <2>2, <2>3, <2>4 DEF Owned
<1>4. ASSUME NEW s \in Streams, Yield(s)
      PROVE  Owned'
  <2>1. \A q \in Streams : items'[q] # <<>> => items[q] # <<>>
    BY <1>4 DEF Yield, TypeOK
  <2>2. queueOf' = queueOf /\ bus' = bus
    BY <1>4 DEF Yield
  <2> QED BY <2>1, <2>2 DEF Owned
<1>5. ASSUME NEW p \in Servers, Purge(p)
      PROVE  Owned'
  BY <1>5 DEF Purge, Owned, TypeOK
<1>6. CASE UNCHANGED <<bus, queueOf, items>>
  BY <1>6 DEF Owned
<1> QED
  BY <1>2, <1>3, <1>4, <1>5, <1>6
     DEF Next, Publish, Listen, Break, Disconnect, Close, vars

LEMMA ConnectedNext ==
  ASSUME TypeInv, Connected, [Next]_vars
  PROVE  Connected'
<1> USE DEF TypeInv
<1> SUFFICES ASSUME NEW s \in Streams
             PROVE  /\ client'[s] = "none" => got'[s] = <<>>
                    /\ IF forwarder'[s] = "listening" THEN Latest(s)' ELSE inbox'[s] = <<>>
  BY DEF Connected
<1>1. /\ client[s] = "none" => got[s] = <<>>
      /\ IF forwarder[s] = "listening" THEN Latest(s) ELSE inbox[s] = <<>>
  BY DEF Connected
<1> DEFINE p == Len(published)
           b == Len(inbox[s])
           k == p - b
<1>2. inbox[s] \in Seq(Messages)
  BY DEF TypeOK
<1>0. p \in Nat /\ b \in Nat /\ heard[s] \in Nat
  BY LenProperties DEF TypeOK
<1>3. client'[s] = "none" => got'[s] = <<>>
  BY <1>1 DEF Next, Publish, Open, Listen, Forward, Break, Yield, Disconnect, Close, Purge,
              vars, TypeOK
<1>4. CASE \E status \in Statuses : Publish(status)
  <2>1. PICK status \in Statuses : Publish(status)
    BY <1>4
  <2>2. Len(published') = p + 1 /\ heard' = heard /\ forwarder' = forwarder
    BY <2>1, AppendType DEF Publish, TypeOK
  <2>3. CASE forwarder[s] = "listening"
    <3>1. inbox'[s] = Append(inbox[s], p + 1) /\ p < MaxPublished
      BY <2>1, <2>3 DEF Publish, TypeOK
    <3>2. p + 1 \in Messages
      BY <1>0, <3>1, StreamConstantsOK DEF Messages
    <3>3. Len(inbox'[s]) = b + 1
      BY <1>2, <3>1, <3>2, AppendType
    <3>4. heard[s] + b <= p /\ Run(inbox[s], k)
      BY <1>1, <2>3 DEF Latest
    <3>5. k \in Nat /\ p + 1 = k + b + 1
      BY <1>0, <3>4
    <3>6. Run(inbox'[s], k)
      <4> HIDE DEF k
      <4> QED BY <1>2, <3>1, <3>2, <3>4, <3>5, RunAppend
    <3>7. (p + 1) - (b + 1) = k /\ heard[s] + (b + 1) <= p + 1
      BY <1>0, <3>4
    <3>8. Latest(s)'
      BY <2>2, <3>3, <3>6, <3>7 DEF Latest
    <3> QED BY <1>3, <2>2, <2>3, <3>8
  <2>4. CASE forwarder[s] # "listening"
    BY <1>1, <1>3, <2>1, <2>2, <2>4 DEF Publish, TypeOK
  <2> QED BY <2>3, <2>4
<1>5. CASE Listen(s)
  <2>1. inbox'[s] = <<>> /\ heard'[s] = p /\ published' = published
    BY <1>1, <1>5 DEF Listen, TypeOK
  <2>2. Len(<<>>) = 0 /\ p + 0 <= p
    BY <1>0, EmptySeq
  <2>3. Latest(s)'
    BY <2>1, <2>2 DEF Latest, Run
  <2> QED BY <1>3, <1>5, <2>1, <2>3 DEF Listen, TypeOK
<1>6. CASE Forward(s)
  <2>1. /\ forwarder[s] = "listening" /\ forwarder' = forwarder /\ inbox[s] # <<>>
        /\ inbox'[s] = Tail(inbox[s]) /\ heard' = heard /\ published' = published
    BY <1>6 DEF Forward, TypeOK
  <2>2. Len(inbox'[s]) = b - 1
    BY <1>2, <2>1, HeadTail
  <2>3. heard[s] + b <= p /\ Run(inbox[s], k)
    BY <1>1, <2>1 DEF Latest
  <2>4. k \in Nat
    BY <1>0, <2>3
  <2>5. Run(inbox'[s], k + 1)
    <3> HIDE DEF k
    <3> QED BY <1>2, <2>1, <2>3, <2>4, RunTail
  <2>6. p - (b - 1) = k + 1 /\ heard[s] + (b - 1) <= p
    BY <1>0, <2>3
  <2>7. Latest(s)'
    BY <2>1, <2>2, <2>5, <2>6 DEF Latest
  <2> QED BY <1>3, <2>1, <2>7
<1>7. CASE forwarder'[s] # "listening" /\ inbox'[s] = <<>>
  BY <1>3, <1>7
<1>8. CASE /\ forwarder'[s] = forwarder[s] /\ inbox'[s] = inbox[s]
           /\ heard'[s] = heard[s] /\ published' = published
  BY <1>1, <1>3, <1>8 DEF Latest
<1>9. ASSUME NEW u \in Streams, u # s, Open(u) \/ Listen(u) \/ Forward(u) \/ Break(u) \/ Close(u)
      PROVE  /\ forwarder'[s] = forwarder[s] /\ inbox'[s] = inbox[s]
             /\ heard'[s] = heard[s] /\ published' = published
  BY <1>9 DEF Open, Listen, Forward, Break, Close, TypeOK
<1>10. ASSUME NEW u \in Streams, Yield(u) \/ Disconnect(u)
       PROVE  /\ forwarder'[s] = forwarder[s] /\ inbox'[s] = inbox[s]
              /\ heard'[s] = heard[s] /\ published' = published
  BY <1>10 DEF Yield, Disconnect
<1>11. ASSUME Open(s) \/ Break(s) \/ Close(s)
       PROVE  forwarder'[s] # "listening" /\ inbox'[s] = <<>>
  BY <1>1, <1>11 DEF Open, Break, Close, TypeOK, Opened
<1>12. CASE (\E server \in Servers : Purge(server)) \/ UNCHANGED vars
  BY <1>8, <1>12 DEF Purge, vars
<1> QED
  BY <1>4, <1>5, <1>6, <1>7, <1>8, <1>9, <1>10, <1>11, <1>12 DEF Next

-----------------------------------------------------------------------------
(* A stream that has its queue to itself. *)

Solitary(s) == Alone(s) /\ queueOf[s] = s

\* What it received, what its queue holds and what its connection holds follow one
\* another, up to the latest publication.
InLine(s) ==
  /\ Run(got[s], heard[s])
  /\ Run(items[s], heard[s] + Len(got[s]))
  /\ forwarder[s] = "starting" => got[s] = <<>> /\ items[s] = <<>>
  /\ forwarder[s] = "listening" =>
       heard[s] + Len(got[s]) + Len(items[s]) + Len(inbox[s]) = Len(published)

LineInv == \A s \in Streams : Solitary(s) => InLine(s)

\* A stream is alone from the start or never.
LEMMA SolitaryBefore ==
  ASSUME TypeInv, [Next]_vars, NEW s \in Streams, Solitary(s)'
  PROVE  Solitary(s) \/ Open(s)
<1> USE DEF TypeInv
<1>1. CASE queueOf' = queueOf
  BY <1>1 DEF Solitary, Alone
<1>2. ASSUME NEW u \in Streams, u # s, Open(u)
      PROVE  Solitary(s)
  <2>1. queueOf[u] = None /\ \A v \in Streams \ {u} : queueOf'[v] = queueOf[v]
    BY <1>2 DEF Open, Opened, TypeOK
  <2> QED BY <1>2, <2>1 DEF Solitary, Alone
<1> QED
  BY <1>1, <1>2 DEF Next, Publish, Listen, Forward, Break, Yield, Disconnect, Close, Purge, vars

LEMMA LineNext ==
  ASSUME TypeInv, Owned, Connected, LineInv, [Next]_vars
  PROVE  LineInv'
<1> USE DEF TypeInv
<1> SUFFICES ASSUME NEW s \in Streams, Solitary(s)'
             PROVE  InLine(s)'
  BY DEF LineInv
<1>1. CASE Open(s)
  <2>1. got[s] = <<>> /\ items[s] = <<>>
    BY <1>1, StreamConstantsOK DEF Open, Opened, Connected, Owned
  <2>2. got'[s] = <<>> /\ items'[s] = <<>> /\ forwarder'[s] = "starting" /\ Len(<<>>) = 0
    BY <1>1, <2>1, EmptySeq DEF Open, TypeOK
  <2> QED BY <2>2 DEF InLine, Run
<1>2. CASE Solitary(s)
  <2>1. InLine(s)
    BY <1>2 DEF LineInv
  <2>2. got[s] \in Seq(Messages) /\ items[s] \in Seq(Messages) /\ inbox[s] \in Seq(Messages)
    BY DEF TypeOK
  <2> DEFINE h == heard[s]
             g == Len(got[s])
             k == Len(items[s])
             b == Len(inbox[s])
             p == Len(published)
  <2>0. h \in Nat /\ g \in Nat /\ k \in Nat /\ b \in Nat /\ p \in Nat
    BY LenProperties DEF TypeOK
  <2>3. queueOf[s] = s /\ client[s] # "none"
    BY <1>2, StreamConstantsOK DEF Solitary, Opened
  <2>4. \A u \in Streams \ {s} : client[u] # "none" \/ forwarder[u] # "none" => queueOf[u] # s
    BY <1>2, <2>3, QueueType, StreamConstantsOK DEF Solitary, Alone
  <2>5. CASE \E status \in Statuses : Publish(status)
    <3>1. PICK status \in Statuses : Publish(status)
      BY <2>5
    <3>2. /\ Len(published') = Len(published) + 1
          /\ UNCHANGED <<got, items, heard, forwarder>>
      BY <3>1, AppendType DEF Publish, TypeOK
    <3>3. forwarder[s] = "listening" => Len(inbox'[s]) = b + 1
      <4>1. p + 1 \in Messages
        BY <2>0, <3>1, StreamConstantsOK DEF Publish, Messages
      <4> QED BY <2>2, <3>1, <4>1, AppendType DEF Publish
    <3>4. h + g + k + b = p => h + g + k + (b + 1) = p + 1
      <4> HIDE DEF h, g, k, b, p
      <4> QED BY <2>0
    <3>5. forwarder[s] = "listening" => h + g + k + Len(inbox'[s]) = Len(published')
      <4>1. forwarder[s] = "listening" => h + g + k + b = p
        BY <2>1 DEF InLine
      <4> QED BY <3>2, <3>3, <3>4, <4>1
    <3> QED BY <2>1, <3>2, <3>5 DEF InLine
  <2>6. CASE Listen(s)
    <3>1. /\ got[s] = <<>> /\ items[s] = <<>> /\ inbox[s] = <<>> /\ Len(<<>>) = 0
      BY <2>1, <2>6, EmptySeq DEF Listen, InLine, Connected
    <3>2. /\ UNCHANGED <<got, items, inbox, published>>
          /\ heard'[s] = Len(published) /\ forwarder'[s] = "listening"
      BY <2>6 DEF Listen, TypeOK
    <3>3. p + 0 + 0 + 0 = p
      BY <2>0
    <3>4. got'[s] = <<>> /\ items'[s] = <<>> /\ inbox'[s] = <<>> /\ Len(published') = p
      BY <3>1, <3>2
    <3>5. heard'[s] + Len(got'[s]) + Len(items'[s]) + Len(inbox'[s]) = Len(published')
      BY <3>1, <3>2, <3>3, <3>4
    <3>6. Run(got'[s], heard'[s]) /\ Run(items'[s], heard'[s] + Len(got'[s]))
      BY <3>1, <3>4 DEF Run
    <3> QED BY <3>2, <3>5, <3>6 DEF InLine
  <2>7. CASE Forward(s)
    <3>1. /\ forwarder[s] = "listening" /\ inbox[s] # <<>>
          /\ UNCHANGED <<got, heard, forwarder, published>>
          /\ inbox'[s] = Tail(inbox[s])
          /\ items'[s] = Append(items[s], Head(inbox[s]))
      BY <2>3, <2>7 DEF Forward, TypeOK
    <3>2. h + g + k + b = p /\ Run(inbox[s], p - b)
      BY <2>1, <3>1 DEF InLine, Connected, Latest
    <3>3. /\ Head(inbox[s]) \in Messages
          /\ Len(inbox'[s]) = b - 1 /\ b \in Nat \ {0}
      BY <2>2, <3>1, HeadTail
    <3>4. Head(inbox[s]) = h + g + k + 1
      <4>1. p - b = h + g + k /\ h + g + k \in Nat
        <5> HIDE DEF h, g, k, b, p
        <5> QED BY <2>0, <3>2
      <4>2. Head(inbox[s]) = p - b + 1
        BY <2>2, <3>1, <3>2, <4>1, RunTail
      <4> QED BY <4>1, <4>2
    <3>5. h + g \in Nat /\ Run(items[s], h + g)
      BY <2>0, <2>1 DEF InLine
    <3>6. Run(items'[s], h + g) /\ Len(items'[s]) = k + 1
      BY <2>2, <3>1, <3>3, <3>4, <3>5, RunAppend, AppendType
    <3>7. h + g + (k + 1) + (b - 1) = p
      <4> HIDE DEF h, g, k, b, p
      <4> QED BY <2>0, <3>2, <3>3
    <3> QED BY <2>1, <3>1, <3>3, <3>6, <3>7 DEF InLine
  <2>8. CASE Yield(s)
    <3>1. /\ items[s] # <<>>
          /\ UNCHANGED <<inbox, heard, forwarder, published>>
          /\ items'[s] = Tail(items[s])
          /\ got'[s] = Append(got[s], Head(items[s]))
      BY <2>3, <2>8 DEF Yield, TypeOK
    <3>2. /\ h + g \in Nat /\ Run(items[s], h + g) /\ Run(got[s], h)
          /\ forwarder[s] # "starting"
      BY <2>0, <2>1, <3>1 DEF InLine
    <3>3. Head(items[s]) \in Messages /\ Len(items'[s]) = k - 1
      BY <2>2, <3>1, HeadTail
    <3>4. Head(items[s]) = h + g + 1 /\ Run(items'[s], h + g + 1)
      BY <2>2, <3>1, <3>2, RunTail
    <3>5. Run(got'[s], h) /\ Len(got'[s]) = g + 1
      BY <2>0, <2>2, <3>1, <3>2, <3>3, <3>4, RunAppend, AppendType
    <3>6. h + (g + 1) = h + g + 1 /\ h + (g + 1) + (k - 1) + b = h + g + k + b
      <4> HIDE DEF h, g, k, b
      <4> QED BY <2>0
    <3> QED BY <2>1, <3>1, <3>2, <3>3, <3>4, <3>5, <3>6 DEF InLine
  <2>9. CASE /\ got'[s] = got[s] /\ items'[s] = items[s] /\ heard'[s] = heard[s]
             /\ inbox'[s] = inbox[s] /\ published' = published
             /\ forwarder'[s] = forwarder[s]
    BY <2>1, <2>9 DEF InLine
  <2>10. CASE Break(s) \/ Close(s)
    <3>1. /\ got' = got /\ items' = items /\ heard' = heard
          /\ forwarder'[s] \in {"broken", "cancelled"}
      BY <2>10 DEF Break, Close, TypeOK
    <3> QED BY <2>1, <3>1 DEF InLine
  <2>11. ASSUME NEW u \in Streams, u # s,
                \/ Open(u) \/ Listen(u) \/ Forward(u) \/ Break(u)
                \/ Yield(u) \/ Disconnect(u) \/ Close(u)
         PROVE  /\ got'[s] = got[s] /\ items'[s] = items[s] /\ heard'[s] = heard[s]
                /\ inbox'[s] = inbox[s] /\ published' = published
                /\ forwarder'[s] = forwarder[s]
    <3>1. CASE Forward(u) \/ Yield(u)
      <4>1. queueOf[u] # s
        BY <2>4, <2>11, <3>1 DEF Forward, Yield
      <4> QED BY <2>11, <3>1, <4>1 DEF Forward, Yield, TypeOK
    <3>2. CASE Open(u) \/ Listen(u) \/ Break(u) \/ Disconnect(u) \/ Close(u)
      BY <2>11, <3>2 DEF Open, Listen, Break, Disconnect, Close, TypeOK
    <3> QED BY <2>11, <3>1, <3>2
  <2>12. CASE Disconnect(s) \/ (\E server \in Servers : Purge(server)) \/ UNCHANGED vars
    BY <2>9, <2>12 DEF Disconnect, Purge, vars
  <2>13. ~Open(s)
    BY <2>3 DEF Open
  <2> QED
    BY <2>5, <2>6, <2>7, <2>8, <2>9, <2>10, <2>11, <2>12, <2>13 DEF Next
<1> QED BY <1>1, <1>2, SolitaryBefore

StreamInv == TypeInv /\ Owned /\ Connected

LEMMA StreamInit ==
  ASSUME Init
  PROVE  StreamInv
<1>1. Owned /\ Connected
  BY DEF Init, Owned, Connected
<1> QED BY <1>1, TypeInit DEF StreamInv

LEMMA StreamNext ==
  ASSUME StreamInv, [Next]_vars
  PROVE  StreamInv'
BY TypeNext, OwnedNext, ConnectedNext DEF StreamInv

\* Whatever is published, breaks or is purged, and whatever other streams do, a stream
\* that shares its queue with none loses, repeats and reorders nothing.
THEOREM AlwaysFaithfulAlone == Spec => []FaithfulAlone
<1>1. Init => StreamInv /\ LineInv
  <2> SUFFICES ASSUME Init PROVE StreamInv /\ LineInv
    OBVIOUS
  <2>1. \A s \in Streams : ~Solitary(s)
    BY StreamConstantsOK DEF Init, Solitary
  <2> QED BY <2>1, StreamInit DEF LineInv
<1>2. StreamInv /\ LineInv /\ [Next]_vars => (StreamInv /\ LineInv)'
  BY StreamNext, LineNext DEF StreamInv
<1>3. StreamInv /\ LineInv => FaithfulAlone
  <2> SUFFICES ASSUME StreamInv, LineInv, NEW s \in Streams, Solitary(s)
               PROVE  LET all == got[s] \o items[s] \o inbox[s]
                      IN  Consecutive(all) /\ (all # <<>> => all[1] = heard[s] + 1)
    BY DEF FaithfulAlone, Solitary
  <2> DEFINE all == (got[s] \o items[s]) \o inbox[s]
  <2>1. InLine(s)
    BY DEF LineInv
  <2>2. /\ got[s] \in Seq(Messages) /\ items[s] \in Seq(Messages) /\ inbox[s] \in Seq(Messages)
        /\ Len(got[s]) \in Nat /\ Len(items[s]) \in Nat /\ Len(inbox[s]) \in Nat
        /\ Len(published) \in Nat /\ heard[s] \in Nat
    BY LenProperties DEF StreamInv, TypeInv, TypeOK
  <2>3. /\ got[s] \o items[s] \in Seq(Messages)
        /\ Len(got[s] \o items[s]) = Len(got[s]) + Len(items[s])
        /\ Run(got[s] \o items[s], heard[s])
    <3> HIDE DEF all
    <3>1. Run(got[s], heard[s]) /\ Run(items[s], heard[s] + Len(got[s]))
      BY <2>1 DEF InLine
    <3> QED BY ONLY <2>2, <3>1, RunConcat
  <2>4. Run(inbox[s], heard[s] + Len(got[s] \o items[s]))
    <3>1. CASE forwarder[s] = "listening"
      <4>1. Run(inbox[s], Len(published) - Len(inbox[s]))
        BY <3>1 DEF StreamInv, Connected, Latest
      <4>2. Len(published) - Len(inbox[s]) = heard[s] + Len(got[s] \o items[s])
        <5> DEFINE h == heard[s]
                   g == Len(got[s])
                   k == Len(items[s])
                   b == Len(inbox[s])
                   p == Len(published)
        <5>1. h + g + k + b = p
          BY <2>1, <3>1 DEF InLine
        <5>2. h \in Nat /\ g \in Nat /\ k \in Nat /\ b \in Nat /\ p \in Nat
          BY <2>2
        <5>3. p - b = h + (g + k)
          <6> HIDE DEF h, g, k, b, p
          <6> QED BY <5>1, <5>2
        <5> QED BY <2>3, <5>3
      <4> QED BY <4>1, <4>2
    <3>2. CASE forwarder[s] # "listening"
      BY <3>2, EmptySeq DEF StreamInv, Connected, Run
    <3> QED BY <3>1, <3>2
  <2>5. all \in Seq(Messages) /\ Run(all, heard[s])
    BY <2>2, <2>3, <2>4, RunConcat
  <2> HIDE DEF all
  <2>6. Len(all) \in Nat /\ (all # <<>> => 1 \in 1..Len(all))
    BY <2>5, LenProperties, EmptySeq
  <2>7. \A i \in 1..Len(all) - 1 :
          all[i] = heard[s] + i /\ all[i + 1] = heard[s] + (i + 1)
    BY <2>5, <2>6 DEF Run
  <2>8. Consecutive(all)
    <3>1. heard[s] \in Nat
      BY <2>2
    <3>2. \A i \in 1..Len(all) - 1 : heard[s] + (i + 1) = (heard[s] + i) + 1
      BY <2>6, <3>1
    <3> QED BY <2>7, <3>2 DEF Consecutive
  <2>9. all # <<>> => all[1] = heard[s] + 1
    BY <2>5, <2>6 DEF Run
  <2> QED BY <2>8, <2>9 DEF all
<1> QED BY <1>1, <1>2, <1>3, PTL DEF Spec

-----------------------------------------------------------------------------
(* The copies of a message in a queue that is shared. *)

\* What lies in a queue or with a client was published, and who has not subscribed
\* has heard nothing.
Bounded(seq, k) == \A i \in 1..Len(seq) : seq[i] <= k

Past ==
  \A s \in Streams :
    /\ Bounded(items[s], Len(published))
    /\ Bounded(got[s], Len(published))
    /\ forwarder[s] \in {"none", "starting"} => heard[s] = MaxPublished

\* The streams of queue q to whose connections message n is on its way, and those
\* that had subscribed when it was published.
Waiting(q, n) == {s \in Streams : queueOf[s] = q /\ Copies(inbox[s], n) # {}}
Subscribed(q, n) == {s \in Streams : queueOf[s] = q /\ heard[s] < n}

Accounted(q, n) ==
  Cardinality(Copies(items[q], n)) + Cardinality(Received(q, n)) + Cardinality(Waiting(q, n))
    <= Cardinality(Subscribed(q, n))

AccountInv == \A q \in Streams : \A n \in 1..Len(published) : Accounted(q, n)

LEMMA BoundedAppend ==
  ASSUME NEW seq \in Seq(Messages), NEW x \in Messages, NEW k, Bounded(seq, k), x <= k
  PROVE  Bounded(Append(seq, x), k)
<1>1. \A i \in 1..(Len(seq) + 1) : i \in 1..Len(seq) \/ i = Len(seq) + 1
  BY LenProperties
<1> QED BY <1>1, AppendType DEF Bounded

LEMMA BoundedTail ==
  ASSUME NEW seq \in Seq(Messages), NEW k, Bounded(seq, k), seq # <<>>
  PROVE  Bounded(Tail(seq), k) /\ Head(seq) <= k
<1>1. \A i \in 1..Len(Tail(seq)) : i + 1 \in 1..Len(seq)
  BY HeadTail
<1>2. 1 \in 1..Len(seq)
  BY HeadTail
<1> QED BY <1>1, <1>2, HeadTail DEF Bounded

LEMMA BoundedLater ==
  ASSUME NEW seq \in Seq(Messages), NEW k \in Nat, Bounded(seq, k)
  PROVE  Bounded(seq, k + 1)
<1>1. \A i \in 1..Len(seq) : seq[i] \in Messages
  BY ElementOfSeq
<1>2. \A x \in Messages : x <= k => x <= k + 1
  BY StreamConstantsOK DEF Messages
<1> QED BY <1>1, <1>2 DEF Bounded

\* What Redis sent was published.
LEMMA BoundedInbox ==
  ASSUME TypeInv, Connected, NEW s \in Streams, inbox[s] # <<>>
  PROVE  /\ forwarder[s] = "listening" /\ Latest(s)
         /\ Bounded(inbox[s], Len(published))
<1>1. forwarder[s] = "listening" /\ Latest(s)
  BY DEF Connected
<1>2. Len(published) \in Nat /\ Len(inbox[s]) \in Nat
  BY LenProperties DEF TypeInv, TypeOK
<1>3. \A i \in 1..Len(inbox[s]) : Len(published) - Len(inbox[s]) + i <= Len(published)
  BY <1>2
<1> QED BY <1>1, <1>3 DEF Latest, Run, Bounded

LEMMA PastNext ==
  ASSUME StreamInv, Past, [Next]_vars
  PROVE  Past'
<1> USE DEF StreamInv, TypeInv
<1> SUFFICES ASSUME NEW s \in Streams
             PROVE  /\ Bounded(items'[s], Len(published'))
                    /\ Bounded(got'[s], Len(published'))
                    /\ forwarder'[s] \in {"none", "starting"} => heard'[s] = MaxPublished
  BY DEF Past
<1>1. /\ Bounded(items[s], Len(published))
      /\ Bounded(got[s], Len(published))
      /\ forwarder[s] \in {"none", "starting"} => heard[s] = MaxPublished
  BY DEF Past
<1>2. /\ items[s] \in Seq(Messages) /\ got[s] \in Seq(Messages) /\ inbox[s] \in Seq(Messages)
      /\ Len(published) \in Nat
  BY LenProperties DEF TypeOK
<1>3. forwarder'[s] \in {"none", "starting"} => heard'[s] = MaxPublished
  <2>1. CASE UNCHANGED <<forwarder, heard>>
    BY <1>1, <2>1
  <2>2. ASSUME NEW u \in Streams, Open(u) \/ Listen(u) \/ Break(u) \/ Close(u)
        PROVE  forwarder'[s] \in {"none", "starting"} => heard'[s] = MaxPublished
    BY <1>1, <2>2 DEF Open, Listen, Break, Close, TypeOK, Opened
  <2> QED BY <2>1, <2>2 DEF Next, Publish, Forward, Yield, Disconnect, Purge, vars
<1>4. CASE \E status \in Statuses : Publish(status)
  <2>1. Len(published') = Len(published) + 1 /\ items' = items /\ got' = got
    BY <1>4, AppendType DEF Publish, TypeOK
  <2> QED BY <1>1, <1>2, <1>3, <2>1, BoundedLater
<1>5. ASSUME NEW u \in Streams, Forward(u)
      PROVE  Bounded(items'[s], Len(published')) /\ Bounded(got'[s], Len(published'))
  <2>1. published' = published /\ got' = got
    BY <1>5 DEF Forward
  <2>2. CASE queueOf[u] # s
    BY <1>1, <1>5, <2>1, <2>2 DEF Forward, TypeOK
  <2>3. CASE queueOf[u] = s
    <3>1. items'[s] = Append(items[s], Head(inbox[u])) /\ inbox[u] # <<>>
      BY <1>5, <2>3 DEF Forward, TypeOK
    <3>2. inbox[u] \in Seq(Messages) /\ Bounded(inbox[u], Len(published))
      BY <3>1, BoundedInbox DEF TypeOK
    <3>3. Head(inbox[u]) \in Messages /\ Head(inbox[u]) <= Len(published)
      BY <3>1, <3>2, HeadTail, BoundedTail
    <3> QED BY <1>1, <1>2, <2>1, <3>1, <3>3, BoundedAppend
  <2> QED BY <2>2, <2>3
<1>6. ASSUME NEW u \in Streams, Yield(u)
      PROVE  Bounded(items'[s], Len(published')) /\ Bounded(got'[s], Len(published'))
  <2>1. queueOf[u] \in Streams /\ items[queueOf[u]] # <<>> /\ published' = published
    BY <1>6, QueueType DEF Yield
  <2>2. items[queueOf[u]] \in Seq(Messages) /\ Bounded(items[queueOf[u]], Len(published))
    BY <2>1 DEF Past, TypeOK
  <2>3. /\ Head(items[queueOf[u]]) \in Messages
        /\ Head(items[queueOf[u]]) <= Len(published)
        /\ Bounded(Tail(items[queueOf[u]]), Len(published))
    BY <2>1, <2>2, HeadTail, BoundedTail
  <2>4. items'[s] = IF s = queueOf[u] THEN Tail(items[queueOf[u]]) ELSE items[s]
    BY <1>6 DEF Yield, TypeOK
  <2>5. got'[s] = IF s = u THEN Append(got[s], Head(items[queueOf[u]])) ELSE got[s]
    BY <1>6 DEF Yield, TypeOK
  <2>6. Bounded(Append(got[s], Head(items[queueOf[u]])), Len(published))
    BY <1>1, <1>2, <2>3, BoundedAppend
  <2> QED BY <1>1, <2>1, <2>3, <2>4, <2>5, <2>6
<1>7. CASE UNCHANGED <<items, got, published>>
  BY <1>1, <1>3, <1>7
<1> QED
  BY <1>3, <1>4, <1>5, <1>6, <1>7
     DEF Next, Open, Listen, Break, Disconnect, Close, Purge, vars

\* Counting copies.
LEMMA CopiesFinite ==
  ASSUME NEW seq \in Seq(Messages), NEW n
  PROVE  IsFiniteSet(Copies(seq, n)) /\ Cardinality(Copies(seq, n)) \in Nat
<1>1. IsFiniteSet(1..Len(seq))
  BY LenProperties, FS_Interval
<1>2. Copies(seq, n) \subseteq 1..Len(seq)
  BY DEF Copies
<1> QED BY <1>1, <1>2, FS_Subset, FS_CardinalityType

LEMMA CopiesAppend ==
  ASSUME NEW seq \in Seq(Messages), NEW x \in Messages, NEW n
  PROVE  /\ Copies(Append(seq, x), n) =
              Copies(seq, n) \cup (IF x = n THEN {Len(seq) + 1} ELSE {})
         /\ Cardinality(Copies(Append(seq, x), n)) =
              Cardinality(Copies(seq, n)) + (IF x = n THEN 1 ELSE 0)
<1>1. /\ Len(Append(seq, x)) = Len(seq) + 1 /\ Len(seq) \in Nat
      /\ \A i \in 1..Len(seq) : Append(seq, x)[i] = seq[i]
      /\ Append(seq, x)[Len(seq) + 1] = x
  BY AppendType
<1>2. /\ \A i \in 1..(Len(seq) + 1) : i \in 1..Len(seq) \/ i = Len(seq) + 1
      /\ \A i \in 1..Len(seq) : i \in 1..(Len(seq) + 1)
      /\ Len(seq) + 1 \in 1..(Len(seq) + 1) /\ Len(seq) + 1 \notin 1..Len(seq)
  BY <1>1
<1>3. Copies(Append(seq, x), n) = Copies(seq, n) \cup (IF x = n THEN {Len(seq) + 1} ELSE {})
  BY <1>1, <1>2 DEF Copies
<1>4. CASE x = n
  <2>1. Len(seq) + 1 \notin Copies(seq, n)
    BY <1>2 DEF Copies
  <2>2. Cardinality(Copies(seq, n) \cup {Len(seq) + 1}) = Cardinality(Copies(seq, n)) + 1
    BY <2>1, CopiesFinite, FS_AddElement
  <2> QED BY <1>3, <1>4, <2>2
<1>5. CASE x # n
  BY <1>3, <1>5, CopiesFinite
<1> QED BY <1>3, <1>4, <1>5

LEMMA CopiesTail ==
  ASSUME NEW seq \in Seq(Messages), NEW n, seq # <<>>
  PROVE  Cardinality(Copies(seq, n)) =
           Cardinality(Copies(Tail(seq), n)) + (IF Head(seq) = n THEN 1 ELSE 0)
<1> DEFINE Later == Copies(seq, n) \ {1}
           shift == [i \in Copies(Tail(seq), n) |-> i + 1]
<1>1. /\ Tail(seq) \in Seq(Messages) /\ Head(seq) = seq[1]
      /\ Len(seq) \in Nat \ {0} /\ Len(Tail(seq)) = Len(seq) - 1
      /\ \A i \in 1..Len(Tail(seq)) : Tail(seq)[i] = seq[i + 1]
  BY HeadTail
<1>2. /\ \A i \in 1..(Len(seq) - 1) : i + 1 \in 1..Len(seq) /\ i + 1 # 1
      /\ \A i \in (1..Len(seq)) \ {1} : i - 1 \in 1..(Len(seq) - 1) /\ (i - 1) + 1 = i
      /\ 1 \in 1..Len(seq)
  BY <1>1
<1>3. \A i \in Copies(Tail(seq), n) : i + 1 \in Later
  BY <1>1, <1>2 DEF Copies
<1>4. \A j \in Later : j - 1 \in Copies(Tail(seq), n) /\ (j - 1) + 1 = j
  BY <1>1, <1>2 DEF Copies
<1>5. \A i, j \in Copies(Tail(seq), n) : i + 1 = j + 1 => i = j
  BY <1>1 DEF Copies
<1>6. shift \in Bijection(Copies(Tail(seq), n), Later)
  <2>1. shift \in [Copies(Tail(seq), n) -> Later]
    BY <1>3
  <2>2. \A i, j \in Copies(Tail(seq), n) : shift[i] = shift[j] => i = j
    BY <1>5
  <2>3. \A j \in Later : \E i \in Copies(Tail(seq), n) : shift[i] = j
    BY <1>4
  <2> QED BY <2>1, <2>2, <2>3 DEF Bijection, Injection, Surjection, IsInjective
<1>7. Cardinality(Later) = Cardinality(Copies(Tail(seq), n))
  <2>1. ExistsBijection(Copies(Tail(seq), n), Later)
    BY <1>6 DEF ExistsBijection
  <2>2. IsFiniteSet(Copies(Tail(seq), n))
    BY <1>1, CopiesFinite
  <2> HIDE DEF Later
  <2> QED BY <2>1, <2>2, FS_Bijection
<1>8. IsFiniteSet(Copies(seq, n)) /\ Cardinality(Copies(seq, n)) \in Nat
  BY CopiesFinite
<1>9. Cardinality(Later) =
        IF 1 \in Copies(seq, n) THEN Cardinality(Copies(seq, n)) - 1
                                ELSE Cardinality(Copies(seq, n))
  BY <1>8, FS_RemoveElement
<1>10. 1 \in Copies(seq, n) <=> Head(seq) = n
  BY <1>1, <1>2 DEF Copies
<1> QED BY <1>7, <1>8, <1>9, <1>10

LEMMA ReceivedFinite ==
  ASSUME TypeInv, NEW q, NEW n
  PROVE  IsFiniteSet(Received(q, n)) /\ Cardinality(Received(q, n)) \in Nat
<1> DEFINE Mine == {s \in Streams : queueOf[s] = q}
           Parts == {{s} \X Copies(got[s], n) : s \in Mine}
           part == [s \in Mine |-> {s} \X Copies(got[s], n)]
<1>1. IsFiniteSet(Mine)
  BY StreamConstantsOK, FS_Subset
<1>2. part \in Surjection(Mine, Parts)
  BY DEF Surjection
<1>3. IsFiniteSet(Parts)
  BY <1>1, <1>2, FS_Surjection
<1>4. ASSUME NEW s \in Streams PROVE IsFiniteSet({s} \X Copies(got[s], n))
  <2>1. IsFiniteSet({s})
    BY FS_Singleton
  <2>2. IsFiniteSet(Copies(got[s], n))
    BY CopiesFinite DEF TypeInv, TypeOK
  <2> QED BY <2>1, <2>2, FS_Product
<1>5. IsFiniteSet(UNION Parts)
  BY <1>3, <1>4, FS_UNION
<1> QED BY <1>5, FS_CardinalityType DEF Received

LEMMA StreamsFinite ==
  ASSUME NEW S \in SUBSET Streams
  PROVE  IsFiniteSet(S) /\ Cardinality(S) \in Nat
BY StreamConstantsOK, FS_Subset, FS_CardinalityType

\* The four numbers that are compared.
LEMMA CountsType ==
  ASSUME TypeInv, NEW q \in Streams, NEW n
  PROVE  /\ Cardinality(Copies(items[q], n)) \in Nat
         /\ IsFiniteSet(Received(q, n)) /\ Cardinality(Received(q, n)) \in Nat
         /\ IsFiniteSet(Waiting(q, n)) /\ Cardinality(Waiting(q, n)) \in Nat
         /\ IsFiniteSet(Subscribed(q, n)) /\ Cardinality(Subscribed(q, n)) \in Nat
<1>1. Waiting(q, n) \in SUBSET Streams /\ Subscribed(q, n) \in SUBSET Streams
  BY DEF Waiting, Subscribed
<1>2. items[q] \in Seq(Messages)
  BY DEF TypeInv, TypeOK
<1> QED BY <1>1, <1>2, StreamsFinite, ReceivedFinite, CopiesFinite

\* A step that moves no copy of the message, and takes no stream out of those that had
\* subscribed.
LEMMA StillAccounted ==
  ASSUME TypeInv, TypeInv', NEW q \in Streams, NEW n, Accounted(q, n),
         items'[q] = items[q], Received(q, n)' = Received(q, n),
         Waiting(q, n)' \subseteq Waiting(q, n),
         Subscribed(q, n) \subseteq Subscribed(q, n)'
  PROVE  Accounted(q, n)'
<1>1. /\ Waiting(q, n)' \in SUBSET Streams /\ Waiting(q, n) \in SUBSET Streams
      /\ Subscribed(q, n)' \in SUBSET Streams /\ Subscribed(q, n) \in SUBSET Streams
  BY DEF Waiting, Subscribed
<1>2. /\ Cardinality(Waiting(q, n)') <= Cardinality(Waiting(q, n))
      /\ Cardinality(Subscribed(q, n)) <= Cardinality(Subscribed(q, n)')
  BY <1>1, StreamsFinite, FS_Subset
<1>3. /\ Cardinality(Waiting(q, n)') \in Nat /\ Cardinality(Waiting(q, n)) \in Nat
      /\ Cardinality(Subscribed(q, n)') \in Nat /\ Cardinality(Subscribed(q, n)) \in Nat
      /\ Cardinality(Copies(items[q], n)) \in Nat /\ Cardinality(Received(q, n)) \in Nat
  BY <1>1, StreamsFinite, CountsType
<1>4. Copies(items'[q], n) = Copies(items[q], n)
  OBVIOUS
<1>5. Cardinality(Copies(items[q], n)) + Cardinality(Received(q, n))
        + Cardinality(Waiting(q, n)) <= Cardinality(Subscribed(q, n))
  BY DEF Accounted
<1>6. Cardinality(Copies(items[q], n)) + Cardinality(Received(q, n))
        + Cardinality(Waiting(q, n)') <= Cardinality(Subscribed(q, n)')
  BY <1>2, <1>3, <1>5
<1> QED BY <1>4, <1>6 DEF Accounted

\* A message is on its way to a stream at most once, so that its forwarder puts one
\* copy of it.
LEMMA ForwardMoves ==
  ASSUME TypeInv, TypeInv', Connected, NEW s \in Streams, Forward(s),
         NEW q \in Streams, NEW n, Accounted(q, n)
  PROVE  Accounted(q, n)'
<1> USE DEF TypeInv
<1>1. /\ inbox[s] # <<>> /\ inbox[s] \in Seq(Messages)
      /\ inbox' = [inbox EXCEPT ![s] = Tail(@)]
      /\ items' = [items EXCEPT ![queueOf[s]] = Append(@, Head(inbox[s]))]
      /\ UNCHANGED <<queueOf, got, heard>>
  BY DEF Forward, TypeOK
<1>2. inbox'[s] = Tail(inbox[s]) /\ \A u \in Streams \ {s} : inbox'[u] = inbox[u]
  BY <1>1 DEF TypeOK
<1>3. Head(inbox[s]) \in Messages /\ Tail(inbox[s]) \in Seq(Messages)
  BY <1>1, HeadTail
<1>4. Copies(Tail(inbox[s]), n) # {} => Copies(inbox[s], n) # {}
  BY <1>1, HeadTail DEF Copies
<1>5. Waiting(q, n)' \subseteq Waiting(q, n)
  BY <1>1, <1>2, <1>4 DEF Waiting
<1>6. Received(q, n)' = Received(q, n) /\ Subscribed(q, n)' = Subscribed(q, n)
  BY <1>1 DEF Received, Subscribed
<1>7. CASE queueOf[s] # q
  BY <1>1, <1>5, <1>6, <1>7, StillAccounted DEF TypeOK
<1>8. CASE queueOf[s] = q
  <2>1. items'[q] = Append(items[q], Head(inbox[s])) /\ items[q] \in Seq(Messages)
    BY <1>1, <1>8 DEF TypeOK
  <2>2. Cardinality(Copies(items'[q], n)) =
          Cardinality(Copies(items[q], n)) + (IF Head(inbox[s]) = n THEN 1 ELSE 0)
    BY <1>3, <2>1, CopiesAppend
  <2>3. CASE Head(inbox[s]) = n
    <3>1. s \in Waiting(q, n)
      <4>1. 1 \in 1..Len(inbox[s]) /\ inbox[s][1] = n
        BY <1>1, <2>3, HeadTail
      <4> QED BY <1>8, <4>1 DEF Waiting, Copies
    <3>2. s \notin Waiting(q, n)'
      <4> DEFINE k == Len(published) - Len(inbox[s])
      <4>1. Latest(s) /\ Len(published) \in Nat /\ Len(inbox[s]) \in Nat /\ heard[s] \in Nat
        <5>1. Latest(s)
          BY <1>1, BoundedInbox
        <5>2. Len(published) \in Nat /\ Len(inbox[s]) \in Nat /\ heard[s] \in Nat
          BY LenProperties DEF TypeOK
        <5> QED BY <5>1, <5>2
      <4>2. k \in Nat /\ Run(inbox[s], k)
        BY <4>1 DEF Latest
      <4> HIDE DEF k
      <4>3. Run(Tail(inbox[s]), k + 1) /\ n = k + 1
        BY <1>1, <2>3, <4>2, RunTail
      <4>4. Len(Tail(inbox[s])) \in Nat
        BY <1>3, LenProperties
      <4>5. \A i \in 1..Len(Tail(inbox[s])) : (k + 1) + i # k + 1
        BY <4>2, <4>4
      <4>6. Copies(Tail(inbox[s]), n) = {}
        BY <4>3, <4>5 DEF Copies, Run
      <4> QED BY <1>2, <4>6 DEF Waiting
    <3>3. Waiting(q, n)' \in SUBSET (Waiting(q, n) \ {s})
      BY <1>5, <3>2
    <3>4. /\ IsFiniteSet(Waiting(q, n) \ {s})
          /\ Cardinality(Waiting(q, n) \ {s}) = Cardinality(Waiting(q, n)) - 1
      BY <3>1, CountsType, FS_RemoveElement
    <3>5. Cardinality(Waiting(q, n)') <= Cardinality(Waiting(q, n)) - 1
      BY <3>3, <3>4, FS_Subset
    <3>6. Waiting(q, n)' \in SUBSET Streams
      BY DEF Waiting
    <3>7. /\ Cardinality(Waiting(q, n)') \in Nat /\ Cardinality(Waiting(q, n)) \in Nat
          /\ Cardinality(Copies(items[q], n)) \in Nat /\ Cardinality(Received(q, n)) \in Nat
          /\ Cardinality(Subscribed(q, n)) \in Nat
      BY <3>6, StreamsFinite, CountsType
    <3>8. Cardinality(Copies(items[q], n)) + Cardinality(Received(q, n))
            + Cardinality(Waiting(q, n)) <= Cardinality(Subscribed(q, n))
      BY DEF Accounted
    <3>9. (Cardinality(Copies(items[q], n)) + 1) + Cardinality(Received(q, n))
            + Cardinality(Waiting(q, n)') <= Cardinality(Subscribed(q, n))
      BY <3>5, <3>7, <3>8
    <3> QED BY <1>6, <2>2, <2>3, <3>9 DEF Accounted
  <2>4. CASE Head(inbox[s]) # n
    <3>1. Cardinality(Copies(items'[q], n)) = Cardinality(Copies(items[q], n))
      BY <2>1, <2>2, <2>4, CopiesFinite
    <3>2. Waiting(q, n)' \in SUBSET Streams /\ Waiting(q, n)' \in SUBSET Waiting(q, n)
      BY <1>5 DEF Waiting
    <3>3. Cardinality(Waiting(q, n)') <= Cardinality(Waiting(q, n))
      BY <3>2, CountsType, FS_Subset
    <3>4. /\ Cardinality(Waiting(q, n)') \in Nat /\ Cardinality(Waiting(q, n)) \in Nat
          /\ Cardinality(Copies(items[q], n)) \in Nat /\ Cardinality(Received(q, n)) \in Nat
          /\ Cardinality(Subscribed(q, n)) \in Nat
      BY <3>2, StreamsFinite, CountsType
    <3>5. Cardinality(Copies(items[q], n)) + Cardinality(Received(q, n))
            + Cardinality(Waiting(q, n)) <= Cardinality(Subscribed(q, n))
      BY DEF Accounted
    <3>6. Cardinality(Copies(items[q], n)) + Cardinality(Received(q, n))
            + Cardinality(Waiting(q, n)') <= Cardinality(Subscribed(q, n))
      BY <3>3, <3>4, <3>5
    <3> QED BY <1>6, <3>1, <3>6 DEF Accounted
  <2> QED BY <2>3, <2>4
<1> QED BY <1>7, <1>8

\* What a client receives leaves the queue.
LEMMA YieldMoves ==
  ASSUME TypeInv, TypeInv', NEW s \in Streams, Yield(s),
         NEW q \in Streams, NEW n, Accounted(q, n)
  PROVE  Accounted(q, n)'
<1> USE DEF TypeInv
<1> DEFINE x == Head(items[queueOf[s]])
<1>1. /\ queueOf[s] \in Streams /\ items[queueOf[s]] # <<>>
      /\ items' = [items EXCEPT ![queueOf[s]] = Tail(@)]
      /\ got' = [got EXCEPT ![s] = Append(@, x)]
      /\ UNCHANGED <<queueOf, inbox, heard>>
  BY QueueType DEF Yield
<1>2. x \in Messages /\ got[s] \in Seq(Messages) /\ Len(got[s]) \in Nat
  BY <1>1, HeadTail, LenProperties DEF TypeOK
<1>3. got'[s] = Append(got[s], x) /\ \A u \in Streams \ {s} : got'[u] = got[u]
  BY <1>1 DEF TypeOK
<1>4. Waiting(q, n)' = Waiting(q, n) /\ Subscribed(q, n)' = Subscribed(q, n)
  BY <1>1 DEF Waiting, Subscribed
<1>5. CASE queueOf[s] # q
  <2>1. Received(q, n)' = Received(q, n)
    <3>1. \A u \in Streams : queueOf[u] = q => got'[u] = got[u]
      BY <1>3, <1>5
    <3> QED BY <1>1, <3>1 DEF Received
  <2>2. items'[q] = items[q]
    BY <1>1, <1>5 DEF TypeOK
  <2> QED BY <1>4, <2>1, <2>2, StillAccounted
<1>6. CASE queueOf[s] = q
  <2>1. items'[q] = Tail(items[q]) /\ items[q] \in Seq(Messages) /\ items[q] # <<>>
    BY <1>1, <1>6 DEF TypeOK
  <2>2. Cardinality(Copies(items[q], n)) =
          Cardinality(Copies(items'[q], n)) + (IF x = n THEN 1 ELSE 0)
    BY <1>6, <2>1, CopiesTail
  <2>3. Copies(got'[s], n) = Copies(got[s], n) \cup (IF x = n THEN {Len(got[s]) + 1} ELSE {})
    BY <1>2, <1>3, CopiesAppend
  <2>4. Received(q, n)' = Received(q, n) \cup
                            (IF x = n THEN {<<s, Len(got[s]) + 1>>} ELSE {})
    <3> HIDE DEF x
    <3>1. \A u \in Streams \ {s} : Copies(got'[u], n) = Copies(got[u], n)
      BY <1>3
    <3>2. \A p : p \in Received(q, n)' <=>
                   \E u \in Streams : queueOf[u] = q /\ p \in {u} \X Copies(got'[u], n)
      BY <1>1 DEF Received
    <3>3. \A p : p \in Received(q, n) <=>
                   \E u \in Streams : queueOf[u] = q /\ p \in {u} \X Copies(got[u], n)
      BY DEF Received
    <3>4. {s} \X Copies(got'[s], n) =
            ({s} \X Copies(got[s], n)) \cup (IF x = n THEN {<<s, Len(got[s]) + 1>>} ELSE {})
      BY <2>3
    <3>5. ASSUME NEW p
          PROVE  p \in Received(q, n)' <=>
                   p \in Received(q, n) \/ (x = n /\ p = <<s, Len(got[s]) + 1>>)
      BY <1>6, <3>1, <3>2, <3>3, <3>4
    <3> QED BY <3>5
  <2>5. Cardinality(Received(q, n)') <=
          Cardinality(Received(q, n)) + (IF x = n THEN 1 ELSE 0)
    <3>1. IsFiniteSet(Received(q, n)) /\ Cardinality(Received(q, n)) \in Nat
      BY CountsType
    <3>2. CASE x = n
      <4>1. Received(q, n)' = Received(q, n) \cup {<<s, Len(got[s]) + 1>>}
        BY <2>4, <3>2
      <4>2. Cardinality(Received(q, n)') \in
              {Cardinality(Received(q, n)), Cardinality(Received(q, n)) + 1}
        BY <3>1, <4>1, FS_AddElement
      <4> QED BY <3>1, <3>2, <4>2
    <3>3. CASE x # n
      BY <2>4, <3>1, <3>3
    <3> QED BY <3>2, <3>3
  <2>6. /\ Cardinality(Waiting(q, n)) \in Nat /\ Cardinality(Subscribed(q, n)) \in Nat
        /\ Cardinality(Copies(items[q], n)) \in Nat /\ Cardinality(Received(q, n)) \in Nat
    BY CountsType
  <2>7. Cardinality(Received(q, n)') \in Nat
    <3>1. CASE x = n
      BY <2>4, <3>1, CountsType, FS_AddElement, FS_CardinalityType
    <3>2. CASE x # n
      BY <2>4, <2>6, <3>2
    <3> QED BY <3>1, <3>2
  <2>8. Cardinality(Copies(items'[q], n)) \in Nat
    BY CopiesFinite DEF TypeOK
  <2>9. Cardinality(Copies(items[q], n)) + Cardinality(Received(q, n))
          + Cardinality(Waiting(q, n)) <= Cardinality(Subscribed(q, n))
    BY DEF Accounted
  <2>10. Cardinality(Copies(items'[q], n)) + Cardinality(Received(q, n)')
           + Cardinality(Waiting(q, n)) <= Cardinality(Subscribed(q, n))
    <3>1. CASE x = n
      BY <2>2, <2>5, <2>6, <2>7, <2>8, <2>9, <3>1
    <3>2. CASE x # n
      BY <2>2, <2>5, <2>6, <2>7, <2>8, <2>9, <3>2
    <3> QED BY <3>1, <3>2
  <2> QED BY <1>4, <2>10 DEF Accounted
<1> QED BY <1>5, <1>6

LEMMA AccountNext ==
  ASSUME StreamInv, Past, AccountInv, [Next]_vars
  PROVE  AccountInv'
<1> USE DEF StreamInv, TypeInv
<1>1. TypeInv' /\ TypeInv
  BY TypeNext
<1> SUFFICES ASSUME NEW q \in Streams, NEW n \in 1..Len(published')
             PROVE  Accounted(q, n)'
  BY DEF AccountInv
<1>2. Len(published) \in Nat /\ Len(published') \in Nat /\ n \in Nat /\ n <= MaxPublished
  <2>1. /\ Len(published) \in Nat /\ Len(published') \in Nat
        /\ Len(published') <= MaxPublished
    BY <1>1, LenProperties DEF TypeOK
  <2> QED BY <2>1, StreamConstantsOK
<1>3. published' = published => Accounted(q, n)
  BY DEF AccountInv
<1>4. CASE \E status \in Statuses : Publish(status)
  <2>1. PICK status \in Statuses : Publish(status)
    BY <1>4
  <2>2. /\ Len(published') = Len(published) + 1
        /\ UNCHANGED <<items, got, queueOf, heard, forwarder>>
    BY <2>1, AppendType DEF Publish, TypeOK
  <2>3. \A s \in Streams : inbox'[s] = IF forwarder[s] = "listening"
                                       THEN Append(inbox[s], Len(published) + 1)
                                       ELSE inbox[s]
    BY <2>1 DEF Publish
  <2>4. Received(q, n)' = Received(q, n) /\ Subscribed(q, n)' = Subscribed(q, n)
    BY <2>2 DEF Received, Subscribed
  <2>5. Len(published) + 1 \in Messages
    BY <1>2, <2>1, StreamConstantsOK DEF Publish, Messages
  <2>6. CASE n \in 1..Len(published)
    <3>1. Accounted(q, n) /\ Len(published) + 1 # n
      BY <1>2, <2>6 DEF AccountInv
    <3>2. \A s \in Streams : Copies(Append(inbox[s], Len(published) + 1), n) = Copies(inbox[s], n)
      <4> DEFINE m == Len(published) + 1
      <4>1. m \in Messages /\ m # n
        BY <2>5, <3>1
      <4>2. \A s \in Streams : inbox[s] \in Seq(Messages)
        BY DEF TypeOK
      <4> HIDE DEF m
      <4>3. \A s \in Streams : Copies(Append(inbox[s], m), n) = Copies(inbox[s], n) \cup {}
        BY <4>1, <4>2, CopiesAppend
      <4> QED BY <4>3 DEF m
    <3>3. Waiting(q, n)' \subseteq Waiting(q, n)
      BY <2>2, <2>3, <3>2 DEF Waiting
    <3> QED BY <1>1, <2>2, <2>4, <3>1, <3>3, StillAccounted
  <2>7. CASE n = Len(published) + 1
    <3>1. \A s \in Streams : Copies(items[s], n) = {} /\ Copies(got[s], n) = {}
      <4>1. \A s \in Streams : /\ Bounded(items[s], Len(published))
                               /\ Bounded(got[s], Len(published))
        BY DEF Past
      <4>2. ~(n <= Len(published))
        BY <1>2, <2>7
      <4> QED BY <4>1, <4>2 DEF Bounded, Copies
    <3>2. Received(q, n)' = {} /\ Copies(items'[q], n) = {}
      BY <2>2, <3>1 DEF Received
    <3>3. Waiting(q, n)' \subseteq Subscribed(q, n)
      <4>1. ASSUME NEW s \in Streams, forwarder[s] = "listening"
            PROVE  heard[s] < n
        <5>1. heard[s] + Len(inbox[s]) <= Len(published)
          BY <4>1 DEF Connected, Latest
        <5>2. heard[s] \in Nat /\ Len(inbox[s]) \in Nat
          BY LenProperties DEF TypeOK
        <5> QED BY <1>2, <2>7, <5>1, <5>2
      <4>2. ASSUME NEW s \in Streams, forwarder[s] # "listening"
            PROVE  Copies(inbox'[s], n) = {}
        BY <2>3, <4>2, EmptySeq DEF Connected, Copies
      <4> QED BY <2>2, <4>1, <4>2 DEF Waiting, Subscribed
    <3>4. Cardinality(Waiting(q, n)') <= Cardinality(Subscribed(q, n))
      BY <3>3, CountsType, FS_Subset
    <3>5. Cardinality({}) = 0
      BY FS_EmptySet
    <3>6. Waiting(q, n)' \in SUBSET Streams
      BY DEF Waiting
    <3>7. Cardinality(Waiting(q, n)') \in Nat
      BY <3>6, StreamsFinite
    <3>8. 0 + 0 + Cardinality(Waiting(q, n)') <= Cardinality(Subscribed(q, n))
      BY <3>4, <3>7
    <3> QED BY <2>4, <3>2, <3>5, <3>8 DEF Accounted
  <2> QED BY <1>2, <2>2, <2>6, <2>7
<1>5. ASSUME NEW s \in Streams, Open(s)
      PROVE  Accounted(q, n)'
  <2>1. /\ queueOf[s] = None /\ got[s] = <<>> /\ inbox[s] = <<>>
        /\ \A u \in Streams \ {s} : queueOf'[u] = queueOf[u]
        /\ UNCHANGED <<published, items, got, inbox, heard>>
    BY <1>5 DEF Open, Opened, Connected, TypeOK
  <2>2. Copies(got[s], n) = {} /\ Copies(inbox[s], n) = {}
    BY <2>1, EmptySeq DEF Copies
  <2>3. q # None
    BY StreamConstantsOK
  <2>4. Received(q, n)' = Received(q, n)
    <3>1. \A p : p \in Received(q, n)' <=>
                   \E u \in Streams : queueOf'[u] = q /\ p \in {u} \X Copies(got[u], n)
      BY <2>1 DEF Received
    <3>2. \A p : p \in Received(q, n) <=>
                   \E u \in Streams : queueOf[u] = q /\ p \in {u} \X Copies(got[u], n)
      BY DEF Received
    <3>3. \A p : p \notin {s} \X Copies(got[s], n)
      BY <2>2
    <3>4. ASSUME NEW p PROVE p \in Received(q, n)' <=> p \in Received(q, n)
      BY <2>1, <3>1, <3>2, <3>3
    <3> QED BY <3>4
  <2>5. Waiting(q, n)' \subseteq Waiting(q, n) /\ Subscribed(q, n) \subseteq Subscribed(q, n)'
    BY <2>1, <2>2, <2>3 DEF Waiting, Subscribed
  <2> QED BY <1>1, <1>3, <2>1, <2>4, <2>5, StillAccounted
<1>6. ASSUME NEW s \in Streams, Listen(s)
      PROVE  Accounted(q, n)'
  <2>1. /\ UNCHANGED <<published, items, got, inbox, queueOf>>
        /\ \A u \in Streams \ {s} : heard'[u] = heard[u]
        /\ heard[s] = MaxPublished
    BY <1>6 DEF Listen, Past, TypeOK
  <2>2. ~(heard[s] < n)
    BY <1>2, <2>1, StreamConstantsOK
  <2>3. Received(q, n)' = Received(q, n) /\ Waiting(q, n)' = Waiting(q, n)
    BY <2>1 DEF Received, Waiting
  <2>4. Subscribed(q, n) \subseteq Subscribed(q, n)'
    BY <2>1, <2>2 DEF Subscribed
  <2> QED BY <1>1, <1>3, <2>1, <2>3, <2>4, StillAccounted
<1>7. ASSUME NEW s \in Streams, Forward(s)
      PROVE  Accounted(q, n)'
  BY <1>1, <1>3, <1>7, ForwardMoves DEF Forward
<1>8. ASSUME NEW s \in Streams, Yield(s)
      PROVE  Accounted(q, n)'
  BY <1>1, <1>3, <1>8, YieldMoves DEF Yield
<1>9. ASSUME NEW s \in Streams, Break(s) \/ Close(s)
      PROVE  Accounted(q, n)'
  <2>1. /\ UNCHANGED <<published, items, got, queueOf, heard>>
        /\ inbox'[s] = <<>> /\ \A u \in Streams \ {s} : inbox'[u] = inbox[u]
    BY <1>9 DEF Break, Close, TypeOK
  <2>2. Copies(inbox'[s], n) = {}
    BY <2>1, EmptySeq DEF Copies
  <2>3. /\ Received(q, n)' = Received(q, n) /\ Subscribed(q, n)' = Subscribed(q, n)
        /\ Waiting(q, n)' \subseteq Waiting(q, n)
    BY <2>1, <2>2 DEF Received, Subscribed, Waiting
  <2> QED BY <1>1, <1>3, <2>1, <2>3, StillAccounted
<1>10. CASE UNCHANGED <<published, items, got, inbox, queueOf, heard>>
  <2>1. /\ Received(q, n)' = Received(q, n) /\ Subscribed(q, n)' = Subscribed(q, n)
        /\ Waiting(q, n)' = Waiting(q, n)
    BY <1>10 DEF Received, Subscribed, Waiting
  <2> QED BY <1>1, <1>3, <1>10, <2>1, StillAccounted
<1> QED
  BY <1>4, <1>5, <1>6, <1>7, <1>8, <1>9, <1>10 DEF Next, Disconnect, Purge, vars

\* Streams that share a queue find no more copies of a message in it than there were
\* subscribed streams to put one there, whatever breaks, closes or is purged.
THEOREM CopiesAreAlwaysAccounted == Spec => []CopiesAreAccounted
<1>1. Init => StreamInv /\ Past /\ AccountInv
  <2> SUFFICES ASSUME Init PROVE StreamInv /\ Past /\ AccountInv
    OBVIOUS
  <2>1. Len(<<>>) = 0
    BY EmptySeq
  <2>2. Past
    BY <2>1 DEF Init, Past, Bounded
  <2>3. AccountInv
    BY <2>1 DEF Init, AccountInv
  <2> QED BY <2>2, <2>3, StreamInit
<1>2. StreamInv /\ Past /\ AccountInv /\ [Next]_vars => (StreamInv /\ Past /\ AccountInv)'
  BY StreamNext, PastNext, AccountNext
<1>3. StreamInv /\ AccountInv => CopiesAreAccounted
  <2> SUFFICES ASSUME StreamInv, NEW q \in Streams, NEW n \in 1..Len(published), Accounted(q, n)
               PROVE  Cardinality(Copies(items[q], n)) + Cardinality(Received(q, n))
                        <= Cardinality(Subscribed(q, n))
    BY DEF AccountInv, CopiesAreAccounted, Subscribed
  <2>1. /\ Cardinality(Copies(items[q], n)) \in Nat /\ Cardinality(Received(q, n)) \in Nat
        /\ Cardinality(Waiting(q, n)) \in Nat /\ Cardinality(Subscribed(q, n)) \in Nat
    BY CountsType DEF StreamInv
  <2> QED BY <2>1 DEF Accounted
<1> QED BY <1>1, <1>2, <1>3, PTL DEF Spec
=============================================================================
