------------------------- MODULE AsyncWriterProofs -------------------------
(***************************************************************************)
(* For any number of callers, batch limits, stops and restarts: the types, *)
(* the order of the entries, and what holds when a stop call has returned. *)
(* The inductive invariant adds that the writer holds a batch only while   *)
(* it writes, and what the owner knows of the two threads at each point of *)
(* a stop call: without it a connect() might follow the last disconnect(). *)
(***************************************************************************)
EXTENDS AsyncWriter, BulkOpsProofs

-----------------------------------------------------------------------------
(* Sequences *)

\* Concatenation under a name: the provers open up \o wherever they see it, and
\* then find no instance of a lemma about three or four sequences.
Cat(s, t) == s \o t

\* Numbering goes on where it ended: the entries of two calls are one series.
LEMMA NumbersContinue ==
  ASSUME NEW a \in Nat, NEW n \in Nat
  PROVE  /\ NumbersFrom(a, n) \in Seq(Nat)
         /\ Cat(NumbersFrom(0, a), NumbersFrom(a, n)) = NumbersFrom(0, a + n)
<1>1. \A b, m \in Nat : NumbersFrom(b, m) \in Seq(Nat) /\ Len(NumbersFrom(b, m)) = m
  BY DEF NumbersFrom
<1>2. \A b, m \in Nat : \A i \in 1..m : NumbersFrom(b, m)[i] = b + i
  BY DEF NumbersFrom
<1> DEFINE x == NumbersFrom(0, a)
           y == NumbersFrom(a, n)
           r == NumbersFrom(0, a + n)
<1>3. /\ x \in Seq(Nat) /\ Len(x) = a /\ \A i \in 1..a : x[i] = i
      /\ y \in Seq(Nat) /\ Len(y) = n /\ \A i \in 1..n : y[i] = a + i
      /\ r \in Seq(Nat) /\ Len(r) = a + n /\ \A i \in 1..(a + n) : r[i] = i
  <2>1. 0 \in Nat /\ a + n \in Nat
    OBVIOUS
  <2>2. x \in Seq(Nat) /\ Len(x) = a /\ \A i \in 1..a : x[i] = 0 + i
    BY <1>1, <1>2, <2>1
  <2>3. y \in Seq(Nat) /\ Len(y) = n /\ \A i \in 1..n : y[i] = a + i
    BY <1>1, <1>2
  <2>4. r \in Seq(Nat) /\ Len(r) = a + n /\ \A i \in 1..(a + n) : r[i] = 0 + i
    BY <1>1, <1>2, <2>1
  <2> HIDE DEF x, y, r
  <2> QED BY <2>2, <2>3, <2>4
<1> HIDE DEF x, y, r
<1>4. /\ x \o y \in Seq(Nat) /\ Len(x \o y) = a + n
      /\ \A i \in 1..(a + n) : (x \o y)[i] = IF i <= a THEN x[i] ELSE y[i - a]
  BY <1>3, ConcatProperties
<1>5. ASSUME NEW i \in 1..(a + n) PROVE (x \o y)[i] = r[i]
  <2>1. CASE i <= a
    <3>1. i \in 1..a
      BY <2>1
    <3> QED BY <1>3, <1>4, <2>1, <3>1
  <2>2. CASE ~ (i <= a)
    <3>1. i - a \in 1..n
      BY <2>2
    <3>2. y[i - a] = a + (i - a)
      BY <1>3, <3>1
    <3>3. y[i - a] = i
      BY <3>2
    <3> QED BY <1>3, <1>4, <2>2, <3>3
  <2> QED BY <2>1, <2>2
<1>6. x \o y = r
  BY <1>3, <1>4, <1>5, SeqEqual
<1> QED BY <1>3, <1>6 DEF x, y, r, Cat

\* An entry at the tail of the queue is at the tail of the whole line.
LEMMA LineGrows ==
  ASSUME NEW w \in Seq(Nat), NEW b \in Seq(Nat), NEW q \in Seq(Nat), NEW n \in Seq(Nat)
  PROVE  /\ Cat(q, n) \in Seq(Nat)
         /\ Line(w, b, Cat(q, n)) = Cat(Line(w, b, q), n)
<1> DEFINE s == w \o b
<1>1. s \in Seq(Nat)
  BY ConcatProperties
<1> HIDE DEF s
<1>2. (s \o q) \o n = s \o (q \o n)
  BY <1>1, ConcatAssociative
<1>3. q \o n \in Seq(Nat)
  BY ConcatProperties
<1> QED BY <1>2, <1>3 DEF s, Line, Cat

LEMMA PushContinues ==
  ASSUME NEW w \in Seq(Nat), NEW b \in Seq(Nat), NEW q \in Seq(Nat),
         NEW a \in Nat, NEW m \in Nat, Line(w, b, q) = NumbersFrom(0, a)
  PROVE  /\ Cat(q, NumbersFrom(a, m)) \in Seq(Nat)
         /\ Line(w, b, Cat(q, NumbersFrom(a, m))) = NumbersFrom(0, a + m)
<1> DEFINE n == NumbersFrom(a, m)
<1>1. n \in Seq(Nat) /\ Cat(NumbersFrom(0, a), n) = NumbersFrom(0, a + m)
  BY NumbersContinue
<1> HIDE DEF n
<1>2. Cat(q, n) \in Seq(Nat) /\ Line(w, b, Cat(q, n)) = Cat(Line(w, b, q), n)
  BY <1>1, LineGrows
<1>3. Cat(q, n) \in Seq(Nat) /\ Line(w, b, Cat(q, n)) = NumbersFrom(0, a + m)
  BY <1>1, <1>2
<1> QED BY <1>3 DEF n

\* Writing the first entry of a batch moves it from one part to the next.
LEMMA WriteKeepsLine ==
  ASSUME NEW w \in Seq(Nat), NEW b \in Seq(Nat), NEW q \in Seq(Nat), b # <<>>
  PROVE  /\ Append(w, Head(b)) \in Seq(Nat) /\ Tail(b) \in Seq(Nat)
         /\ Line(Append(w, Head(b)), Tail(b), q) = Line(w, b, q)
<1>1. Head(b) \in Nat /\ Tail(b) \in Seq(Nat) /\ b = <<Head(b)>> \o Tail(b)
  <2>1. Head(b) \in Nat /\ Tail(b) \in Seq(Nat)
    BY HeadTailProperties
  <2>2. b = <<Head(b)>> \o Tail(b)
    <3>1. Len(b) \in Nat \ {0} /\ b \in [1..Len(b) -> Nat]
      BY EmptySeq, LenProperties
    <3>2. 1 \in 1..Len(b) /\ Len(b) \in 1..Len(b)
      BY <3>1
    <3>3. SubSeq(b, 1, Len(b)) = <<b[1]>> \o SubSeq(b, 1 + 1, Len(b))
      BY <3>2, SubSeqRecursiveFirst
    <3>4. Head(b) = b[1] /\ Tail(b) = SubSeq(b, 2, Len(b))
      BY TailIsSubSeq, HeadTailProperties
    <3> QED BY <3>3, <3>4, SubSeqFull
  <2> QED BY <2>1, <2>2
<1>2. Append(w, Head(b)) = w \o <<Head(b)>> /\ Append(w, Head(b)) \in Seq(Nat)
  BY <1>1, AppendIsConcat, AppendProperties
<1>3. (w \o <<Head(b)>>) \o Tail(b) = w \o (<<Head(b)>> \o Tail(b))
  <2>1. <<Head(b)>> \in Seq(Nat)
    BY <1>1
  <2> QED BY <1>1, <2>1, ConcatAssociative
<1> QED BY <1>1, <1>2, <1>3 DEF Line

\* Taking a batch cuts the queue in two, and the writer held nothing before.
LEMMA TakeKeepsLine ==
  ASSUME NEW w \in Seq(Nat), NEW b \in Seq(Nat), NEW q \in Seq(Nat)
  PROVE  Line(w, b, q) = Line(w, <<>>, Cat(b, q))
<1>1. w \o <<>> = w /\ (w \o b) \o q = w \o (b \o q)
  BY ConcatEmptySeq, ConcatAssociative
<1> QED BY <1>1 DEF Line, Cat

-----------------------------------------------------------------------------
(* The inductive invariant *)

BatchHeld == writer # "write" => \A k \in Queues : batch[k] = <<>>

OwnerKnows ==
  /\ client = "clickhouse" => reconnector = "none"
  /\ owner = "join reconnector" => writer = "none" /\ client = "mqtt"
  /\ owner = "stopped" =>
       writer = "none" /\ reconnector = "none" /\ (client = "mqtt" => ~ connected)

IInv == TypeOK /\ EntriesInOrder /\ BatchHeld /\ OwnerKnows

LEMMA InitIInv == Init => IInv
<1> SUFFICES ASSUME Init PROVE IInv
  OBVIOUS
<1>1. <<>> \in Seq(Nat)
  BY EmptySeq
<1>2. TypeOK
  BY <1>1 DEF Init, TypeOK, Queues
<1>3. EntriesInOrder
  <2>1. NumbersFrom(0, 0) = <<>>
    BY DEF NumbersFrom
  <2>2. <<>> \o <<>> \o <<>> = <<>>
    BY <1>1, ConcatEmptySeq
  <2> QED BY <2>1, <2>2 DEF Init, EntriesInOrder, Line
<1>4. BatchHeld /\ OwnerKnows
  BY DEF Init, BatchHeld, OwnerKnows
<1> QED BY <1>2, <1>3, <1>4 DEF IInv

\* Steps that leave every entry where it is.
LEMMA NoEntryMoves ==
  ASSUME EntriesInOrder, UNCHANGED entryVars
  PROVE  EntriesInOrder'
BY DEF EntriesInOrder, entryVars

\* Steps of the threads leave these alone.
LEMMA RestTyped ==
  ASSUME TypeOK, UNCHANGED <<client, sharedVars, entryVars, owner, reconnector, historyVars>>,
         caller' \in [Callers -> {"idle", "push", "notify"}],
         writer' \in {"none", "test", "check", "block", "asleep", "write", "exited"}
  PROVE  TypeOK'
<1>1. UNCHANGED <<client, connected, running, should_reconnect, owner, reconnector, starts, missed>>
  BY DEF sharedVars, historyVars
<1>2. UNCHANGED <<queue, accepted, batch, written>>
  BY DEF entryVars
<1> QED BY <1>1, <1>2 DEF TypeOK

LEMMA CallerKeepsIInv ==
  ASSUME IInv, NEW c \in Callers, CallerStep(c)
  PROVE  IInv'
<1> USE DEF IInv, sharedVars, entryVars, threadVars, historyVars
<1>1. CASE BeginInsert(c)
  BY <1>1, NoEntryMoves DEF BeginInsert, TypeOK, BatchHeld, OwnerKnows
<1>2. CASE NotifyOne(c)
  <2>1. writer' \in {writer, "check"} /\ (writer' # writer => writer = "asleep")
    BY <1>2 DEF NotifyOne, Woken
  <2>2. TypeOK'
    <3>1. caller' \in [Callers -> {"idle", "push", "notify"}]
      BY <1>2 DEF NotifyOne, TypeOK
    <3>2. writer' \in {"none", "test", "check", "block", "asleep", "write", "exited"}
      BY <2>1 DEF TypeOK
    <3>3. UNCHANGED <<client, sharedVars, entryVars, owner, reconnector, historyVars>>
      BY <1>2 DEF NotifyOne
    <3> QED BY <3>1, <3>2, <3>3, RestTyped
  <2>3. BatchHeld' /\ OwnerKnows'
    BY <1>2, <2>1 DEF NotifyOne, BatchHeld, OwnerKnows
  <2> QED BY <1>2, <2>2, <2>3, NoEntryMoves DEF NotifyOne
<1>3. ASSUME NEW k \in QueuesOf(client), NEW n \in InsertSizes(k), Push(c, k, n)
      PROVE  IInv'
  <2>1. k \in Queues /\ n \in Nat
    BY DEF QueuesOf, InsertSizes, Queues
  <2>2. accepted[k] \in Nat /\ queue[k] \in Seq(Nat) /\ batch[k] \in Seq(Nat) /\ written[k] \in Seq(Nat)
    BY <2>1 DEF TypeOK
  <2> DEFINE new == Cat(queue[k], NumbersFrom(accepted[k], n))
  <2>3. Line(written[k], batch[k], queue[k]) = NumbersFrom(0, accepted[k])
    BY <2>1 DEF EntriesInOrder
  <2>4. new \in Seq(Nat) /\ Line(written[k], batch[k], new) = NumbersFrom(0, accepted[k] + n)
    BY <2>1, <2>2, <2>3, PushContinues
  <2>5. /\ queue' = [queue EXCEPT ![k] = new]
        /\ accepted' = [accepted EXCEPT ![k] = @ + n]
        /\ batch' = batch /\ written' = written
    BY <1>3 DEF Push, Cat
  <2> HIDE DEF new
  <2>6. TypeOK'
    <3>1. queue \in [Queues -> Seq(Nat)] /\ accepted \in [Queues -> Nat]
      BY DEF TypeOK
    <3>2. queue' \in [Queues -> Seq(Nat)]
      BY <2>1, <2>4, <2>5, <3>1
    <3>3. accepted[k] + n \in Nat
      BY <2>1, <2>2
    <3>4. accepted' \in [Queues -> Nat]
      BY <2>1, <2>5, <3>1, <3>3
    <3>5. caller' \in [Callers -> {"idle", "push", "notify"}]
      BY <1>3 DEF Push, TypeOK
    <3>6. batch' \in [Queues -> Seq(Nat)] /\ written' \in [Queues -> Seq(Nat)]
      BY <2>5 DEF TypeOK
    <3>7. UNCHANGED <<client, sharedVars, owner, writer, reconnector, historyVars>>
      BY <1>3 DEF Push
    <3>8. /\ client' \in {"clickhouse", "mqtt"}
          /\ connected' \in BOOLEAN /\ running' \in BOOLEAN /\ should_reconnect' \in BOOLEAN
          /\ starts' \in Nat /\ missed' \in BOOLEAN
      BY <3>7 DEF TypeOK
    <3>9. UNCHANGED <<owner, writer, reconnector>>
      BY <3>7
    <3> QED BY <3>2, <3>4, <3>5, <3>6, <3>8, <3>9 DEF TypeOK
  <2>7. EntriesInOrder'
    <3> SUFFICES ASSUME NEW j \in Queues
                 PROVE  Line(written[j], batch[j], queue'[j]) = NumbersFrom(0, accepted'[j])
      BY <2>5 DEF EntriesInOrder
    <3>1. CASE j # k
      BY <2>5, <3>1 DEF EntriesInOrder, TypeOK
    <3>2. CASE j = k
      <4>1. queue'[k] = new /\ accepted'[k] = accepted[k] + n
        BY <2>1, <2>5 DEF TypeOK
      <4> QED BY <2>4, <3>2, <4>1
    <3> QED BY <3>1, <3>2
  <2>8. BatchHeld' /\ OwnerKnows'
    BY <1>3 DEF Push, BatchHeld, OwnerKnows
  <2> QED BY <2>6, <2>7, <2>8
<1> QED BY <1>1, <1>2, <1>3 DEF CallerStep

\* Steps of the writer that move no entry.
LEMMA WriterWaits ==
  ASSUME IInv, TestRunning \/ DecideToWait \/ Sleep \/ SpuriousWake \/ Leave
  PROVE  IInv'
<1> USE DEF IInv
<1>1. /\ UNCHANGED <<client, sharedVars, entryVars, caller, owner, reconnector, historyVars>>
      /\ writer \in {"test", "check", "block", "asleep"}
      /\ writer' \in {"check", "block", "asleep", "exited"}
  BY DEF TestRunning, DecideToWait, Sleep, SpuriousWake, Leave
<1>2. TypeOK'
  BY <1>1, RestTyped DEF TypeOK
<1>3. BatchHeld' /\ OwnerKnows'
  BY <1>1 DEF BatchHeld, OwnerKnows, sharedVars, entryVars
<1> QED BY <1>1, <1>2, <1>3, NoEntryMoves

\* The writer held nothing, so what it takes follows what it has written.
LEMMA TakeBatchKeepsIInv ==
  ASSUME IInv, TakeBatch
  PROVE  IInv'
<1> USE DEF IInv
<1>1. ASSUME NEW k \in Queues
      PROVE  /\ batch'[k] \in Seq(Nat) /\ queue'[k] \in Seq(Nat)
             /\ Line(written[k], batch'[k], queue'[k]) = Line(written[k], batch[k], queue[k])
  <2>1. /\ batch'[k] = BulkOf(queue[k], Limit[k]) /\ queue'[k] = BulkRest(queue[k], Limit[k])
        /\ batch[k] = <<>>
    BY DEF TakeBatch, BatchHeld
  <2>2. queue[k] \in Seq(Nat) /\ written[k] \in Seq(Nat) /\ Limit[k] \in Nat
    BY WriterAssumption DEF TypeOK, WriterAssumption
  <2>3. /\ BulkOf(queue[k], Limit[k]) \in Seq(Nat) /\ BulkRest(queue[k], Limit[k]) \in Seq(Nat)
        /\ BulkOf(queue[k], Limit[k]) \o BulkRest(queue[k], Limit[k]) = queue[k]
    BY <2>2, BulkSplits
  <2>4. batch'[k] \in Seq(Nat) /\ queue'[k] \in Seq(Nat) /\ Cat(batch'[k], queue'[k]) = queue[k]
    BY <2>1, <2>3 DEF Cat
  <2> QED BY <2>1, <2>2, <2>4, TakeKeepsLine
<1>2. EntriesInOrder'
  BY <1>1 DEF TakeBatch, EntriesInOrder
<1>3. batch' \in [Queues -> Seq(Nat)] /\ queue' \in [Queues -> Seq(Nat)]
  <2>1. /\ batch' = [k \in Queues |-> BulkOf(queue[k], Limit[k])]
        /\ queue' = [k \in Queues |-> BulkRest(queue[k], Limit[k])]
    BY DEF TakeBatch
  <2>2. /\ batch' = [k \in Queues |-> batch'[k]] /\ queue' = [k \in Queues |-> queue'[k]]
    BY <2>1
  <2> QED BY <1>1, <2>2
<1>4. TypeOK'
  <2>1. UNCHANGED <<client, connected, running, should_reconnect, accepted, written, caller,
                    owner, reconnector, starts, missed>> /\ writer' = "write"
    BY DEF TakeBatch, sharedVars, historyVars
  <2> QED BY <1>3, <2>1 DEF TypeOK
<1>5. BatchHeld' /\ OwnerKnows'
  BY DEF TakeBatch, BatchHeld, OwnerKnows, sharedVars
<1> QED BY <1>2, <1>4, <1>5

LEMMA WriteKeepsIInv ==
  ASSUME IInv, NEW k \in Queues, Write(k)
  PROVE  IInv'
<1> USE DEF IInv
<1>1. batch[k] \in Seq(Nat) /\ queue[k] \in Seq(Nat) /\ written[k] \in Seq(Nat) /\ batch[k] # <<>>
  BY DEF Write, TypeOK
<1> DEFINE w == Append(written[k], Head(batch[k]))
           b == Tail(batch[k])
<1>2. /\ w \in Seq(Nat) /\ b \in Seq(Nat)
      /\ Line(w, b, queue[k]) = Line(written[k], batch[k], queue[k])
  BY <1>1, WriteKeepsLine
<1>3. /\ written' = [written EXCEPT ![k] = w] /\ batch' = [batch EXCEPT ![k] = b]
      /\ writer = "write"
      /\ UNCHANGED <<client, sharedVars, queue, accepted, threadVars, historyVars>>
  BY DEF Write
<1> HIDE DEF w, b
<1>4. written' \in [Queues -> Seq(Nat)] /\ batch' \in [Queues -> Seq(Nat)]
  BY <1>2, <1>3 DEF TypeOK
<1>5. TypeOK'
  <2>1. UNCHANGED <<client, connected, running, should_reconnect, queue, accepted, caller,
                    owner, writer, reconnector, starts, missed>>
    BY <1>3 DEF sharedVars, threadVars, historyVars
  <2>2. /\ client' \in {"clickhouse", "mqtt"}
        /\ connected' \in BOOLEAN /\ running' \in BOOLEAN /\ should_reconnect' \in BOOLEAN
        /\ starts' \in Nat /\ missed' \in BOOLEAN
    BY <2>1 DEF TypeOK
  <2>3. UNCHANGED <<queue, accepted, caller, owner, writer, reconnector>>
    BY <2>1
  <2> QED BY <1>4, <2>2, <2>3 DEF TypeOK
<1>6. EntriesInOrder'
  <2> SUFFICES ASSUME NEW j \in Queues
               PROVE  Line(written'[j], batch'[j], queue[j]) = NumbersFrom(0, accepted[j])
    BY <1>3 DEF EntriesInOrder
  <2>1. CASE j # k
    BY <1>3, <2>1 DEF EntriesInOrder, TypeOK
  <2>2. CASE j = k
    BY <1>2, <1>3, <2>2 DEF EntriesInOrder, TypeOK
  <2> QED BY <2>1, <2>2
<1>7. BatchHeld' /\ OwnerKnows'
  BY <1>3 DEF BatchHeld, OwnerKnows, sharedVars, threadVars
<1> QED BY <1>5, <1>6, <1>7

LEMMA EndBatchKeepsIInv ==
  ASSUME IInv, EndBatch
  PROVE  IInv'
<1> USE DEF IInv
<1>1. /\ UNCHANGED <<client, sharedVars, entryVars, caller, owner, reconnector, historyVars>>
      /\ writer = "write" /\ writer' = "test" /\ \A k \in Queues : batch[k] = <<>>
  BY DEF EndBatch
<1>2. TypeOK'
  BY <1>1, RestTyped DEF TypeOK
<1>3. BatchHeld' /\ OwnerKnows'
  BY <1>1 DEF BatchHeld, OwnerKnows, sharedVars, entryVars
<1> QED BY <1>1, <1>2, <1>3, NoEntryMoves

\* The second thread connects only while it lives.
LEMMA ReconnectorKeepsIInv ==
  ASSUME IInv, ReconnectorStep
  PROVE  IInv'
<1> USE DEF IInv
<1>1. /\ UNCHANGED <<client, running, should_reconnect, entryVars, caller, owner, writer, historyVars>>
      /\ connected' \in BOOLEAN /\ reconnector # "none"
      /\ reconnector' \in {"test", "look", "wait", "pause", "exited"}
  BY DEF ReconnectorStep, ReconnectorTest, ReconnectorLook, Reconnect, ReconnectorPause,
         sharedVars, TypeOK
<1>2. TypeOK'
  BY <1>1 DEF TypeOK, entryVars, historyVars
<1>3. BatchHeld' /\ OwnerKnows'
  BY <1>1 DEF BatchHeld, OwnerKnows, entryVars
<1> QED BY <1>1, <1>2, <1>3, NoEntryMoves

LEMMA OwnerKeepsIInv ==
  ASSUME IInv, Connect \/ Disconnect \/ Start \/ Stop \/ OwnerStep
  PROVE  IInv'
<1> USE DEF IInv
<1>1. UNCHANGED <<client, entryVars, caller>>
  BY DEF Connect, Disconnect, Start, Stop, OwnerStep, ForbidReconnect, NotifyAll, JoinWriter,
         JoinReconnector, entryVars, threadVars
<1>2. TypeOK'
  <2>1. /\ connected' \in BOOLEAN /\ running' \in BOOLEAN /\ should_reconnect' \in BOOLEAN
    BY DEF Connect, Disconnect, Start, Stop, OwnerStep, ForbidReconnect, NotifyAll, JoinWriter,
           JoinReconnector, TypeOK, sharedVars
  <2>3. starts' \in Nat /\ missed' \in BOOLEAN
    <3>1. starts' \in {starts, starts + 1}
      BY DEF Connect, Disconnect, Start, Stop, OwnerStep, ForbidReconnect, NotifyAll,
             JoinWriter, JoinReconnector, historyVars
    <3>2. missed' \in {missed, FALSE, writer = "block"}
      BY DEF Connect, Disconnect, Start, Stop, OwnerStep, ForbidReconnect, NotifyAll,
             JoinWriter, JoinReconnector, historyVars
    <3>3. starts' \in Nat
      <4>1. starts \in Nat
        BY DEF TypeOK
      <4>2. \A n \in Nat : n + 1 \in Nat
        OBVIOUS
      <4> HIDE DEF IInv
      <4> QED BY <3>1, <4>1, <4>2
    <3>4. missed' \in BOOLEAN
      <4>1. missed \in BOOLEAN
        BY DEF TypeOK
      <4> QED BY <3>2, <4>1, Zenon
    <3> QED BY <3>3, <3>4
  <2>2. /\ owner' \in {"idle", "stopped", "forbid", "notify", "join", "join reconnector"}
        /\ writer' \in {"none", "test", "check", "block", "asleep", "write", "exited"}
        /\ reconnector' \in {"none", "test", "look", "wait", "pause", "exited"}
    BY DEF Connect, Disconnect, Start, Stop, OwnerStep, ForbidReconnect, NotifyAll, JoinWriter,
           JoinReconnector, Woken, TypeOK, threadVars
  <2> QED BY <1>1, <2>1, <2>2, <2>3 DEF TypeOK, entryVars
<1>3. BatchHeld'
  <2>1. writer' \in {writer, "check", "none", "test"}
        /\ (writer' # writer => writer \in {"none", "exited", "asleep"})
    BY DEF Connect, Disconnect, Start, Stop, OwnerStep, ForbidReconnect, NotifyAll, JoinWriter,
           JoinReconnector, Woken, threadVars
  <2> QED BY <1>1, <2>1 DEF BatchHeld, entryVars
<1>4. OwnerKnows'
  <2>1. CASE Connect \/ Disconnect \/ Start \/ Stop
    BY <2>1 DEF Connect, Disconnect, Start, Stop, OwnerFree, OwnerKnows, TypeOK, threadVars
  <2>2. CASE OwnerStep
    BY <2>2 DEF OwnerStep, ForbidReconnect, NotifyAll, JoinWriter, JoinReconnector, Woken,
                OwnerKnows, TypeOK, sharedVars
  <2> QED BY <2>1, <2>2
<1> QED BY <1>1, <1>2, <1>3, <1>4, NoEntryMoves

LEMMA StepKeepsIInv == IInv /\ [Next]_vars => IInv'
<1> SUFFICES ASSUME IInv, [Next]_vars PROVE IInv'
  OBVIOUS
<1>1. ASSUME NEW c \in Callers, CallerStep(c) PROVE IInv'
  BY <1>1, CallerKeepsIInv
<1>2. CASE WriterStep \/ SpuriousWake
  BY <1>2, WriterWaits, TakeBatchKeepsIInv, WriteKeepsIInv, EndBatchKeepsIInv DEF WriterStep
<1>3. CASE ReconnectorStep
  BY <1>3, ReconnectorKeepsIInv
<1>4. CASE Connect \/ Disconnect \/ Start \/ Stop \/ OwnerStep
  BY <1>4, OwnerKeepsIInv
<1>5. CASE UNCHANGED vars
  <2>1. /\ UNCHANGED <<client, sharedVars, entryVars, owner, reconnector, historyVars>>
        /\ UNCHANGED <<caller, writer, connected, batch>>
    BY <1>5 DEF vars, sharedVars, entryVars, threadVars
  <2>2. TypeOK'
    BY <2>1, RestTyped DEF IInv, TypeOK
  <2>3. BatchHeld' /\ OwnerKnows'
    BY <2>1 DEF IInv, BatchHeld, OwnerKnows
  <2> QED BY <2>1, <2>2, <2>3, NoEntryMoves DEF IInv
<1> QED BY <1>1, <1>2, <1>3, <1>4, <1>5 DEF Next

LEMMA Inductive == Spec => []IInv
<1> QED BY InitIInv, StepKeepsIInv, PTL DEF Spec

-----------------------------------------------------------------------------

\* Every variable keeps its type, whoever calls what and when.
THEOREM TypeCorrect == Spec => []TypeOK
<1>1. IInv => TypeOK
  BY DEF IInv
<1> QED BY <1>1, Inductive, PTL

\* No entry is lost, repeated or moved between the call that accepted it and the
\* database or broker (clickhouse_client.cpp:174-194, mqtt_client.cpp:88-95).
THEOREM EntriesStayInOrder == Spec => []EntriesInOrder
<1>1. IInv => EntriesInOrder
  BY DEF IInv
<1> QED BY <1>1, Inductive, PTL

\* A stop call that has returned leaves no thread, no half-written batch and no
\* connection (clickhouse_client.cpp:156-160, mqtt_client.cpp:74-81).
THEOREM StopIsFinal == Spec => []StoppedMeansSilent
<1>1. IInv => StoppedMeansSilent
  BY DEF IInv, BatchHeld, OwnerKnows, StoppedMeansSilent
<1> QED BY <1>1, Inductive, PTL
=============================================================================
