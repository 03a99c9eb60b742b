---------------------------- MODULE MetricsProofs ----------------------------
(***************************************************************************)
(* For any observers, edges and clients: the types, that no observation is *)
(* lost or counted twice, and that exports never decrease.  The inductive  *)
(* invariant adds to the first two that each printed sum leaves room for   *)
(* what was read (ExportsLag): a running sum grows from one bucket to the  *)
(* next by at most what the bucket holds, in the last export and in the    *)
(* one being printed, and the latter is ahead as far as it goes.           *)
(***************************************************************************)
EXTENDS Metrics, FiniteSetTheorems, SequenceTheorems, TLAPS

USE MetricsAssumption DEF MetricsAssumption

ExportsLag ==
  /\ \A b \in Buckets : scrape.sums[b] - scrape.sums[b - 1] <= buckets[b]
  /\ \A b \in 1..read : text[b] - text[b - 1] <= buckets[b] /\ scrape.sums[b] <= text[b]
  /\ scrape.count <= count
  /\ text[0] = 0 /\ scrape.sums[0] = 0
  /\ ~created => read = 0 /\ text = Zeros /\ scrape.sums = Zeros

IInv == TypeOK /\ BucketsCumulative /\ ExportsLag

\* Edges as numbers, so that the other proofs can leave Buckets folded.
LEMMA BucketsAre ==
  /\ 1 \in Buckets
  /\ \A b \in Buckets : b \in Nat /\ 1 <= b /\ b <= NumEdges + 1
  /\ \A b \in Buckets : b # NumEdges + 1 => b + 1 \in Buckets
  /\ \A r \in 0..NumEdges + 1 : r < NumEdges + 1 => r + 1 \in Buckets
  /\ \A r \in 0..NumEdges + 1 : r \in {0} \cup Buckets
BY DEF Buckets

LEMMA OwedFinite ==
  ASSUME NEW b \in Buckets
  PROVE  /\ IsFiniteSet(Owed(b)) /\ Cardinality(Owed(b)) \in Nat
         /\ \A o \in Observers : observer[o] # "fill" => o \notin Owed(b)
<1>1. Owed(b) \in SUBSET Observers
  BY DEF Owed
<1>2. IsFiniteSet(Owed(b))
  BY <1>1, FS_Subset
<1>3. \A o \in Observers : observer[o] # "fill" => o \notin Owed(b)
  BY DEF Owed
<1> QED BY <1>2, <1>3, FS_CardinalityType

LEMMA InitIInv == Init => IInv
<1> SUFFICES ASSUME Init PROVE IInv
  OBVIOUS
<1> USE DEF Init
<1>1. TypeOK
  <2>1. Zeros \in [{0} \cup Buckets -> Nat]
    BY DEF Zeros
  <2>2. 0 \in 0..MaxObservations /\ 0 \in 0..NumEdges + 1
    OBVIOUS
  <2>3. scrape \in [sums : [{0} \cup Buckets -> Nat], count : Nat]
    BY <2>1
  <2>4. pending \in Seq(Clients)
    BY EmptySeq
  <2> QED BY <2>1, <2>2, <2>3, <2>4, BucketsAre DEF TypeOK
<1>2. BucketsCumulative
  <2>1. \A b \in Buckets : Owed(b) = {}
    BY DEF Owed
  <2>2. Cardinality({}) = 0
    BY FS_EmptySet
  <2>3. ASSUME NEW b \in Buckets PROVE buckets[b] + Cardinality(Owed(b)) = seen[b]
    <3>1. buckets[b] = 0 /\ seen[b] = 0 /\ Cardinality(Owed(b)) = 0
      BY <2>1, <2>2
    <3> QED BY <3>1
  <2> QED BY <2>3 DEF BucketsCumulative
<1>3. ExportsLag
  <2>1. \A b \in Buckets : b \in {0} \cup Buckets /\ b - 1 \in {0} \cup Buckets
    BY DEF Buckets
  <2> QED BY <2>1 DEF ExportsLag, Zeros
<1> QED BY <1>1, <1>2, <1>3 DEF IInv

-----------------------------------------------------------------------------
(* Types *)

LEMMA ObserverTypes ==
  ASSUME TypeOK, NEW o \in Observers, ObserverStep(o)
  PROVE  TypeOK'
<1> USE DEF TypeOK, serverVars, collectVars, histogramVars
<1>1. CASE \E level \in Buckets : BeginObserve(o, level)
  <2>1. begun'[o] \in 0..MaxObservations
    BY <1>1 DEF BeginObserve
  <2>2. begun' \in [Observers -> 0..MaxObservations]
    BY <1>1, <2>1 DEF BeginObserve
  <2>3. value' \in [Observers -> Buckets]
    BY <1>1 DEF BeginObserve
  <2>4. observer' \in [Observers -> {"idle", "find", "fill", "count"}]
    BY <1>1 DEF BeginObserve
  <2> QED BY <1>1, <2>2, <2>3, <2>4 DEF BeginObserve
<1>2. CASE FindState(o)
  <2>1. seen' \in [Buckets -> Nat]
    BY <1>2 DEF FindState
  <2>2. edge' \in [Observers -> Buckets]
    BY <1>2, BucketsAre DEF FindState
  <2> QED BY <1>2, <2>1, <2>2 DEF FindState
<1>3. CASE FillBucket(o)
  <2>1. buckets' \in [Buckets -> Nat]
    BY <1>3 DEF FillBucket
  <2>2. edge' \in [Observers -> Buckets]
    BY <1>3, BucketsAre DEF FillBucket
  <2>3. observer' \in [Observers -> {"idle", "find", "fill", "count"}]
    BY <1>3 DEF FillBucket
  <2> QED BY <1>3, <2>1, <2>2, <2>3 DEF FillBucket
<1>4. CASE AddCount(o)
  BY <1>4 DEF AddCount
<1> QED BY <1>1, <1>2, <1>3, <1>4 DEF ObserverStep

LEMMA ClientTypes ==
  ASSUME TypeOK, NEW c \in Clients, Connect(c) \/ ClientTalks(c)
  PROVE  TypeOK'
<1> USE DEF TypeOK, observerVars, collectVars, histogramVars
<1>1. CASE Connect(c)
  BY <1>1, AppendProperties DEF Connect
<1>2. CASE ClientTalks(c)
  BY <1>2 DEF ClientTalks, Talk
<1> QED BY <1>1, <1>2

LEMMA HttpTypes ==
  ASSUME TypeOK, HttpStep
  PROVE  TypeOK'
<1> USE DEF TypeOK, observerVars, collectVars, histogramVars, serverVars
<1>1. CASE SetUp
  BY <1>1 DEF SetUp
<1>2. CASE TestRunning
  <2>1. http' = "select" \/ http' = "dead"
    BY <1>2 DEF TestRunning
  <2>4. pending' \in Seq(Clients)
    <3>1. pending' = pending \/ pending' = <<>>
      BY <1>2 DEF TestRunning
    <3>2. <<>> \in Seq(Clients)
      BY EmptySeq
    <3> QED BY <3>1, <3>2
  <2>5. http_running' = http_running /\ main' = main /\ current' = current
    BY <1>2 DEF TestRunning
  <2>2. client' \in [Clients -> {"away", "connected", "metrics", "other", "left",
                                "answered", "refused"}]
    BY <1>2 DEF TestRunning
  <2>3. UNCHANGED <<histogramVars, observerVars, collectVars>>
    BY <1>2 DEF TestRunning
  <2> QED BY <2>1, <2>2, <2>3, <2>4, <2>5
<1>3. CASE SelectNothing
  BY <1>3 DEF SelectNothing
<1>4. CASE Accept
  BY <1>4, HeadTailProperties DEF Accept
<1>9. CASE AcceptFails
  BY <1>9, HeadTailProperties DEF AcceptFails
<1>5. CASE Receive
  BY <1>5 DEF Receive
<1>6. CASE ReadBucket
  <2>1. /\ read + 1 \in Buckets /\ read \in {0} \cup Buckets
        /\ read + 1 \in 0..NumEdges + 1
    BY <1>6, BucketsAre DEF ReadBucket
  <2>2. text[read] + buckets[read + 1] \in Nat
    BY <2>1
  <2> QED BY <1>6, <2>1, <2>2 DEF ReadBucket
<1>7. CASE EndCollect
  BY <1>7 DEF EndCollect, Zeros
<1>8. CASE Respond
  BY <1>8 DEF Respond
<1> QED BY <1>1, <1>2, <1>3, <1>4, <1>5, <1>6, <1>7, <1>8, <1>9 DEF HttpStep

LEMMA MainTypes ==
  ASSUME TypeOK, Stop \/ Join
  PROVE  TypeOK'
BY DEF TypeOK, Stop, Join, observerVars, collectVars, histogramVars

LEMMA NextTypes ==
  ASSUME TypeOK, Next
  PROVE  TypeOK'
BY ObserverTypes, ClientTypes, HttpTypes, MainTypes DEF Next

-----------------------------------------------------------------------------
(* Observations are neither lost nor repeated *)

\* Finding the entry makes the observation owed to every bucket that it belongs to.
LEMMA FindOwes ==
  ASSUME TypeOK, BucketsCumulative, NEW o \in Observers, FindState(o)
  PROVE  BucketsCumulative'
<1> SUFFICES ASSUME NEW b \in Buckets
             PROVE  buckets'[b] + Cardinality(Owed(b)') = seen'[b]
  BY DEF BucketsCumulative
<1>1. /\ value[o] \in Nat /\ b \in Nat /\ 1 <= b
      /\ buckets[b] \in Nat /\ seen[b] \in Nat
  BY BucketsAre DEF TypeOK
<1>2. buckets[b] + Cardinality(Owed(b)) = seen[b]
  BY DEF BucketsCumulative
<1>3. o \notin Owed(b) /\ IsFiniteSet(Owed(b)) /\ Cardinality(Owed(b)) \in Nat
  BY OwedFinite DEF FindState
<1>4. CASE value[o] <= b
  <2>1. Owed(b)' = Owed(b) \cup {o}
    BY <1>1, <1>4 DEF FindState, Owed, TypeOK
  <2>2. Cardinality(Owed(b)') = Cardinality(Owed(b)) + 1
    BY <2>1, <1>3, FS_AddElement
  <2>3. seen'[b] = seen[b] + 1 /\ buckets' = buckets
    BY <1>4 DEF FindState
  <2> QED BY <1>1, <1>2, <1>3, <2>2, <2>3
<1>5. CASE ~(value[o] <= b)
  <2>1. Owed(b)' = Owed(b)
    BY <1>1, <1>3, <1>5 DEF FindState, Owed, TypeOK
  <2>2. seen'[b] = seen[b] /\ buckets' = buckets
    BY <1>5 DEF FindState
  <2> QED BY <1>2, <2>1, <2>2
<1> QED BY <1>4, <1>5

\* A turn of the loop pays the bucket at its edge, and no other.
LEMMA FillPays ==
  ASSUME TypeOK, BucketsCumulative, NEW o \in Observers, FillBucket(o)
  PROVE  BucketsCumulative'
<1> SUFFICES ASSUME NEW b \in Buckets
             PROVE  buckets'[b] + Cardinality(Owed(b)') = seen'[b]
  BY DEF BucketsCumulative
<1>1. /\ value[o] \in Nat /\ edge[o] \in Nat /\ edge[o] <= NumEdges + 1
      /\ b \in Nat /\ b <= NumEdges + 1
      /\ buckets[b] \in Nat /\ seen' = seen /\ seen[b] \in Nat
  BY BucketsAre DEF TypeOK, FillBucket
<1>2. buckets[b] + Cardinality(Owed(b)) = seen[b]
  BY DEF BucketsCumulative
<1>3. IsFiniteSet(Owed(b)) /\ Cardinality(Owed(b)) \in Nat
  BY OwedFinite
<1>4. CASE b = edge[o] /\ value[o] <= b
  <2>1. o \in Owed(b)
    BY <1>1, <1>4 DEF FillBucket, Owed
  <2>2. Owed(b)' = Owed(b) \ {o}
    <3>1. ~(observer'[o] = "fill" /\ edge'[o] <= b)
      BY <1>1, <1>4 DEF FillBucket, TypeOK
    <3>2. \A q \in Observers \ {o} : q \in Owed(b)' <=> q \in Owed(b)
      BY DEF FillBucket, Owed, TypeOK
    <3> QED BY <3>1, <3>2 DEF Owed
  <2>3. Cardinality(Owed(b)') = Cardinality(Owed(b)) - 1
    BY <2>1, <2>2, <1>3, FS_RemoveElement
  <2>4. buckets'[b] = buckets[b] + 1
    BY <1>4 DEF FillBucket, TypeOK
  <2> QED BY <1>1, <1>2, <1>3, <2>3, <2>4
<1>5. CASE ~(b = edge[o] /\ value[o] <= b)
  <2>1. buckets'[b] = buckets[b]
    BY <1>1, <1>5 DEF FillBucket, TypeOK
  <2>2. Owed(b)' = Owed(b)
    <3>1. (observer'[o] = "fill" /\ edge'[o] <= b /\ value[o] <= b)
            <=> (edge[o] <= b /\ value[o] <= b)
      <4>1. CASE edge[o] = NumEdges + 1
        <5>1. observer'[o] = "count"
          BY <4>1 DEF FillBucket, TypeOK
        <5>2. edge[o] <= b => b = edge[o]
          BY <4>1, <1>1
        <5> QED BY <5>1, <5>2, <1>5
      <4>2. CASE edge[o] # NumEdges + 1
        <5>1. observer'[o] = "fill" /\ edge'[o] = edge[o] + 1
          BY <4>2 DEF FillBucket, TypeOK
        <5>2. edge[o] + 1 <= b <=> edge[o] <= b /\ b # edge[o]
          BY <1>1
        <5> QED BY <5>1, <5>2, <1>5
      <4> QED BY <4>1, <4>2
    <3>2. o \in Owed(b)' <=> o \in Owed(b)
      BY <3>1 DEF FillBucket, Owed
    <3>3. \A q \in Observers \ {o} : q \in Owed(b)' <=> q \in Owed(b)
      BY DEF FillBucket, Owed, TypeOK
    <3> QED BY <3>2, <3>3 DEF Owed
  <2> QED BY <1>1, <1>2, <2>1, <2>2
<1> QED BY <1>4, <1>5

LEMMA NextCumulative ==
  ASSUME TypeOK, BucketsCumulative, [Next]_vars
  PROVE  BucketsCumulative'
<1> DEFINE Quiet == buckets' = buckets /\ seen' = seen /\ \A b \in Buckets : Owed(b)' = Owed(b)
<1>1. Quiet => BucketsCumulative'
  BY DEF BucketsCumulative
<1>2. UNCHANGED <<histogramVars, observerVars>> => Quiet
  BY DEF histogramVars, observerVars, Owed
<1>3. ASSUME NEW o \in Observers, NEW level \in Buckets, BeginObserve(o, level)
      PROVE  Quiet
  BY <1>3 DEF BeginObserve, Owed, TypeOK, histogramVars
<1>4. ASSUME NEW o \in Observers, AddCount(o)
      PROVE  Quiet
  BY <1>4 DEF AddCount, Owed, TypeOK
<1>5. ASSUME HttpStep PROVE UNCHANGED <<histogramVars, observerVars>>
  BY <1>5 DEF HttpStep, SetUp, TestRunning, SelectNothing, Accept, AcceptFails, Receive,
              ReadBucket, EndCollect, Respond
<1>6. ASSUME NEW c \in Clients, Connect(c) \/ ClientTalks(c)
      PROVE  UNCHANGED <<histogramVars, observerVars>>
  BY <1>6 DEF Connect, ClientTalks, Talk
<1>7. Stop \/ Join => UNCHANGED <<histogramVars, observerVars>>
  BY DEF Stop, Join
<1>8. UNCHANGED vars => UNCHANGED <<histogramVars, observerVars>>
  BY DEF vars
<1> HIDE DEF Quiet
<1>9. ASSUME NEW o \in Observers, ObserverStep(o)
      PROVE  BucketsCumulative'
  BY <1>9, <1>1, <1>3, <1>4, FindOwes, FillPays DEF ObserverStep
<1> QED BY <1>1, <1>2, <1>5, <1>6, <1>7, <1>8, <1>9 DEF Next

-----------------------------------------------------------------------------
(* Exports never decrease *)

\* A collection that reads the next bucket is ahead of the last export there too.
LEMMA ReadLags ==
  ASSUME TypeOK, ExportsLag, ReadBucket
  PROVE  ExportsLag'
<1> DEFINE r == read + 1
<1>1. r \in Buckets /\ read \in Nat /\ read \in {0} \cup Buckets /\ r - 1 = read
  BY BucketsAre DEF ReadBucket, TypeOK
<1>2. /\ read' = r /\ text'[r] = text[read] + buckets[r] /\ created
      /\ UNCHANGED <<created, buckets, count, scrape>>
      /\ \A b \in {0} \cup Buckets : b # r => text'[b] = text[b]
  BY <1>1 DEF ReadBucket, TypeOK, histogramVars
<1>3. text[read] \in Nat /\ buckets[r] \in Nat /\ scrape.sums[r] \in Nat /\ scrape.sums[read] \in Nat
  BY <1>1 DEF TypeOK
<1>4. scrape.sums[read] <= text[read]
  <2>1. CASE read = 0
    BY <2>1 DEF ExportsLag
  <2>2. CASE read # 0
    <3>1. read \in 1..read
      BY <2>2, <1>1
    <3> QED BY <3>1 DEF ExportsLag
  <2> QED BY <2>1, <2>2
<1>5. scrape.sums[r] - scrape.sums[read] <= buckets[r]
  BY <1>1 DEF ExportsLag
<1>6. text'[r] - text'[read] <= buckets[r] /\ scrape.sums[r] <= text'[r]
  <2>1. text'[read] = text[read]
    BY <1>1, <1>2
  <2> QED BY <2>1, <1>2, <1>3, <1>4, <1>5
<1> HIDE DEF r
<1>7. ASSUME NEW b \in 1..read'
      PROVE  text'[b] - text'[b - 1] <= buckets[b] /\ scrape.sums[b] <= text'[b]
  <2>1. CASE b = r
    BY <2>1, <1>1, <1>6
  <2>2. CASE b # r
    <3>1. b \in 1..read /\ b # r /\ b - 1 # r
      BY <2>2, <1>1, <1>2 DEF r
    <3>2. b \in {0} \cup Buckets /\ b - 1 \in {0} \cup Buckets
      BY <3>1, <1>1 DEF Buckets, TypeOK
    <3>3. text'[b] = text[b] /\ text'[b - 1] = text[b - 1]
      BY <3>1, <3>2, <1>2
    <3> QED BY <3>1, <3>3 DEF ExportsLag
  <2> QED BY <2>1, <2>2
<1>8. text'[0] = 0
  BY <1>1, <1>2 DEF ExportsLag, r
<1> QED BY <1>2, <1>7, <1>8 DEF ExportsLag

\* A collection that ends has read every bucket, or found no entry.
LEMMA EndLags ==
  ASSUME TypeOK, ExportsLag, EndCollect
  PROVE  /\ ExportsLag'
         /\ \A b \in Buckets : scrape'.sums[b] >= scrape.sums[b]
         /\ scrape'.count >= scrape.count
<1>1. /\ scrape' = [sums |-> text, count |-> count]
      /\ UNCHANGED <<created, buckets, count>> /\ read' = 0 /\ text' = Zeros
  BY DEF EndCollect, histogramVars
<1>2. text' [0] = 0
  BY <1>1 DEF Zeros
<1>3. CASE created
  <2>1. \A b \in Buckets : b \in 1..read
    BY <1>3, BucketsAre DEF EndCollect, TypeOK
  <2>2. \A b \in Buckets : text[b] - text[b - 1] <= buckets[b] /\ scrape.sums[b] <= text[b]
    BY <2>1 DEF ExportsLag
  <2>3. \A b \in Buckets : scrape.sums[b] \in Nat /\ text[b] \in Nat
    BY DEF TypeOK
  <2>4. scrape.count <= count /\ count \in Nat /\ scrape.count \in Nat
    BY DEF ExportsLag, TypeOK
  <2>5. ExportsLag'
    BY <1>1, <1>2, <1>3, <2>2, <2>4 DEF ExportsLag
  <2> QED BY <1>1, <2>2, <2>3, <2>4, <2>5
<1>4. CASE ~created
  <2>1. text = Zeros /\ scrape.sums = Zeros
    BY <1>4 DEF ExportsLag
  <2>2. \A b \in Buckets : Zeros[b] = 0
    BY DEF Zeros
  <2>3. scrape.count <= count /\ count \in Nat
    BY DEF ExportsLag, TypeOK
  <2>4. scrape'.sums = scrape.sums /\ scrape'.count = count
    BY <1>1, <2>1
  <2>5. ExportsLag'
    BY <1>1, <1>2, <1>4, <2>1, <2>3, <2>4 DEF ExportsLag
  <2> QED BY <2>1, <2>2, <2>3, <2>4, <2>5
<1> QED BY <1>3, <1>4

\* Observers only add.
LEMMA ObserverLags ==
  ASSUME TypeOK, ExportsLag, NEW o \in Observers, ObserverStep(o)
  PROVE  ExportsLag'
<1>1. /\ \A b \in Buckets : buckets'[b] >= buckets[b]
      /\ \A b \in Buckets : buckets[b] \in Nat /\ buckets'[b] \in Nat
      /\ count' >= count /\ (created => created')
      /\ UNCHANGED collectVars
  <2>1. count \in Nat /\ \A b \in Buckets : buckets[b] \in Nat
    BY DEF TypeOK
  <2>2. CASE \E level \in Buckets : BeginObserve(o, level)
    BY <2>1, <2>2 DEF BeginObserve, histogramVars
  <2>3. CASE FindState(o)
    BY <2>1, <2>3 DEF FindState
  <2>4. CASE FillBucket(o)
    <3>1. /\ edge[o] \in Buckets
          /\ buckets' = [buckets EXCEPT ![edge[o]] = IF value[o] <= edge[o] THEN @ + 1 ELSE @]
      BY <2>4 DEF FillBucket, TypeOK
    <3>2. \A b \in Buckets : buckets'[b] = buckets[b] \/ buckets'[b] = buckets[b] + 1
      BY <3>1 DEF TypeOK
    <3>3. count' = count /\ created' = created /\ UNCHANGED collectVars
      BY <2>4 DEF FillBucket
    <3> QED BY <2>1, <3>2, <3>3
  <2>5. CASE AddCount(o)
    BY <2>1, <2>5 DEF AddCount
  <2> QED BY <2>2, <2>3, <2>4, <2>5 DEF ObserverStep
<1>2. /\ \A b \in 1..read : b \in Buckets /\ b \in {0} \cup Buckets /\ b - 1 \in {0} \cup Buckets
      /\ \A b \in Buckets : b \in {0} \cup Buckets /\ b - 1 \in {0} \cup Buckets
      /\ \A b \in {0} \cup Buckets : text[b] \in Nat /\ scrape.sums[b] \in Nat
      /\ count \in Nat /\ count' \in Nat /\ scrape.count \in Nat
  <2>1. TypeOK'
    BY ObserverTypes
  <2>2. read <= NumEdges + 1 /\ read \in Nat
    BY DEF TypeOK
  <2>3. 1..read \subseteq Buckets
    BY <2>2 DEF Buckets
  <2>4. \A b \in Buckets : b \in {0} \cup Buckets /\ b - 1 \in {0} \cup Buckets
    BY DEF Buckets
  <2> QED BY <2>1, <2>3, <2>4 DEF TypeOK
<1>3. scrape' = scrape /\ text' = text /\ read' = read
  BY <1>1 DEF collectVars
<1>4. ASSUME NEW b \in Buckets
      PROVE  scrape.sums[b] - scrape.sums[b - 1] <= buckets'[b]
  <2>1. scrape.sums[b] - scrape.sums[b - 1] <= buckets[b]
    BY DEF ExportsLag
  <2>2. /\ buckets[b] \in Nat /\ buckets'[b] \in Nat /\ buckets[b] <= buckets'[b]
        /\ scrape.sums[b] \in Nat /\ scrape.sums[b - 1] \in Nat
    BY <1>1, <1>2
  <2> QED BY <2>1, <2>2
<1>5. \A b \in 1..read : text[b] - text[b - 1] <= buckets'[b] /\ scrape.sums[b] <= text[b]
  <2>1. ASSUME NEW b \in 1..read
        PROVE  text[b] - text[b - 1] <= buckets[b] /\ scrape.sums[b] <= text[b]
    BY <2>1 DEF ExportsLag
  <2>2. ASSUME NEW b \in 1..read
        PROVE  /\ buckets[b] \in Nat /\ buckets'[b] \in Nat /\ buckets[b] <= buckets'[b]
               /\ text[b] \in Nat /\ text[b - 1] \in Nat
    BY <2>2, <1>1, <1>2
  <2>3. ASSUME NEW b \in 1..read
        PROVE  text[b] - text[b - 1] <= buckets'[b]
    BY <2>1, <2>2
  <2> QED BY <2>1, <2>3
<1>6. scrape.count <= count'
  BY <1>1, <1>2 DEF ExportsLag
<1> QED BY <1>1, <1>3, <1>4, <1>5, <1>6 DEF ExportsLag

\* No other step touches the histogram or the collection.
LEMMA NextLags ==
  ASSUME TypeOK, ExportsLag, [Next]_vars
  PROVE  /\ ExportsLag'
         /\ \A b \in Buckets : scrape'.sums[b] >= scrape.sums[b]
         /\ scrape'.count >= scrape.count
<1> DEFINE Grows == /\ \A b \in Buckets : scrape'.sums[b] >= scrape.sums[b]
                    /\ scrape'.count >= scrape.count
<1>0. scrape' = scrape => Grows
  BY DEF TypeOK
<1>1. UNCHANGED <<histogramVars, collectVars>> => ExportsLag' /\ scrape' = scrape
  BY DEF ExportsLag, histogramVars, collectVars
<1>2. ASSUME NEW o \in Observers, ObserverStep(o)
      PROVE  ExportsLag' /\ scrape' = scrape
  <2>1. scrape' = scrape
    BY <1>2 DEF ObserverStep, BeginObserve, FindState, FillBucket, AddCount, collectVars
  <2> QED BY <1>2, <2>1, ObserverLags
<1>3. ASSUME SetUp \/ TestRunning \/ SelectNothing \/ Accept \/ AcceptFails \/ Receive \/ Respond
      PROVE  UNCHANGED <<histogramVars, collectVars>>
  BY <1>3 DEF SetUp, TestRunning, SelectNothing, Accept, AcceptFails, Receive, Respond
<1>4. ReadBucket => ExportsLag' /\ scrape' = scrape
  BY ReadLags DEF ReadBucket
<1>5. EndCollect => ExportsLag' /\ Grows
  BY EndLags
<1>6. ASSUME NEW c \in Clients, Connect(c) \/ ClientTalks(c)
      PROVE  UNCHANGED <<histogramVars, collectVars>>
  BY <1>6 DEF Connect, ClientTalks, Talk
<1>7. Stop \/ Join => UNCHANGED <<histogramVars, collectVars>>
  BY DEF Stop, Join
<1>8. UNCHANGED vars => UNCHANGED <<histogramVars, collectVars>>
  BY DEF vars
<1> HIDE DEF Grows
<1>9. ExportsLag' /\ Grows
  BY <1>0, <1>1, <1>2, <1>3, <1>4, <1>5, <1>6, <1>7, <1>8 DEF Next, HttpStep
<1> QED BY <1>9 DEF Grows

-----------------------------------------------------------------------------

LEMMA NextIInv == IInv /\ [Next]_vars => IInv'
<1> SUFFICES ASSUME IInv, [Next]_vars PROVE IInv'
  OBVIOUS
<1>1. TypeOK'
  <2>1. CASE Next
    BY <2>1, NextTypes DEF IInv
  <2>2. CASE UNCHANGED vars
    BY <2>2 DEF IInv, TypeOK, vars, histogramVars, observerVars, serverVars, collectVars
  <2> QED BY <2>1, <2>2
<1> QED BY <1>1, NextCumulative, NextLags DEF IInv

\* Types are kept, for any observers, edges and clients (metrics.cpp:94-302).
THEOREM TypeCorrect == Spec => []TypeOK
<1>1. IInv => TypeOK
  BY DEF IInv
<1> QED BY InitIInv, NextIInv, <1>1, PTL DEF Spec

\* No observation is lost or counted twice, however many threads observe at once
\* (metrics.cpp:103-124).
THEOREM CumulativeCorrect == Spec => []BucketsCumulative
<1>1. IInv => BucketsCumulative
  BY DEF IInv
<1> QED BY InitIInv, NextIInv, <1>1, PTL DEF Spec

\* Exports taken in the middle of observations never decrease (metrics.cpp:161-182).
THEOREM ScrapesCorrect == Spec => ScrapesGrow
<1> DEFINE Grows == /\ \A b \in Buckets : scrape'.sums[b] >= scrape.sums[b]
                    /\ scrape'.count >= scrape.count
<1>1. IInv /\ [Next]_vars => [Grows]_vars
  BY NextLags DEF IInv
<1> QED BY InitIInv, NextIInv, <1>1, PTL DEF Spec, ScrapesGrow
=============================================================================
