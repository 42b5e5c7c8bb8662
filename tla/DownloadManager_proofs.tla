----------------------- MODULE DownloadManager_proofs -----------------------
(***************************************************************************)
(* Proofs about DownloadManager, for every set of destinations, either     *)
(* client, every number of retries, downloads and faults.                  *)
(***************************************************************************)
EXTENDS DownloadManager, HttpClient_proofs, SequenceTheorems, FiniteSetTheorems

-----------------------------------------------------------------------------
(* The inductive invariant                                                 *)

\* The worker has an item exactly while it works on it, one result for it,
\* and a running request in between.
ControlOK == /\ active = {} <=> worker \in {"wait", "exited"}
             /\ \A d, e \in active : d = e
             /\ result = "none" <=> worker # "store"
             /\ transfer.phase = "idle" <=> worker # "transfer"

\* Every entry has a ticket of its own.
Once(s) == \A i, j \in DOMAIN s : s[i].ticket = s[j].ticket => i = j

TicketsOK == /\ Once(queue)
             /\ \A d, e \in Live : d.ticket = e.ticket => d = e
             /\ \A d \in Live : d.ticket <= accepted
             /\ ToSet(queue) \cap active = {}

\* What waits was not answered; what is worked on was from the end of
\* process_item on; of two downloads of one id the later is answered later.
ToldOK == /\ Once(told)
          /\ \A t \in ToSet(told) : t.ticket <= accepted
          /\ \A t \in ToSet(told), d \in ToSet(queue) : t.ticket # d.ticket
          /\ worker # "store" => \A t \in ToSet(told), d \in active : t.ticket # d.ticket
          /\ worker = "store" => \A d \in active : With(d, result) \in ToSet(told)
          /\ ToSet(finished) \subseteq ToSet(told)
          /\ \A t \in ToSet(told), d \in Live : t.id = d.id => t.ticket <= d.ticket

\* A cancel that is due stands in the client's flag.
CancelOK == cancelDue => Looking /\ httpCancelled

\* An attempt that delivered left a whole file.
DeliveredOK == /\ RewoundOK
               /\ transfer.phase = "ok" => \A d \in active : files[d.id] \in Whole

QueueInv == OnePlace /\ NoDuplicateId /\ TicketsOK /\ ToldOK

IInv == TypeOK /\ ControlOK /\ QueueInv /\ CancelOK /\ DeliveredOK /\ CompletedIsOnDisk

-----------------------------------------------------------------------------
(* Lemmas about sequences                                                  *)

LEMMA InSeq ==
  ASSUME NEW S, NEW s \in Seq(S), NEW x
  PROVE  /\ x \in ToSet(s) <=> \E i \in 1..Len(s) : x = s[i]
         /\ x \in ToSet(s) => x \in S
BY LenProperties, ElementOfSeq DEF ToSet

LEMMA AppendElements ==
  ASSUME NEW S, NEW s \in Seq(S), NEW e \in S
  PROVE  /\ Append(s, e) \in Seq(S)
         /\ Len(Append(s, e)) = Len(s) + 1
         /\ ToSet(Append(s, e)) = ToSet(s) \cup {e}
<1> DEFINE a == Append(s, e)
<1>1. /\ a \in Seq(S)
      /\ Len(s) \in Nat /\ Len(a) = Len(s) + 1
      /\ \A i \in 1..Len(s) : a[i] = s[i]
      /\ a[Len(s) + 1] = e
  BY AppendProperties, LenProperties
<1> HIDE DEF a
<1>2. ASSUME NEW x
      PROVE  x \in ToSet(a) <=> x \in ToSet(s) \/ x = e
  <2>1. x \in ToSet(a) <=> \E i \in 1..Len(a) : x = a[i]
    BY <1>1, InSeq
  <2>2. x \in ToSet(s) <=> \E i \in 1..Len(s) : x = s[i]
    BY InSeq
  <2>q. QED BY <1>1, <2>1, <2>2
<1>q. QED BY <1>1, <1>2 DEF a

LEMMA OnceAppend ==
  ASSUME NEW S, NEW s \in Seq(S), NEW e \in S, Once(s),
         \A x \in ToSet(s) : x.ticket # e.ticket
  PROVE  Once(Append(s, e))
<1>1. /\ Len(s) \in Nat /\ DOMAIN s = 1..Len(s)
      /\ DOMAIN Append(s, e) = 1..Len(s) + 1
      /\ \A i \in 1..Len(s) : Append(s, e)[i] = s[i]
      /\ Append(s, e)[Len(s) + 1] = e
  BY AppendProperties, LenProperties
<1>2. \A i \in 1..Len(s) : s[i].ticket # e.ticket
  BY InSeq
<1>q. QED BY <1>1, <1>2 DEF Once

LEMMA ConcatElements ==
  ASSUME NEW S, NEW s \in Seq(S), NEW t \in Seq(S)
  PROVE  /\ s \o t \in Seq(S)
         /\ Len(s \o t) = Len(s) + Len(t)
         /\ ToSet(s \o t) = ToSet(s) \cup ToSet(t)
<1> DEFINE c == s \o t
<1>0. Len(s) \in Nat /\ Len(t) \in Nat
  BY LenProperties
<1>1. /\ c \in Seq(S)
      /\ Len(s) \in Nat /\ Len(t) \in Nat
      /\ Len(c) = Len(s) + Len(t)
      /\ \A i \in 1..Len(s) + Len(t) : c[i] = IF i <= Len(s) THEN s[i] ELSE t[i - Len(s)]
  BY ConcatProperties, LenProperties
<1> HIDE DEF c
<1>2. ASSUME NEW x
      PROVE  x \in ToSet(c) <=> x \in ToSet(s) \/ x \in ToSet(t)
  <2>1. x \in ToSet(c) <=> \E i \in 1..Len(c) : x = c[i]
    BY <1>1, InSeq
  <2>2. x \in ToSet(s) <=> \E i \in 1..Len(s) : x = s[i]
    BY InSeq
  <2>3. x \in ToSet(t) <=> \E i \in 1..Len(t) : x = t[i]
    BY InSeq
  <2>4. ASSUME NEW i \in 1..Len(s), x = s[i] PROVE x = c[i]
    BY <1>1, <2>4
  <2>5. ASSUME NEW i \in 1..Len(t), x = t[i] PROVE \E k \in 1..Len(s) + Len(t) : x = c[k]
    <3> DEFINE k == i + Len(s)
    <3>1. k \in 1..Len(s) + Len(t) /\ ~(k <= Len(s)) /\ k - Len(s) = i
      BY <1>0
    <3> HIDE DEF k
    <3>2. c[k] = t[k - Len(s)]
      BY <1>1, <3>1
    <3>q. QED BY <2>5, <3>1, <3>2
  <2>6. ASSUME NEW i \in 1..Len(s) + Len(t), x = c[i]
        PROVE  (\E k \in 1..Len(s) : x = s[k]) \/ (\E k \in 1..Len(t) : x = t[k])
    <3>1. CASE i <= Len(s)
      BY <1>1, <2>6, <3>1
    <3>2. CASE i > Len(s)
      <4>1. i - Len(s) \in 1..Len(t) /\ x = t[i - Len(s)]
        BY <1>1, <2>6, <3>2
      <4>q. QED BY <4>1
    <3>q. QED BY <1>0, <3>1, <3>2
  <2>7. ASSUME NEW i \in 1..Len(s) PROVE i \in 1..Len(s) + Len(t)
    BY <1>1
  <2>q. QED BY <1>1, <2>1, <2>2, <2>3, <2>4, <2>5, <2>6, <2>7
<1>3. ToSet(c) = ToSet(s) \cup ToSet(t)
  BY <1>2
<1>q. QED BY <1>1, <1>3 DEF c

LEMMA OnceConcat ==
  ASSUME NEW S, NEW s \in Seq(S), NEW t \in Seq(S), Once(s), Once(t),
         \A x \in ToSet(s), y \in ToSet(t) : x.ticket # y.ticket
  PROVE  Once(s \o t)
<1>1. /\ Len(s) \in Nat /\ Len(t) \in Nat
      /\ DOMAIN s = 1..Len(s) /\ DOMAIN t = 1..Len(t)
      /\ DOMAIN (s \o t) = 1..Len(s) + Len(t)
      /\ \A i \in 1..Len(s) + Len(t) : (s \o t)[i] = IF i <= Len(s) THEN s[i] ELSE t[i - Len(s)]
  BY ConcatProperties, LenProperties
<1>2. \A i \in 1..Len(s), j \in 1..Len(t) : s[i].ticket # t[j].ticket
  BY InSeq
<1>3. ASSUME NEW i \in 1..Len(s) + Len(t), NEW j \in 1..Len(s) + Len(t),
             (s \o t)[i].ticket = (s \o t)[j].ticket
      PROVE  i = j
  <2>1. CASE i <= Len(s) /\ j <= Len(s)
    BY <1>1, <1>3, <2>1 DEF Once
  <2>2. CASE i > Len(s) /\ j > Len(s)
    <3>1. i - Len(s) \in 1..Len(t) /\ j - Len(s) \in 1..Len(t)
      BY <1>1, <2>2
    <3>2. t[i - Len(s)].ticket = t[j - Len(s)].ticket
      BY <1>1, <1>3, <2>2
    <3>3. i - Len(s) = j - Len(s)
      BY <1>1, <3>1, <3>2 DEF Once
    <3>q. QED BY <1>1, <3>3
  <2>3. CASE i <= Len(s) /\ j > Len(s)
    <3>1. i \in 1..Len(s) /\ j - Len(s) \in 1..Len(t)
      BY <1>1, <2>3
    <3>q. QED BY <1>1, <1>2, <1>3, <2>3, <3>1
  <2>4. CASE i > Len(s) /\ j <= Len(s)
    <3>1. j \in 1..Len(s) /\ i - Len(s) \in 1..Len(t)
      BY <1>1, <2>4
    <3>q. QED BY <1>1, <1>2, <1>3, <2>4, <3>1
  <2>q. QED BY <1>1, <2>1, <2>2, <2>3, <2>4
<1>q. QED BY <1>1, <1>3 DEF Once

LEMMA RemoveAtIsShorter ==
  ASSUME NEW S, NEW s \in Seq(S), NEW i \in DOMAIN s
  PROVE  /\ RemoveAt(s, i) \in Seq(S)
         /\ Len(RemoveAt(s, i)) = Len(s) - 1
         /\ \A j \in 1..Len(s) - 1 : RemoveAt(s, i)[j] = IF j < i THEN s[j] ELSE s[j + 1]
<1> DEFINE front == SubSeq(s, 1, i - 1)
           rest == SubSeq(s, i + 1, Len(s))
<1>1. i \in 1..Len(s) /\ Len(s) \in Nat
  BY LenProperties
<1>2. /\ front \in Seq(S) /\ Len(front) = i - 1
      /\ \A j \in 1..i - 1 : front[j] = s[j]
  BY <1>1, SubSeqProperties, ElementOfSeq
<1>3. /\ rest \in Seq(S) /\ Len(rest) = Len(s) - i
      /\ \A j \in 1..Len(s) - i : rest[j] = s[i + j]
  BY <1>1, SubSeqProperties, ElementOfSeq
<1> HIDE DEF front, rest
<1>4. RemoveAt(s, i) = front \o rest
  BY DEF RemoveAt, front, rest
<1>5. /\ front \o rest \in Seq(S)
      /\ Len(front \o rest) = Len(s) - 1
      /\ \A j \in 1..Len(s) - 1 :
            (front \o rest)[j] = IF j <= i - 1 THEN front[j] ELSE rest[j - (i - 1)]
  BY <1>1, <1>2, <1>3, ConcatProperties
<1>6. ASSUME NEW j \in 1..Len(s) - 1
      PROVE  RemoveAt(s, i)[j] = IF j < i THEN s[j] ELSE s[j + 1]
  <2>1. CASE j < i
    BY <1>1, <1>2, <1>4, <1>5, <2>1
  <2>2. CASE j >= i
    <3>1. j - (i - 1) \in 1..Len(s) - i /\ i + (j - (i - 1)) = j + 1
      BY <1>1, <2>2
    <3>2. RemoveAt(s, i)[j] = rest[j - (i - 1)]
      BY <1>1, <1>4, <1>5, <2>2
    <3>q. QED BY <1>1, <1>3, <2>2, <3>1, <3>2
  <2>q. QED BY <1>1, <2>1, <2>2
<1>q. QED BY <1>4, <1>5, <1>6

LEMMA RemoveAtElements ==
  ASSUME NEW S, NEW s \in Seq(S), NEW i \in DOMAIN s, Once(s)
  PROVE  /\ Once(RemoveAt(s, i))
         /\ ToSet(RemoveAt(s, i)) = ToSet(s) \ {s[i]}
<1> DEFINE r == RemoveAt(s, i)
<1>1. /\ Len(s) \in Nat /\ DOMAIN s = 1..Len(s)
      /\ r \in Seq(S) /\ DOMAIN r = 1..Len(s) - 1
      /\ \A j \in 1..Len(s) - 1 : r[j] = IF j < i THEN s[j] ELSE s[j + 1]
  BY LenProperties, RemoveAtIsShorter
<1>2. Len(r) = Len(s) - 1
  BY RemoveAtIsShorter
<1> HIDE DEF r
<1>3. ASSUME NEW j \in 1..Len(s) - 1, NEW k \in 1..Len(s) - 1, r[j].ticket = r[k].ticket
      PROVE  j = k
  <2>1. j \in DOMAIN s /\ j + 1 \in DOMAIN s /\ k \in DOMAIN s /\ k + 1 \in DOMAIN s
    BY <1>1
  <2>q. QED BY <1>1, <1>3, <2>1 DEF Once
<1>4. ASSUME NEW j \in 1..Len(s), j # i PROVE \E k \in 1..Len(s) - 1 : s[j] = r[k]
  <2>1. CASE j < i
    BY <1>1, <2>1
  <2>2. CASE j > i
    <3>1. j - 1 \in 1..Len(s) - 1 /\ r[j - 1] = s[j]
      BY <1>1, <2>2
    <3>q. QED BY <3>1
  <2>q. QED BY <1>1, <1>4, <2>1, <2>2
<1>5. ASSUME NEW k \in 1..Len(s) - 1 PROVE \E j \in 1..Len(s) : s[j] = r[k] /\ j # i
  <2>1. CASE k < i
    BY <1>1, <2>1
  <2>2. CASE k >= i
    <3>1. k + 1 \in 1..Len(s) /\ r[k] = s[k + 1] /\ k + 1 # i
      BY <1>1, <2>2
    <3>q. QED BY <3>1
  <2>q. QED BY <1>1, <2>1, <2>2
<1>6. \A j \in 1..Len(s) : s[j] = s[i] => j = i
  BY <1>1 DEF Once
<1>7. ASSUME NEW x PROVE x \in ToSet(r) <=> x \in ToSet(s) /\ x # s[i]
  <2>1. x \in ToSet(r) <=> \E k \in 1..Len(r) : x = r[k]
    BY <1>1, InSeq
  <2>2. x \in ToSet(s) <=> \E j \in 1..Len(s) : x = s[j]
    BY InSeq
  <2>q. QED BY <1>2, <1>4, <1>5, <1>6, <2>1, <2>2
<1>q. QED BY <1>1, <1>3, <1>7 DEF r, Once

LEMMA TailElements ==
  ASSUME NEW S, NEW s \in Seq(S), Len(s) # 0, Once(s)
  PROVE  /\ Head(s) \in ToSet(s)
         /\ Tail(s) \in Seq(S) /\ Len(Tail(s)) = Len(s) - 1
         /\ Once(Tail(s))
         /\ ToSet(Tail(s)) = ToSet(s) \ {Head(s)}
<1> DEFINE r == Tail(s)
<1>1. Len(s) \in Nat /\ DOMAIN s = 1..Len(s) /\ 1 \in DOMAIN s
  BY LenProperties
<1>0. s # <<>>
  BY EmptySeq
<1>2. Head(s) = s[1]
  BY <1>0, TailIsSubSeq
<1>3. /\ r \in Seq(S) /\ Len(r) = Len(s) - 1
      /\ DOMAIN r = 1..Len(s) - 1
      /\ \A j \in 1..Len(s) - 1 : r[j] = s[j + 1]
  BY <1>0, HeadTailProperties, LenProperties
<1> HIDE DEF r
<1>4. ASSUME NEW j \in 1..Len(s) - 1, NEW k \in 1..Len(s) - 1, r[j].ticket = r[k].ticket
      PROVE  j = k
  <2>1. j + 1 \in DOMAIN s /\ k + 1 \in DOMAIN s
    BY <1>1
  <2>q. QED BY <1>1, <1>3, <1>4, <2>1 DEF Once
<1>5. ASSUME NEW j \in 1..Len(s), j # 1 PROVE \E k \in 1..Len(s) - 1 : s[j] = r[k]
  <2>1. j - 1 \in 1..Len(s) - 1 /\ r[j - 1] = s[j]
    BY <1>1, <1>3, <1>5
  <2>q. QED BY <2>1
<1>6. ASSUME NEW k \in 1..Len(s) - 1 PROVE \E j \in 1..Len(s) : s[j] = r[k] /\ j # 1
  <2>1. k + 1 \in 1..Len(s) /\ r[k] = s[k + 1] /\ k + 1 # 1
    BY <1>1, <1>3
  <2>q. QED BY <2>1
<1>7. \A j \in 1..Len(s) : s[j] = s[1] => j = 1
  BY <1>1 DEF Once
<1>8. ASSUME NEW x PROVE x \in ToSet(r) <=> x \in ToSet(s) /\ x # Head(s)
  <2>1. x \in ToSet(r) <=> \E k \in 1..Len(r) : x = r[k]
    <3>1. r \in Seq(S)
      BY <1>3
    <3>q. QED BY <3>1, InSeq
  <2>2. x \in ToSet(s) <=> \E j \in 1..Len(s) : x = s[j]
    BY InSeq
  <2>q. QED BY <1>2, <1>3, <1>5, <1>6, <1>7, <2>1, <2>2
<1>9. Head(s) \in ToSet(s)
  BY <1>1, <1>2, InSeq
<1>q. QED BY <1>3, <1>4, <1>8, <1>9 DEF r, Once

-----------------------------------------------------------------------------
(* Lemmas about the items                                                  *)

Answers == [id : Paths, ticket : Tickets, status : Status]

LEMMA WithIs ==
  ASSUME NEW d \in Items, NEW r \in Status
  PROVE  /\ With(d, r) \in Answers
         /\ With(d, r).id = d.id /\ With(d, r).ticket = d.ticket /\ With(d, r).status = r
BY DEF With, Answers, Items

LEMMA TicketsAreNat == Tickets \subseteq Nat
BY BoundsAreNat DEF Tickets

\* What cancel_all makes of the queue.
Gone == [i \in DOMAIN queue |-> With(queue[i], "Cancelled")]

LEMMA GoneIs ==
  ASSUME queue \in Seq(Items), Once(queue)
  PROVE  /\ Gone \in Seq(Answers) /\ Len(Gone) = Len(queue)
         /\ Once(Gone)
         /\ \A x : x \in ToSet(Gone) <=> \E d \in ToSet(queue) : x = With(d, "Cancelled")
<1>1. Len(queue) \in Nat /\ DOMAIN queue = 1..Len(queue)
  BY LenProperties
<1>2. \A i \in 1..Len(queue) : queue[i] \in Items
  BY ElementOfSeq
<1>3. \A i \in 1..Len(queue) : /\ Gone[i] = With(queue[i], "Cancelled")
                               /\ Gone[i] \in Answers
                               /\ Gone[i].ticket = queue[i].ticket
  BY <1>1, <1>2, WithIs DEF Gone, Status
<1>4. Gone \in [1..Len(queue) -> Answers]
  BY <1>1, <1>3 DEF Gone
<1>5. DOMAIN Gone = 1..Len(queue)
  BY <1>1 DEF Gone
<1> HIDE DEF Gone
<1>6. Gone \in Seq(Answers)
  BY <1>1, <1>4, SeqDef
<1>7. Len(Gone) = Len(queue)
  <2>1. Len(Gone) \in Nat /\ 1..Len(Gone) = 1..Len(queue)
    BY <1>5, <1>6, LenProperties
  <2>q. QED BY <1>1, <2>1
<1>8. Once(Gone)
  BY <1>1, <1>3, <1>5 DEF Once
<1>9. ASSUME NEW x PROVE x \in ToSet(Gone) <=> \E d \in ToSet(queue) : x = With(d, "Cancelled")
  <2>1. x \in ToSet(Gone) <=> \E i \in 1..Len(queue) : x = Gone[i]
    BY <1>6, <1>7, InSeq
  <2>2. \A d : d \in ToSet(queue) <=> \E i \in 1..Len(queue) : d = queue[i]
    BY InSeq
  <2>q. QED BY <1>3, <2>1, <2>2
<1>q. QED BY <1>6, <1>7, <1>8, <1>9

\* The worker works on nothing, or on one item.
LEMMA ActiveIs ==
  ASSUME TypeOK, ControlOK
  PROVE  /\ active # {} => \E d \in Items : active = {d}
         /\ Cardinality(active) = IF active = {} THEN 0 ELSE 1
<1>1. active # {} => \E d \in Items : active = {d}
  BY DEF TypeOK, ControlOK
<1>q. QED BY <1>1, FS_EmptySet, FS_Singleton

-----------------------------------------------------------------------------
(* PS4HttpClient                                                           *)

LEMMA FailedTyped ==
  ASSUME HttpTypeOK, ReturnsFalse
  PROVE  transfer' \in Transfers /\ transfer'.phase = "failed" /\ transfer'.rewound = transfer.rewound
BY DEF ReturnsFalse, HttpTypeOK, Transfers

LEMMA RoundTyped ==
  ASSUME HttpTypeOK, GoesRound
  PROVE  /\ transfer' \in Transfers /\ transfer'.phase \in {transfer.phase, "failed"}
         /\ transfer'.rewound = transfer.rewound
BY FailedTyped DEF GoesRound, HttpTypeOK, Transfers

\* A step of the console's client keeps the types, goes on, touches its own
\* destination and delivers what is whole.
LEMMA Ps4GoesOn ==
  ASSUME StorageTypeOK, HttpTypeOK, Ps4TypeOK, RewoundOK, NEW p \in Paths, Ps4TransferStep(p)
  PROVE  /\ StorageStep /\ HttpTypeOK' /\ Ps4TypeOK'
         /\ transfer.phase = "trying" /\ transfer'.phase # "idle" /\ RewoundOK'
         /\ httpCancelled' = httpCancelled
         /\ \A q \in Paths \ {p} : files'[q] = files[q]
         /\ transfer'.phase = "ok" => files'[p] \in Whole'
<1> USE DEF HttpTypeOK, Ps4TypeOK, Content, AtLoop, InAttempt, RewoundOK, StorageStep
<1>t. TRUE \in BOOLEAN
  OBVIOUS
<1>1. CASE Ps4Stops
  BY <1>1, FailedTyped, UnchangedFaults DEF Ps4Stops
<1>2. CASE Ps4Opens(p)
  BY <1>2, UnchangedFaults DEF Ps4Opens
<1>3. CASE Ps4CannotOpen
  BY <1>3, <1>t, FailedTyped, MutationTyped DEF Ps4CannotOpen
<1>4. CASE Ps4NotSent
  BY <1>4, RoundTyped, UnchangedFaults DEF Ps4NotSent
<1>5. CASE Ps4CancelledInAttempt(p)
  BY <1>5, <1>t, FailedTyped, UnchangedFaults, MutationTyped DEF Ps4CancelledInAttempt, Removes
<1>6. CASE Ps4Delivers(p)
  <2>1. PICK written \in {"partial", "good", "bad"} :
           /\ Mutation(written = "partial")
           /\ files' = [files EXCEPT ![p] = written]
    BY <1>6 DEF Ps4Delivers
  <2>2. StorageStep /\ (written = "partial" => ~NoFaultYet')
    BY <2>1, MutationTyped
  <2>3. transfer' \in Transfers /\ transfer'.phase = "ok" /\ transfer'.rewound = transfer.rewound
    BY <1>6 DEF Ps4Delivers, Transfers
  <2>4. written \in Whole'
    BY <2>2 DEF Whole
  <2>q. QED BY <1>6, <2>1, <2>2, <2>3, <2>4 DEF Ps4Delivers
<1>7. CASE Ps4AttemptFails(p)
  BY <1>7, <1>t, RoundTyped, UnchangedFaults, MutationTyped DEF Ps4AttemptFails, Removes
<1>q. QED BY <1>1, <1>2, <1>3, <1>4, <1>5, <1>6, <1>7 DEF Ps4TransferStep

-----------------------------------------------------------------------------
(* Types and control                                                       *)

\* The part of the types that belongs to the clients, and the other one.
IoTypeOK == StorageTypeOK /\ HttpTypeOK /\ Ps4TypeOK /\ client \in {"curl", "ps4"}

ManagerTypeOK == /\ queue \in Seq(Items)
                 /\ active \subseteq Items
                 /\ finished \in Seq(Answers)
                 /\ stop \in BOOLEAN
                 /\ worker \in {"wait", "check", "download", "transfer", "store", "exited"}
                 /\ attempt \in 0..MaxRetries
                 /\ result \in Status \cup {"none"}
                 /\ owner \in {"open", "cancelled", "joining", "gone"}
                 /\ told \in Seq(Answers)
                 /\ accepted \in 0..MaxAccepted
                 /\ asked \subseteq Tickets
                 /\ cancelDue \in BOOLEAN

LEMMA TypeParts == TypeOK <=> IoTypeOK /\ ManagerTypeOK
BY DEF TypeOK, IoTypeOK, ManagerTypeOK, Answers

\* The worker's item, in the state of the step that is looked at.
LEMMA NewItem ==
  ASSUME TypeOK, NEW id \in Paths, accepted < MaxAccepted
  PROVE  /\ [id |-> id, ticket |-> accepted + 1] \in Items
         /\ accepted + 1 \in 0..MaxAccepted
BY BoundsAreNat DEF TypeOK, Items, Tickets

LEMMA CancelledIsStatus == "Cancelled" \in Status
BY DEF Status

LEMMA EnqueueTyped ==
  ASSUME TypeOK, ControlOK, NEW id \in Paths, Enqueue(id)
  PROVE  TypeOK' /\ ControlOK'
<1>1. queue' \in Seq(Items) /\ accepted' \in 0..MaxAccepted
  BY NewItem, AppendElements DEF Enqueue, TypeOK
<1>2. UNCHANGED <<ioVars, active, finished, stop, worker, attempt, result, owner,
                  told, asked, cancelDue>>
  BY DEF Enqueue
<1>q. QED BY <1>1, <1>2 DEF TypeOK, ControlOK, StorageTypeOK, HttpTypeOK, Ps4TypeOK, ioVars,
                            httpVars, clientVars

LEMMA CancelQueuedTyped ==
  ASSUME TypeOK, ControlOK, NEW id \in Paths, CancelQueued(id)
  PROVE  TypeOK' /\ ControlOK'
<1>1. PICK i \in DOMAIN queue : /\ queue' = RemoveAt(queue, i)
                                /\ finished' = Append(finished, With(queue[i], "Cancelled"))
                                /\ told' = Append(told, With(queue[i], "Cancelled"))
  BY DEF CancelQueued
<1>2. queue \in Seq(Items) /\ finished \in Seq(Answers) /\ told \in Seq(Answers)
  BY TypeParts DEF ManagerTypeOK
<1>3. queue[i] \in Items
  BY <1>1, <1>2, LenProperties, ElementOfSeq
<1>4. With(queue[i], "Cancelled") \in Answers
  BY <1>3, WithIs, CancelledIsStatus
<1>5. queue' \in Seq(Items) /\ finished' \in Seq(Answers) /\ told' \in Seq(Answers)
  BY <1>1, <1>2, <1>4, RemoveAtIsShorter, AppendElements
<1>6. UNCHANGED <<ioVars, active, stop, worker, attempt, result, owner, accepted, asked, cancelDue>>
  BY DEF CancelQueued
<1>q. QED BY <1>5, <1>6 DEF TypeOK, Answers, ControlOK, StorageTypeOK, HttpTypeOK, Ps4TypeOK, ioVars,
                            httpVars, clientVars

LEMMA WithdrawAllTyped ==
  ASSUME TypeOK, ControlOK, Once(queue), WithdrawAll,
         stop' \in BOOLEAN, owner' \in {"open", "cancelled", "joining", "gone"}
  PROVE  TypeOK' /\ ControlOK'
<1>1. finished' = finished \o Gone /\ told' = told \o Gone /\ queue' = <<>>
  BY DEF WithdrawAll, Gone
<1>2. queue \in Seq(Items) /\ finished \in Seq(Answers) /\ told \in Seq(Answers)
  BY TypeParts DEF ManagerTypeOK
<1>3. queue' \in Seq(Items) /\ finished' \in Seq(Answers) /\ told' \in Seq(Answers)
  BY <1>1, <1>2, GoneIs, ConcatElements, EmptySeq
<1>4. asked' \subseteq Tickets /\ cancelDue' \in BOOLEAN /\ httpCancelled' \in BOOLEAN
  BY DEF WithdrawAll, HttpCancel, TypeOK, Items, Looking
<1>5. UNCHANGED <<faults, files, transfer, clientVars, active, worker, attempt, result, accepted>>
  BY DEF WithdrawAll
<1>q. QED BY <1>3, <1>4, <1>5 DEF TypeOK, Answers, ControlOK, StorageTypeOK, HttpTypeOK, Ps4TypeOK,
                                  clientVars

LEMMA CancelActiveTyped ==
  ASSUME TypeOK, ControlOK, NEW id \in Paths, CancelActive(id)
  PROVE  TypeOK' /\ ControlOK'
<1>1. asked' \subseteq Tickets /\ cancelDue' \in BOOLEAN /\ httpCancelled' \in BOOLEAN
  BY DEF CancelActive, HttpCancel, TypeOK, Items, Looking
<1>q. QED BY <1>1 DEF CancelActive, TypeOK, ControlOK, StorageTypeOK, HttpTypeOK, Ps4TypeOK,
                      clientVars, dmVars

LEMMA DestructorTyped ==
  ASSUME TypeOK, ControlOK, DestructorStep
  PROVE  TypeOK' /\ ControlOK'
BY DEF DestructorStep, DestroyStops, DestroyJoins, dmHistory, TypeOK, ControlOK, StorageTypeOK,
       HttpTypeOK, Ps4TypeOK, ioVars, httpVars, clientVars

LEMMA TakeTyped ==
  ASSUME TypeOK, ControlOK, Once(queue), Take
  PROVE  TypeOK' /\ ControlOK'
<1>1. queue \in Seq(Items) /\ Len(queue) # 0
  BY EmptySeq DEF Take, TypeOK
<1>2. Tail(queue) \in Seq(Items) /\ Head(queue) \in Items
  BY <1>1, TailElements, InSeq
<1>3. queue' = Tail(queue) /\ active' = {Head(queue)} /\ worker = "wait" /\ worker' = "check"
  BY DEF Take
<1>4. UNCHANGED <<ioVars, finished, stop, attempt, result, owner, dmHistory>>
  BY DEF Take
<1>q. QED BY <1>2, <1>3, <1>4 DEF TypeOK, ControlOK, dmHistory, StorageTypeOK, HttpTypeOK, Ps4TypeOK,
                                  ioVars, httpVars, clientVars

\* process_item returns: from the check of the flag, or from download.
LEMMA FinishTyped ==
  ASSUME TypeOK, ControlOK, NEW s \in Status, Finish(s),
         worker \in {"check", "transfer"},
         UNCHANGED clientVars, StorageTypeOK', HttpTypeOK', transfer'.phase = "idle"
  PROVE  TypeOK' /\ ControlOK'
<1>1. PICK d \in active : told' = Append(told, With(d, s))
  BY DEF Finish
<1>2. told \in Seq(Answers) /\ d \in Items
  BY <1>1, TypeParts DEF ManagerTypeOK
<1>3. told' \in Seq(Answers)
  BY <1>1, <1>2, WithIs, AppendElements
<1>4. /\ worker' = "store" /\ result' = s /\ cancelDue' = FALSE /\ s # "none"
      /\ UNCHANGED <<queue, active, finished, stop, attempt, owner, accepted, asked>>
  BY DEF Finish, Status
<1>5. active # {}
  BY DEF ControlOK
<1>q. QED BY <1>3, <1>4, <1>5 DEF TypeOK, Answers, ControlOK, Ps4TypeOK, clientVars

LEMMA ReturnedTyped ==
  ASSUME TypeOK, NEW phase, Returned(phase)
  PROVE  /\ worker = "transfer" /\ UNCHANGED clientVars
         /\ StorageTypeOK' /\ HttpTypeOK' /\ transfer'.phase = "idle"
BY NoTransferTyped DEF Returned, TypeOK, StorageTypeOK, HttpTypeOK, NoTransfer

LEMMA WorkerTyped ==
  ASSUME TypeOK, ControlOK, RewoundOK, Once(queue), WorkerStep
  PROVE  TypeOK' /\ ControlOK'
<1>1. CASE Take
  BY <1>1, TakeTyped
<1>2. CASE WorkerExits \/ CheckPasses
  BY <1>2 DEF WorkerExits, CheckPasses, TypeOK, ControlOK, dmHistory, StorageTypeOK, HttpTypeOK,
              Ps4TypeOK, ioVars, httpVars, clientVars
<1>3. CASE CheckCancelled
  <2>1. /\ Finish("Cancelled") /\ worker = "check" /\ UNCHANGED ioVars
    BY <1>3 DEF CheckCancelled
  <2>2. StorageTypeOK' /\ HttpTypeOK' /\ transfer'.phase = "idle" /\ UNCHANGED clientVars
    BY <2>1 DEF TypeOK, ControlOK, StorageTypeOK, HttpTypeOK, ioVars, httpVars
  <2>q. QED BY <2>1, <2>2, FinishTyped, CancelledIsStatus
<1>4. CASE BeginDownload
  <2>1. IoTypeOK' /\ transfer'.phase # "idle"
    <3>1. CASE /\ client = "curl" /\ \E d \in active : OpenDestination(d.id)
               /\ UNCHANGED <<client, attemptFile>>
      <4>1. PICK d \in active : OpenDestination(d.id)
        BY <3>1
      <4>2. d.id \in Paths
        BY DEF TypeOK, Items
      <4>q. QED BY <3>1, <4>1, <4>2, OpenTyped, OpenStarts DEF TypeOK, IoTypeOK, StorageStep, Ps4TypeOK
    <3>2. CASE Ps4Begin /\ UNCHANGED client
      <4>1. transfer' \in Transfers /\ transfer'.phase # "idle"
        <5>1. PICK phase \in {"failed", "trying"} : transfer' = [NoTransfer EXCEPT !.phase = phase]
          BY <3>2 DEF Ps4Begin
        <5>q. QED BY <5>1 DEF NoTransfer, Transfers
      <4>q. QED BY <3>2, <4>1 DEF Ps4Begin, TypeOK, IoTypeOK, StorageTypeOK, HttpTypeOK, Ps4TypeOK
    <3>q. QED BY <1>4, <3>1, <3>2 DEF BeginDownload
  <2>2. /\ worker = "download" /\ worker' = "transfer"
        /\ UNCHANGED <<queue, active, finished, stop, attempt, result, owner, dmHistory>>
    BY <1>4 DEF BeginDownload
  <2>3. ManagerTypeOK' /\ ControlOK'
    BY <2>1, <2>2, TypeParts DEF ManagerTypeOK, ControlOK, dmHistory
  <2>q. QED BY <2>1, <2>3, TypeParts DEF TypeOK, ManagerTypeOK, IoTypeOK, Answers
<1>5. CASE Transfer
  <2>1. PICK d \in active : \/ TransferStep(d.id) /\ UNCHANGED attemptFile
                            \/ Ps4TransferStep(d.id)
    BY <1>5 DEF Transfer
  <2>2. d.id \in Paths
    BY <2>1 DEF TypeOK, Items
  <2>3. UNCHANGED <<client, dmVars, dmHistory>> /\ worker = "transfer"
    BY <1>5 DEF Transfer
  <2>4. IoTypeOK' /\ transfer'.phase # "idle"
    <3>1. CASE TransferStep(d.id) /\ UNCHANGED attemptFile
      BY <2>2, <2>3, <3>1, TransferTyped, TransferGoesOn DEF TypeOK, IoTypeOK, StorageStep, Ps4TypeOK
    <3>2. CASE Ps4TransferStep(d.id)
      BY <2>2, <2>3, <3>2, Ps4GoesOn DEF TypeOK, IoTypeOK, StorageStep
    <3>q. QED BY <2>1, <3>1, <3>2
  <2>5. ManagerTypeOK' /\ ControlOK'
    BY <2>3, <2>4, TypeParts DEF ManagerTypeOK, ControlOK, dmVars, dmHistory
  <2>q. QED BY <2>4, <2>5 DEF TypeOK, ManagerTypeOK, IoTypeOK, Answers
<1>6. CASE Completes
  BY <1>6, ReturnedTyped, FinishTyped DEF Completes, Status
<1>7. CASE CancelledInDownload
  BY <1>7, ReturnedTyped, FinishTyped DEF CancelledInDownload, Status
<1>8. CASE Fails
  BY <1>8, ReturnedTyped, FinishTyped DEF Fails, Status
<1>9. CASE Retries
  <2>1. /\ worker = "transfer" /\ UNCHANGED clientVars
        /\ StorageTypeOK' /\ HttpTypeOK' /\ transfer'.phase = "idle"
    BY <1>9, ReturnedTyped DEF Retries
  <2>2. /\ worker' = "check" /\ attempt' = attempt + 1 /\ attempt < MaxRetries
        /\ UNCHANGED <<queue, active, finished, stop, result, owner, dmHistory>>
    BY <1>9 DEF Retries, NextAttempt
  <2>3. attempt' \in 0..MaxRetries
    BY <2>2, BoundsAreNat DEF TypeOK
  <2>q. QED BY <2>1, <2>2, <2>3 DEF TypeOK, ControlOK, Ps4TypeOK, clientVars, dmHistory
<1>10. CASE Store
  <2>1. PICK d \in active : finished' = Append(finished, With(d, result))
    BY <1>10 DEF Store
  <2>2. d \in Items /\ finished \in Seq(Answers) /\ result \in Status
    BY <1>10, <2>1, TypeParts DEF ManagerTypeOK, ControlOK, Store
  <2>3. finished' \in Seq(Answers)
    BY <2>1, <2>2, WithIs, AppendElements
  <2>4. attempt' \in 0..MaxRetries
    BY <1>10, BoundsAreNat DEF Store
  <2>q. QED BY <1>10, <2>3, <2>4 DEF Store, TypeOK, Answers, ControlOK, StorageTypeOK, HttpTypeOK,
                                     Ps4TypeOK, ioVars, httpVars, clientVars
<1>q. QED BY <1>1, <1>2, <1>3, <1>4, <1>5, <1>6, <1>7, <1>8, <1>9, <1>10 DEF WorkerStep

LEMMA NextTyped ==
  ASSUME TypeOK, ControlOK, RewoundOK, Once(queue), [Next]_vars
  PROVE  TypeOK' /\ ControlOK'
<1>1. CASE CallerStep
  <2>1. CASE CancelAll \/ DestroyCancels
    <3>1. WithdrawAll /\ stop' \in BOOLEAN /\ owner' \in {"open", "cancelled", "joining", "gone"}
      BY <2>1 DEF CancelAll, DestroyCancels, TypeOK
    <3>q. QED BY <3>1, WithdrawAllTyped
  <2>q. QED BY <1>1, <2>1, EnqueueTyped, CancelQueuedTyped, CancelActiveTyped DEF CallerStep
<1>2. CASE UNCHANGED vars
  BY <1>2 DEF vars, dmVars, dmHistory, TypeOK, ControlOK, StorageTypeOK, HttpTypeOK, Ps4TypeOK,
              ioVars, httpVars, clientVars
<1>q. QED BY <1>1, <1>2, DestructorTyped, WorkerTyped DEF Next

-----------------------------------------------------------------------------
(* The cancel that is due, and what was delivered                          *)

LEMMA NextDelivers ==
  ASSUME TypeOK, ControlOK, TypeOK', DeliveredOK, [Next]_vars
  PROVE  DeliveredOK'
<1> USE DEF DeliveredOK, RewoundOK
<1>1. CASE UNCHANGED <<faults, transfer, files, active>>
  BY <1>1 DEF Whole, NoFaultYet
<1>3. CASE CallerStep
  BY <1>1, <1>3 DEF CallerStep, Enqueue, CancelQueued, CancelActive, CancelAll, DestroyCancels,
                    WithdrawAll, ioVars, httpVars, dmVars
<1>4. CASE DestructorStep
  BY <1>1, <1>4 DEF DestructorStep, DestroyStops, DestroyJoins, ioVars, httpVars
<1>5. CASE UNCHANGED vars
  BY <1>1, <1>5 DEF vars, ioVars, httpVars, dmVars
<1>6. CASE WorkerStep
  <2>1. CASE transfer'.phase # "ok" /\ UNCHANGED <<faults, transfer>>
    BY <2>1 DEF NoFaultYet
  <2>2. CASE Take \/ WorkerExits \/ CheckPasses \/ CheckCancelled \/ Store
    <3>1. worker # "transfer" /\ UNCHANGED <<faults, transfer>>
      BY <2>2 DEF Take, WorkerExits, CheckPasses, CheckCancelled, Store, ioVars, httpVars
    <3>q. QED BY <2>1, <3>1 DEF ControlOK
  <2>3. CASE Completes \/ CancelledInDownload \/ Fails \/ Retries
    <3>1. transfer' = NoTransfer
      BY <2>3 DEF Completes, CancelledInDownload, Fails, Retries, Returned
    <3>q. QED BY <3>1 DEF NoTransfer
  <2>4. CASE BeginDownload
    <3>1. CASE \E d \in active : OpenDestination(d.id)
      <4>1. PICK d \in active : OpenDestination(d.id)
        BY <3>1
      <4>2. d.id \in Paths
        BY DEF TypeOK, Items
      <4>q. QED BY <4>1, <4>2, OpenStarts DEF TypeOK
    <3>2. CASE Ps4Begin
      <4>1. PICK phase \in {"failed", "trying"} : transfer' = [NoTransfer EXCEPT !.phase = phase]
        BY <3>2 DEF Ps4Begin
      <4>q. QED BY <4>1 DEF NoTransfer
    <3>q. QED BY <2>4, <3>1, <3>2 DEF BeginDownload
  <2>5. CASE Transfer
    <3>1. PICK d \in active : \/ TransferStep(d.id) /\ UNCHANGED attemptFile
                              \/ Ps4TransferStep(d.id)
      BY <2>5 DEF Transfer
    <3>2. d.id \in Paths /\ active' = {d}
      BY <2>5, <3>1, ActiveIs DEF TypeOK, Items, Transfer, dmVars
    <3>3. RewoundOK' /\ (transfer'.phase = "ok" => files'[d.id] \in Whole')
      BY <3>1, <3>2, TransferGoesOn, Ps4GoesOn DEF TypeOK
    <3>q. QED BY <3>2, <3>3
  <2>q. QED BY <1>6, <2>2, <2>3, <2>4, <2>5 DEF WorkerStep
<1>q. QED BY <1>3, <1>4, <1>5, <1>6 DEF Next

LEMMA NextHonoursCancel ==
  ASSUME TypeOK, ControlOK, RewoundOK, CancelOK, [Next]_vars
  PROVE  CancelOK'
<1> USE DEF CancelOK, Looking
<1>1. CASE CallerStep \/ DestructorStep \/ UNCHANGED vars
  BY <1>1 DEF CallerStep, Enqueue, CancelQueued, CancelActive, CancelAll, DestroyCancels, WithdrawAll,
              HttpCancel, DestructorStep, DestroyStops, DestroyJoins, ioVars, httpVars, dmVars,
              dmHistory, vars
<1>2. CASE WorkerStep
  <2>1. CASE Take \/ WorkerExits \/ CheckPasses \/ BeginDownload \/ Store
    BY <2>1 DEF Take, WorkerExits, CheckPasses, BeginDownload, Store, ioVars, httpVars, dmHistory
  <2>2. CASE CheckCancelled \/ Completes \/ CancelledInDownload \/ Fails
    BY <2>2 DEF CheckCancelled, Completes, CancelledInDownload, Fails, Finish
  <2>3. CASE Retries
    BY <2>3 DEF Retries, Returned, NextAttempt, dmHistory
  <2>4. CASE Transfer
    <3>1. PICK d \in active : TransferStep(d.id) \/ Ps4TransferStep(d.id)
      BY <2>4 DEF Transfer
    <3>2. d.id \in Paths
      BY DEF TypeOK, Items
    <3>3. httpCancelled' = httpCancelled
      BY <3>1, <3>2, TransferGoesOn, Ps4GoesOn DEF TypeOK
    <3>q. QED BY <2>4, <3>3 DEF Transfer, dmVars, dmHistory
  <2>q. QED BY <1>2, <2>1, <2>2, <2>3, <2>4 DEF WorkerStep
<1>q. QED BY <1>1, <1>2 DEF Next

-----------------------------------------------------------------------------
(* The queue, the item and the answers                                     *)

\* What a step that answers nothing and takes nothing leaves alone.
Quiet == /\ UNCHANGED <<queue, active, finished, told, accepted, result>>
         /\ worker' = "store" <=> worker = "store"

\* The end of process_item, wherever it comes from.
Answer(s) == worker \in {"check", "transfer"} /\ Finish(s)

\* Retries, the flag, the transfer and the destructor's own steps are quiet.
LEMMA StepShows ==
  ASSUME TypeOK, ControlOK, [Next]_vars
  PROVE  \/ Quiet
         \/ \E id \in Paths : Enqueue(id) \/ CancelQueued(id)
         \/ WithdrawAll \/ Take \/ Store
         \/ \E s \in Status : Answer(s)
<1>1. CASE CallerStep
  BY <1>1 DEF CallerStep, CancelActive, CancelAll, DestroyCancels, dmVars, Quiet
<1>2. CASE DestructorStep \/ UNCHANGED vars
  BY <1>2 DEF DestructorStep, DestroyStops, DestroyJoins, dmVars, dmHistory, vars, Quiet
<1>3. CASE WorkerStep
  <2>1. CASE WorkerExits \/ CheckPasses \/ BeginDownload \/ Transfer \/ Retries
    BY <2>1 DEF WorkerExits, CheckPasses, BeginDownload, Transfer, Retries, Returned, NextAttempt,
                dmVars, dmHistory, Quiet
  <2>2. CASE CheckCancelled \/ Completes \/ CancelledInDownload \/ Fails
    BY <2>2 DEF CheckCancelled, Completes, CancelledInDownload, Fails, Returned, Answer, Status
  <2>q. QED BY <1>3, <2>1, <2>2 DEF WorkerStep
<1>q. QED BY <1>1, <1>2, <1>3 DEF Next

\* The sets behind the sequences, and the form in which they are used.
LEMMA OnePlaceIs ==
  OnePlace <=> /\ \A t : t \in 1..accepted <=> \/ \E d \in ToSet(queue) \cup active : d.ticket = t
                                               \/ \E a \in ToSet(finished) : a.ticket = t
               /\ Len(queue) + Cardinality(active) + Len(finished) = accepted
BY DEF OnePlace, Live, ToSet

LEMMA OnePlaceIsNext ==
  OnePlace' <=> /\ \A t : t \in 1..accepted' <=> \/ \E d \in ToSet(queue') \cup active' : d.ticket = t
                                                 \/ \E a \in ToSet(finished') : a.ticket = t
                /\ Len(queue') + Cardinality(active') + Len(finished') = accepted'
BY DEF OnePlace, Live, ToSet

LEMMA LiveIs == Live = ToSet(queue) \cup active /\ Live' = ToSet(queue') \cup active'
BY DEF Live, ToSet

LEMMA CalledBackOnceIs ==
  ASSUME ToldOK
  PROVE  CalledBackOnce
BY DEF ToldOK, Once, CalledBackOnce, ToSet

\* What the invariant says of what is in the sets.
LEMMA Members ==
  ASSUME TypeOK
  PROVE  /\ accepted \in Nat
         /\ ToSet(queue) \subseteq Items /\ active \subseteq Items
         /\ ToSet(finished) \subseteq Answers /\ ToSet(told) \subseteq Answers
         /\ \A d \in Items : d.ticket \in Nat /\ d.ticket >= 1
         /\ \A a \in Answers : a.ticket \in Nat /\ a.ticket >= 1
         /\ Len(queue) \in Nat /\ Len(finished) \in Nat
<1>1. queue \in Seq(Items) /\ finished \in Seq(Answers) /\ told \in Seq(Answers)
  BY TypeParts DEF ManagerTypeOK
<1>2. /\ ToSet(queue) \subseteq Items
      /\ ToSet(finished) \subseteq Answers /\ ToSet(told) \subseteq Answers
  BY <1>1, InSeq
<1>3. Len(queue) \in Nat /\ Len(finished) \in Nat
  BY <1>1, LenProperties
<1>4. \A t \in Tickets : t \in Nat /\ t >= 1
  BY BoundsAreNat DEF Tickets
<1>q. QED BY <1>2, <1>3, <1>4, BoundsAreNat DEF TypeOK, Items, Answers

LEMMA EnqueueKeeps ==
  ASSUME TypeOK, ControlOK, QueueInv, NEW id \in Paths, Enqueue(id)
  PROVE  QueueInv'
<1> DEFINE e == [id |-> id, ticket |-> accepted + 1]
<1>1. e \in Items /\ e.id = id /\ e.ticket = accepted + 1
  BY NewItem DEF Enqueue
<1>2. \A d \in ToSet(queue) \cup active : d.id # id
  BY DEF Enqueue, Queued, Active, ToSet
<1>3. queue' = Append(queue, e) /\ accepted' = accepted + 1
  BY DEF Enqueue
<1>4. UNCHANGED <<active, finished, told, worker, result>>
  BY DEF Enqueue
<1> HIDE DEF e
<1>5. queue \in Seq(Items)
  BY DEF TypeOK
<1>6. Len(queue') = Len(queue) + 1 /\ ToSet(queue') = ToSet(queue) \cup {e}
  BY <1>1, <1>3, <1>5, AppendElements
<1>7. \A d \in ToSet(queue) \cup active : d.ticket <= accepted
  BY LiveIs DEF QueueInv, TicketsOK
<1>8. Once(queue')
  <2>1. \A d \in ToSet(queue) : d.ticket # e.ticket
    BY <1>1, <1>7, Members
  <2>q. QED BY <1>1, <1>3, <1>5, <2>1, OnceAppend DEF QueueInv, TicketsOK
<1>9. TicketsOK'
  BY <1>1, <1>3, <1>4, <1>6, <1>7, <1>8, Members, LiveIs DEF QueueInv, TicketsOK
<1>10. NoDuplicateId'
  BY <1>1, <1>2, <1>4, <1>6, LiveIs DEF QueueInv, NoDuplicateId
<1>11. OnePlace'
  <2>1. Len(queue') + Cardinality(active') + Len(finished') = accepted'
    BY <1>3, <1>4, <1>6, Members, ActiveIs, OnePlaceIs DEF QueueInv
  <2>2. \A t : t \in 1..accepted' <=> t \in 1..accepted \/ t = e.ticket
    BY <1>1, <1>3, Members
  <2>q. QED BY <1>4, <1>6, <2>1, <2>2, OnePlaceIs, OnePlaceIsNext DEF QueueInv
<1>12. ToldOK'
  BY <1>1, <1>3, <1>4, <1>6, Members, LiveIs DEF QueueInv, ToldOK
<1>q. QED BY <1>9, <1>10, <1>11, <1>12 DEF QueueInv

LEMMA CancelQueuedKeeps ==
  ASSUME TypeOK, ControlOK, QueueInv, NEW id \in Paths, CancelQueued(id)
  PROVE  QueueInv'
<1>1. PICK i \in DOMAIN queue : /\ queue' = RemoveAt(queue, i)
                                /\ finished' = Append(finished, With(queue[i], "Cancelled"))
                                /\ told' = Append(told, With(queue[i], "Cancelled"))
  BY DEF CancelQueued
<1>2. UNCHANGED <<active, worker, result, accepted>>
  BY DEF CancelQueued
<1>3. queue \in Seq(Items) /\ finished \in Seq(Answers) /\ told \in Seq(Answers) /\ Once(queue)
  BY TypeParts DEF ManagerTypeOK, QueueInv, TicketsOK
<1> DEFINE d == queue[i]
           a == With(d, "Cancelled")
<1>4. d \in ToSet(queue) /\ d \in Items
  BY <1>1, <1>3, LenProperties, InSeq
<1>5. a \in Answers /\ a.id = d.id /\ a.ticket = d.ticket
  BY <1>4, WithIs, CancelledIsStatus
<1>6. \A t \in ToSet(told) : t.ticket # a.ticket
  BY <1>4, <1>5 DEF QueueInv, ToldOK
<1>7. /\ Once(queue') /\ ToSet(queue') = ToSet(queue) \ {d} /\ Len(queue') = Len(queue) - 1
  BY <1>1, <1>3, RemoveAtElements, RemoveAtIsShorter
<1>8. /\ ToSet(finished') = ToSet(finished) \cup {a} /\ Len(finished') = Len(finished) + 1
      /\ ToSet(told') = ToSet(told) \cup {a} /\ Once(told')
  BY <1>1, <1>3, <1>5, <1>6, AppendElements, OnceAppend DEF QueueInv, ToldOK
<1> HIDE DEF d, a
<1>9. TicketsOK'
  BY <1>2, <1>7, LiveIs DEF QueueInv, TicketsOK
<1>10. NoDuplicateId'
  BY <1>2, <1>7, LiveIs DEF QueueInv, NoDuplicateId
<1>11. OnePlace'
  <2>1. Len(queue') + Cardinality(active') + Len(finished') = accepted'
    BY <1>2, <1>7, <1>8, Members, ActiveIs, OnePlaceIs DEF QueueInv
  <2>q. QED BY <1>2, <1>4, <1>5, <1>7, <1>8, <2>1, OnePlaceIs, OnePlaceIsNext DEF QueueInv
<1>12. ToldOK'
  <2>1. /\ \A t \in ToSet(told') : t.ticket <= accepted'
        /\ ToSet(finished') \subseteq ToSet(told')
    BY <1>2, <1>4, <1>5, <1>8, LiveIs DEF QueueInv, ToldOK, TicketsOK
  <2>2. \A e \in ToSet(queue') \cup active' : a.ticket # e.ticket
    BY <1>2, <1>4, <1>5, <1>7, LiveIs DEF QueueInv, TicketsOK
  <2>3. \A e \in ToSet(queue') \cup active' : a.id # e.id
    BY <1>2, <1>4, <1>5, <1>7, LiveIs DEF QueueInv, NoDuplicateId, TicketsOK
  <2>q. QED BY <1>2, <1>7, <1>8, <2>1, <2>2, <2>3, LiveIs DEF QueueInv, ToldOK
<1>q. QED BY <1>9, <1>10, <1>11, <1>12 DEF QueueInv

LEMMA WithdrawAllKeeps ==
  ASSUME TypeOK, ControlOK, QueueInv, WithdrawAll
  PROVE  QueueInv'
<1>1. finished' = finished \o Gone /\ told' = told \o Gone /\ queue' = <<>>
  BY DEF WithdrawAll, Gone
<1>2. UNCHANGED <<active, worker, result, accepted>>
  BY DEF WithdrawAll
<1>3. queue \in Seq(Items) /\ finished \in Seq(Answers) /\ told \in Seq(Answers) /\ Once(queue)
  BY TypeParts DEF ManagerTypeOK, QueueInv, TicketsOK
<1>4. /\ Gone \in Seq(Answers) /\ Len(Gone) = Len(queue) /\ Once(Gone)
      /\ \A x : x \in ToSet(Gone) <=> \E d \in ToSet(queue) : x = With(d, "Cancelled")
  BY <1>3, GoneIs
<1>5. \A d \in ToSet(queue) : /\ With(d, "Cancelled").id = d.id
                              /\ With(d, "Cancelled").ticket = d.ticket
  BY Members, WithIs, CancelledIsStatus
<1>6. \A g \in ToSet(Gone) : \E d \in ToSet(queue) : g.id = d.id /\ g.ticket = d.ticket
  BY <1>4, <1>5
<1>7. \A d \in ToSet(queue) : \E g \in ToSet(Gone) : g.ticket = d.ticket
  BY <1>4, <1>5
<1>8. \A t \in ToSet(told), g \in ToSet(Gone) : t.ticket # g.ticket
  BY <1>6 DEF QueueInv, ToldOK
<1>9. Len(queue') = 0 /\ ToSet(queue') = {} /\ Once(queue')
  BY <1>1, EmptySeq DEF ToSet, Once
<1>10. /\ ToSet(finished') = ToSet(finished) \cup ToSet(Gone)
       /\ Len(finished') = Len(finished) + Len(queue)
       /\ ToSet(told') = ToSet(told) \cup ToSet(Gone)
  BY <1>1, <1>3, <1>4, ConcatElements
<1>11. Once(told')
  BY <1>1, <1>3, <1>4, <1>8, OnceConcat DEF QueueInv, ToldOK
<1>12. TicketsOK'
  BY <1>2, <1>9, LiveIs DEF QueueInv, TicketsOK
<1>13. NoDuplicateId'
  BY <1>2, <1>9, LiveIs DEF QueueInv, NoDuplicateId
<1>14. OnePlace'
  <2>1. Len(queue') + Cardinality(active') + Len(finished') = accepted'
    BY <1>2, <1>9, <1>10, Members, ActiveIs, OnePlaceIs DEF QueueInv
  <2>q. QED BY <1>2, <1>6, <1>7, <1>9, <1>10, <2>1, OnePlaceIs, OnePlaceIsNext DEF QueueInv
<1>15. ToldOK'
  <2>1. \A g \in ToSet(Gone) : g.ticket <= accepted
    BY <1>6, LiveIs DEF QueueInv, TicketsOK
  <2>2. \A g \in ToSet(Gone), e \in active : g.ticket # e.ticket /\ g.id # e.id
    BY <1>6, LiveIs DEF QueueInv, TicketsOK, NoDuplicateId
  <2>q. QED BY <1>2, <1>9, <1>10, <1>11, <2>1, <2>2, LiveIs DEF QueueInv, ToldOK
<1>q. QED BY <1>12, <1>13, <1>14, <1>15 DEF QueueInv

LEMMA TakeKeeps ==
  ASSUME TypeOK, ControlOK, QueueInv, Take
  PROVE  QueueInv'
<1> DEFINE h == Head(queue)
<1>1. /\ queue' = Tail(queue) /\ active' = {h} /\ active = {}
      /\ worker # "store" /\ worker' # "store"
      /\ UNCHANGED <<finished, told, accepted>>
  BY DEF Take, ControlOK, dmHistory
<1>2. queue \in Seq(Items) /\ Len(queue) # 0 /\ Once(queue)
  BY EmptySeq DEF Take, TypeOK, QueueInv, TicketsOK
<1>3. /\ h \in ToSet(queue) /\ Once(queue')
      /\ ToSet(queue') = ToSet(queue) \ {h} /\ Len(queue') = Len(queue) - 1
  BY <1>1, <1>2, TailElements
<1> HIDE DEF h
<1>4. Live' = Live
  BY <1>1, <1>3, LiveIs
<1>5. TicketsOK'
  BY <1>1, <1>3, <1>4 DEF QueueInv, TicketsOK
<1>6. NoDuplicateId'
  BY <1>4 DEF QueueInv, NoDuplicateId
<1>7. OnePlace'
  <2>1. Len(queue') + Cardinality(active') + Len(finished') = accepted'
    <3>1. Cardinality(active) = 0 /\ Cardinality(active') = 1
      BY <1>1, ActiveIs, FS_Singleton
    <3>2. UNCHANGED <<finished, accepted>> /\ Len(queue') = Len(queue) - 1
      BY <1>1, <1>3
    <3>q. QED BY <3>1, <3>2, Members, OnePlaceIs DEF QueueInv
  <2>q. QED BY <1>1, <1>3, <2>1, OnePlaceIs, OnePlaceIsNext DEF QueueInv
<1>8. ToldOK'
  BY <1>1, <1>3, <1>4 DEF QueueInv, ToldOK
<1>q. QED BY <1>5, <1>6, <1>7, <1>8 DEF QueueInv

LEMMA AnswerKeeps ==
  ASSUME TypeOK, ControlOK, QueueInv, NEW s \in Status, Answer(s)
  PROVE  QueueInv'
<1>1. PICK d \in active : told' = Append(told, With(d, s))
  BY DEF Answer, Finish
<1>2. /\ active = {d} /\ worker # "store" /\ worker' = "store" /\ result' = s
      /\ UNCHANGED <<queue, active, finished, accepted>>
  BY <1>1 DEF Answer, Finish, ControlOK
<1> DEFINE a == With(d, s)
<1>3. told \in Seq(Answers) /\ a \in Answers /\ a.id = d.id /\ a.ticket = d.ticket
  BY <1>1, WithIs, Members, TypeParts DEF ManagerTypeOK
<1>4. \A t \in ToSet(told) : t.ticket # a.ticket
  BY <1>2, <1>3 DEF QueueInv, ToldOK
<1>5. ToSet(told') = ToSet(told) \cup {a} /\ Once(told')
  BY <1>1, <1>3, <1>4, AppendElements, OnceAppend DEF QueueInv, ToldOK
<1>6. a = With(d, result')
  BY <1>2
<1> HIDE DEF a
<1>7. Live' = Live
  BY <1>2, LiveIs
<1>8. TicketsOK'
  BY <1>2, <1>7 DEF QueueInv, TicketsOK
<1>9. NoDuplicateId'
  BY <1>7 DEF QueueInv, NoDuplicateId
<1>10. OnePlace'
  BY <1>2, OnePlaceIs, OnePlaceIsNext DEF QueueInv
<1>11. ToldOK'
  <2>1. d \in Live
    BY <1>1, LiveIs
  <2>2. \A e \in Live : e.id = a.id => a.ticket <= e.ticket
    BY <1>1, <1>3, <2>1, Members DEF QueueInv, NoDuplicateId
  <2>3. a.ticket <= accepted /\ \A e \in ToSet(queue) : e.ticket # a.ticket
    BY <1>2, <1>3, <2>1, LiveIs DEF QueueInv, TicketsOK
  <2>q. QED BY <1>2, <1>5, <1>6, <1>7, <2>2, <2>3 DEF QueueInv, ToldOK
<1>q. QED BY <1>8, <1>9, <1>10, <1>11 DEF QueueInv

LEMMA StoreKeeps ==
  ASSUME TypeOK, ControlOK, QueueInv, Store
  PROVE  QueueInv'
<1>1. PICK d \in active : finished' = Append(finished, With(d, result))
  BY DEF Store
<1>2. /\ active = {d} /\ active' = {} /\ worker = "store" /\ worker' = "wait" /\ result \in Status
      /\ UNCHANGED <<queue, told, accepted>>
  BY <1>1 DEF Store, ControlOK, TypeOK
<1> DEFINE a == With(d, result)
<1>3. finished \in Seq(Answers) /\ a \in Answers /\ a.ticket = d.ticket
  BY <1>1, <1>2, WithIs, Members, TypeParts DEF ManagerTypeOK
<1>4. ToSet(finished') = ToSet(finished) \cup {a} /\ Len(finished') = Len(finished) + 1
  BY <1>1, <1>3, AppendElements
<1>5. a \in ToSet(told)
  BY <1>2 DEF QueueInv, ToldOK
<1> HIDE DEF a
<1>6. Live' \subseteq Live
  BY <1>2, LiveIs
<1>7. TicketsOK'
  BY <1>2, <1>6 DEF QueueInv, TicketsOK
<1>8. NoDuplicateId'
  BY <1>6 DEF QueueInv, NoDuplicateId
<1>9. OnePlace'
  <2>1. Len(queue') + Cardinality(active') + Len(finished') = accepted'
    <3>1. Cardinality(active) = 1 /\ Cardinality(active') = 0
      BY <1>2, ActiveIs, FS_EmptySet
    <3>q. QED BY <1>2, <1>4, <3>1, Members, OnePlaceIs DEF QueueInv
  <2>q. QED BY <1>2, <1>3, <1>4, <2>1, OnePlaceIs, OnePlaceIsNext DEF QueueInv
<1>10. ToldOK'
  BY <1>2, <1>4, <1>5, <1>6 DEF QueueInv, ToldOK
<1>q. QED BY <1>7, <1>8, <1>9, <1>10 DEF QueueInv

LEMMA NextKeepsQueue ==
  ASSUME TypeOK, ControlOK, QueueInv, [Next]_vars
  PROVE  QueueInv'
<1>1. CASE Quiet
  BY <1>1, LiveIs, OnePlaceIs, OnePlaceIsNext
     DEF Quiet, QueueInv, NoDuplicateId, TicketsOK, ToldOK, With
<1>q. QED BY <1>1, StepShows, EnqueueKeeps, CancelQueuedKeeps, WithdrawAllKeeps, TakeKeeps,
             AnswerKeeps, StoreKeeps

-----------------------------------------------------------------------------
(* What is on disk                                                         *)

\* A completed download of which nothing later is known.
LastWord(t, T, live) ==
    /\ t.status = "Completed"
    /\ \A u \in T : u.id = t.id => u.ticket <= t.ticket
    /\ \A d \in live : d.id = t.id => d.ticket = t.ticket

\* CompletedIsOnDisk, in the form in which it is used.
LEMMA CompletedIs ==
  CompletedIsOnDisk <=> \A t \in ToSet(told) : LastWord(t, ToSet(told), Live) => files[t.id] \in Whole
BY DEF CompletedIsOnDisk, LastWord, Whole, ToSet

LEMMA CompletedIsNext ==
  CompletedIsOnDisk' <=>
    \A t \in ToSet(told') : LastWord(t, ToSet(told'), Live') => files'[t.id] \in Whole'
BY DEF CompletedIsOnDisk, LastWord, Whole, ToSet

\* Only the worker's own destination changes, and only before it has answered.
LEMMA FilesStep ==
  ASSUME TypeOK, ControlOK, RewoundOK, [Next]_vars
  PROVE  /\ StorageStep
         /\ \A p \in Paths : (\A d \in active : d.id # p) => files'[p] = files[p]
         /\ worker = "store" => files' = files
         /\ files' = files \/ Quiet
<1>0. StorageTypeOK /\ HttpTypeOK /\ Ps4TypeOK
  BY DEF TypeOK
<1>1. CASE UNCHANGED <<faults, files>>
  BY <1>0, <1>1, UnchangedFaults
<1>2. CASE CallerStep \/ DestructorStep \/ UNCHANGED vars
  BY <1>1, <1>2 DEF CallerStep, Enqueue, CancelQueued, CancelActive, CancelAll, DestroyCancels,
              WithdrawAll, DestructorStep, DestroyStops, DestroyJoins, ioVars, httpVars, vars
<1>3. CASE WorkerStep
  <2>1. CASE BeginDownload \/ Transfer
    <3>1. Quiet /\ worker # "store"
      BY <2>1 DEF BeginDownload, Transfer, Quiet, dmVars, dmHistory
    <3>2. StorageStep /\ \A p \in Paths : (\A d \in active : d.id # p) => files'[p] = files[p]
      <4>1. CASE Ps4Begin
        BY <1>1, <4>1 DEF Ps4Begin
      <4>2. CASE \E d \in active : OpenDestination(d.id) \/ TransferStep(d.id) \/ Ps4TransferStep(d.id)
        <5>1. PICK d \in active : OpenDestination(d.id) \/ TransferStep(d.id) \/ Ps4TransferStep(d.id)
          BY <4>2
        <5>2. d.id \in Paths
          BY DEF TypeOK, Items
        <5>q. QED BY <1>0, <5>1, <5>2, OpenTyped, OpenStarts, TransferTyped, TransferGoesOn, Ps4GoesOn
      <4>q. QED BY <2>1, <4>1, <4>2 DEF BeginDownload, Transfer
    <3>q. QED BY <3>1, <3>2
  <2>2. CASE Take \/ WorkerExits \/ CheckCancelled \/ CheckPasses \/ Completes \/ CancelledInDownload
             \/ Retries \/ Fails \/ Store
    BY <1>1, <2>2 DEF Take, WorkerExits, CheckCancelled, CheckPasses, Completes, CancelledInDownload,
                Retries, Fails, Returned, Store, ioVars, httpVars
  <2>q. QED BY <1>3, <2>1, <2>2 DEF WorkerStep
<1>q. QED BY <1>2, <1>3 DEF Next

\* An answer that says completed comes from a call that delivered.
LEMMA CompletedDelivers ==
  ASSUME TypeOK, ControlOK, [Next]_vars, NEW s \in Status, Answer(s), s = "Completed",
         worker' = "store", result' = s
  PROVE  transfer.phase = "ok"
<1>1. worker # "store"
  BY DEF Answer
<1>2. CASE Completes
  BY <1>2 DEF Completes, Returned
<1>3. CASE CheckCancelled \/ CancelledInDownload \/ Fails
  BY <1>3 DEF CheckCancelled, CancelledInDownload, Fails, Finish
<1>4. CASE CallerStep \/ DestructorStep \/ UNCHANGED vars
  BY <1>1, <1>4 DEF CallerStep, Enqueue, CancelQueued, CancelActive, CancelAll, DestroyCancels,
              WithdrawAll, DestructorStep, DestroyStops, DestroyJoins, dmVars, vars
<1>5. CASE Take \/ WorkerExits \/ CheckPasses \/ BeginDownload \/ Transfer \/ Retries \/ Store
  BY <1>1, <1>5 DEF Take, WorkerExits, CheckPasses, BeginDownload, Transfer, Retries, NextAttempt,
              Store, dmVars
<1>q. QED BY <1>2, <1>3, <1>4, <1>5 DEF Next, WorkerStep

LEMMA NextKeepsFiles ==
  ASSUME TypeOK, TypeOK', ControlOK, QueueInv, DeliveredOK, CompletedIsOnDisk, [Next]_vars
  PROVE  CompletedIsOnDisk'
<1>1. Whole \subseteq Whole'
  BY FilesStep, WholeGrows DEF DeliveredOK
<1>2. /\ ToSet(told) \subseteq Answers /\ \A t \in Answers : t.id \in Paths /\ t.ticket \in Nat
      /\ Live \subseteq Items /\ \A d \in Items : d.id \in Paths /\ d.ticket \in Nat
  BY Members, LiveIs DEF Answers, Items
<1>3. /\ worker = "store" => files' = files
      /\ files' = files \/ Quiet
      /\ \A p \in Paths : (\A d \in active : d.id # p) => files'[p] = files[p]
  BY FilesStep DEF DeliveredOK
<1>4. \A t \in ToSet(told), d \in ToSet(queue) : t.id = d.id => t.ticket < d.ticket
  BY <1>2, LiveIs DEF QueueInv, ToldOK
\* It is enough that what is the last word now was it before, of the same
\* file, and that a new answer left a whole file.
<1>5. SUFFICES
        /\ \A t \in ToSet(told) : LastWord(t, ToSet(told'), Live') =>
              LastWord(t, ToSet(told), Live) /\ files'[t.id] = files[t.id]
        /\ \A t \in ToSet(told') \ ToSet(told) : t.status = "Completed" => files'[t.id] \in Whole'
  <2>1. \A t \in ToSet(told) : LastWord(t, ToSet(told), Live) => files[t.id] \in Whole
    BY CompletedIs
  <2>2. \A t : LastWord(t, ToSet(told'), Live') => t.status = "Completed"
    BY DEF LastWord
  <2>q. QED BY <1>1, <2>1, <2>2, CompletedIsNext
<1> USE DEF LastWord
<1>6. CASE Quiet
  <2>1. told' = told /\ Live' = Live
    BY <1>6, LiveIs DEF Quiet
  <2>2. ASSUME NEW t \in ToSet(told), LastWord(t, ToSet(told), Live) PROVE files'[t.id] = files[t.id]
    <3>1. CASE \A d \in active : d.id # t.id
      BY <1>2, <1>3, <3>1
    <3>2. CASE \E d \in active : d.id = t.id
      <4>1. worker = "store"
        BY <2>2, <3>2, LiveIs DEF QueueInv, ToldOK
      <4>q. QED BY <1>3, <4>1
    <3>q. QED BY <3>1, <3>2
  <2>q. QED BY <2>1, <2>2
<1>7. CASE \E id \in Paths : Enqueue(id)
  <2>1. PICK id \in Paths : Enqueue(id)
    BY <1>7
  <2>2. queue' = Append(queue, [id |-> id, ticket |-> accepted + 1]) /\ UNCHANGED <<active, told, files>>
    BY <2>1 DEF Enqueue, ioVars, httpVars
  <2>3. Live \subseteq Live'
    <3>1. queue \in Seq(Items) /\ [id |-> id, ticket |-> accepted + 1] \in Items
      BY <2>1, NewItem DEF Enqueue, TypeOK
    <3>2. ToSet(queue) \subseteq ToSet(queue')
      BY <2>2, <3>1, AppendElements
    <3>q. QED BY <2>2, <3>2, LiveIs
  <2>q. QED BY <2>2, <2>3
<1>8. CASE \/ \E id \in Paths : CancelQueued(id)
           \/ WithdrawAll
  <2>1. /\ ToSet(told) \subseteq ToSet(told')
        /\ \A a \in ToSet(told') \ ToSet(told) : a.status = "Cancelled"
        /\ \A d \in Live \ Live' : d \in ToSet(queue) /\ \E a \in ToSet(told') : a.id = d.id /\ a.ticket = d.ticket
        /\ files' = files
    <3>0. queue \in Seq(Items) /\ told \in Seq(Answers) /\ Once(queue)
      BY TypeParts DEF ManagerTypeOK, QueueInv, TicketsOK
    <3>1. CASE \E id \in Paths : CancelQueued(id)
      <4>1. PICK id \in Paths : CancelQueued(id)
        BY <3>1
      <4>2. PICK i \in DOMAIN queue : /\ queue' = RemoveAt(queue, i)
                                      /\ told' = Append(told, With(queue[i], "Cancelled"))
        BY <4>1 DEF CancelQueued
      <4>3. active' = active /\ files' = files
        BY <4>1 DEF CancelQueued, ioVars, httpVars
      <4> DEFINE d == queue[i]
                 a == With(d, "Cancelled")
      <4>4. d \in ToSet(queue) /\ d \in Items
        BY <3>0, <4>2, LenProperties, InSeq
      <4>5. a \in Answers /\ a.id = d.id /\ a.ticket = d.ticket /\ a.status = "Cancelled"
        BY <4>4, WithIs, CancelledIsStatus
      <4>6. ToSet(queue') = ToSet(queue) \ {d} /\ ToSet(told') = ToSet(told) \cup {a}
        BY <3>0, <4>2, <4>5, RemoveAtElements, AppendElements
      <4> HIDE DEF d, a
      <4>q. QED BY <4>3, <4>4, <4>5, <4>6, LiveIs
    <3>2. CASE WithdrawAll
      <4>1. told' = told \o Gone /\ queue' = <<>> /\ active' = active /\ files' = files
        BY <3>2 DEF WithdrawAll, Gone
      <4>2. /\ ToSet(told') = ToSet(told) \cup ToSet(Gone)
            /\ \A x : x \in ToSet(Gone) <=> \E d \in ToSet(queue) : x = With(d, "Cancelled")
        BY <3>0, <4>1, GoneIs, ConcatElements
      <4>3. \A d \in ToSet(queue) : /\ With(d, "Cancelled").id = d.id
                                    /\ With(d, "Cancelled").ticket = d.ticket
                                    /\ With(d, "Cancelled").status = "Cancelled"
        BY Members, WithIs, CancelledIsStatus
      <4>4. Live \ Live' \subseteq ToSet(queue)
        BY <4>1, LiveIs
      <4>q. QED BY <4>1, <4>2, <4>3, <4>4
    <3>q. QED BY <1>8, <3>1, <3>2
  <2>2. ASSUME NEW t \in ToSet(told), LastWord(t, ToSet(told'), Live'), NEW d \in Live, d.id = t.id
        PROVE  d.ticket = t.ticket
    <3>1. CASE d \in Live'
      BY <2>2, <3>1
    <3>2. CASE d \notin Live'
      <4>1. d.ticket <= t.ticket /\ t.ticket < d.ticket
        BY <1>4, <2>1, <2>2, <3>2
      <4>q. QED BY <1>2, <4>1
    <3>q. QED BY <3>1, <3>2
  <2>q. QED BY <2>1, <2>2
<1>9. CASE Take
  <2>1. queue \in Seq(Items) /\ Len(queue) # 0 /\ Once(queue)
    BY <1>9, EmptySeq DEF Take, TypeOK, QueueInv, TicketsOK
  <2>2. /\ queue' = Tail(queue) /\ active = {} /\ active' = {Head(queue)}
        /\ told' = told /\ files' = files
    BY <1>9 DEF Take, ControlOK, dmHistory, ioVars, httpVars
  <2>3. Live' = Live
    BY <2>1, <2>2, TailElements, LiveIs
  <2>q. QED BY <2>2, <2>3
<1>10. CASE \E s \in Status : Answer(s)
  <2>1. PICK s \in Status : Answer(s)
    BY <1>10
  <2>2. PICK d \in active : told' = Append(told, With(d, s))
    BY <2>1 DEF Answer, Finish
  <2>3. /\ worker # "store" /\ worker' = "store" /\ result' = s
        /\ UNCHANGED <<queue, active>>
    BY <2>1 DEF Answer, Finish
  <2>4. told \in Seq(Answers) /\ With(d, s) \in Answers /\ With(d, s).id = d.id /\ With(d, s).status = s
    BY <2>2, WithIs, Members, TypeParts DEF ManagerTypeOK
  <2>5. ToSet(told') = ToSet(told) \cup {With(d, s)} /\ Live' = Live
    BY <2>2, <2>3, <2>4, AppendElements, LiveIs
  <2>6. files' = files
    BY <1>3, <2>3 DEF Quiet
  <2>7. s = "Completed" => files'[d.id] \in Whole'
    BY <1>1, <2>1, <2>2, <2>3, <2>6, CompletedDelivers DEF DeliveredOK
  <2>q. QED BY <2>4, <2>5, <2>6, <2>7
<1>11. CASE Store
  <2>1. PICK d \in active : finished' = Append(finished, With(d, result))
    BY <1>11 DEF Store
  <2>2. /\ active = {d} /\ worker = "store" /\ result \in Status /\ d \in Items
        /\ UNCHANGED <<queue, told, files>>
    BY <1>11, <2>1 DEF Store, ControlOK, TypeOK, ioVars, httpVars
  <2>3. With(d, result) \in ToSet(told) /\ With(d, result).id = d.id /\ With(d, result).ticket = d.ticket
    BY <2>2, WithIs DEF QueueInv, ToldOK
  <2>4. \A e \in Live \ Live' : e = d
    BY <2>2, LiveIs
  <2>5. \A t \in ToSet(told) : t.id = d.id => t.ticket <= d.ticket
    BY <2>2, LiveIs DEF QueueInv, ToldOK
  <2>6. ASSUME NEW t \in ToSet(told), LastWord(t, ToSet(told'), Live'), NEW e \in Live, e.id = t.id
        PROVE  e.ticket = t.ticket
    <3>1. CASE e \in Live'
      BY <2>6, <3>1
    <3>2. CASE e = d
      <4>1. d.ticket <= t.ticket /\ t.ticket <= d.ticket
        BY <2>2, <2>3, <2>5, <2>6, <3>2
      <4>q. QED BY <1>2, <2>2, <3>2, <4>1
    <3>q. QED BY <2>4, <3>1, <3>2
  <2>q. QED BY <2>2, <2>6
<1>q. QED BY <1>6, <1>7, <1>8, <1>9, <1>10, <1>11, StepShows

-----------------------------------------------------------------------------
(* The invariant, and the safety properties                                *)

LEMMA InitInv == Init => IInv
<1> SUFFICES ASSUME Init PROVE IInv
  OBVIOUS
<1>0. queue = <<>> /\ finished = <<>> /\ told = <<>>
  BY DEF Init
<1>1. /\ active = {} /\ accepted = 0 /\ asked = {} /\ cancelDue = FALSE
      /\ worker = "wait" /\ attempt = 0 /\ result = "none"
      /\ stop = FALSE /\ owner = "open" /\ transfer = NoTransfer /\ client \in {"curl", "ps4"}
      /\ StorageInit /\ HttpInit /\ Ps4Init
  BY DEF Init, HttpInit
<1>2. /\ queue \in Seq(Items) /\ finished \in Seq(Answers) /\ told \in Seq(Answers)
      /\ Len(queue) = 0 /\ Len(finished) = 0
      /\ ToSet(queue) = {} /\ ToSet(finished) = {} /\ ToSet(told) = {}
      /\ Once(queue) /\ Once(told)
  BY <1>0, EmptySeq DEF ToSet, Once
<1>3. IoTypeOK
  <2>1. StorageTypeOK /\ Ps4TypeOK
    BY <1>1, MaxFaultsIsNat DEF StorageInit, Ps4Init, StorageTypeOK, Ps4TypeOK
  <2>2. HttpTypeOK
    BY <1>1, NoTransferTyped DEF HttpInit, HttpTypeOK, Content
  <2>q. QED BY <1>1, <2>1, <2>2 DEF IoTypeOK
<1>4. ManagerTypeOK
  <2>1. attempt \in 0..MaxRetries /\ accepted \in 0..MaxAccepted
    BY <1>1, BoundsAreNat
  <2>2. stop \in BOOLEAN /\ cancelDue \in BOOLEAN
    BY <1>1
  <2>q. QED BY <1>1, <1>2, <2>1, <2>2 DEF ManagerTypeOK
<1>5. Live = {}
  BY <1>1, <1>2, LiveIs
<1>6. OnePlace
  <2>1. Cardinality(active) = 0
    BY <1>1, FS_EmptySet
  <2>q. QED BY <1>1, <1>2, <2>1, OnePlaceIs
<1>7. TicketsOK /\ ToldOK /\ NoDuplicateId
  BY <1>1, <1>2, <1>5 DEF TicketsOK, ToldOK, NoDuplicateId
<1>8. ControlOK /\ CancelOK /\ DeliveredOK
  BY <1>1 DEF ControlOK, CancelOK, DeliveredOK, RewoundOK, NoTransfer
<1>9. CompletedIsOnDisk
  BY <1>2, CompletedIs
<1>q. QED BY <1>3, <1>4, <1>6, <1>7, <1>8, <1>9, TypeParts DEF IInv, QueueInv

LEMMA NextInv ==
  ASSUME IInv, [Next]_vars
  PROVE  IInv'
<1>1. TypeOK' /\ ControlOK'
  BY NextTyped DEF IInv, QueueInv, TicketsOK, DeliveredOK
<1>2. QueueInv'
  BY NextKeepsQueue DEF IInv
<1>3. CancelOK'
  BY NextHonoursCancel DEF IInv, DeliveredOK
<1>4. DeliveredOK'
  BY <1>1, NextDelivers DEF IInv
<1>5. CompletedIsOnDisk'
  BY <1>1, NextKeepsFiles DEF IInv
<1>q. QED BY <1>1, <1>2, <1>3, <1>4, <1>5 DEF IInv

LEMMA Invariance == Spec => []IInv
BY InitInv, NextInv, PTL DEF Spec

\* Every part of the manager's state, and of the client it calls, keeps its
\* type, for every number of downloads and retries.
THEOREM DownloadsTypeCorrect == Spec => []TypeOK
<1>1. IInv => TypeOK
  BY DEF IInv
<1>q. QED BY <1>1, Invariance, PTL

\* No download is lost or doubled between queue, worker and history, whoever
\* cancels what at which moment.
THEOREM DownloadsAreInOnePlace == Spec => []OnePlace
<1>1. IInv => OnePlace
  BY DEF IInv, QueueInv
<1>q. QED BY <1>1, Invariance, PTL

\* No two downloads that are still to be answered share an id, and so a file.
THEOREM IdsAreNotShared == Spec => []NoDuplicateId
<1>1. IInv => NoDuplicateId
  BY DEF IInv, QueueInv
<1>q. QED BY <1>1, Invariance, PTL

\* Each download has at most one final callback, and the history agrees with it.
THEOREM EachIsCalledBackOnce == Spec => []CalledBackOnce
<1>1. IInv => CalledBackOnce
  BY CalledBackOnceIs DEF IInv, QueueInv
<1>q. QED BY <1>1, Invariance, PTL

\* A cancel that comes while the worker still looks at the flag ends the
\* retries, although the next request would clear the flag.
THEOREM CancelEndsRetries == Spec => []CancelStopsRetries
<1>1. IInv => CancelStopsRetries
  BY DEF IInv, CancelOK, Looking, CancelStopsRetries
<1>q. QED BY <1>1, Invariance, PTL

\* What was reported complete is on disk, with either client, until a later
\* download of the same id is under way.
THEOREM CompletedStaysOnDisk == Spec => []CompletedIsOnDisk
<1>1. IInv => CompletedIsOnDisk
  BY DEF IInv
<1>q. QED BY <1>1, Invariance, PTL

-----------------------------------------------------------------------------
(* The refinement                                                          *)

\* The mapped answers.
AnswersOf(T) == {<<t.ticket, t.status>> : t \in T}

Mapped == {<<told[i].ticket, told[i].status>> : i \in DOMAIN told}

LEMMA MappedIs == Mapped = AnswersOf(ToSet(told)) /\ Mapped' = AnswersOf(ToSet(told'))
BY DEF Mapped, AnswersOf, ToSet

LEMMA UnansweredIs ==
  ASSUME NEW d
  PROVE  Queue!Unanswered(d) <=> \A s \in Status : <<d.ticket, s>> \notin Mapped
BY DEF Queue!Unanswered, Mapped

LEMMA EnqueueRefines ==
  ASSUME NEW id \in Paths, Enqueue(id)
  PROVE  Queue!Accept(id)
<1>1. \A d \in Queue!Waiting \cup active : d.id # id
  BY DEF Enqueue, Queued, Active, Queue!Waiting
<1>q. QED BY <1>1 DEF Enqueue, Queue!Accept

LEMMA CancelQueuedRefines ==
  ASSUME TypeOK, NEW id \in Paths, CancelQueued(id)
  PROVE  Queue!Withdraw(id)
<1>1. PICK i \in DOMAIN queue : /\ queue[i].id = id
                                /\ queue' = RemoveAt(queue, i)
                                /\ told' = Append(told, With(queue[i], "Cancelled"))
  BY DEF CancelQueued
<1>2. UNCHANGED <<active, accepted>>
  BY DEF CancelQueued
<1>3. queue[i] \in Items /\ told \in Seq(Answers)
  BY <1>1, LenProperties, ElementOfSeq, TypeParts DEF TypeOK, ManagerTypeOK
<1> DEFINE a == With(queue[i], "Cancelled")
<1>4. a \in Answers /\ a.ticket = queue[i].ticket /\ a.status = "Cancelled"
  BY <1>3, WithIs, CancelledIsStatus
<1> HIDE DEF a
<1>5. ToSet(told') = ToSet(told) \cup {a}
  BY <1>1, <1>3, <1>4, AppendElements DEF a
<1>6. Mapped' = Mapped \cup {<<queue[i].ticket, "Cancelled">>}
  BY <1>4, <1>5, MappedIs DEF AnswersOf
<1>7. Queue!RemoveAt(queue, i) = RemoveAt(queue, i)
  BY DEF Queue!RemoveAt, RemoveAt
<1>q. QED BY <1>1, <1>2, <1>6, <1>7 DEF Queue!Withdraw, Mapped

LEMMA WithdrawAllRefines ==
  ASSUME TypeOK, Once(queue), WithdrawAll
  PROVE  Queue!WithdrawAll
<1>1. told' = told \o Gone /\ queue' = <<>> /\ UNCHANGED <<active, accepted>>
  BY DEF WithdrawAll, Gone
<1>2. queue \in Seq(Items) /\ told \in Seq(Answers)
  BY TypeParts DEF ManagerTypeOK
<1>3. /\ ToSet(told') = ToSet(told) \cup ToSet(Gone)
      /\ \A x : x \in ToSet(Gone) <=> \E d \in ToSet(queue) : x = With(d, "Cancelled")
  BY <1>1, <1>2, GoneIs, ConcatElements
<1>4. \A d \in ToSet(queue) : /\ With(d, "Cancelled").ticket = d.ticket
                              /\ With(d, "Cancelled").status = "Cancelled"
  BY Members, WithIs, CancelledIsStatus
<1>5. \A x : x \in AnswersOf(ToSet(Gone)) <=> \E d \in ToSet(queue) : x = <<d.ticket, "Cancelled">>
  BY <1>3, <1>4 DEF AnswersOf
<1>6. Mapped' = Mapped \cup AnswersOf(ToSet(Gone))
  BY <1>3, MappedIs DEF AnswersOf
<1>7. Queue!Waiting = ToSet(queue)
  BY DEF Queue!Waiting, ToSet
<1>8. Mapped' = Mapped \cup {<<d.ticket, "Cancelled">> : d \in Queue!Waiting}
  BY <1>5, <1>6, <1>7
<1>q. QED BY <1>1, <1>8 DEF Queue!WithdrawAll, Mapped

LEMMA TakeRefines ==
  ASSUME ControlOK, Take
  PROVE  Queue!Begin
BY DEF Take, ControlOK, dmHistory, Queue!Begin

LEMMA AnswerRefines ==
  ASSUME TypeOK, ControlOK, QueueInv, NEW s \in Status, Answer(s)
  PROVE  Queue!Answer(s)
<1>1. PICK d \in active : told' = Append(told, With(d, s))
  BY DEF Answer, Finish
<1>2. worker # "store" /\ UNCHANGED <<queue, active, accepted>>
  BY DEF Answer, Finish
<1>3. told \in Seq(Answers) /\ d \in Items
  BY <1>1, Members, TypeParts DEF ManagerTypeOK
<1> DEFINE a == With(d, s)
<1>4. a \in Answers /\ a.ticket = d.ticket /\ a.status = s
  BY <1>3, WithIs
<1> HIDE DEF a
<1>5. ToSet(told') = ToSet(told) \cup {a}
  BY <1>1, <1>3, <1>4, AppendElements DEF a
<1>6. Mapped' = Mapped \cup {<<d.ticket, s>>}
  BY <1>4, <1>5, MappedIs DEF AnswersOf
<1>7. Queue!Unanswered(d)
  <2>1. \A t \in ToSet(told) : t.ticket # d.ticket
    BY <1>1, <1>2 DEF QueueInv, ToldOK
  <2>2. \A r : <<d.ticket, r>> \notin Mapped
    BY <2>1, MappedIs DEF AnswersOf
  <2>q. QED BY <2>2, UnansweredIs
<1>q. QED BY <1>1, <1>2, <1>6, <1>7 DEF Queue!Answer, Mapped

LEMMA StoreRefines ==
  ASSUME TypeOK, ControlOK, QueueInv, Store
  PROVE  Queue!PutAway
<1>1. /\ worker = "store" /\ active # {} /\ active' = {}
      /\ UNCHANGED <<queue, told, accepted>>
  BY DEF Store
<1>2. Mapped' = Mapped
  BY <1>1 DEF Mapped
<1>3. ASSUME NEW d \in active PROVE ~Queue!Unanswered(d)
  <2>1. d \in Items /\ result \in Status /\ With(d, result) \in ToSet(told)
    BY <1>1, <1>3 DEF TypeOK, ControlOK, QueueInv, ToldOK
  <2>2. <<d.ticket, result>> \in Mapped
    BY <2>1, WithIs, MappedIs DEF AnswersOf
  <2>q. QED BY <2>1, <2>2, UnansweredIs
<1>q. QED BY <1>1, <1>2, <1>3 DEF Queue!PutAway, Mapped

LEMMA NextRefines ==
  ASSUME IInv, [Next]_vars
  PROVE  [Queue!QueueNext]_(Queue!queueVars)
<1>0. TypeOK /\ ControlOK /\ QueueInv /\ Once(queue)
  BY DEF IInv, QueueInv, TicketsOK
<1>1. CASE Quiet
  <2>1. UNCHANGED <<queue, active, accepted, told>>
    BY <1>1 DEF Quiet
  <2>q. QED BY <2>1 DEF Queue!queueVars
<1>2. CASE \E id \in Paths : Enqueue(id) \/ CancelQueued(id)
  BY <1>0, <1>2, EnqueueRefines, CancelQueuedRefines DEF Queue!QueueNext
<1>3. CASE WithdrawAll \/ Take \/ Store
  BY <1>0, <1>3, WithdrawAllRefines, TakeRefines, StoreRefines DEF Queue!QueueNext
<1>4. CASE \E s \in Status : Answer(s)
  BY <1>0, <1>4, AnswerRefines DEF Queue!QueueNext
<1>q. QED BY <1>0, <1>1, <1>2, <1>3, <1>4, StepShows

\* The download manager is a queue: what waits keeps its order, one download
\* is worked on, and each is answered once, whatever retries, cancels and the
\* destructor do underneath.
THEOREM QueueIsImplemented == Spec => ImplementsQueue
<1>1. Init => Queue!QueueInit
  BY DEF Init, Queue!QueueInit
<1>q. QED BY <1>1, Invariance, NextRefines, PTL DEF Spec, ImplementsQueue, Queue!QueueSpec
=============================================================================
