--------------------------- MODULE AuditLogProofs ---------------------------
(***************************************************************************)
(* What the hash chain of AuditLog promises, proved for any events, file,   *)
(* calls and failures: no record of it is missing (ChainWhole), what nobody *)
(* asked to delete stays recorded (RecordsStay), checkIntegrity() reports   *)
(* nothing else than a deletion (OnlyTrueAlarms), and the types             *)
(* (TypeCorrect).                                                           *)
(***************************************************************************)
EXTENDS AuditLog, SequenceTheorems, TLAPS

USE AuditLogAssumption

-----------------------------------------------------------------------------
(* Records, that is, sequences of events. *)

Prefix(a, b) == Len(a) <= Len(b) /\ \A i \in 1 .. Len(a) : a[i] = b[i]

Elements(s) == {s[i] : i \in 1 .. Len(s)}

Distinct(s) == \A i, j \in 1 .. Len(s) : i # j => s[i] # s[j]

LEMMA Lengths == \A s \in Ids : Len(s) \in Nat /\ (s # Null <=> Len(s) > 0)
  BY EmptySeq, LenProperties DEF Ids, Null

LEMMA EventType ==
  ASSUME NEW s \in Ids, s # Null
  PROVE  Event(s) \in Events /\ Event(s) \in Elements(s)
<1>1. Len(s) \in 1 .. Len(s)
  BY Lengths
<1>. QED BY <1>1, ElementOfSeq DEF Event, Ids, Elements

\* The record before s.
LEMMA PreviousProperties ==
  ASSUME NEW s \in Ids
  PROVE  /\ Previous(s) \in Ids
         /\ Len(Previous(s)) = IF s = Null THEN 0 ELSE Len(s) - 1
         /\ Prefix(Previous(s), s)
<1>1. Len(s) \in Nat /\ (s = Null <=> Len(s) = 0)
  BY Lengths
<1>2. \A i \in 1 .. Len(s) - 1 : s[i] \in Events
  BY <1>1, ElementOfSeq DEF Ids
<1>3. /\ SubSeq(s, 1, Len(s) - 1) \in Seq(Events)
      /\ Len(SubSeq(s, 1, Len(s) - 1)) = IF 1 <= Len(s) - 1 THEN Len(s) - 1 ELSE 0
      /\ \A i \in 1 .. Len(s) - 1 : SubSeq(s, 1, Len(s) - 1)[i] = s[i]
  <2>1. 1 \in Int /\ Len(s) - 1 \in Int
    BY <1>1
  <2>. QED BY <1>1, <1>2, <2>1, SubSeqProperties
<1>. QED BY <1>1, <1>3 DEF Previous, Prefix, Ids

LEMMA ChainMember ==
  ASSUME NEW s \in Ids, NEW x
  PROVE  x \in Chain(s) <=> x \in Ids /\ x # Null /\ Prefix(x, s)
<1>1. Len(s) \in Nat
  BY Lengths
<1>2. ASSUME NEW n \in 1 .. Len(s)
      PROVE  /\ SubSeq(s, 1, n) \in Ids /\ Len(SubSeq(s, 1, n)) = n
             /\ \A i \in 1 .. n : SubSeq(s, 1, n)[i] = s[i]
  <2>1. \A i \in 1 .. n : s[i] \in Events
    BY <1>1, ElementOfSeq DEF Ids
  <2>2. 1 \in Int /\ n \in Int
    OBVIOUS
  <2>. QED BY <2>1, <2>2, SubSeqProperties DEF Ids
<1>3. ASSUME x \in Chain(s) PROVE x \in Ids /\ x # Null /\ Prefix(x, s)
  <2>1. PICK n \in 1 .. Len(s) : x = SubSeq(s, 1, n)
    BY <1>3 DEF Chain
  <2>2. n \in Nat /\ n > 0 /\ n <= Len(s) /\ x \in Ids /\ Len(x) = n /\ \A i \in 1 .. n : x[i] = s[i]
    BY <1>1, <1>2, <2>1
  <2>3. x # Null
    BY <2>2, Lengths
  <2>. QED BY <2>2, <2>3 DEF Prefix
<1>4. ASSUME x \in Ids, x # Null, Prefix(x, s) PROVE x \in Chain(s)
  <2>1. Len(x) \in 1 .. Len(s)
    BY <1>1, <1>4, Lengths DEF Prefix
  <2>2. x = SubSeq(s, 1, Len(x))
    BY <1>2, <1>4, <2>1, SeqEqual DEF Prefix, Ids
  <2>. QED BY <2>1, <2>2 DEF Chain
<1>. QED BY <1>3, <1>4

LEMMA ChainNull == Chain(Null) = {}
  BY EmptySeq DEF Chain, Null

LEMMA PrefixEqual ==
  ASSUME NEW a \in Ids, NEW b \in Ids, Prefix(a, b), Len(a) >= Len(b)
  PROVE  a = b
  BY SeqEqual, Lengths DEF Prefix, Ids

LEMMA PrefixTransitive ==
  ASSUME NEW a \in Ids, NEW b \in Ids, NEW c \in Ids, Prefix(a, b), Prefix(b, c)
  PROVE  Prefix(a, c)
  BY Lengths DEF Prefix

LEMMA ChainPrefix ==
  ASSUME NEW a \in Ids, NEW b \in Ids, Prefix(a, b)
  PROVE  Chain(a) \subseteq Chain(b)
  BY ChainMember, PrefixTransitive

\* A chain is that of the record before, and the record.
LEMMA ChainPrevious ==
  ASSUME NEW s \in Ids, s # Null
  PROVE  Chain(s) = Chain(Previous(s)) \cup {s}
<1>1. Previous(s) \in Ids /\ Len(Previous(s)) = Len(s) - 1 /\ Prefix(Previous(s), s)
  BY PreviousProperties
<1>2. s \in Chain(s)
  BY ChainMember, Lengths DEF Prefix
<1>3. Chain(Previous(s)) \subseteq Chain(s)
  BY <1>1, ChainPrefix
<1>4. ASSUME NEW x \in Chain(s), x # s PROVE x \in Chain(Previous(s))
  <2>1. x \in Ids /\ x # Null /\ Prefix(x, s)
    BY ChainMember
  <2>2. Len(x) < Len(s)
    BY <1>4, <2>1, PrefixEqual, Lengths
  <2>3. Prefix(x, Previous(s))
    BY <1>1, <2>1, <2>2, Lengths DEF Prefix
  <2>. QED BY <1>1, <2>1, <2>3, ChainMember
<1>. QED BY <1>2, <1>3, <1>4

LEMMA AppendProperties2 ==
  ASSUME NEW s \in Ids, NEW e \in Events
  PROVE  /\ Append(s, e) \in Ids /\ Append(s, e) # Null /\ Append(s, e) # None
         /\ Len(Append(s, e)) = Len(s) + 1
         /\ \A i \in 1 .. Len(s) : Append(s, e)[i] = s[i]
         /\ Append(s, e)[Len(s) + 1] = e
         /\ Previous(Append(s, e)) = s
         /\ Chain(Append(s, e)) = Chain(s) \cup {Append(s, e)}
<1>1. /\ Append(s, e) \in Ids
      /\ Len(Append(s, e)) = Len(s) + 1
      /\ \A i \in 1 .. Len(s) : Append(s, e)[i] = s[i]
      /\ Append(s, e)[Len(s) + 1] = e
  BY AppendProperties, Lengths DEF Ids
<1>2. Append(s, e) # Null /\ Append(s, e) # None
  <2>1. Append(s, e) # Null
    BY AppendProperties DEF Ids, Null
  <2>2. Append(s, e) # None
    BY <1>1 DEF Ids
  <2>. QED BY <2>1, <2>2
<1>3. Previous(Append(s, e)) = s
  <2>1. /\ Previous(Append(s, e)) \in Ids
        /\ Len(Previous(Append(s, e))) = Len(s)
        /\ Prefix(Previous(Append(s, e)), Append(s, e))
    <3>1. Len(s) + 1 - 1 = Len(s)
      BY Lengths
    <3>2. /\ Previous(Append(s, e)) \in Ids
          /\ Len(Previous(Append(s, e))) = Len(Append(s, e)) - 1
          /\ Prefix(Previous(Append(s, e)), Append(s, e))
      BY <1>1, <1>2, PreviousProperties
    <3>. QED BY <1>1, <3>1, <3>2
  <2>. QED BY <1>1, <2>1, SeqEqual DEF Prefix, Ids
<1>. QED BY <1>1, <1>2, <1>3, ChainPrevious

LEMMA ElementsPrefix ==
  ASSUME NEW a \in Ids, NEW b \in Ids, Prefix(a, b)
  PROVE  Elements(a) \subseteq Elements(b) /\ (Distinct(b) => Distinct(a))
  BY Lengths, SMTT(20) DEF Prefix, Elements, Distinct

-----------------------------------------------------------------------------
(* The invariant. *)

Job == Head(queue)

\* The events that wait to be recorded, and those that do not any more.
Pending == {queue[i].event : i \in {j \in 1 .. Len(queue) : queue[j].op = "add"}}
Settled == asked \ Pending

\* A rewrite or an import that stopped is all that may have broken the chain.
Orderly == broken \subseteq {"rewrite", "import"}

Types ==
    /\ db \subseteq Ids \ {Null}
    /\ last \in Ids \cup {None}
    /\ queue \in Seq(Jobs)
    /\ step \in {"start", "put", "link", "drop", "collect", "delete", "cut", "rewrite",
                 "import", "first", "next", "clean"}
    /\ previous \in Ids /\ at \in Ids /\ recent \in Seq(Ids \ {Null})
    /\ asked \subseteq Events
    /\ cleaning \in [Cleaners -> {"idle", "open", "sweep"}]

\* What the steps are of.
Shape ==
    /\ step = "start" => recent = <<>>
    /\ step # "start" => queue # <<>>
    /\ step \in {"collect", "delete", "cut", "rewrite", "drop"} => Job.op = "delete"
    /\ step \in {"put", "link"} => Job.op \in {"add", "delete"}
    /\ step \in {"put", "link", "drop"} /\ Job.op = "delete" => recent # <<>>
    /\ step \in {"import", "first", "next", "clean"} => Job.op = "import"
    /\ cleaning["import"] # "idle" => step = "clean"

\* An event is recorded once, and it is not one of the file.
QueueInv ==
    /\ Elements(File) \subseteq asked
    /\ \A i \in 1 .. Len(queue) :
          /\ queue[i].op = "delete" => queue[i].oldest \in Chain(queue[i].newest)
          /\ queue[i].op = "add" => queue[i].event \in asked \ Elements(File)
    /\ \A i, j \in 1 .. Len(queue) :
          queue[i].op = "add" /\ queue[j].op = "add" /\ i # j => queue[i].event # queue[j].event

\* The events of the chain are distinct; what is cleaned has no chain.
LastInv ==
    Orderly =>
        /\ Distinct(LastOrNull) /\ Elements(LastOrNull) \subseteq Settled
        /\ Overlaps => last = None /\ step = "start"
        /\ step \in {"import", "first"} => last = None
        /\ cleaning["import"] # "idle" => last = None

AddInv ==
    Orderly =>
        /\ step \in {"put", "link"} => previous = LastOrNull
        /\ step = "link" => Append(previous, Adding) \in db

\* What the file has after the record that is read is there, once lastId is, or
\* the import of the first record was.
ImportInv ==
    Orderly =>
        /\ step = "import" => at = File
        /\ step \in {"first", "next"} \/ (step = "clean" /\ last # None) =>
              Prefix(at, File) /\ Chain(File) \ Chain(at) \subseteq db
        /\ step = "next" \/ (step = "clean" /\ last # None) => last = File

Adds == step \in {"rewrite", "put", "link", "drop"} /\ Job.op = "delete"

\* The range is in the chain until it is cut, then its oldest record is not.
RangeInv ==
    Orderly =>
        /\ step \in {"collect", "delete", "cut"} => Prefix(Job.newest, LastOrNull)
        /\ step = "collect" => Prefix(Job.newest, at) /\ Prefix(at, LastOrNull)
        /\ step = "delete" => Prefix(Job.oldest, at)
        /\ step \in {"delete", "cut"} /\ broken = {} => Chain(Previous(Job.oldest)) \subseteq db
        /\ Adds => ~Prefix(Job.oldest, LastOrNull)

\* The recent records come after the oldest one of the range, and are not yet in
\* what is kept of the chain.
Kept == IF step \in {"collect", "delete", "cut"} THEN Previous(Job.oldest) ELSE LastOrNull

RecentInv ==
    Orderly /\ Deleting =>
        /\ \A i \in 1 .. Len(recent) :
              /\ Prefix(Job.oldest, recent[i])
              /\ Event(recent[i]) # Event(Job.oldest)
              /\ Event(recent[i]) \in Settled
              /\ (i = 1 /\ step = "drop") \/ Event(recent[i]) \notin Elements(Kept)
              /\ step = "collect" => Event(recent[i]) \notin Elements(at)
        /\ \A i, j \in 1 .. Len(recent) : i # j => Event(recent[i]) # Event(recent[j])

IInv ==
    Types /\ Shape /\ QueueInv /\ LastInv /\ AddInv /\ ImportInv /\ RangeInv /\ RecentInv /\ ChainIntact

USE DEF Orderly, Overlaps

-----------------------------------------------------------------------------
(* The queue. *)

LEMMA JobProperties ==
  ASSUME Types, QueueInv, queue # <<>>
  PROVE  /\ Job \in Jobs /\ Job = queue[1] /\ 1 \in 1 .. Len(queue)
         /\ Job.op \in {"add", "delete", "import"}
         /\ Job.op = "add" => Job.event \in Events
         /\ Job.op = "delete" =>
               /\ Job.newest \in Ids /\ Job.oldest \in Ids
               /\ Job.oldest # Null /\ Prefix(Job.oldest, Job.newest)
<1>1. Job \in Jobs /\ Job = queue[1] /\ 1 \in 1 .. Len(queue)
  <2>1. queue \in Seq(Jobs)
    BY DEF Types
  <2>2. Len(queue) \in Nat \ {0}
    BY <2>1, EmptySeq
  <2>3. Head(queue) = queue[1]
    OBVIOUS
  <2>. QED BY <2>1, <2>2, <2>3, ElementOfSeq DEF Job
<1>2. Job.op \in {"add", "delete", "import"}
  BY <1>1 DEF Jobs
<1>3. Job.op = "add" => Job.event \in Events
  BY <1>1 DEF Jobs
<1>4. Job.op = "delete" => Job.newest \in Ids /\ Job.oldest \in Ids
  BY <1>1 DEF Jobs
<1>5. Job.op = "delete" => Job.oldest \in Chain(Job.newest)
  BY <1>1 DEF QueueInv
<1>. QED BY <1>1, <1>2, <1>3, <1>4, <1>5, ChainMember

\* The next in the queue gets the lock.
LEMMA TailQueue ==
  ASSUME Types, QueueInv, queue # <<>>, queue' = Tail(queue), UNCHANGED asked
  PROVE  /\ queue' \in Seq(Jobs)
         /\ QueueInv'
         /\ Settled \subseteq Settled'
         /\ Job.op = "add" => Job.event \in Settled'
<1>1. /\ queue' \in Seq(Jobs)
      /\ Len(queue') \in Nat /\ Len(queue) \in Nat /\ Len(queue') = Len(queue) - 1
      /\ \A i \in 1 .. Len(queue') : queue'[i] = queue[i + 1]
  <2>1. queue \in Seq(Jobs)
    BY DEF Types
  <2>. QED BY <2>1, HeadTailProperties, LenProperties
<1>2. \A i \in 1 .. Len(queue') : i + 1 \in 1 .. Len(queue) /\ i + 1 # 1
  BY <1>1
<1>3. QueueInv'
  BY <1>1, <1>2 DEF QueueInv
<1>4. Pending' \subseteq Pending
  BY <1>1, <1>2 DEF Pending
<1>5. ASSUME Job.op = "add" PROVE Job.event \in Settled'
  <2>1. Job = queue[1] /\ 1 \in 1 .. Len(queue)
    BY JobProperties
  <2>2. Job.event \in asked
    BY <1>5, <2>1 DEF QueueInv
  <2>3. Job.event \notin Pending'
    BY <1>1, <1>2, <1>5, <2>1 DEF QueueInv, Pending
  <2>. QED BY <2>2, <2>3 DEF Settled
<1>. QED BY <1>1, <1>3, <1>4, <1>5 DEF Settled

LEMMA AppendQueue ==
  ASSUME Types, QueueInv, NEW call \in Jobs, queue' = Append(queue, call),
         call.op = "delete" => call.oldest \in Chain(call.newest),
         IF call.op = "add" THEN call.event \notin asked /\ asked' = asked \cup {call.event}
                            ELSE UNCHANGED asked
  PROVE  /\ queue' \in Seq(Jobs) /\ queue' # <<>>
         /\ queue # <<>> => Job' = Job
         /\ asked' \subseteq Events
         /\ QueueInv'
         /\ Settled' = Settled
<1>1. /\ queue' \in Seq(Jobs) /\ queue' # <<>>
      /\ Len(queue) \in Nat /\ Len(queue') = Len(queue) + 1
      /\ \A i \in 1 .. Len(queue) : queue'[i] = queue[i]
      /\ queue'[Len(queue) + 1] = call
  <2>1. queue \in Seq(Jobs)
    BY DEF Types
  <2>. QED BY <2>1, AppendProperties, LenProperties
<1>2. call.op = "add" => call.event \in Events
  BY DEF Jobs
<1>3. ASSUME queue # <<>> PROVE Job' = Job
  <2>1. Job = queue[1] /\ 1 \in 1 .. Len(queue)
    BY <1>3, JobProperties
  <2>2. Job' = queue'[1]
    BY <1>1 DEF Job
  <2>. QED BY <1>1, <2>1, <2>2
<1>4. \A i \in 1 .. Len(queue') : i \in 1 .. Len(queue) \/ i = Len(queue) + 1
  BY <1>1
<1>5. QueueInv'
  <2>1. Elements(File) \subseteq asked'
    BY DEF QueueInv
  <2>2. ASSUME NEW i \in 1 .. Len(queue')
        PROVE  /\ queue'[i].op = "delete" => queue'[i].oldest \in Chain(queue'[i].newest)
               /\ queue'[i].op = "add" => queue'[i].event \in asked' \ Elements(File)
    <3>1. CASE i \in 1 .. Len(queue)
      BY <1>1, <3>1 DEF QueueInv
    <3>2. CASE i = Len(queue) + 1
      BY <1>1, <3>2 DEF QueueInv
    <3>. QED BY <1>4, <3>1, <3>2
  <2>3. ASSUME NEW i \in 1 .. Len(queue'), NEW j \in 1 .. Len(queue'),
               queue'[i].op = "add", queue'[j].op = "add", i # j
        PROVE  queue'[i].event # queue'[j].event
    <3>1. CASE i \in 1 .. Len(queue) /\ j \in 1 .. Len(queue)
      BY <1>1, <2>3, <3>1 DEF QueueInv
    <3>2. CASE i = Len(queue) + 1 \/ j = Len(queue) + 1
      <4>1. \A k \in 1 .. Len(queue) : queue[k].op = "add" => queue[k].event \in asked
        BY DEF QueueInv
      <4>. QED BY <1>1, <1>4, <2>3, <3>2, <4>1
    <3>. QED BY <1>4, <3>1, <3>2
  <2>. QED BY <2>1, <2>2, <2>3 DEF QueueInv
<1>6. Pending' = Pending \cup (IF call.op = "add" THEN {call.event} ELSE {})
  <2>1. Pending' \subseteq Pending \cup (IF call.op = "add" THEN {call.event} ELSE {})
    BY <1>1, <1>4 DEF Pending
  <2>2. \A i \in 1 .. Len(queue) : i \in 1 .. Len(queue')
    BY <1>1
  <2>3. Pending \subseteq Pending'
    BY <1>1, <2>2 DEF Pending
  <2>4. Len(queue) + 1 \in 1 .. Len(queue')
    BY <1>1
  <2>5. call.op = "add" => call.event \in Pending'
    BY <1>1, <2>4 DEF Pending
  <2>. QED BY <2>1, <2>3, <2>5
<1>7. asked' \subseteq Events
  BY <1>2 DEF Types
<1>. QED BY <1>1, <1>3, <1>5, <1>6, <1>7 DEF Settled

-----------------------------------------------------------------------------
(* The steps. *)

LEMMA InitInv == Init => IInv
<1>. SUFFICES ASSUME Init PROVE IInv
  OBVIOUS
<1>1. Null \in Ids /\ Len(Null) = 0
  BY EmptySeq DEF Ids, Null
<1>2. queue = <<>> /\ Len(queue) = 0 /\ queue \in Seq(Jobs) /\ recent = <<>> /\ recent \in Seq(Ids \ {Null})
  BY EmptySeq DEF Init
<1>3. asked = Elements(File) /\ asked \subseteq Events
  <2>1. DOMAIN File = 1 .. Len(File)
    BY LenProperties
  <2>. QED BY <2>1, ElementOfSeq DEF Init, Elements
<1>4. Types
  <2>1. last \in Ids \cup {None} /\ cleaning \in [Cleaners -> {"idle", "open", "sweep"}]
    BY DEF Init
  <2>2. db = {} /\ step = "start" /\ previous = Null /\ at = Null
    BY DEF Init
  <2>. QED BY <1>1, <1>2, <1>3, <2>1, <2>2 DEF Types
<1>5. Shape /\ QueueInv
  BY <1>2, <1>3 DEF Init, Shape, QueueInv, Cleaners
<1>6. LastOrNull = Null
  BY DEF Init, LastOrNull
<1>7. LastInv
  BY <1>1, <1>6 DEF Init, LastInv, Distinct, Elements
<1>8. AddInv /\ ImportInv /\ RangeInv /\ RecentInv /\ ChainIntact
  BY DEF Init, AddInv, ImportInv, RangeInv, RecentInv, ChainIntact, Adds, Deleting
<1>. QED BY <1>4, <1>5, <1>7, <1>8 DEF IInv

\* The lock is released: only the chain matters.
LEMMA ReleaseInv ==
  ASSUME IInv, queue # <<>>, Release, UNCHANGED asked,
         db' \subseteq Ids \ {Null}, last' \in Ids \cup {None},
         cleaning' \in [Cleaners -> {"idle", "open", "sweep"}], cleaning'["import"] = "idle",
         Orderly' =>
            /\ Distinct(LastOrNull') /\ Elements(LastOrNull') \subseteq Settled'
            /\ Overlaps' => last' = None,
         broken' = {} => Chain(LastOrNull') \subseteq db'
  PROVE  IInv'
<1>1. queue' = Tail(queue) /\ step' = "start" /\ previous' = Null /\ at' = Null /\ recent' = <<>>
  BY DEF Release
<1>2. queue' \in Seq(Jobs) /\ QueueInv'
  BY <1>1, TailQueue DEF IInv
<1>3. Null \in Ids /\ recent' \in Seq(Ids \ {Null})
  BY <1>1, EmptySeq DEF Ids, Null
<1>4. Types'
  BY <1>1, <1>2, <1>3 DEF Types, IInv
<1>5. Shape'
  BY <1>1 DEF Shape
<1>6. LastInv' /\ AddInv' /\ ImportInv' /\ RangeInv' /\ RecentInv'
  BY <1>1 DEF LastInv, AddInv, ImportInv, RangeInv, RecentInv, Adds, Deleting
<1>7. ChainIntact'
  BY DEF ChainIntact, LastOrNull, Rewriting, Importing
<1>. QED BY <1>2, <1>4, <1>5, <1>6, <1>7 DEF IInv

\* A call waits for the lock.
LEMMA CallInv ==
  ASSUME IInv, NEW call \in Jobs, Call(call),
         call.op = "delete" => call.oldest \in Chain(call.newest),
         IF call.op = "add" THEN call.event \notin asked /\ asked' = asked \cup {call.event}
                            ELSE UNCHANGED asked
  PROVE  IInv'
<1>1. /\ queue' = Append(queue, call)
      /\ UNCHANGED <<db, last, step, previous, at, recent, cleaning, broken>>
  BY DEF Call, store, clean, history
<1>2. /\ queue' \in Seq(Jobs) /\ queue' # <<>> /\ asked' \subseteq Events
      /\ queue # <<>> => Job' = Job
      /\ QueueInv'
      /\ Settled' = Settled
  BY <1>1, AppendQueue DEF IInv
<1>3. Types' /\ Shape'
  BY <1>1, <1>2 DEF IInv, Types, Shape
<1>4. step # "start" => Job' = Job
  BY <1>2 DEF IInv, Shape
<1>5. LastOrNull' = LastOrNull
  BY <1>1 DEF LastOrNull
<1>6. LastInv' /\ ImportInv' /\ ChainIntact'
  BY <1>1, <1>2, <1>5 DEF IInv, LastInv, ImportInv, ChainIntact, Rewriting, Importing
<1>7. AddInv'
  BY <1>1, <1>4, <1>5 DEF IInv, AddInv, Adding, Job
<1>8. RangeInv' /\ RecentInv'
  BY <1>1, <1>2, <1>4, <1>5 DEF IInv, RangeInv, RecentInv, Adds, Kept, Deleting, Job
<1>. QED BY <1>2, <1>3, <1>6, <1>7, <1>8 DEF IInv

\* _addUnsafe(): nothing else changes lastId between its steps.
LEMMA StartAddInv == ASSUME IInv, StartAdd PROVE IInv'
<1>1. /\ step = "start" /\ step' = "put" /\ queue # <<>> /\ Job.op = "add"
      /\ previous' = LastOrNull
      /\ UNCHANGED <<db, last, queue, at, recent, cleaning, asked>>
      /\ Orderly' => Orderly /\ ~Overlaps
      /\ broken' = {} => broken = {}
  BY DEF StartAdd, Working, Goto, Job, store, clean, Breaks, Overlaps
<1>2. LastOrNull \in Ids /\ LastOrNull' = LastOrNull
  BY <1>1, EmptySeq DEF LastOrNull, IInv, Types, Ids, Null
<1>3. Types' /\ Shape' /\ QueueInv' /\ Settled' = Settled /\ Job' = Job
  BY <1>1, <1>2 DEF IInv, Types, Shape, QueueInv, Settled, Pending, Job
<1>4. LastInv' /\ AddInv' /\ ImportInv' /\ ChainIntact'
  BY <1>1, <1>2, <1>3 DEF IInv, LastInv, AddInv, ImportInv, ChainIntact, Rewriting, Importing
<1>5. RangeInv' /\ RecentInv'
  BY <1>1, <1>3 DEF RangeInv, RecentInv, Adds, Deleting, Job
<1>. QED BY <1>3, <1>4, <1>5 DEF IInv

LEMMA AddingType ==
  ASSUME Types, Shape, QueueInv, step \in {"put", "link"}
  PROVE  /\ Adding \in Events
         /\ Job.op = "delete" =>
               /\ Adding = Event(recent[1]) /\ 1 \in 1 .. Len(recent)
               /\ Head(recent) = recent[1] /\ recent[1] \in Ids /\ recent[1] # Null
<1>1. queue # <<>> /\ Job.op \in {"add", "delete"}
  BY DEF Shape
<1>2. CASE Job.op = "add"
  BY <1>1, <1>2, JobProperties DEF Adding, Job
<1>3. CASE Job.op = "delete"
  <2>1. recent # <<>> /\ recent \in Seq(Ids \ {Null})
    BY <1>3 DEF Shape, Types
  <2>2. Len(recent) \in Nat \ {0} /\ Head(recent) = recent[1]
    BY <2>1, EmptySeq
  <2>3. recent[1] \in Ids \ {Null}
    BY <2>1, <2>2, ElementOfSeq
  <2>. QED BY <1>3, <2>2, <2>3, EventType DEF Adding, Job
<1>. QED BY <1>1, <1>2, <1>3

LEMMA PutInv == ASSUME IInv, Put PROVE IInv'
<1>1. /\ step = "put" /\ step' = "link" /\ queue # <<>>
      /\ db' = db \cup {Append(previous, Adding)}
      /\ UNCHANGED <<last, queue, previous, at, recent, cleaning, asked, broken>>
  BY DEF Put, Working, Goto, clean
<1>2. Append(previous, Adding) \in Ids \ {Null}
  BY <1>1, AddingType, AppendProperties2 DEF IInv, Types
<1>3. LastOrNull' = LastOrNull /\ Job' = Job /\ Adding' = Adding /\ Settled' = Settled
  BY <1>1 DEF LastOrNull, Job, Adding, Settled, Pending
<1>4. Types' /\ Shape' /\ QueueInv'
  <2>1. Types'
    BY <1>1, <1>2 DEF IInv, Types
  <2>2. Shape' /\ QueueInv'
    BY <1>1, <1>3 DEF IInv, Shape, QueueInv
  <2>. QED BY <2>1, <2>2
<1>5. LastInv' /\ AddInv' /\ ImportInv' /\ ChainIntact'
  BY <1>1, <1>3 DEF IInv, LastInv, AddInv, ImportInv, ChainIntact, Rewriting, Importing
<1>6. RangeInv' /\ RecentInv'
  BY <1>1, <1>3 DEF IInv, RangeInv, RecentInv, Adds, Kept, Deleting, Job
<1>. QED BY <1>4, <1>5, <1>6 DEF IInv


\* The chain gets the record that was put.
LEMMA LinkInv == ASSUME IInv, Link PROVE IInv'
<1>. DEFINE e == Adding
<1>1. /\ step = "link" /\ queue # <<>>
      /\ last' = Append(previous, e)
      /\ UNCHANGED <<db, cleaning, asked, broken>>
      /\ IF Job.op = "add" THEN Release
         ELSE step' = "drop" /\ UNCHANGED <<queue, previous, at, recent>>
  BY DEF Link, Working, Goto, clean, Job
<1>2. previous \in Ids /\ e \in Events
  BY <1>1, AddingType DEF IInv, Types
<1>3. /\ last' \in Ids /\ last' # None /\ LastOrNull' = last'
      /\ Len(last') = Len(previous) + 1
      /\ \A i \in 1 .. Len(previous) : last'[i] = previous[i]
      /\ last'[Len(previous) + 1] = e
      /\ Chain(last') = Chain(previous) \cup {last'}
      /\ Len(previous) \in Nat
  <2>. HIDE DEF e
  <2>. QED BY <1>1, <1>2, AppendProperties2, Lengths DEF LastOrNull
<1>4. \A i \in 1 .. Len(last') : i \in 1 .. Len(previous) \/ i = Len(previous) + 1
  BY <1>3
<1>5. Elements(last') = Elements(previous) \cup {e}
  <2>1. \A i \in 1 .. Len(previous) : i \in 1 .. Len(last')
    BY <1>3
  <2>2. Len(previous) + 1 \in 1 .. Len(last')
    BY <1>3
  <2>. HIDE DEF e
  <2>. QED BY <1>3, <1>4, <2>1, <2>2 DEF Elements
<1>6. ASSUME Orderly, e \notin Elements(previous)
      PROVE  /\ Distinct(last')
             /\ broken = {} => Chain(last') \subseteq db'
             /\ previous = LastOrNull /\ Elements(last') \subseteq Settled \cup {e}
  <2>1. previous = LastOrNull /\ last' \in db
    BY <1>1, <1>6 DEF IInv, AddInv
  <2>2. Distinct(previous) /\ Elements(previous) \subseteq Settled
    BY <1>6, <2>1 DEF IInv, LastInv
  <2>3. Distinct(last')
    <3>1. \A i \in 1 .. Len(previous) : previous[i] # e
      BY <1>6 DEF Elements
    <3>. HIDE DEF e
    <3>. QED BY <1>3, <1>4, <2>2, <3>1 DEF Distinct
  <2>4. broken = {} => Chain(previous) \subseteq db
    <3>1. previous = Null => Chain(previous) = {}
      BY ChainNull
    <3>. QED BY <1>1, <1>6, <2>1, <3>1 DEF IInv, ChainIntact, Rewriting, Importing, LastOrNull
  <2>. QED BY <1>1, <1>3, <1>5, <2>1, <2>2, <2>3, <2>4
<1>7. CASE Job.op = "add"
  <2>1. e = Job.event /\ Job = queue[1] /\ 1 \in 1 .. Len(queue)
    BY <1>1, <1>7, JobProperties DEF Adding, Job, IInv
  <2>2. e \in Pending
    BY <1>7, <2>1 DEF Pending
  <2>3. Orderly => e \notin Elements(previous)
    BY <1>1, <2>2 DEF IInv, LastInv, AddInv, Settled
  <2>4. Settled \subseteq Settled' /\ e \in Settled'
    BY <1>1, <1>7, <2>1, TailQueue DEF IInv, Release
  <2>5. Orderly => ~Overlaps
    BY <1>1 DEF IInv, LastInv
  <2>6. cleaning["import"] = "idle"
    BY <1>1 DEF IInv, Shape
  <2>7. Orderly' => /\ Distinct(LastOrNull') /\ Elements(LastOrNull') \subseteq Settled'
                    /\ Overlaps' => last' = None
    BY <1>1, <1>3, <1>6, <2>3, <2>4, <2>5 DEF Orderly
  <2>8. broken' = {} => Chain(LastOrNull') \subseteq db'
    BY <1>1, <1>3, <1>6, <2>3 DEF Orderly
  <2>9. /\ queue # <<>> /\ Release /\ UNCHANGED asked
        /\ db' \subseteq Ids \ {Null} /\ last' \in Ids \cup {None}
        /\ cleaning' \in [Cleaners -> {"idle", "open", "sweep"}] /\ cleaning'["import"] = "idle"
    BY <1>1, <1>3, <1>7, <2>6 DEF IInv, Types
  <2>. QED BY <2>7, <2>8, <2>9, ReleaseInv
<1>8. CASE Job.op # "add"
  <2>1. /\ Job.op = "delete" /\ step' = "drop" /\ UNCHANGED <<queue, previous, at, recent>>
        /\ e = Event(recent[1]) /\ 1 \in 1 .. Len(recent)
    BY <1>1, <1>8, AddingType DEF IInv, Shape
  <2>2. Job' = Job /\ Settled' = Settled
    BY <1>1, <2>1 DEF Job, Settled, Pending
  <2>3. Types' /\ Shape' /\ QueueInv'
    BY <1>1, <1>3, <2>1, <2>2 DEF IInv, Types, Shape, QueueInv
  <2>4. ASSUME Orderly
        PROVE  /\ e \notin Elements(previous) /\ previous = LastOrNull /\ e \in Settled
               /\ e # Event(Job.oldest)
    <3>1. previous = LastOrNull
      BY <1>1, <2>4 DEF IInv, AddInv
    <3>2. Deleting /\ Kept = LastOrNull /\ step # "drop"
      BY <1>1, <2>1 DEF Deleting, Kept, Job
    <3>. QED BY <2>1, <2>4, <3>1, <3>2 DEF IInv, RecentInv
  <2>5. LastInv' /\ AddInv' /\ ImportInv'
    BY <1>1, <1>3, <1>6, <2>1, <2>2, <2>3, <2>4 DEF IInv, Shape, LastInv, AddInv, ImportInv
  <2>6. ChainIntact'
    BY <1>1, <1>6, <2>4 DEF ChainIntact, Orderly
  <2>7. RangeInv'
    <3>1. ASSUME Orderly PROVE ~Prefix(Job.oldest, last')
      <4>1. Job.oldest \in Ids /\ Job.oldest # Null /\ Len(Job.oldest) \in Nat /\ Len(Job.oldest) > 0
        BY <1>1, <2>1, JobProperties, Lengths DEF IInv
      <4>2. ~Prefix(Job.oldest, previous)
        BY <1>1, <2>1, <2>4, <3>1 DEF IInv, RangeInv, Adds
      <4>3. CASE Len(Job.oldest) <= Len(previous)
        BY <1>3, <4>1, <4>2, <4>3 DEF Prefix
      <4>4. CASE Len(Job.oldest) = Len(previous) + 1
        <5>1. Job.oldest[Len(Job.oldest)] # e
          BY <2>4, <3>1 DEF Event
        <5>. HIDE DEF e
        <5>. QED BY <1>3, <4>1, <4>4, <5>1 DEF Prefix
      <4>5. CASE Len(Job.oldest) > Len(previous) + 1
        BY <1>3, <4>1, <4>5 DEF Prefix
      <4>. QED BY <1>3, <4>1, <4>3, <4>4, <4>5
    <3>. QED BY <1>1, <1>3, <2>1, <2>2, <3>1 DEF RangeInv, Adds
  <2>8. RecentInv'
    <3>1. SUFFICES ASSUME Orderly
                   PROVE  RecentInv'
      BY <1>1 DEF RecentInv
    <3>2. Deleting /\ Kept = previous /\ Kept' = last' /\ Deleting'
      BY <1>1, <1>3, <2>1, <2>2, <2>4, <3>1 DEF Deleting, Kept, Job
    <3>3. \A i \in 1 .. Len(recent) : i # 1 => Event(recent[i]) # e
      BY <2>1, <3>1, <3>2 DEF IInv, RecentInv
    <3>4. \A i \in 1 .. Len(recent) : Event(recent[i]) \notin Elements(previous)
      BY <1>1, <3>1, <3>2 DEF IInv, RecentInv
    <3>5. \A i \in 1 .. Len(recent) : i = 1 \/ Event(recent[i]) \notin Elements(last')
      BY <1>5, <3>3, <3>4
    <3>. QED BY <1>1, <2>1, <2>2, <3>1, <3>2, <3>5 DEF IInv, RecentInv
  <2>. QED BY <2>3, <2>5, <2>6, <2>7, <2>8 DEF IInv
<1>. QED BY <1>7, <1>8


\* The steps of a holder that keeps the lock, for what is about the queue.
LEMMA SameQueue ==
  ASSUME UNCHANGED <<queue, asked>>
  PROVE  Job' = Job /\ Pending' = Pending /\ Settled' = Settled
  BY DEF Job, Pending, Settled

\* The records of a list but the first.
LEMMA TailRecent ==
  ASSUME Types, recent # <<>>
  PROVE  /\ Tail(recent) \in Seq(Ids \ {Null})
         /\ Head(recent) = recent[1] /\ recent[1] \in Ids \ {Null} /\ 1 \in 1 .. Len(recent)
         /\ \A i \in 1 .. Len(Tail(recent)) :
               Tail(recent)[i] = recent[i + 1] /\ i + 1 \in 1 .. Len(recent) /\ i + 1 # 1
<1>1. recent \in Seq(Ids \ {Null})
  BY DEF Types
<1>2. Len(recent) \in Nat \ {0} /\ Head(recent) = recent[1]
  BY <1>1, EmptySeq
<1>3. recent[1] \in Ids \ {Null}
  BY <1>1, <1>2, ElementOfSeq
<1>4. /\ Tail(recent) \in Seq(Ids \ {Null})
      /\ Len(Tail(recent)) = Len(recent) - 1
      /\ \A i \in 1 .. Len(Tail(recent)) : Tail(recent)[i] = recent[i + 1]
  BY <1>1, HeadTailProperties
<1>. QED BY <1>2, <1>3, <1>4

\* A recent record is left behind, added again and dropped or not.
LEMMA NextRecent ==
  ASSUME IInv, step \in {"put", "link", "drop"}, Job.op = "delete",
         step' = "rewrite", recent' = Tail(recent),
         UNCHANGED <<queue, previous, at, last, cleaning, asked, broken>>,
         db' \subseteq db,
         broken = {} => Chain(LastOrNull) \subseteq db'
  PROVE  IInv'
<1>1. recent # <<>> /\ queue # <<>>
  BY DEF IInv, Shape
<1>2. Job' = Job /\ Settled' = Settled /\ LastOrNull' = LastOrNull
  BY SameQueue DEF LastOrNull
<1>3. /\ recent' \in Seq(Ids \ {Null})
      /\ \A i \in 1 .. Len(recent') :
            recent'[i] = recent[i + 1] /\ i + 1 \in 1 .. Len(recent) /\ i + 1 # 1
  BY <1>1, TailRecent DEF IInv
<1>4. Types' /\ Shape' /\ QueueInv'
  BY <1>1, <1>2, <1>3 DEF IInv, Types, Shape, QueueInv
<1>5. LastInv' /\ AddInv' /\ ImportInv' /\ RangeInv'
  BY <1>2 DEF IInv, LastInv, AddInv, ImportInv, RangeInv, Adds
<1>6. RecentInv'
  <2>1. SUFFICES ASSUME Orderly PROVE RecentInv'
    BY DEF RecentInv
  <2>2. Deleting /\ Kept = LastOrNull /\ Kept' = LastOrNull
    BY <1>2 DEF Deleting, Kept, Job
  <2>3. \A i \in 1 .. Len(recent') :
          /\ Prefix(Job.oldest, recent'[i])
          /\ Event(recent'[i]) # Event(Job.oldest)
          /\ Event(recent'[i]) \in Settled
          /\ Event(recent'[i]) \notin Elements(LastOrNull)
    BY <1>3, <2>1, <2>2 DEF IInv, RecentInv
  <2>4. \A i, j \in 1 .. Len(recent') : i # j => Event(recent'[i]) # Event(recent'[j])
    <3>1. \A i, j \in 1 .. Len(recent') : i # j => i + 1 # j + 1
      BY <1>3
    <3>. QED BY <1>3, <2>1, <2>2, <3>1 DEF IInv, RecentInv
  <2>. QED BY <1>2, <2>2, <2>3, <2>4 DEF RecentInv
<1>7. ChainIntact'
  BY <1>2 DEF ChainIntact, LastOrNull, Rewriting, Importing
<1>. QED BY <1>4, <1>5, <1>6, <1>7 DEF IInv

\* What the lock, once released, finds when lastId has not changed.
LEMMA ReleaseUnchanged ==
  ASSUME IInv, queue # <<>>, Release,
         UNCHANGED <<db, last, cleaning, asked>>,
         cleaning["import"] = "idle",
         Orderly' => Orderly, broken' = {} => broken = {} /\ ~Rewriting /\ ~Importing
  PROVE  IInv'
<1>1. Settled \subseteq Settled'
  BY TailQueue DEF IInv, Release
<1>2. LastOrNull' = LastOrNull
  BY DEF LastOrNull
<1>3. broken' = {} => Chain(LastOrNull) \subseteq db
  BY ChainNull DEF IInv, ChainIntact, LastOrNull, Rewriting, Importing
<1>. QED BY <1>1, <1>2, <1>3, ReleaseInv DEF IInv, Types, LastInv

\* A call whose reads fail has changed nothing.
LEMMA ReadFailsInv == ASSUME IInv, ReadFails PROVE IInv'
<1>1. /\ step \in {"start", "collect"} /\ queue # <<>> /\ Release
      /\ UNCHANGED <<db, last, cleaning, asked, broken>>
  BY DEF ReadFails, Working, store, clean, history
<1>2. cleaning["import"] = "idle"
  BY <1>1 DEF IInv, Shape
<1>. QED BY <1>1, <1>2, ReleaseUnchanged DEF Rewriting, Importing

LEMMA AddFailsInv == ASSUME IInv, AddFails PROVE IInv'
<1>1. /\ step \in {"put", "link", "drop"} /\ queue # <<>>
      /\ UNCHANGED <<db, last, cleaning, asked, broken>>
      /\ IF Job.op = "add" THEN Release
         ELSE step' = "rewrite" /\ recent' = Tail(recent) /\ UNCHANGED <<queue, previous, at>>
  BY DEF AddFails, Working, Goto, store, clean, Job
<1>2. CASE Job.op = "add"
  <2>1. cleaning["import"] = "idle"
    BY <1>1 DEF IInv, Shape
  <2>. QED BY <1>1, <1>2, <2>1, ReleaseUnchanged DEF Rewriting, Importing
<1>3. CASE Job.op # "add"
  <2>1. Job.op = "delete"
    BY <1>1, <1>3 DEF IInv, Shape
  <2>2. broken = {} => Chain(LastOrNull) \subseteq db'
    BY <1>1, ChainNull DEF IInv, ChainIntact, LastOrNull, Rewriting, Importing
  <2>. QED BY <1>1, <1>3, <2>1, <2>2, NextRecent
<1>. QED BY <1>2, <1>3

LEMMA DropInv == ASSUME IInv, Drop PROVE IInv'
<1>1. /\ step = "drop" /\ queue # <<>> /\ Job.op = "delete"
      /\ db' = db \ {Head(recent)} /\ recent' = Tail(recent) /\ step' = "rewrite"
      /\ UNCHANGED <<queue, previous, at, last, cleaning, asked, broken>>
  <2>1. step = "drop" /\ queue # <<>>
    BY DEF Drop, Working
  <2>2. Job.op = "delete"
    BY <2>1 DEF IInv, Shape
  <2>. QED BY <2>1, <2>2 DEF Drop, Goto, clean, history
<1>2. Head(recent) = recent[1] /\ recent[1] \in Ids /\ 1 \in 1 .. Len(recent)
  BY <1>1, TailRecent DEF IInv, Shape
<1>3. ASSUME broken = {} PROVE Chain(LastOrNull) \subseteq db'
  <2>1. Chain(LastOrNull) \subseteq db
    BY <1>1, <1>3, ChainNull DEF IInv, ChainIntact, LastOrNull, Rewriting, Importing
  <2>2. Prefix(Job.oldest, recent[1])
    BY <1>1, <1>2, <1>3 DEF IInv, RecentInv, Deleting, Job
  <2>3. ~Prefix(Job.oldest, LastOrNull)
    BY <1>1, <1>3 DEF IInv, RangeInv, Adds
  <2>4. LastOrNull \in Ids /\ Job.oldest \in Ids
    BY <1>1, JobProperties, EmptySeq DEF LastOrNull, IInv, Types, Ids, Null
  <2>5. recent[1] \notin Chain(LastOrNull)
    BY <1>2, <2>2, <2>3, <2>4, ChainMember, PrefixTransitive
  <2>. QED BY <1>1, <1>2, <2>1, <2>5
<1>. QED BY <1>1, <1>3, NextRecent

LEMMA RewriteInv == ASSUME IInv, Rewrite PROVE IInv'
<1>1. /\ step = "rewrite" /\ queue # <<>> /\ Job.op = "delete"
      /\ UNCHANGED <<db, last, cleaning, asked, broken>>
      /\ IF recent = <<>> THEN Release
         ELSE step' = "put" /\ previous' = LastOrNull /\ UNCHANGED <<queue, at, recent>>
  BY DEF Rewrite, Working, Goto, store, clean, history, Job, IInv, Shape
<1>2. CASE recent = <<>>
  <2>1. cleaning["import"] = "idle"
    BY <1>1 DEF IInv, Shape
  <2>. QED BY <1>1, <1>2, <2>1, ReleaseUnchanged DEF Rewriting, Importing
<1>3. CASE recent # <<>>
  <2>1. step' = "put" /\ previous' = LastOrNull /\ UNCHANGED <<queue, at, recent>>
    BY <1>1, <1>3
  <2>2. Job' = Job /\ Settled' = Settled /\ LastOrNull' = LastOrNull /\ LastOrNull \in Ids
    BY <1>1, <2>1, SameQueue, EmptySeq DEF LastOrNull, IInv, Types, Ids, Null
  <2>3. Types' /\ Shape' /\ QueueInv'
    BY <1>1, <1>3, <2>1, <2>2 DEF IInv, Types, Shape, QueueInv
  <2>4. LastInv' /\ AddInv' /\ ImportInv' /\ RangeInv' /\ ChainIntact'
    BY <1>1, <2>1, <2>2 DEF IInv, LastInv, AddInv, ImportInv, RangeInv, Adds, ChainIntact, Rewriting, Importing
  <2>5. RecentInv'
    BY <1>1, <2>1, <2>2 DEF IInv, RecentInv, Kept, Deleting, Job
  <2>. QED BY <2>3, <2>4, <2>5 DEF IInv
<1>. QED BY <1>2, <1>3

LEMMA DeleteFailsInv == ASSUME IInv, DeleteFails PROVE IInv'
<1>1. /\ step \in {"delete", "cut"} /\ queue # <<>> /\ Release
      /\ UNCHANGED <<db, last, cleaning, asked>> /\ broken' # {}
      /\ Orderly' => Orderly
  BY DEF DeleteFails, Working, store, clean
<1>2. cleaning["import"] = "idle"
  BY <1>1 DEF IInv, Shape
<1>. QED BY <1>1, <1>2, ReleaseUnchanged

\* A range is deleted from the chain, the chain being whole.
LEMMA StartDeleteInv == ASSUME IInv, StartDelete PROVE IInv'
<1>1. /\ step = "start" /\ queue # <<>> /\ Job.op = "delete" /\ recent = <<>>
      /\ UNCHANGED <<db, last, cleaning, asked>>
      /\ IF {Job.newest, Job.oldest} \subseteq db
         THEN /\ at' = LastOrNull /\ step' = "collect" /\ UNCHANGED <<queue, previous, recent>>
              /\ Orderly' => Orderly /\ ~Overlaps /\ Job.newest \in Chain(LastOrNull)
              /\ broken' = {} => broken = {}
         ELSE Release /\ UNCHANGED broken
  <2>1. step = "start" /\ queue # <<>> /\ Job.op = "delete" /\ recent = <<>>
    BY DEF StartDelete, Working, Job, IInv, Shape
  <2>2. UNCHANGED <<db, last, cleaning, asked>>
    BY DEF StartDelete, store, clean
  <2>3. CASE {Job.newest, Job.oldest} \subseteq db
    <3>1. /\ at' = LastOrNull /\ step' = "collect" /\ UNCHANGED <<queue, previous, recent>>
          /\ broken' = broken \cup Breaks(Overlaps, "clean")
                \cup Breaks(Job.newest \notin Chain(LastOrNull), "range")
      BY <2>3 DEF StartDelete, Goto, Job
    <3>2. Orderly' => Orderly /\ ~Overlaps /\ Job.newest \in Chain(LastOrNull)
      BY <3>1 DEF Breaks, Overlaps
    <3>. QED BY <2>1, <2>2, <2>3, <3>1, <3>2
  <2>4. CASE ~({Job.newest, Job.oldest} \subseteq db)
    BY <2>1, <2>2, <2>4 DEF StartDelete, Job
  <2>. QED BY <2>3, <2>4
<1>2. CASE ~({Job.newest, Job.oldest} \subseteq db)
  <2>1. cleaning["import"] = "idle"
    BY <1>1 DEF IInv, Shape
  <2>. QED BY <1>1, <1>2, <2>1, ReleaseUnchanged DEF Rewriting, Importing
<1>3. CASE {Job.newest, Job.oldest} \subseteq db
  <2>1. /\ at' = LastOrNull /\ step' = "collect" /\ UNCHANGED <<queue, previous, recent>>
        /\ Orderly' => Orderly /\ ~Overlaps /\ Job.newest \in Chain(LastOrNull)
        /\ broken' = {} => broken = {}
    BY <1>1, <1>3
  <2>2. Job' = Job /\ Settled' = Settled /\ LastOrNull' = LastOrNull /\ LastOrNull \in Ids
    BY <1>1, <2>1, SameQueue, EmptySeq DEF LastOrNull, IInv, Types, Ids, Null
  <2>3. Types' /\ Shape' /\ QueueInv'
    BY <1>1, <2>1, <2>2 DEF IInv, Types, Shape, QueueInv
  <2>4. LastInv' /\ AddInv' /\ ImportInv' /\ ChainIntact'
    BY <1>1, <2>1, <2>2 DEF IInv, LastInv, AddInv, ImportInv, ChainIntact, Rewriting, Importing
  <2>5. RangeInv'
    <3>1. Prefix(LastOrNull, LastOrNull)
      BY <2>2, Lengths DEF Prefix
    <3>2. Orderly' => Prefix(Job.newest, LastOrNull)
      BY <2>1, <2>2, ChainMember
    <3>. QED BY <2>1, <2>2, <3>1, <3>2 DEF RangeInv, Adds
  <2>6. RecentInv'
    <3>1. Len(recent) = 0 /\ recent' = recent
      BY <1>1, <2>1, EmptySeq
    <3>. QED BY <3>1 DEF RecentInv
  <2>. QED BY <2>3, <2>4, <2>5, <2>6 DEF IInv
<1>. QED BY <1>2, <1>3

\* The record at is collected, or the range is reached.
LEMMA CollectInv == ASSUME IInv, Collect PROVE IInv'
<1>1. /\ step = "collect" /\ queue # <<>>
      /\ UNCHANGED <<db, last, queue, previous, cleaning, asked, broken>>
      /\ \/ at' = Job.newest /\ step' = "delete" /\ UNCHANGED recent
            /\ (at = Job.newest \/ at \notin db)
         \/ at' = Previous(at) /\ recent' = Append(recent, at) /\ step' = "collect"
            /\ at # Job.newest /\ at \in db
  BY DEF Collect, Working, Goto, store, clean, history, Job
<1>2. /\ Job.op = "delete" /\ Job.newest \in Ids /\ Job.oldest \in Ids
      /\ Job.oldest # Null /\ Prefix(Job.oldest, Job.newest)
  BY <1>1, JobProperties DEF IInv, Shape
<1>3. Job' = Job /\ Settled' = Settled /\ LastOrNull' = LastOrNull /\ LastOrNull \in Ids
  BY <1>1, SameQueue, EmptySeq DEF LastOrNull, IInv, Types, Ids, Null
<1>4. ASSUME Orderly
      PROVE  /\ Prefix(Job.newest, at) /\ Prefix(at, LastOrNull) /\ Prefix(Job.newest, LastOrNull)
             /\ Prefix(Job.oldest, at)
             /\ Distinct(LastOrNull) /\ Elements(LastOrNull) \subseteq Settled
             /\ broken = {} => Chain(LastOrNull) \subseteq db
             /\ Deleting
  <2>1. broken = {} => Chain(LastOrNull) \subseteq db
    BY <1>1, <1>4, ChainNull DEF IInv, ChainIntact, LastOrNull, Rewriting, Importing
  <2>2. Prefix(Job.newest, at) /\ Prefix(at, LastOrNull) /\ Prefix(Job.newest, LastOrNull)
    BY <1>1, <1>4 DEF IInv, RangeInv
  <2>3. Prefix(Job.oldest, at)
    BY <1>2, <2>2, PrefixTransitive DEF IInv, Types
  <2>. QED BY <1>1, <1>2, <1>4, <2>1, <2>2, <2>3 DEF IInv, LastInv, Deleting, Job
<1>5. /\ Previous(Job.oldest) \in Ids /\ Prefix(Previous(Job.oldest), Job.oldest)
      /\ at \in Ids /\ recent \in Seq(Ids \ {Null})
  BY <1>2, PreviousProperties DEF IInv, Types
<1>6. LastInv' /\ AddInv' /\ ImportInv' /\ ChainIntact' /\ QueueInv'
  BY <1>1, <1>3 DEF IInv, LastInv, AddInv, ImportInv, ChainIntact, Rewriting, Importing, QueueInv
<1>7. CASE step' = "delete"
  <2>1. at' = Job.newest /\ UNCHANGED recent
    BY <1>1, <1>7
  <2>2. Types' /\ Shape'
    BY <1>1, <1>2, <1>3, <1>7, <2>1 DEF IInv, Types, Shape
  <2>3. RangeInv'
    <3>1. ASSUME broken = {} PROVE Chain(Previous(Job.oldest)) \subseteq db
      <4>1. Orderly
        BY <3>1 DEF Orderly
      <4>2. Prefix(Previous(Job.oldest), LastOrNull)
        BY <1>2, <1>3, <1>4, <1>5, <4>1, PrefixTransitive
      <4>. QED BY <1>3, <1>4, <1>5, <3>1, <4>1, <4>2, ChainPrefix
    <3>. QED BY <1>1, <1>2, <1>3, <1>4, <1>7, <2>1, <3>1 DEF RangeInv, Adds
  <2>4. RecentInv'
    <3>1. SUFFICES ASSUME Orderly PROVE RecentInv'
      BY <1>1 DEF RecentInv
    <3>2. Kept' = Previous(Job.oldest)
      BY <1>3, <1>7 DEF Kept
    <3>3. Prefix(Previous(Job.oldest), at)
      BY <1>2, <1>4, <1>5, <3>1, PrefixTransitive
    <3>4. Elements(Previous(Job.oldest)) \subseteq Elements(at)
      BY <1>5, <3>3, ElementsPrefix
    <3>. QED BY <1>1, <1>3, <1>4, <1>7, <2>1, <3>1, <3>2, <3>4 DEF IInv, RecentInv
  <2>. QED BY <1>6, <2>2, <2>3, <2>4 DEF IInv
<1>8. CASE step' = "collect"
  <2>1. at' = Previous(at) /\ recent' = Append(recent, at) /\ at # Job.newest /\ at \in db
    BY <1>1, <1>8
  <2>2. /\ at # Null /\ at' \in Ids /\ Len(at') = Len(at) - 1 /\ Prefix(at', at) /\ at \in Ids \ {Null}
    BY <1>5, <2>1, PreviousProperties DEF IInv, Types
  <2>3. /\ recent' \in Seq(Ids \ {Null}) /\ recent' # <<>>
        /\ \A i \in 1 .. Len(recent) : recent'[i] = recent[i]
        /\ recent'[Len(recent) + 1] = at
        /\ Len(recent) \in Nat /\ Len(recent') = Len(recent) + 1
    BY <1>5, <2>1, <2>2, AppendProperties, LenProperties
  <2>4. Types' /\ Shape'
    BY <1>1, <1>2, <1>3, <1>8, <2>2, <2>3 DEF IInv, Types, Shape
  <2>5. ASSUME Orderly
        PROVE  Prefix(Job.newest, at') /\ Len(Job.oldest) < Len(at) /\ Len(at) \in Nat
    <3>1. Len(Job.newest) < Len(at)
      BY <1>2, <1>4, <1>5, <2>1, <2>5, PrefixEqual, Lengths
    <3>2. /\ Len(Job.newest) \in Nat /\ Len(Job.oldest) \in Nat /\ Len(at) \in Nat
          /\ Len(Job.oldest) <= Len(Job.newest)
      BY <1>2, <1>5, Lengths DEF Prefix
    <3>3. \A i \in 1 .. Len(Job.newest) : Job.newest[i] = at[i]
      BY <1>4, <2>5 DEF Prefix
    <3>4. \A i \in 1 .. Len(at') : at'[i] = at[i]
      BY <2>2 DEF Prefix
    <3>5. Prefix(Job.newest, at')
      BY <2>2, <3>1, <3>2, <3>3, <3>4 DEF Prefix
    <3>. QED BY <3>1, <3>2, <3>5
  <2>6. RangeInv'
    <3>1. Orderly => Prefix(at', LastOrNull)
      BY <1>3, <1>4, <1>5, <2>2, PrefixTransitive
    <3>. QED BY <1>1, <1>3, <1>4, <1>8, <2>5, <3>1 DEF RangeInv, Adds
  <2>7. RecentInv'
    <3>1. SUFFICES ASSUME Orderly PROVE RecentInv'
      BY <1>1 DEF RecentInv
    <3>2. Kept' = Previous(Job.oldest) /\ Kept = Previous(Job.oldest)
      BY <1>1, <1>3, <1>8 DEF Kept
    <3>3. Distinct(at) /\ Elements(at) \subseteq Settled /\ Elements(at') \subseteq Elements(at)
      BY <1>3, <1>4, <1>5, <2>2, <3>1, ElementsPrefix
    <3>4. Event(at) \in Elements(at) /\ Event(at) = at[Len(at)] /\ Len(at) \in 1 .. Len(at)
      BY <2>2, EventType, Lengths DEF Event
    <3>5. Event(at) \notin Elements(at')
      <4>1. \A i \in 1 .. Len(at') : i \in 1 .. Len(at) /\ i # Len(at) /\ at'[i] = at[i]
        BY <2>2, <2>5, <3>1, Lengths DEF Prefix
      <4>. QED BY <3>3, <3>4, <4>1 DEF Distinct, Elements
    <3>6. Event(at) # Event(Job.oldest)
      <4>1. /\ Len(Job.oldest) \in 1 .. Len(at) /\ Len(Job.oldest) # Len(at)
            /\ at[Len(Job.oldest)] = Job.oldest[Len(Job.oldest)]
        <5>1. Len(Job.oldest) \in Nat /\ Len(Job.oldest) > 0
          BY <1>2, Lengths
        <5>2. Len(Job.oldest) \in 1 .. Len(Job.oldest)
          BY <5>1
        <5>3. at[Len(Job.oldest)] = Job.oldest[Len(Job.oldest)]
          BY <1>4, <3>1, <5>2 DEF Prefix
        <5>. QED BY <2>5, <3>1, <5>1, <5>3
      <4>. QED BY <3>3, <3>4, <4>1 DEF Distinct, Event
    <3>7. Event(at) \notin Elements(Previous(Job.oldest))
      <4>1. Prefix(Job.newest, at')
        BY <2>5, <3>1
      <4>2. Prefix(Previous(Job.oldest), at')
        BY <1>2, <1>5, <2>2, <4>1, PrefixTransitive
      <4>. QED BY <1>5, <2>2, <3>5, <4>2, ElementsPrefix
    <3>8. \A i \in 1 .. Len(recent) :
            /\ Prefix(Job.oldest, recent[i]) /\ Event(recent[i]) # Event(Job.oldest)
            /\ Event(recent[i]) \in Settled
            /\ Event(recent[i]) \notin Elements(Previous(Job.oldest)) /\ Event(recent[i]) \notin Elements(at)
      BY <1>1, <1>4, <3>1, <3>2 DEF IInv, RecentInv
    <3>9. \A i, j \in 1 .. Len(recent) : i # j => Event(recent[i]) # Event(recent[j])
      BY <1>4, <3>1 DEF IInv, RecentInv
    <3>10. \A i \in 1 .. Len(recent') : i \in 1 .. Len(recent) \/ i = Len(recent) + 1
      BY <2>3
    <3>11. ASSUME NEW i \in 1 .. Len(recent')
           PROVE  /\ Prefix(Job.oldest, recent'[i]) /\ Event(recent'[i]) # Event(Job.oldest)
                  /\ Event(recent'[i]) \in Settled
                  /\ Event(recent'[i]) \notin Elements(Previous(Job.oldest)) /\ Event(recent'[i]) \notin Elements(at')
      <4>1. CASE i \in 1 .. Len(recent)
        BY <2>3, <3>3, <3>8, <4>1
      <4>2. CASE i = Len(recent) + 1
        BY <1>4, <2>3, <3>1, <3>3, <3>4, <3>5, <3>6, <3>7, <4>2
      <4>. QED BY <3>10, <4>1, <4>2
    <3>12. ASSUME NEW i \in 1 .. Len(recent'), NEW j \in 1 .. Len(recent'), i # j
           PROVE  Event(recent'[i]) # Event(recent'[j])
      <4>1. CASE i \in 1 .. Len(recent) /\ j \in 1 .. Len(recent)
        BY <2>3, <3>9, <3>12, <4>1
      <4>2. CASE i \in 1 .. Len(recent) /\ j = Len(recent) + 1
        BY <2>3, <3>4, <3>8, <4>2
      <4>3. CASE j \in 1 .. Len(recent) /\ i = Len(recent) + 1
        BY <2>3, <3>4, <3>8, <4>3
      <4>. QED BY <3>10, <3>12, <4>1, <4>2, <4>3
    <3>. QED BY <1>3, <1>8, <3>2, <3>11, <3>12 DEF RecentInv
  <2>. QED BY <1>6, <2>4, <2>6, <2>7 DEF IInv
<1>. QED BY <1>1, <1>7, <1>8

LEMMA BeforePrefix ==
  ASSUME NEW a \in Ids, NEW b \in Ids, Prefix(a, b), a # b
  PROVE  Prefix(a, Previous(b))
<1>1. Len(a) \in Nat /\ Len(b) \in Nat /\ Len(a) < Len(b)
  BY PrefixEqual, Lengths
<1>2. b # Null
  BY <1>1, Lengths
<1>3. Len(Previous(b)) = Len(b) - 1 /\ Prefix(Previous(b), b)
  BY <1>2, PreviousProperties
<1>. QED BY <1>1, <1>3 DEF Prefix

\* What comes before the oldest record is not deleted.
LEMMA DeleteInv == ASSUME IInv, Delete PROVE IInv'
<1>1. /\ step = "delete" /\ queue # <<>> /\ Job.op = "delete"
      /\ db' = db \ {at}
      /\ UNCHANGED <<last, queue, previous, recent, cleaning, asked, broken>>
      /\ \/ step' = "cut" /\ UNCHANGED at
         \/ step' = "delete" /\ at # Job.oldest /\ at' = Previous(at)
  <2>1. step = "delete" /\ queue # <<>>
    BY DEF Delete, Working
  <2>2. Job.op = "delete"
    BY <2>1 DEF IInv, Shape
  <2>. QED BY <2>1, <2>2 DEF Delete, Goto, clean, history, Job
<1>2. Job.oldest \in Ids /\ Job.oldest # Null /\ at \in Ids /\ Previous(at) \in Ids
  BY <1>1, JobProperties, PreviousProperties DEF IInv, Types
<1>3. Job' = Job /\ Settled' = Settled /\ LastOrNull' = LastOrNull
  BY <1>1, SameQueue DEF LastOrNull
<1>4. /\ Previous(Job.oldest) \in Ids /\ Len(Previous(Job.oldest)) = Len(Job.oldest) - 1
      /\ Len(Job.oldest) \in Nat
  BY <1>2, PreviousProperties, Lengths
<1>5. Types' /\ Shape' /\ QueueInv'
  BY <1>1, <1>2, <1>3 DEF IInv, Types, Shape, QueueInv
<1>6. LastInv' /\ AddInv' /\ ImportInv' /\ ChainIntact'
  BY <1>1, <1>3 DEF IInv, LastInv, AddInv, ImportInv, ChainIntact, Rewriting, Importing
<1>7. RangeInv'
  <2>1. ASSUME Orderly
        PROVE  /\ Prefix(Job.oldest, at) /\ Prefix(Job.newest, LastOrNull)
               /\ broken = {} => Chain(Previous(Job.oldest)) \subseteq db
    BY <1>1, <2>1 DEF IInv, RangeInv
  <2>2. ASSUME Orderly PROVE at \notin Chain(Previous(Job.oldest))
    BY <1>2, <1>4, <2>1, <2>2, ChainMember, Lengths DEF Prefix
  <2>3. broken = {} => Chain(Previous(Job.oldest)) \subseteq db'
    BY <1>1, <2>1, <2>2 DEF Orderly
  <2>4. Orderly /\ step' = "delete" => Prefix(Job.oldest, at')
    BY <1>1, <1>2, <2>1, BeforePrefix
  <2>. QED BY <1>1, <1>3, <2>1, <2>3, <2>4 DEF RangeInv, Adds
<1>8. RecentInv'
  <2>1. Kept' = Kept
    BY <1>1, <1>3 DEF Kept
  <2>. QED BY <1>1, <1>3, <2>1 DEF IInv, RecentInv, Deleting, Job
<1>. QED BY <1>5, <1>6, <1>7, <1>8 DEF IInv

\* The chain ends before the range.
LEMMA CutInv == ASSUME IInv, Cut PROVE IInv'
<1>1. /\ step = "cut" /\ step' = "rewrite" /\ queue # <<>> /\ Job.op = "delete"
      /\ last' = Previous(Job.oldest)
      /\ UNCHANGED <<db, queue, previous, at, recent, cleaning, asked, broken>>
  <2>1. step = "cut" /\ queue # <<>>
    BY DEF Cut, Working
  <2>2. Job.op = "delete"
    BY <2>1 DEF IInv, Shape
  <2>. QED BY <2>1, <2>2 DEF Cut, Goto, clean, history, Job
<1>2. /\ Job.newest \in Ids /\ Job.oldest \in Ids /\ Job.oldest # Null
      /\ Prefix(Job.oldest, Job.newest)
  BY <1>1, JobProperties DEF IInv
<1>3. Job' = Job /\ Settled' = Settled /\ LastOrNull \in Ids
  BY <1>1, SameQueue, EmptySeq DEF LastOrNull, IInv, Types, Ids, Null
<1>4. /\ last' \in Ids /\ Len(last') = Len(Job.oldest) - 1 /\ Len(Job.oldest) \in Nat
      /\ Prefix(last', Job.oldest)
  BY <1>1, <1>2, PreviousProperties, Lengths
<1>5. last' # None /\ LastOrNull' = last'
  BY <1>4 DEF LastOrNull, Ids
<1>6. Types' /\ Shape' /\ QueueInv'
  BY <1>1, <1>3, <1>4 DEF IInv, Types, Shape, QueueInv
<1>7. ASSUME Orderly
      PROVE  /\ Distinct(last') /\ Elements(last') \subseteq Settled
             /\ ~Overlaps
             /\ broken = {} => Chain(last') \subseteq db'
  <2>1. Prefix(Job.newest, LastOrNull) /\ (broken = {} => Chain(last') \subseteq db')
    BY <1>1, <1>7 DEF IInv, RangeInv
  <2>2. Prefix(last', LastOrNull)
    BY <1>2, <1>3, <1>4, <2>1, PrefixTransitive
  <2>3. Distinct(LastOrNull) /\ Elements(LastOrNull) \subseteq Settled /\ ~Overlaps
    BY <1>1, <1>7 DEF IInv, LastInv
  <2>. QED BY <1>3, <1>4, <2>1, <2>2, <2>3, ElementsPrefix
<1>8. LastInv' /\ AddInv' /\ ImportInv' /\ ChainIntact'
  BY <1>1, <1>3, <1>5, <1>6, <1>7 DEF Shape, LastInv, AddInv, ImportInv, ChainIntact, Rewriting, Importing
<1>9. RangeInv'
  <2>1. ~Prefix(Job.oldest, last')
    BY <1>4 DEF Prefix
  <2>. QED BY <1>1, <1>3, <1>5, <2>1 DEF RangeInv, Adds
<1>10. RecentInv'
  <2>1. Kept' = Kept
    BY <1>1, <1>3, <1>5 DEF Kept
  <2>. QED BY <1>1, <1>3, <2>1 DEF IInv, RecentInv, Deleting, Job
<1>. QED BY <1>6, <1>8, <1>9, <1>10 DEF IInv

-----------------------------------------------------------------------------
(* The import. *)

LEMMA FileProperties ==
  ASSUME QueueInv
  PROVE  /\ File \in Ids /\ File # None /\ Distinct(File)
         /\ Elements(File) \subseteq Settled
<1>1. Elements(File) \cap Pending = {}
  BY DEF QueueInv, Pending
<1>. QED BY <1>1 DEF Ids, Distinct, QueueInv, Settled

LEMMA StartImportInv == ASSUME IInv, StartImport PROVE IInv'
<1>1. /\ step = "start" /\ queue # <<>> /\ Job.op = "import"
      /\ UNCHANGED <<db, last, cleaning, asked>>
      /\ Orderly' => Orderly /\ ~Overlaps
      /\ broken' = {} => broken = {}
      /\ IF db = {} /\ last = None
         THEN at' = File /\ step' = "import" /\ UNCHANGED <<queue, previous, recent>>
         ELSE Release
  BY DEF StartImport, Working, Goto, store, clean, Job, Breaks, Overlaps
<1>2. CASE ~(db = {} /\ last = None)
  <2>1. cleaning["import"] = "idle"
    BY <1>1 DEF IInv, Shape
  <2>. QED BY <1>1, <1>2, <2>1, ReleaseUnchanged DEF Rewriting, Importing
<1>3. CASE db = {} /\ last = None
  <2>1. at' = File /\ step' = "import" /\ UNCHANGED <<queue, previous, recent>>
    BY <1>1, <1>3
  <2>2. Job' = Job /\ Settled' = Settled /\ LastOrNull' = LastOrNull
    BY <1>1, <2>1, SameQueue DEF LastOrNull
  <2>3. Types' /\ Shape' /\ QueueInv'
    BY <1>1, <2>1, <2>2, FileProperties DEF IInv, Types, Shape, QueueInv
  <2>4. LastInv' /\ AddInv' /\ ImportInv' /\ ChainIntact'
    BY <1>1, <1>3, <2>1, <2>2 DEF IInv, LastInv, AddInv, ImportInv, ChainIntact, Rewriting, Importing
  <2>5. RangeInv' /\ RecentInv'
    BY <1>1, <2>1, <2>2 DEF RangeInv, RecentInv, Adds, Deleting, Job
  <2>. QED BY <2>3, <2>4, <2>5 DEF IInv
<1>. QED BY <1>2, <1>3

\* What remains of the file is the chain of at.
LEMMA ImportRecordInv == ASSUME IInv, ImportRecord PROVE IInv'
<1>1. /\ step \in {"import", "next"} /\ queue # <<>> /\ at # Null
      /\ db' = db \cup {at} /\ at' = Previous(at)
      /\ step' = IF step = "import" THEN "first" ELSE "next"
      /\ UNCHANGED <<last, queue, previous, recent, cleaning, asked, broken>>
  BY DEF ImportRecord, Working, Goto, clean
<1>2. /\ at \in Ids /\ at' \in Ids /\ Prefix(at', at) /\ Chain(at) = Chain(at') \cup {at}
      /\ File \in Ids /\ Prefix(File, File)
  BY <1>1, PreviousProperties, ChainPrevious, FileProperties, Lengths DEF IInv, Types, Prefix
<1>3. Job.op = "import" /\ Job' = Job /\ Settled' = Settled /\ LastOrNull' = LastOrNull
  BY <1>1, SameQueue DEF LastOrNull, IInv, Shape
<1>4. Types' /\ Shape' /\ QueueInv'
  BY <1>1, <1>2, <1>3 DEF IInv, Types, Shape, QueueInv
<1>5. LastInv' /\ AddInv'
  BY <1>1, <1>3 DEF IInv, LastInv, AddInv
<1>6. ImportInv'
  <2>1. ASSUME Orderly PROVE Prefix(at, File) /\ Chain(File) \ Chain(at) \subseteq db
    BY <1>1, <1>2, <2>1 DEF IInv, ImportInv
  <2>2. ASSUME Orderly PROVE Prefix(at', File) /\ Chain(File) \ Chain(at') \subseteq db'
    BY <1>1, <1>2, <2>1, <2>2, PrefixTransitive
  <2>. QED BY <1>1, <2>2 DEF IInv, ImportInv
<1>7. ChainIntact'
  <2>1. Orderly /\ step' = "first" => last' = None
    BY <1>1, <1>5 DEF LastInv
  <2>2. Orderly /\ step' = "next" /\ at' = Null => last' = File /\ Chain(File) \subseteq db'
    BY <1>1, <1>6, ChainNull DEF ImportInv
  <2>. QED BY <1>1, <2>1, <2>2 DEF ChainIntact, Rewriting, Importing
<1>8. RangeInv' /\ RecentInv'
  BY <1>1, <1>3 DEF RangeInv, RecentInv, Adds, Deleting, Job
<1>. QED BY <1>4, <1>5, <1>6, <1>7, <1>8 DEF IInv

LEMMA ImportLastIdInv == ASSUME IInv, ImportLastId PROVE IInv'
<1>1. /\ step = "first" /\ step' = "next" /\ queue # <<>> /\ last' = File
      /\ UNCHANGED <<db, queue, previous, at, recent, cleaning, asked, broken>>
  BY DEF ImportLastId, Working, Goto, clean, history
<1>2. File \in Ids /\ File # None /\ Distinct(File) /\ Elements(File) \subseteq Settled
  BY FileProperties DEF IInv
<1>3. Job.op = "import" /\ Job' = Job /\ Settled' = Settled /\ LastOrNull' = File
  BY <1>1, <1>2, SameQueue DEF LastOrNull, IInv, Shape
<1>4. Types' /\ Shape' /\ QueueInv'
  BY <1>1, <1>2, <1>3 DEF IInv, Types, Shape, QueueInv
<1>5. LastInv' /\ AddInv' /\ ImportInv'
  BY <1>1, <1>2, <1>3 DEF IInv, Shape, LastInv, AddInv, ImportInv
<1>6. ChainIntact'
  <2>1. Orderly /\ at' = Null => Chain(File) \subseteq db'
    BY <1>1, <1>5, ChainNull DEF ImportInv
  <2>. QED BY <1>1, <2>1 DEF ChainIntact, Importing
<1>7. RangeInv' /\ RecentInv'
  BY <1>1, <1>3 DEF RangeInv, RecentInv, Adds, Deleting, Job
<1>. QED BY <1>4, <1>5, <1>6, <1>7 DEF IInv

LEMMA ImportEndsInv == ASSUME IInv, ImportEnds PROVE IInv'
<1>1. /\ step = "next" /\ queue # <<>> /\ at = Null /\ Release
      /\ UNCHANGED <<db, last, cleaning, asked, broken>>
  BY DEF ImportEnds, Working, store, clean, history
<1>2. LastOrNull' = LastOrNull /\ Settled \subseteq Settled' /\ cleaning["import"] = "idle"
  BY <1>1, TailQueue DEF LastOrNull, IInv, Shape, Release
<1>3. broken = {} => Chain(LastOrNull) \subseteq db
  BY <1>1, ChainNull, FileProperties DEF IInv, ImportInv, LastOrNull
<1>4. Orderly => /\ Distinct(LastOrNull) /\ Elements(LastOrNull) \subseteq Settled
                 /\ Overlaps => last = None
  BY DEF IInv, LastInv
<1>5. /\ db' \subseteq Ids \ {Null} /\ last' \in Ids \cup {None}
      /\ cleaning' \in [Cleaners -> {"idle", "open", "sweep"}]
      /\ Orderly' => Orderly
      /\ broken' = {} => broken = {}
  BY <1>1 DEF IInv, Types
<1>. QED BY <1>1, <1>2, <1>3, <1>4, <1>5, ReleaseInv

LEMMA ImportFailsInv == ASSUME IInv, ImportFails PROVE IInv'
<1>1. /\ step \in {"import", "first", "next"} /\ step' = "clean" /\ queue # <<>>
      /\ UNCHANGED <<db, last, queue, previous, at, recent, cleaning, asked, broken>>
  BY DEF ImportFails, Working, Goto, store, clean, history
<1>2. Job.op = "import" /\ Job' = Job /\ Settled' = Settled /\ LastOrNull' = LastOrNull
  BY <1>1, SameQueue DEF LastOrNull, IInv, Shape
<1>3. Types' /\ Shape' /\ QueueInv'
  BY <1>1, <1>2 DEF IInv, Types, Shape, QueueInv
<1>4. Orderly => ~Overlaps /\ (step \in {"import", "first"} => last = None)
  BY <1>1 DEF IInv, LastInv
<1>5. LastInv' /\ AddInv' /\ ImportInv'
  BY <1>1, <1>2, <1>4 DEF IInv, LastInv, AddInv, ImportInv
<1>6. ChainIntact'
  BY <1>1, <1>4 DEF IInv, ChainIntact, Rewriting, Importing
<1>7. RangeInv' /\ RecentInv'
  BY <1>1, <1>2 DEF RangeInv, RecentInv, Adds, Deleting, Job
<1>. QED BY <1>3, <1>5, <1>6, <1>7 DEF IInv

\* clean() begins with lastId: the records that are left have no chain.
LEMMA UndoImportInv == ASSUME IInv, UndoImport PROVE IInv'
<1>1. /\ step = "clean" /\ queue # <<>> /\ cleaning["import"] = "idle" /\ last' = None
      /\ cleaning' = [cleaning EXCEPT !["import"] = "open"]
      /\ UNCHANGED <<db, queue, step, previous, at, recent, asked, broken>>
  BY DEF UndoImport, Undoing, Working, holder
<1>2. /\ cleaning' \in [Cleaners -> {"idle", "open", "sweep"}]
      /\ Overlaps' = Overlaps
  BY <1>1 DEF IInv, Types, Cleaners
<1>3. /\ Job.op = "import" /\ Job' = Job /\ Settled' = Settled /\ LastOrNull' = Null
      /\ Elements(Null) = {} /\ Distinct(Null)
  BY <1>1, SameQueue, EmptySeq DEF LastOrNull, IInv, Shape, Null, Elements, Distinct
<1>4. Types' /\ Shape' /\ QueueInv'
  BY <1>1, <1>2, <1>3 DEF IInv, Types, Shape, QueueInv
<1>. HIDE DEF Overlaps
<1>5. LastInv' /\ AddInv' /\ ImportInv' /\ ChainIntact'
  BY <1>1, <1>2, <1>3 DEF IInv, LastInv, AddInv, ImportInv, ChainIntact
<1>6. RangeInv' /\ RecentInv'
  BY <1>1, <1>3 DEF RangeInv, RecentInv, Adds, Deleting, Job
<1>. QED BY <1>4, <1>5, <1>6 DEF IInv

LEMMA UndoFailsInv == ASSUME IInv, UndoFails PROVE IInv'
<1>1. /\ step = "clean" /\ queue # <<>> /\ cleaning["import"] = "idle" /\ Release
      /\ UNCHANGED <<db, last, cleaning, asked>>
      /\ broken' = broken \cup Breaks(Importing, "import")
  BY DEF UndoFails, Undoing, Working, store, clean
<1>2. Orderly' => Orderly
  BY <1>1
<1>3. broken' = {} => broken = {} /\ ~Importing
  BY <1>1 DEF Breaks
<1>. QED BY <1>1, <1>2, <1>3, ReleaseUnchanged DEF Rewriting

-----------------------------------------------------------------------------
(* The cleaning. *)

LEMMA NullProperties == Elements(Null) = {} /\ Distinct(Null) /\ Chain(Null) = {}
  BY EmptySeq, ChainNull DEF Null, Elements, Distinct

\* checkIntegrity(), and the keys that remain to delete, are not of the chain.
LEMMA SameInv ==
  ASSUME IInv, UNCHANGED <<db, last, queue, step, previous, at, recent, cleaning, asked, broken>>
  PROVE  IInv'
<1>1. Job' = Job /\ Settled' = Settled /\ LastOrNull' = LastOrNull
  BY SameQueue DEF LastOrNull
<1>2. Types' /\ Shape' /\ QueueInv' /\ LastInv' /\ ImportInv' /\ ChainIntact'
  BY <1>1 DEF IInv, Types, Shape, QueueInv, LastInv, ImportInv, ChainIntact, Rewriting, Importing
<1>3. AddInv' /\ RangeInv' /\ RecentInv'
  BY <1>1 DEF IInv, AddInv, Adding, RangeInv, Adds, RecentInv, Kept, Deleting, Job
<1>. QED BY <1>2, <1>3 DEF IInv

\* Whoever cleans, the chain is empty.
LEMMA CleanInv == ASSUME IInv, Clean PROVE IInv'
<1>1. /\ last' = None /\ cleaning' = [cleaning EXCEPT !["api"] = "open"]
      /\ Orderly' => step = "start"
      /\ UNCHANGED <<db, queue, step, previous, at, recent, asked>>
  BY DEF Clean, holder, Breaks
<1>2. /\ cleaning' \in [Cleaners -> {"idle", "open", "sweep"}]
      /\ cleaning'["import"] = cleaning["import"]
  BY <1>1 DEF IInv, Types, Cleaners
<1>3. Job' = Job /\ Settled' = Settled /\ LastOrNull' = Null
  BY <1>1, SameQueue DEF LastOrNull
<1>4. Types' /\ Shape' /\ QueueInv'
  BY <1>1, <1>2, <1>3 DEF IInv, Types, Shape, QueueInv
<1>5. LastInv' /\ AddInv' /\ ImportInv' /\ ChainIntact'
  BY <1>1, <1>2, <1>3, NullProperties DEF LastInv, AddInv, ImportInv, ChainIntact, Rewriting, Importing
<1>6. RangeInv' /\ RecentInv'
  BY <1>1, <1>3 DEF RangeInv, RecentInv, Adds, Deleting
<1>. QED BY <1>4, <1>5, <1>6 DEF IInv

\* While a log is cleaned, it has no chain.
LEMMA CleaningInv ==
  ASSUME IInv, NEW c \in Cleaners, cleaning[c] # "idle",
         UNCHANGED <<queue, step, previous, at, recent, asked, broken>>,
         db' \subseteq db, last' \in {last, None},
         cleaning' \in [Cleaners -> {"idle", "open", "sweep"}],
         \A d \in Cleaners : cleaning'[d] # "idle" => cleaning[d] # "idle"
  PROVE  IInv'
<1>1. Job' = Job /\ Settled' = Settled
  BY SameQueue
<1>2. Orderly => last = None /\ step \in {"start", "clean"}
  BY DEF IInv, LastInv, Shape, Cleaners
<1>3. Orderly => last' = None /\ LastOrNull' = Null /\ LastOrNull = Null
  BY <1>2 DEF LastOrNull
<1>4. Types' /\ Shape' /\ QueueInv'
  <2>1. Types'
    BY DEF IInv, Types
  <2>2. Shape'
    BY <1>1 DEF IInv, Shape, Cleaners
  <2>3. QueueInv'
    BY DEF IInv, QueueInv
  <2>. QED BY <2>1, <2>2, <2>3
<1>5. LastInv' /\ AddInv' /\ ImportInv' /\ ChainIntact'
  BY <1>1, <1>2, <1>3, NullProperties DEF IInv, LastInv, AddInv, ImportInv, ChainIntact, Cleaners
<1>6. RangeInv' /\ RecentInv'
  <2>1. Orderly => ~Deleting
    BY <1>2 DEF IInv, Shape, Deleting, Job
  <2>2. Orderly => ~Deleting'
    BY <1>1, <2>1 DEF Deleting, Job
  <2>. QED BY <1>1, <1>2, <2>2 DEF RangeInv, RecentInv, Adds
<1>. QED BY <1>4, <1>5, <1>6 DEF IInv

LEMMA OpenKeysInv == ASSUME IInv, NEW c \in Cleaners, OpenKeys(c) PROVE IInv'
<1>1. /\ cleaning[c] = "open" /\ cleaning' = [cleaning EXCEPT ![c] = "sweep"]
      /\ UNCHANGED <<db, last, queue, step, previous, at, recent, asked, broken>>
  BY DEF OpenKeys, store, holder, history
<1>. QED BY <1>1, CleaningInv DEF IInv, Types

LEMMA SweepInv == ASSUME IInv, NEW c \in Cleaners, NEW key, Sweep(c, key) PROVE IInv'
<1>1. /\ cleaning[c] = "sweep" /\ db' \subseteq db /\ last' \in {last, None}
      /\ UNCHANGED <<queue, step, previous, at, recent, cleaning, asked, broken>>
  BY DEF Sweep, store, holder
<1>. QED BY <1>1, CleaningInv DEF IInv, Types

LEMMA CleanEndsInv == ASSUME IInv, NEW c \in Cleaners, CleanEnds(c) PROVE IInv'
<1>1. /\ cleaning[c] = "sweep" /\ cleaning' = [cleaning EXCEPT ![c] = "idle"]
      /\ UNCHANGED <<db, last, asked, broken>>
      /\ IF c = "import" THEN Release ELSE UNCHANGED <<queue, step, previous, at, recent>>
  BY DEF CleanEnds, store, holder, history
<1>2. cleaning' \in [Cleaners -> {"idle", "open", "sweep"}]
  BY <1>1 DEF IInv, Types
<1>3. CASE c = "import"
  <2>1. step = "clean" /\ queue # <<>> /\ cleaning'["import"] = "idle"
    BY <1>1, <1>3 DEF IInv, Types, Shape
  <2>2. Orderly => last = None /\ LastOrNull' = Null
    BY <1>1, <1>3 DEF IInv, LastInv, LastOrNull
  <2>. QED BY <1>1, <1>2, <1>3, <2>1, <2>2, NullProperties, ReleaseInv DEF IInv, Types
<1>4. CASE c # "import"
  BY <1>1, <1>2, <1>4, CleaningInv DEF IInv, Types
<1>. QED BY <1>3, <1>4

\* An import whose clean() is rejected releases the lock, its deletions under way.
LEMMA StreamFailsInv ==
  ASSUME IInv, NEW c \in Cleaners, NEW begun, StreamFails(c, begun)
  PROVE  IInv'
<1>1. CASE c = "import"
  <2>1. /\ cleaning["import"] = "sweep" /\ Release /\ UNCHANGED <<db, last, asked, broken>>
        /\ cleaning' = [cleaning EXCEPT !["import"] = "idle", !["stray"] = "sweep"]
    BY <1>1 DEF StreamFails, store, history
  <2>2. step = "clean" /\ queue # <<>>
    BY <2>1 DEF IInv, Shape
  <2>3. /\ cleaning' \in [Cleaners -> {"idle", "open", "sweep"}]
        /\ cleaning'["import"] = "idle"
    BY <2>1 DEF IInv, Types, Cleaners
  <2>4. Orderly => last = None /\ LastOrNull' = Null
    BY <2>1 DEF IInv, LastInv, LastOrNull
  <2>5. broken' = {} => LastOrNull' = Null
    BY <2>1, <2>4
  <2>. QED BY <2>1, <2>2, <2>3, <2>4, <2>5, NullProperties, ReleaseInv DEF IInv, Types
<1>2. CASE c # "import"
  <2>1. UNCHANGED <<db, last, queue, step, previous, at, recent, cleaning, asked, broken>>
    BY <1>2 DEF StreamFails, store, holder, history
  <2>. QED BY <2>1, SameInv
<1>. QED BY <1>1, <1>2

-----------------------------------------------------------------------------
(* The other steps, and the theorem. *)

LEMMA CheckInv == ASSUME IInv, Check \/ Checking PROVE IInv'
<1>1. UNCHANGED <<db, last, queue, step, previous, at, recent, cleaning, asked, broken>>
  BY DEF Check, Checking, Compare, From, Search, Verify, Valid, Missing, Read,
         store, holder, clean, history
<1>. QED BY <1>1, SameInv

LEMMA CrashInv == ASSUME IInv, Crash PROVE IInv'
<1>1. /\ queue' = <<>> /\ step' = "start" /\ previous' = Null /\ at' = Null /\ recent' = <<>>
      /\ cleaning' = [c \in Cleaners |-> "idle"]
      /\ UNCHANGED <<db, last, asked>>
      /\ Orderly' => Orderly
      /\ broken' = {} => broken = {} /\ ~Rewriting /\ ~Importing
  BY DEF Crash, store, Breaks
<1>2. /\ Null \in Ids /\ recent' \in Seq(Ids \ {Null})
      /\ queue' \in Seq(Jobs) /\ Len(queue') = 0
  BY <1>1, EmptySeq DEF Ids, Null
<1>3. Types' /\ Shape' /\ QueueInv'
  BY <1>1, <1>2 DEF IInv, Types, Shape, QueueInv, Cleaners
<1>4. LastOrNull' = LastOrNull /\ Settled \subseteq Settled'
  BY <1>1, <1>2 DEF LastOrNull, Settled, Pending
<1>5. ~Overlaps'
  BY <1>1 DEF Cleaners
<1>6. LastInv' /\ AddInv' /\ ImportInv' /\ RangeInv' /\ RecentInv'
  BY <1>1, <1>4, <1>5 DEF IInv, LastInv, AddInv, ImportInv, RangeInv, RecentInv, Adds, Deleting, Cleaners
<1>7. ChainIntact'
  BY <1>1 DEF IInv, ChainIntact, Rewriting, Importing
<1>. QED BY <1>3, <1>6, <1>7 DEF IInv

LEMMA DeleteRangeInv ==
  ASSUME IInv, NEW newest \in Listed, NEW oldest \in Chain(newest) \cap Listed,
         DeleteRange(newest, oldest)
  PROVE  IInv'
<1>1. Listed \subseteq Ids
  BY ChainMember DEF Listed, IInv, Types
<1>2. newest \in Ids /\ oldest \in Ids /\ oldest \in Chain(newest)
  BY <1>1
<1>. DEFINE call == [op |-> "delete", newest |-> newest, oldest |-> oldest]
<1>3. call \in Jobs /\ call.op = "delete" /\ call.oldest \in Chain(call.newest)
  BY <1>2 DEF Jobs
<1>4. Call(call) /\ UNCHANGED asked
  BY DEF DeleteRange
<1>. HIDE DEF call
<1>. QED BY <1>3, <1>4, CallInv

LEMMA NextInv == ASSUME IInv, [Next]_vars PROVE IInv'
<1>1. ASSUME NEW e \in Events, Add(e) PROVE IInv'
  <2>. DEFINE call == [op |-> "add", event |-> e]
  <2>1. call \in Jobs /\ call.op = "add" /\ call.event = e
    BY DEF Jobs
  <2>2. Call(call) /\ e \notin asked /\ asked' = asked \cup {e}
    BY <1>1 DEF Add
  <2>. HIDE DEF call
  <2>. QED BY <2>1, <2>2, CallInv
<1>2. ASSUME ImportRecords PROVE IInv'
  <2>. DEFINE call == [op |-> "import"]
  <2>1. call \in Jobs /\ call.op = "import"
    BY DEF Jobs
  <2>2. Call(call) /\ UNCHANGED asked
    BY <1>2 DEF ImportRecords
  <2>. HIDE DEF call
  <2>. QED BY <2>1, <2>2, CallInv
<1>3. Hold => IInv'
  BY StartAddInv, PutInv, LinkInv, StartDeleteInv, CollectInv, DeleteInv, CutInv, RewriteInv,
     DropInv, StartImportInv, ImportRecordInv, ImportLastIdInv, ImportEndsInv, UndoImportInv DEF Hold
<1>4. Keys \/ KeysFail => IInv'
  BY OpenKeysInv, CleanEndsInv, SweepInv, StreamFailsInv DEF Keys, KeysFail
<1>5. UNCHANGED vars => IInv'
  BY SameInv DEF vars, store, holder, clean, history
<1>. QED BY <1>1, <1>2, <1>3, <1>4, <1>5, DeleteRangeInv, ReadFailsInv, AddFailsInv, DeleteFailsInv,
            ImportFailsInv, UndoFailsInv, CleanInv, CheckInv, CrashInv DEF Next

LEMMA Inductive == Spec => []IInv
<1>1. IInv /\ [Next]_vars => IInv'
  BY NextInv
<1>. QED BY <1>1, InitInv, PTL DEF Spec

\* No record of the chain is missing from the store: add() puts a record before
\* it sets lastId, a range is cut out of the chain before its recent records are
\* added again, and an import fills the chain of its lastId.  The chain may only
\* be incomplete while it is cut or imported, after a rewrite or an import that
\* crashed then, a rewrite of which a deletion failed or an import of which the
\* undoing did, and beside a clean() or a range that `broken' names.
THEOREM ChainWhole == Spec => []ChainIntact
<1>1. IInv => ChainIntact
  BY DEF IInv
<1>. QED BY <1>1, Inductive, PTL

-----------------------------------------------------------------------------
(* The types. *)

\* The part of TypeOK that Types has not.
Others ==
    /\ doomed \in [Cleaners -> SUBSET (Ids \cup {None})]
    /\ check \in [pc : {"idle", "compare", "from", "search", "verify"},
                  newest : Ids, at : Ids, calm : BOOLEAN]
    /\ stored \subseteq Events
    /\ broken \subseteq {"rewrite", "import", "clean", "range"}
    /\ failures \in Nat

LEMMA NullType == Null \in Ids
  BY EmptySeq DEF Ids, Null

LEMMA OthersInit == Init => Others
<1>. SUFFICES ASSUME Init PROVE Others
  OBVIOUS
<1>1. doomed \in [Cleaners -> SUBSET (Ids \cup {None})] /\ stored \subseteq Events
      /\ broken \subseteq {"rewrite", "import", "clean", "range"} /\ failures \in Nat
  BY DEF Init
<1>2. check \in [pc : {"idle", "compare", "from", "search", "verify"}, newest : Ids, at : Ids, calm : BOOLEAN]
  BY NullType DEF Init, NoCheck
<1>. QED BY <1>1, <1>2 DEF Others

\* Who changes what Others is about.
LEMMA CheckType ==
  ASSUME IInv, Others, Check \/ Checking
  PROVE  Others'
<1>1. UNCHANGED <<doomed, stored, broken, failures>>
  BY DEF Check, Checking, Compare, From, Search, Verify, Valid, Missing, Read, Another, clean, history
<1>2. check.at \in Ids /\ check.newest \in Ids /\ LastOrNull \in Ids /\ Previous(check.at) \in Ids
      /\ check.calm \in BOOLEAN
  <2>1. check.at \in Ids /\ check.newest \in Ids /\ check.calm \in BOOLEAN
    BY DEF Others
  <2>2. LastOrNull \in Ids
    BY NullType DEF LastOrNull, IInv, Types
  <2>. QED BY <2>1, <2>2, PreviousProperties
<1>. DEFINE T == [pc : {"idle", "compare", "from", "search", "verify"}, newest : Ids, at : Ids, calm : BOOLEAN]
<1>3. check \in T
  BY DEF Others
<1>4. CASE Check
  <2>. DEFINE calm == broken = {} /\ step \in {"start", "put", "link"} /\ ~Deleting
                         /\ \A c \in Cleaners : cleaning[c] = "idle"
  <2>1. check' = [pc |-> "compare", newest |-> last, at |-> Null, calm |-> calm] /\ last \in Ids
    BY <1>4 DEF Check, IInv, Types
  <2>2. calm \in BOOLEAN
    OBVIOUS
  <2>. HIDE DEF calm
  <2>3. check' \in T
    BY <2>1, <2>2, NullType
  <2>. QED BY <1>1, <2>3 DEF Others
<1>5. NoCheck \in T
  BY NullType DEF NoCheck
<1>6. CASE Checking
  <2>1. ASSUME Compare PROVE check' \in T
    BY <1>2, <1>3, <2>1 DEF Compare
  <2>2. ASSUME From \/ Search PROVE check' \in T
    BY <1>2, <1>3, <2>2 DEF From, Search
  <2>3. ASSUME Verify PROVE check' \in T
    BY <1>2, <1>3, <2>3 DEF Verify
  <2>4. ASSUME Valid \/ Missing PROVE check' \in T
    BY <1>5, <2>4 DEF Valid, Missing
  <2>5. check' \in T
    BY <1>6, <2>1, <2>2, <2>3, <2>4 DEF Checking
  <2>. QED BY <1>1, <2>5 DEF Others
<1>. QED BY <1>4, <1>6

LEMMA OthersStep ==
  ASSUME IInv, Others, [Next]_vars
  PROVE  Others'
<1>. USE DEF clean, history, store, holder
<1>1. CASE (\E e \in Events : Add(e)) \/ ImportRecords
           \/ \E newest \in Listed : \E oldest \in Chain(newest) \cap Listed : DeleteRange(newest, oldest)
  BY <1>1 DEF Add, ImportRecords, DeleteRange, Call, Another, Others
<1>2. CASE StartAdd \/ Link \/ Collect \/ Delete \/ Cut \/ Rewrite \/ Drop \/ StartImport \/ ImportLastId
           \/ ImportEnds \/ ImportFails \/ UndoImport
  BY <1>2 DEF StartAdd, Link, Collect, Delete, Cut, Rewrite, Drop, StartImport, ImportLastId, ImportEnds,
              ImportFails, UndoImport, Breaks, Others
<1>3. CASE Put
  <2>1. Adding \in Events
    BY <1>3, AddingType DEF Put, Working, IInv
  <2>. QED BY <1>3, <2>1 DEF Put, Others
<1>4. CASE ImportRecord
  <2>1. Event(at) \in Events
    BY <1>4, EventType DEF ImportRecord, IInv, Types
  <2>. QED BY <1>4, <2>1 DEF ImportRecord, Others
<1>5. CASE StartDelete
  <2>1. /\ UNCHANGED <<doomed, failures>>
        /\ stored' \subseteq stored
        /\ check' = [check EXCEPT !.calm = FALSE] \/ check' = check
        /\ broken' \subseteq broken \cup {"clean", "range"}
    BY <1>5 DEF StartDelete, Breaks, Alarming
  <2>. QED BY <2>1 DEF Others
<1>6. CASE ReadFails \/ AddFails \/ DeleteFails \/ UndoFails
  <2>1. failures' \in Nat
    BY <1>6 DEF ReadFails, AddFails, DeleteFails, UndoFails, Fault, Others
  <2>2. /\ UNCHANGED <<doomed, check>> /\ stored' \subseteq stored
        /\ broken' \subseteq broken \cup {"rewrite", "import"}
    BY <1>6 DEF ReadFails, AddFails, DeleteFails, UndoFails, Breaks
  <2>. QED BY <2>1, <2>2 DEF Others
<1>7. CASE Clean
  BY <1>7 DEF Clean, Breaks, Alarming, Another, Others
<1>8. ASSUME NEW c \in Cleaners, OpenKeys(c) \/ CleanEnds(c) \/ \E key \in doomed[c] : Sweep(c, key)
      PROVE  Others'
  <2>1. CASE OpenKeys(c)
    BY <2>1 DEF OpenKeys, Others, IInv, Types
  <2>2. CASE CleanEnds(c)
    BY <2>2 DEF CleanEnds, Others
  <2>3. ASSUME NEW key, Sweep(c, key) PROVE Others'
    BY <2>3 DEF Sweep, Fault, Others
  <2>. QED BY <1>8, <2>1, <2>2, <2>3
<1>9. CASE Crash
  <2>1. check' \in [pc : {"idle", "compare", "from", "search", "verify"}, newest : Ids, at : Ids, calm : BOOLEAN]
    BY <1>9, NullType DEF Crash, NoCheck
  <2>2. /\ doomed' = [c \in Cleaners |-> {}] /\ UNCHANGED stored /\ failures' = failures + 1
        /\ broken' \subseteq broken \cup {"rewrite", "import"}
    BY <1>9 DEF Crash, Fault, Breaks
  <2>. QED BY <2>1, <2>2 DEF Others
<1>10. CASE UNCHANGED vars
  BY <1>10 DEF vars, Others
<1>11. ASSUME NEW c \in Cleaners, NEW begun \in SUBSET doomed[c], StreamFails(c, begun) PROVE Others'
  <2>1. failures' \in Nat /\ UNCHANGED <<check, stored, broken>>
    BY <1>11 DEF StreamFails, Fault, Others
  <2>2. doomed' \in [Cleaners -> SUBSET (Ids \cup {None})]
    BY <1>11 DEF StreamFails, Others, Cleaners
  <2>. QED BY <2>1, <2>2 DEF Others
<1>. QED BY <1>1, <1>2, <1>3, <1>4, <1>5, <1>6, <1>7, <1>8, <1>9, <1>10, <1>11, CheckType
         DEF Next, Hold, Keys, KeysFail

LEMMA OthersAlways == Spec => []Others
<1>1. IInv /\ Others /\ [Next]_vars => Others'
  BY OthersStep
<1>. QED BY <1>1, OthersInit, Inductive, PTL DEF Spec

\* The store, the calls, the cleaners and checkIntegrity() keep their types: what
\* is added, collected or imported is a record, whatever failed before.
THEOREM TypeCorrect == Spec => []TypeOK
<1>1. IInv /\ Others => TypeOK
  <2>. SUFFICES ASSUME IInv, Others PROVE TypeOK
    OBVIOUS
  <2>1. recent \in Seq(Ids)
    BY DEF IInv, Types
  <2>. QED BY <2>1 DEF IInv, Types, Others, TypeOK
<1>. QED BY <1>1, Inductive, OthersAlways, PTL

-----------------------------------------------------------------------------
(* The records that are kept. *)

\* The events of a chain.
LEMMA ElementsChain ==
  ASSUME NEW s \in Ids, NEW e
  PROVE  e \in Elements(s) <=> \E x \in Chain(s) : Event(x) = e
<1>1. Len(s) \in Nat
  BY Lengths
<1>2. ASSUME NEW n \in 1 .. Len(s)
      PROVE  SubSeq(s, 1, n) \in Chain(s) /\ Event(SubSeq(s, 1, n)) = s[n]
  <2>1. \A i \in 1 .. n : s[i] \in Events
    BY <1>1, ElementOfSeq DEF Ids
  <2>2. 1 \in Int /\ n \in Int
    OBVIOUS
  <2>3. Len(SubSeq(s, 1, n)) = n /\ \A i \in 1 .. n : SubSeq(s, 1, n)[i] = s[i]
    BY <2>1, <2>2, SubSeqProperties
  <2>4. Event(SubSeq(s, 1, n)) = s[n]
    BY <2>3 DEF Event
  <2>. QED BY <2>4 DEF Chain
<1>3. ASSUME NEW x \in Chain(s) PROVE Event(x) \in Elements(s)
  <2>1. x \in Ids /\ x # Null /\ Prefix(x, s)
    BY ChainMember
  <2>2. Len(x) \in 1 .. Len(x)
    BY <2>1, Lengths
  <2>3. Event(x) = s[Len(x)] /\ Len(x) \in 1 .. Len(s)
    BY <1>1, <2>1, <2>2 DEF Event, Prefix
  <2>. QED BY <2>3 DEF Elements
<1>. QED BY <1>2, <1>3 DEF Elements

\* What the calls that wait for the lock change.
LEMMA Calls ==
  ASSUME IInv,
         \/ \E e \in Events : Add(e)
         \/ \E newest \in Listed : \E oldest \in Chain(newest) \cap Listed : DeleteRange(newest, oldest)
         \/ ImportRecords
  PROVE  /\ UNCHANGED <<db, last, step, previous, at, recent, cleaning, check, stored, broken, failures>>
         /\ queue # <<>> => Job' = Job
<1>1. PICK call : Call(call) /\ failures' = failures
  BY DEF Add, DeleteRange, ImportRecords, Another
<1>2. queue' = Append(queue, call)
  BY <1>1 DEF Call
<1>3. queue \in Seq(Jobs)
  BY DEF IInv, Types
<1>4. queue # <<>> => Head(Append(queue, call)) = Head(queue)
  <2>. DEFINE Any == Jobs \cup {call}
  <2>1. queue \in Seq(Any) /\ call \in Any
    <3>1. Len(queue) \in Nat /\ \A i \in 1 .. Len(queue) : queue[i] \in Any
      BY <1>3, ElementOfSeq
    <3>2. queue = [i \in 1 .. Len(queue) |-> queue[i]]
      BY <1>3
    <3>. QED BY <3>1, <3>2
  <2>. HIDE DEF Any
  <2>2. Len(queue) \in Nat /\ (queue # <<>> => 1 \in 1 .. Len(queue))
    BY <2>1
  <2>3. \A i \in 1 .. Len(queue) : Append(queue, call)[i] = queue[i]
    BY <2>1, AppendProperties
  <2>. QED BY <2>1, <2>2, <2>3
<1>. QED BY <1>1, <1>2, <1>4 DEF Call, store, clean, history, Job

\* Every event that nobody asked to delete has a record: a range is deleted when
\* its events are not to be kept any more, and an old record once the new one is
\* in the chain.
HasRecord ==
    Orderly =>
        /\ \A e \in stored : \E id \in db : Event(id) = e
        /\ Overlaps \/ cleaning["import"] # "idle" => stored = {}
        /\ step \in {"collect", "delete"} => \A id \in Selected : Event(id) \notin stored
        /\ step = "delete" => Prefix(at, Job.newest)
        /\ step = "drop" => last \in db /\ Event(last) = Event(recent[1])

LEMMA RecordedInit == Init => HasRecord
  BY DEF Init, HasRecord, Cleaners

\* Nothing is deleted.
LEMMA RecordedGrows ==
  ASSUME HasRecord, Orderly' => Orderly, db \subseteq db', stored' \subseteq stored,
         Orderly' => ~Overlaps' \/ Overlaps \/ stored' = {},
         Orderly' => cleaning'["import"] = "idle" \/ cleaning["import"] # "idle" \/ stored' = {},
         step' \notin {"collect", "delete", "drop"}
  PROVE  HasRecord'
  BY DEF HasRecord

LEMMA RecordedStep ==
  ASSUME IInv, Others, HasRecord, [Next]_vars
  PROVE  HasRecord'
<1>. USE DEF clean, history, store, holder
<1>1. CASE \/ \E e \in Events : Add(e)
           \/ \E newest \in Listed : \E oldest \in Chain(newest) \cap Listed : DeleteRange(newest, oldest)
           \/ ImportRecords
  <2>1. /\ UNCHANGED <<db, last, step, at, recent, cleaning, stored, broken>>
        /\ queue # <<>> => Job' = Job
    BY <1>1, Calls
  <2>2. step # "start" => Selected' = Selected /\ Job' = Job
    BY <2>1 DEF IInv, Shape, Selected, Job
  <2>. QED BY <2>1, <2>2 DEF HasRecord
<1>2. CASE StartAdd \/ (Link /\ Job.op = "add") \/ Cut \/ Rewrite \/ StartImport \/ ImportLastId \/ ImportEnds
           \/ ImportFails
  <2>1. Orderly' => Orderly
    BY <1>2 DEF StartAdd, Link, Cut, Rewrite, StartImport, ImportLastId, ImportEnds, ImportFails, Breaks
  <2>2. db' = db /\ stored' = stored /\ cleaning' = cleaning
    BY <1>2 DEF StartAdd, Link, Cut, Rewrite, StartImport, ImportLastId, ImportEnds, ImportFails
  <2>3. step' \notin {"collect", "delete", "drop"}
    BY <1>2 DEF StartAdd, Link, Cut, Rewrite, StartImport, ImportLastId, ImportEnds, ImportFails,
                Goto, Release, Job
  <2>. QED BY <2>1, <2>2, <2>3, RecordedGrows
<1>3. CASE Put
  <2>1. /\ step = "put" /\ step' = "link" /\ db' = db \cup {Append(previous, Adding)}
        /\ stored' \subseteq stored \cup {Adding} /\ UNCHANGED <<cleaning, broken>>
    BY <1>3 DEF Put, Working, Goto
  <2>2. Event(Append(previous, Adding)) = Adding
    <3>1. Adding \in Events /\ previous \in Ids
      BY <2>1, AddingType DEF IInv, Types
    <3>. QED BY <3>1, AppendProperties2 DEF Event
  <2>3. cleaning["import"] = "idle" /\ (Orderly => ~Overlaps)
    BY <2>1 DEF IInv, Shape, LastInv
  <2>. QED BY <2>1, <2>2, <2>3 DEF HasRecord
<1>4. CASE Link /\ Job.op # "add"
  <2>1. /\ step = "link" /\ step' = "drop" /\ last' = Append(previous, Adding)
        /\ UNCHANGED <<db, stored, cleaning, broken, queue, recent>>
    BY <1>4 DEF Link, Working, Goto, Job
  <2>2. Adding \in Events /\ previous \in Ids /\ Adding = Event(recent[1])
    BY <1>4, <2>1, AddingType DEF IInv, Types, Shape
  <2>3. Event(last') = Adding
    BY <2>1, <2>2, AppendProperties2 DEF Event
  <2>4. Orderly => last' \in db
    BY <2>1 DEF IInv, AddInv
  <2>5. Orderly => ~Overlaps
    BY <2>1 DEF IInv, LastInv
  <2>. QED BY <2>1, <2>2, <2>3, <2>4, <2>5 DEF HasRecord
<1>5. CASE StartDelete
  <2>1. CASE {Job.newest, Job.oldest} \subseteq db
    <3>1. /\ step' = "collect" /\ UNCHANGED <<db, cleaning, queue>>
          /\ stored' = stored \ {Event(id) : id \in Selected}
          /\ Orderly' => Orderly /\ ~Overlaps
      <4>1. /\ step' = "collect" /\ UNCHANGED <<db, cleaning, queue>>
            /\ stored' = stored \ {Event(id) : id \in Selected}
            /\ broken' = broken \cup Breaks(Overlaps, "clean")
                  \cup Breaks(Job.newest \notin Chain(LastOrNull), "range")
        BY <1>5, <2>1 DEF StartDelete, Goto, Job
      <4>2. Orderly' => Orderly /\ ~Overlaps
        BY <4>1 DEF Breaks, Overlaps
      <4>. QED BY <4>1, <4>2
    <3>2. Selected' = Selected
      BY <3>1 DEF Selected
    <3>. QED BY <3>1, <3>2 DEF HasRecord
  <2>2. CASE ~({Job.newest, Job.oldest} \subseteq db)
    BY <1>5, <2>2 DEF StartDelete, Release, Job, HasRecord
  <2>. QED BY <2>1, <2>2
<1>6. CASE Collect
  <2>1. /\ step = "collect" /\ step' \in {"collect", "delete"}
        /\ step' = "delete" => at' = Job.newest
        /\ UNCHANGED <<db, stored, cleaning, broken, queue>>
    BY <1>6 DEF Collect, Working, Goto, Job
  <2>2. Selected' = Selected /\ Job' = Job
    BY <2>1 DEF Selected, Job
  <2>3. Prefix(Job.newest, Job.newest)
    <3>1. Job.newest \in Ids
      BY <2>1, JobProperties DEF IInv, Shape
    <3>. QED BY <3>1, Lengths DEF Prefix
  <2>4. Orderly => ~Overlaps
    BY <2>1 DEF IInv, LastInv
  <2>. QED BY <2>1, <2>2, <2>3, <2>4 DEF HasRecord
<1>7. CASE Delete
  <2>1. /\ step = "delete" /\ db' = db \ {at} /\ UNCHANGED <<stored, cleaning, broken, queue>>
        /\ \/ step' = "cut" /\ UNCHANGED at
           \/ step' = "delete" /\ at' = Previous(at)
    BY <1>7 DEF Delete, Working, Goto
  <2>2. /\ Job.op = "delete" /\ Job.newest \in Ids /\ Job.oldest \in Ids /\ Job.oldest # Null
        /\ at \in Ids
    BY <2>1, JobProperties DEF IInv, Shape, Types
  <2>3. Selected' = Selected /\ Job' = Job /\ Selected = Chain(Job.newest) \ Chain(Previous(Job.oldest))
    BY <2>1 DEF Selected, Job
  <2>4. ASSUME Orderly PROVE at \in Selected /\ (step' = "delete" => Prefix(at', Job.newest))
    <3>1. Prefix(Job.oldest, at) /\ Prefix(at, Job.newest)
      BY <2>1, <2>4 DEF IInv, RangeInv, HasRecord
    <3>2. /\ Len(at) \in Nat /\ Len(Job.oldest) \in Nat /\ Len(Job.oldest) > 0 /\ Len(at) >= Len(Job.oldest)
          /\ at # Null
      BY <2>2, <3>1, Lengths DEF Prefix
    <3>3. at \in Chain(Job.newest)
      BY <2>2, <3>1, <3>2, ChainMember
    <3>4. Previous(Job.oldest) \in Ids /\ Len(Previous(Job.oldest)) = Len(Job.oldest) - 1
      BY <2>2, PreviousProperties
    <3>5. at \notin Chain(Previous(Job.oldest))
      BY <3>2, <3>4, ChainMember DEF Prefix
    <3>6. Previous(at) \in Ids /\ Prefix(Previous(at), at)
      BY <2>2, PreviousProperties
    <3>7. Prefix(Previous(at), Job.newest)
      BY <2>2, <3>1, <3>6, PrefixTransitive
    <3>. QED BY <2>1, <2>3, <3>3, <3>5, <3>7
  <2>5. Orderly => ~Overlaps
    BY <2>1 DEF IInv, LastInv
  <2>6. ASSUME Orderly, NEW e \in stored PROVE \E id \in db' : Event(id) = e
    <3>1. Event(at) # e
      BY <2>1, <2>4, <2>6 DEF HasRecord
    <3>. QED BY <2>1, <2>6, <3>1 DEF HasRecord
  <2>. QED BY <2>1, <2>3, <2>4, <2>5, <2>6 DEF HasRecord
<1>8. CASE Drop
  <2>1. /\ step = "drop" /\ step' = "rewrite" /\ db' = db \ {Head(recent)}
        /\ UNCHANGED <<last, stored, cleaning, broken, queue>>
    BY <1>8 DEF Drop, Working, Goto
  <2>2. Job.op = "delete" /\ Job.oldest \in Ids /\ Head(recent) = recent[1] /\ 1 \in 1 .. Len(recent)
    BY <2>1, JobProperties, TailRecent DEF IInv, Shape
  <2>3. ASSUME Orderly PROVE last # recent[1] /\ last \in db /\ Event(last) = Event(recent[1])
    <3>1. last \in db /\ Event(last) = Event(recent[1])
      BY <2>1, <2>3 DEF HasRecord
    <3>2. LastOrNull = last
      BY <3>1 DEF LastOrNull, IInv, Types, Ids
    <3>3. Prefix(Job.oldest, recent[1])
      BY <2>1, <2>2, <2>3 DEF IInv, RecentInv, Deleting, Job
    <3>4. ~Prefix(Job.oldest, last)
      BY <2>1, <2>2, <2>3, <3>2 DEF IInv, RangeInv, Adds
    <3>. QED BY <3>1, <3>3, <3>4
  <2>4. ASSUME Orderly, NEW e \in stored PROVE \E id \in db' : Event(id) = e
    <3>1. PICK id \in db : Event(id) = e
      BY <2>4 DEF HasRecord
    <3>2. CASE id = recent[1]
      BY <2>1, <2>2, <2>3, <2>4, <3>1, <3>2
    <3>3. CASE id # recent[1]
      BY <2>1, <2>2, <3>1, <3>3
    <3>. QED BY <3>2, <3>3
  <2>5. Orderly => ~Overlaps
    BY <2>1 DEF IInv, LastInv
  <2>. QED BY <2>1, <2>4, <2>5 DEF HasRecord
<1>9. CASE ImportRecord
  <2>1. /\ step \in {"import", "next"} /\ step' \in {"first", "next"} /\ db' = db \cup {at}
        /\ stored' \subseteq stored \cup {Event(at)} /\ UNCHANGED <<cleaning, broken>>
    BY <1>9 DEF ImportRecord, Working, Goto
  <2>2. cleaning["import"] = "idle" /\ (Orderly => ~Overlaps)
    BY <2>1 DEF IInv, Shape, LastInv
  <2>. QED BY <2>1, <2>2 DEF HasRecord
<1>10. CASE ReadFails \/ AddFails \/ DeleteFails \/ UndoFails
  <2>1. /\ Orderly' => Orderly
        /\ UNCHANGED <<db, stored, cleaning>>
        /\ step' \in {"start", "rewrite"}
    BY <1>10 DEF ReadFails, AddFails, DeleteFails, UndoFails, Release, Goto
  <2>. QED BY <2>1, RecordedGrows
<1>11. CASE UndoImport \/ Clean
  <2>1. stored' = {} /\ step' = step /\ (Orderly' => step \in {"start", "clean"})
    BY <1>11 DEF UndoImport, Undoing, Working, Clean, Breaks
  <2>. QED BY <2>1 DEF HasRecord
<1>12. ASSUME NEW c \in Cleaners, OpenKeys(c) \/ CleanEnds(c) \/ \E key \in doomed[c] : Sweep(c, key)
       PROVE  HasRecord'
  <2>1. cleaning[c] # "idle" /\ UNCHANGED <<stored, broken>> /\ step' \in {step, "start"}
    BY <1>12 DEF OpenKeys, CleanEnds, Sweep, Release
  <2>2. Orderly => stored = {} /\ step \in {"start", "clean"}
    BY <2>1 DEF IInv, LastInv, Shape, HasRecord, Cleaners
  <2>. QED BY <2>1, <2>2 DEF HasRecord
<1>13. ASSUME NEW c \in Cleaners, NEW begun, StreamFails(c, begun) PROVE HasRecord'
  <2>1. cleaning[c] # "idle" /\ UNCHANGED <<stored, broken>> /\ step' \in {step, "start"}
    BY <1>13 DEF StreamFails, Release
  <2>2. Orderly => stored = {} /\ step \in {"start", "clean"}
    BY <2>1 DEF IInv, LastInv, Shape, HasRecord, Cleaners
  <2>. QED BY <2>1, <2>2 DEF HasRecord
<1>14. CASE Check \/ Checking \/ UNCHANGED vars
  <2>1. UNCHANGED <<db, last, queue, step, at, recent, cleaning, stored, broken>>
    BY <1>14 DEF Check, Checking, Compare, From, Search, Verify, Valid, Missing, Read, vars
  <2>2. Selected' = Selected /\ Job' = Job
    BY <2>1 DEF Selected, Job
  <2>. QED BY <2>1, <2>2 DEF HasRecord
<1>15. CASE Crash
  <2>1. /\ Orderly' => Orderly
        /\ UNCHANGED <<db, stored>>
        /\ step' = "start" /\ ~Overlaps' /\ cleaning'["import"] = "idle"
    BY <1>15 DEF Crash, Breaks, Cleaners
  <2>. QED BY <2>1 DEF HasRecord
<1>16. Hold => HasRecord'
  BY <1>2, <1>3, <1>4, <1>5, <1>6, <1>7, <1>8, <1>9, <1>11 DEF Hold
<1>. QED BY <1>1, <1>2, <1>10, <1>11, <1>12, <1>14, <1>15, <1>16, <1>13 DEF Next, Keys, KeysFail

\* The events of a chain and of what it gives to the next.
LEMMA AppendElements ==
  ASSUME NEW s \in Ids, NEW e \in Events
  PROVE  Elements(s) \cup {e} \subseteq Elements(Append(s, e))
<1>1. /\ Len(Append(s, e)) = Len(s) + 1 /\ Len(s) \in Nat
      /\ \A i \in 1 .. Len(s) : Append(s, e)[i] = s[i]
      /\ Append(s, e)[Len(s) + 1] = e
  BY AppendProperties2, Lengths
<1>2. \A i \in 1 .. Len(s) : i \in 1 .. Len(Append(s, e))
  BY <1>1
<1>3. Len(s) + 1 \in 1 .. Len(Append(s, e))
  BY <1>1
<1>. QED BY <1>1, <1>2, <1>3 DEF Elements

LEMMA PreviousElements ==
  ASSUME NEW s \in Ids, s # Null
  PROVE  Elements(s) \subseteq Elements(Previous(s)) \cup {Event(s)}
<1>1. Previous(s) \in Ids /\ Chain(s) = Chain(Previous(s)) \cup {s}
  BY PreviousProperties, ChainPrevious
<1>. QED BY <1>1, ElementsChain

\* Only a rewrite has recent records; an import has no lastId until it sets it.
Plain ==
    /\ step # "start" /\ Job.op # "delete" => recent = <<>>
    /\ step \in {"import", "first"} => last = None

LEMMA PlainInit == Init => Plain
  BY DEF Init, Plain

LEMMA PlainStep ==
  ASSUME IInv, Plain, [Next]_vars
  PROVE  Plain'
<1>. USE DEF clean, history, store, holder
<1>1. CASE \/ \E e \in Events : Add(e)
           \/ \E newest \in Listed : \E oldest \in Chain(newest) \cap Listed : DeleteRange(newest, oldest)
           \/ ImportRecords
  <2>1. UNCHANGED <<last, step, recent>> /\ (queue # <<>> => Job' = Job)
    BY <1>1, Calls
  <2>2. step # "start" => Job' = Job
    BY <2>1 DEF IInv, Shape
  <2>. QED BY <2>1, <2>2 DEF Plain
<1>2. CASE StartAdd \/ Put \/ Link \/ StartImport \/ ImportRecord \/ ImportLastId \/ ImportEnds
  <2>1. step = "start" => recent = <<>>
    BY DEF IInv, Shape
  <2>. QED BY <1>2, <2>1 DEF StartAdd, Put, Link, StartImport, ImportRecord, ImportLastId, ImportEnds,
                             Working, Goto, Release, Plain, Job
<1>3. CASE StartDelete \/ Collect \/ Delete \/ Cut \/ Rewrite \/ Drop
  <2>1. step \in {"collect", "delete", "cut", "rewrite", "drop"} => Job.op = "delete"
    BY DEF IInv, Shape
  <2>2. StartDelete => Job.op = "delete"
    BY DEF StartDelete, Job
  <2>3. \/ step' = "start"
        \/ Job' = Job /\ Job.op = "delete" /\ step' \notin {"import", "first"}
    BY <1>3, <2>1, <2>2 DEF StartDelete, Collect, Delete, Cut, Rewrite, Drop, Working, Goto, Release, Job
  <2>. QED BY <2>3 DEF Plain
<1>4. CASE ReadFails \/ AddFails \/ DeleteFails \/ ImportFails \/ UndoFails
  <2>1. step \in {"put", "link", "drop"} => Job.op \in {"add", "delete"}
    BY DEF IInv, Shape
  <2>2. \/ step' = "start"
        \/ /\ Job' = Job /\ step # "start" /\ (Job.op = "delete" \/ recent' = recent)
           /\ step' \notin {"import", "first"}
    BY <1>4, <2>1 DEF ReadFails, AddFails, DeleteFails, ImportFails, UndoFails, Working, Goto, Release, Job
  <2>. QED BY <2>2 DEF Plain
<1>5. CASE UndoImport \/ Clean
  BY <1>5 DEF UndoImport, Clean, Plain, Job
<1>6. ASSUME NEW c \in Cleaners,
             \/ OpenKeys(c) \/ CleanEnds(c) \/ \E key \in doomed[c] : Sweep(c, key)
             \/ \E begun \in SUBSET doomed[c] : StreamFails(c, begun)
      PROVE  Plain'
  BY <1>6 DEF OpenKeys, CleanEnds, Sweep, StreamFails, Release, Plain, Job
<1>7. CASE Check \/ Checking \/ UNCHANGED vars
  <2>1. UNCHANGED <<last, queue, step, recent>>
    BY <1>7 DEF Check, Checking, Compare, From, Search, Verify, Valid, Missing, Read, vars
  <2>. QED BY <2>1 DEF Plain, Job
<1>8. CASE Crash
  BY <1>8 DEF Crash, Plain
<1>. QED BY <1>1, <1>2, <1>3, <1>4, <1>5, <1>6, <1>7, <1>8 DEF Next, Hold, Keys, KeysFail

\* Without failure, these events are in the chain, or among the records that
\* the holder of the lock is to add to it.
InChain ==
    failures = 0 /\ Orderly =>
        /\ broken = {}
        /\ \A e \in stored :
              \/ e \in Elements(Kept)
              \/ \E i \in 1 .. Len(recent) : e = Event(recent[i])
              \/ step = "collect" /\ e \in Elements(at)
              \/ step \in {"first", "next", "clean"} /\ e \in Elements(File)
              \/ step = "link" /\ Job.op = "add" /\ e = Adding

LEMMA InChainInit == Init => InChain
  BY DEF Init, InChain

\* The events of a step that leaves the chain, the recent records and those to
\* come as they are.
LEMMA InChainSame ==
  ASSUME InChain, failures' = 0 => failures = 0, Orderly' => Orderly, broken = {} => (broken' = {} \/ ~Orderly'),
         Kept' = Kept, recent' = recent, stored' \subseteq stored,
         step \notin {"collect", "first", "next", "clean", "link"}
  PROVE  InChain'
  BY DEF InChain

LEMMA InChainStep ==
  ASSUME IInv, Others, Plain, HasRecord, InChain, [Next]_vars
  PROVE  InChain'
<1>. USE DEF clean, history, store, holder
<1>. SUFFICES ASSUME failures' = 0, Orderly' PROVE InChain'
  BY DEF InChain
<1>0. LastOrNull \in Ids
  BY NullType DEF LastOrNull, IInv, Types
<1>1. CASE \/ \E e \in Events : Add(e)
           \/ \E newest \in Listed : \E oldest \in Chain(newest) \cap Listed : DeleteRange(newest, oldest)
           \/ ImportRecords
  <2>1. /\ UNCHANGED <<db, last, step, at, recent, stored, broken, failures>>
        /\ queue # <<>> => Job' = Job
    BY <1>1, Calls
  <2>2. step # "start" => Job' = Job
    BY <2>1 DEF IInv, Shape
  <2>3. Kept' = Kept
    BY <2>1, <2>2 DEF Kept, LastOrNull
  <2>4. step = "link" => Adding' = Adding
    BY <2>1, <2>2 DEF Adding, Job
  <2>. QED BY <2>1, <2>2, <2>3, <2>4 DEF InChain
<1>2. CASE ReadFails \/ AddFails \/ DeleteFails \/ UndoFails \/ KeysFail \/ Crash
  BY <1>2 DEF ReadFails, AddFails, DeleteFails, UndoFails, KeysFail, StreamFails, Crash, Fault, Others
<1>3. CASE UndoImport \/ Clean
  BY <1>3 DEF UndoImport, Clean, InChain, Breaks
<1>4. ASSUME NEW c \in Cleaners, OpenKeys(c) \/ CleanEnds(c) \/ \E key \in doomed[c] : Sweep(c, key)
      PROVE  InChain'
  <2>1. /\ cleaning[c] # "idle" /\ UNCHANGED <<stored, broken>>
        /\ failures = 0
    BY <1>4 DEF OpenKeys, CleanEnds, Sweep, Fault, Others
  <2>2. Orderly => stored = {}
    BY <2>1 DEF IInv, Shape, HasRecord, Cleaners
  <2>. QED BY <2>1, <2>2 DEF InChain
<1>5. CASE Check \/ Checking \/ UNCHANGED vars
  <2>1. UNCHANGED <<db, last, queue, step, at, recent, stored, broken, failures>>
    BY <1>5 DEF Check, Checking, Compare, From, Search, Verify, Valid, Missing, Read, Another, vars
  <2>2. Kept' = Kept /\ Adding' = Adding /\ Job' = Job
    BY <2>1 DEF Kept, LastOrNull, Adding, Job
  <2>. QED BY <2>1, <2>2 DEF InChain
<1>6. ASSUME StartAdd PROVE InChain'
  <2>1. /\ step = "start" /\ step' = "put"
        /\ UNCHANGED <<last, queue, at, recent, stored, failures>>
        /\ broken' = broken
    BY <1>6 DEF StartAdd, Working, Goto, Breaks
  <2>2. Kept' = Kept
    BY <2>1 DEF Kept, LastOrNull
  <2>. QED BY <2>1, <2>2, InChainSame
<1>7. ASSUME Put PROVE InChain'
  <2>1. /\ step = "put" /\ step' = "link" /\ stored' \subseteq stored \cup {Adding}
        /\ UNCHANGED <<last, queue, at, recent, failures, broken>>
    BY <1>7 DEF Put, Working, Goto
  <2>2. Kept' = Kept /\ Adding' = Adding /\ Job' = Job
    BY <2>1 DEF Kept, LastOrNull, Adding, Job
  <2>3. Job.op = "add" \/ \E i \in 1 .. Len(recent) : Adding = Event(recent[i])
    <3>1. Job.op = "delete" => Adding = Event(recent[1]) /\ 1 \in 1 .. Len(recent)
      BY <2>1, AddingType DEF IInv
    <3>. QED BY <2>1, <3>1 DEF IInv, Shape
  <2>. QED BY <2>1, <2>2, <2>3 DEF InChain
<1>8. ASSUME Link PROVE InChain'
  <2>1. /\ step = "link" /\ last' = Append(previous, Adding) /\ UNCHANGED <<stored, failures, broken>>
        /\ step' \in {"start", "drop"} /\ (step' = "drop" => recent' = recent)
        /\ (step' = "start" => Job.op = "add")
    BY <1>8 DEF Link, Working, Goto, Release, Job
  <2>2. previous \in Ids /\ Adding \in Events
    BY <2>1, AddingType DEF IInv, Types
  <2>3. previous = LastOrNull
    BY <2>1 DEF IInv, AddInv
  <2>4. Kept = previous
    BY <2>1, <2>3 DEF Kept
  <2>5. last' # None
    BY <2>1, <2>2, AppendProperties2
  <2>6. Kept' = last'
    BY <2>1, <2>5 DEF Kept, LastOrNull
  <2>7. Elements(Kept) \cup {Adding} \subseteq Elements(Kept')
    BY <2>1, <2>2, <2>4, <2>6, AppendElements
  <2>8. Job.op = "add" => recent = <<>> \/ step' = "start"
    BY <1>8 DEF Link, Release, Job
  <2>9. CASE Job.op = "add"
    <3>1. Len(recent) = 0
      BY <2>1, <2>9 DEF Plain
    <3>. QED BY <2>1, <2>7, <2>9, <3>1 DEF InChain
  <2>10. CASE Job.op # "add"
    BY <2>1, <2>7, <2>10 DEF InChain
  <2>. QED BY <2>9, <2>10
<1>9. ASSUME StartDelete PROVE InChain'
  <2>1. step = "start" /\ recent = <<>>
    BY <1>9 DEF StartDelete, Working, IInv, Shape
  <2>2. Kept = LastOrNull
    BY <2>1 DEF Kept
  <2>3. \A e \in stored : broken = {} => e \in Elements(LastOrNull)
    BY <1>9, <2>1, <2>2, EmptySeq DEF InChain, StartDelete
  <2>4. CASE {Job.newest, Job.oldest} \subseteq db
    <3>1. /\ at' = LastOrNull /\ step' = "collect" /\ stored' \subseteq stored /\ UNCHANGED failures
          /\ broken' = broken \cup Breaks(Overlaps, "clean")
                \cup Breaks(Job.newest \notin Chain(LastOrNull), "range")
      BY <1>9, <2>4 DEF StartDelete, Goto, Job
    <3>2. broken' = broken
      BY <3>1 DEF Breaks
    <3>. QED BY <2>1, <2>2, <2>3, <3>1, <3>2 DEF InChain
  <2>5. CASE ~({Job.newest, Job.oldest} \subseteq db)
    <3>1. /\ step' = "start" /\ recent' = recent /\ UNCHANGED <<last, stored, failures, broken>>
      BY <1>9, <2>1, <2>5 DEF StartDelete, Release, Job
    <3>2. Kept' = Kept
      BY <2>1, <3>1 DEF Kept, LastOrNull
    <3>. QED BY <2>1, <3>1, <3>2, InChainSame
  <2>. QED BY <2>4, <2>5
<1>10. ASSUME Collect PROVE InChain'
  <2>1. /\ step = "collect" /\ UNCHANGED <<db, last, queue, stored, failures, broken>>
        /\ \/ step' = "delete" /\ UNCHANGED recent /\ (at = Job.newest \/ at \notin db)
           \/ at' = Previous(at) /\ recent' = Append(recent, at) /\ step' = "collect" /\ at \in db
    BY <1>10 DEF Collect, Working, Goto, Job
  <2>2. /\ Job.op = "delete" /\ Job.newest \in Ids /\ Job.oldest \in Ids /\ Job.oldest # Null
        /\ Prefix(Job.oldest, Job.newest) /\ at \in Ids /\ recent \in Seq(Ids \ {Null})
    BY <2>1, JobProperties DEF IInv, Shape, Types
  <2>3. Job' = Job /\ Kept' = Kept /\ Kept = Previous(Job.oldest)
    BY <2>1 DEF Job, Kept
  <2>4. broken = {}
    BY <2>1 DEF InChain
  <2>5. Prefix(Job.newest, at) /\ Prefix(at, LastOrNull)
    BY <2>1 DEF IInv, RangeInv
  <2>6. CASE step' = "delete"
    <3>1. at = Job.newest
      <4>1. Chain(LastOrNull) \subseteq db
        BY <2>1, <2>4, ChainNull DEF IInv, ChainIntact, LastOrNull, Rewriting, Importing
      <4>2. at # Null
        BY <2>2, <2>5, Lengths DEF Prefix
      <4>3. at \in Chain(LastOrNull)
        BY <1>0, <2>2, <2>5, <4>2, ChainMember
      <4>. QED BY <2>1, <2>6, <4>1, <4>3
    <3>2. ASSUME NEW e \in stored, e \in Elements(at) PROVE e \in Elements(Kept)
      <4>1. PICK x \in Chain(Job.newest) : Event(x) = e
        BY <2>2, <3>1, <3>2, ElementsChain
      <4>2. x \notin Selected
        BY <2>1, <3>2, <4>1 DEF HasRecord
      <4>3. x \in Chain(Previous(Job.oldest))
        BY <4>1, <4>2 DEF Selected, Job
      <4>4. Previous(Job.oldest) \in Ids
        BY <2>2, PreviousProperties
      <4>. QED BY <2>3, <4>1, <4>3, <4>4, ElementsChain
    <3>. QED BY <2>1, <2>3, <2>6, <3>2 DEF InChain
  <2>7. CASE step' = "collect"
    <3>1. at' = Previous(at) /\ recent' = Append(recent, at) /\ at \in db
      BY <2>1, <2>7
    <3>2. at # Null /\ at \in Ids \ {Null}
      BY <2>2, <3>1 DEF IInv, Types
    <3>3. /\ \A i \in 1 .. Len(recent) : recent'[i] = recent[i] /\ i \in 1 .. Len(recent')
          /\ recent'[Len(recent) + 1] = at /\ Len(recent) + 1 \in 1 .. Len(recent')
      <4>1. Len(recent) \in Nat /\ Len(recent') = Len(recent) + 1
        BY <2>2, <3>1, <3>2, AppendProperties, LenProperties
      <4>. QED BY <2>2, <3>1, <3>2, <4>1, AppendProperties
    <3>4. Elements(at) \subseteq Elements(at') \cup {Event(at)}
      BY <2>2, <3>1, <3>2, PreviousElements
    <3>. QED BY <2>1, <2>3, <2>7, <3>3, <3>4 DEF InChain
  <2>. QED BY <2>1, <2>6, <2>7
<1>11. ASSUME Delete PROVE InChain'
  <2>1. /\ step = "delete" /\ step' \in {"delete", "cut"}
        /\ UNCHANGED <<last, queue, recent, stored, failures, broken>>
    BY <1>11 DEF Delete, Working, Goto
  <2>2. Kept' = Kept
    BY <2>1 DEF Kept, Job
  <2>. QED BY <2>1, <2>2, InChainSame
<1>12. ASSUME Cut PROVE InChain'
  <2>1. /\ step = "cut" /\ step' = "rewrite" /\ last' = Previous(Job.oldest)
        /\ UNCHANGED <<queue, recent, stored, failures, broken>>
    BY <1>12 DEF Cut, Working, Goto, Job
  <2>2. last' # None
    <3>1. Job.oldest \in Ids
      BY <2>1, JobProperties DEF IInv, Shape
    <3>. QED BY <2>1, <3>1, PreviousProperties DEF Ids
  <2>3. Kept' = Kept
    BY <2>1, <2>2 DEF Kept, LastOrNull
  <2>. QED BY <2>1, <2>3, InChainSame
<1>13. ASSUME Rewrite PROVE InChain'
  <2>1. /\ step = "rewrite" /\ step' \in {"start", "put"} /\ recent' = recent
        /\ UNCHANGED <<last, stored, failures, broken>>
    BY <1>13 DEF Rewrite, Working, Goto, Release
  <2>2. Kept' = Kept
    BY <2>1 DEF Kept, LastOrNull
  <2>. QED BY <2>1, <2>2, InChainSame
<1>14. ASSUME Drop PROVE InChain'
  <2>1. /\ step = "drop" /\ step' = "rewrite" /\ recent' = Tail(recent)
        /\ UNCHANGED <<last, stored, failures, broken>>
    BY <1>14 DEF Drop, Working, Goto
  <2>2. Kept' = LastOrNull /\ Kept = LastOrNull
    BY <2>1 DEF Kept, LastOrNull
  <2>3. Event(recent[1]) \in Elements(LastOrNull)
    <3>1. last \in db /\ Event(last) = Event(recent[1])
      BY <2>1 DEF HasRecord
    <3>2. last \in Ids /\ last # Null /\ last # None
      BY <3>1 DEF IInv, Types, Ids
    <3>. QED BY <3>1, <3>2, EventType DEF LastOrNull
  <2>4. \A i \in 1 .. Len(recent) : i = 1 \/ \E j \in 1 .. Len(recent') : recent'[j] = recent[i]
    <3>1. recent # <<>> /\ recent \in Seq(Ids \ {Null})
      BY <2>1, JobProperties DEF IInv, Shape, Types
    <3>2. /\ Len(recent) \in Nat /\ Len(recent') = Len(recent) - 1
          /\ \A j \in 1 .. Len(recent') : recent'[j] = recent[j + 1]
      BY <2>1, <3>1, HeadTailProperties, LenProperties
    <3>3. ASSUME NEW i \in 1 .. Len(recent), i # 1 PROVE i - 1 \in 1 .. Len(recent') /\ i - 1 + 1 = i
      BY <3>2, <3>3
    <3>. QED BY <3>2, <3>3
  <2>. QED BY <2>1, <2>2, <2>3, <2>4 DEF InChain
<1>15. ASSUME StartImport PROVE InChain'
  <2>1. /\ step = "start" /\ step' \in {"start", "import"} /\ recent' = recent
        /\ UNCHANGED <<last, stored, failures>> /\ broken' = broken
    BY <1>15 DEF StartImport, Working, Goto, Release, Breaks, IInv, Shape
  <2>2. Kept' = Kept
    BY <2>1 DEF Kept, LastOrNull
  <2>. QED BY <2>1, <2>2, InChainSame
<1>16. ASSUME ImportRecord \/ ImportLastId \/ ImportEnds PROVE InChain'
  <2>1. /\ step \in {"import", "first", "next"}
        /\ step' \in {"first", "next", "start"}
        /\ step = "import" => step' = "first"
        /\ \/ stored' \subseteq stored
           \/ step \in {"import", "next"} /\ at # Null /\ stored' \subseteq stored \cup {Event(at)}
        /\ UNCHANGED <<failures, broken>>
        /\ step' # "start" => UNCHANGED recent
        /\ step' = "start" => step = "next" /\ stored' = stored /\ UNCHANGED last
        /\ step \in {"import", "next"} => UNCHANGED last
    BY <1>16 DEF ImportRecord, ImportLastId, ImportEnds, Working, Goto, Release
  <2>2. at # Null /\ step \in {"import", "next"} => Event(at) \in Elements(File)
    <3>1. at \in Ids /\ File \in Ids
      BY DEF IInv, Types, Ids
    <3>2. step \in {"import", "next"} => Prefix(at, File)
      BY <2>1, <3>1, Lengths DEF IInv, ImportInv, Prefix
    <3>. QED BY <3>1, <3>2, EventType, ElementsPrefix
  <2>3. Len(recent) = 0
    BY <2>1 DEF Plain, IInv, Shape
  <2>4. Kept = LastOrNull /\ Kept' = LastOrNull'
    BY <2>1 DEF Kept
  <2>5. step \in {"import", "next"} => LastOrNull' = LastOrNull
    BY <2>1 DEF LastOrNull
  <2>6. step = "next" => LastOrNull = File
    BY <2>1, FileProperties DEF IInv, ImportInv, LastOrNull
  <2>7. step = "first" => LastOrNull = Null
    BY DEF Plain, LastOrNull
  <2>. QED BY <2>1, <2>2, <2>3, <2>4, <2>5, <2>6, <2>7, NullProperties DEF InChain
<1>17. ASSUME ImportFails PROVE InChain'
  <2>1. /\ step \in {"import", "first", "next"} /\ step' = "clean"
        /\ UNCHANGED <<last, recent, stored, failures, broken>>
    BY <1>17 DEF ImportFails, Working, Goto
  <2>2. Kept' = Kept
    BY <2>1 DEF Kept, LastOrNull
  <2>. QED BY <2>1, <2>2 DEF InChain
<1>18. Hold => InChain'
  BY <1>3, <1>6, <1>7, <1>8, <1>9, <1>10, <1>11, <1>12, <1>13, <1>14, <1>15, <1>16 DEF Hold
<1>. QED BY <1>1, <1>2, <1>3, <1>4, <1>5, <1>17, <1>18 DEF Next, Keys

LEMMA KeptAlways == Spec => [](HasRecord /\ InChain)
<1>1. IInv /\ Others /\ Plain /\ HasRecord /\ InChain /\ [Next]_vars
         => Plain' /\ HasRecord' /\ InChain'
  BY PlainStep, RecordedStep, InChainStep
<1>. QED BY <1>1, PlainInit, RecordedInit, InChainInit, Inductive, OthersAlways, PTL DEF Spec

\* Whatever failed or crashed, an event that nobody asked to delete has a record
\* in the store, its own or the one that a rewrite made of it; and this record is
\* in the chain if nothing failed.
THEOREM RecordsStay == Spec => []RecordsKept
<1>1. IInv /\ HasRecord /\ InChain => RecordsKept
  <2>. SUFFICES ASSUME IInv, HasRecord, InChain, Orderly, NEW e \in stored
                PROVE  /\ \E id \in db : Event(id) = e
                       /\ failures = 0 /\ step = "start" => \E id \in Chain(last) : Event(id) = e
    BY DEF RecordsKept
  <2>1. \E id \in db : Event(id) = e
    BY DEF HasRecord
  <2>2. ASSUME failures = 0, step = "start" PROVE \E id \in Chain(last) : Event(id) = e
    <3>1. Len(recent) = 0 /\ Kept = LastOrNull
      BY <2>2 DEF IInv, Shape, Kept
    <3>2. e \in Elements(LastOrNull)
      BY <2>2, <3>1 DEF InChain
    <3>3. last # None
      BY <3>2, NullProperties DEF LastOrNull
    <3>4. LastOrNull = last /\ last \in Ids
      BY <3>3 DEF LastOrNull, IInv, Types
    <3>. QED BY <3>2, <3>4, ElementsChain
  <2>. QED BY <2>1, <2>2
<1>. QED BY <1>1, Inductive, KeptAlways, PTL

-----------------------------------------------------------------------------
(* The alarms of checkIntegrity(). *)

\* As long as nothing is to be deleted beside it, the check goes down a chain that
\* only grows, whose records are all there.
Calm ==
    check.pc # "idle" /\ check.calm =>
        /\ broken = {} /\ last # None
        /\ step \in {"start", "put", "link"} /\ ~Deleting
        /\ \A c \in Cleaners : cleaning[c] = "idle"
        /\ Prefix(check.newest, LastOrNull)
        /\ check.pc \in {"search", "verify"} => Prefix(check.at, LastOrNull)
        /\ check.pc = "search" => Prefix(check.newest, check.at)

LEMMA CalmInit == Init => Calm
  BY DEF Init, NoCheck, Calm

\* While it is calm, the other steps only let the chain grow.
LEMMA CalmGrows ==
  ASSUME Calm, IInv, Others, UNCHANGED <<check, broken, cleaning>>, LastOrNull' \in Ids, Prefix(LastOrNull, LastOrNull'),
         last # None => last' # None, step' \in {"start", "put", "link"}, ~Deleting'
  PROVE  Calm'
<1>1. LastOrNull \in Ids /\ check.newest \in Ids /\ check.at \in Ids
  BY NullType DEF IInv, Types, Others, LastOrNull
<1>2. \A s \in Ids : Prefix(s, LastOrNull) => Prefix(s, LastOrNull')
  BY <1>1, PrefixTransitive
<1>. QED BY <1>1, <1>2 DEF Calm

LEMMA CalmStep ==
  ASSUME IInv, Others, Plain, Calm, [Next]_vars
  PROVE  Calm'
<1>. USE DEF clean, history, store, holder
<1>0. LastOrNull \in Ids /\ check.newest \in Ids /\ check.at \in Ids
  BY NullType DEF IInv, Types, Others, LastOrNull
<1>1. LastOrNull' = LastOrNull => LastOrNull' \in Ids /\ Prefix(LastOrNull, LastOrNull')
  BY <1>0, Lengths DEF Prefix
<1>2. CASE \/ \E e \in Events : Add(e)
           \/ \E newest \in Listed : \E oldest \in Chain(newest) \cap Listed : DeleteRange(newest, oldest)
           \/ ImportRecords
  <2>1. UNCHANGED <<last, step, cleaning, check, broken>> /\ (queue # <<>> => Job' = Job)
    BY <1>2, Calls
  <2>2. Deleting' = Deleting /\ LastOrNull' = LastOrNull
    BY <2>1 DEF IInv, Shape, Deleting, LastOrNull, Job
  <2>. QED BY <1>1, <2>1, <2>2, CalmGrows DEF Calm
<1>3. CASE StartAdd \/ Put
  <2>1. UNCHANGED <<last, queue, cleaning, check>> /\ step' \in {"put", "link"}
    BY <1>3 DEF StartAdd, Put, Goto
  <2>2. LastOrNull' = LastOrNull
    BY <2>1 DEF LastOrNull
  <2>3. check.pc # "idle" /\ check.calm => broken' = broken /\ ~Deleting'
    BY <1>3, <2>1 DEF StartAdd, Put, Working, Calm, Breaks, Overlaps, Cleaners, Deleting
  <2>. QED BY <1>1, <2>1, <2>2, <2>3 DEF Calm
<1>4. CASE Link
  <2>1. /\ step = "link" /\ last' = Append(previous, Adding) /\ UNCHANGED <<cleaning, check, broken>>
        /\ step' = "start" \/ Job.op # "add"
    BY <1>4 DEF Link, Working, Release, Job
  <2>2. previous \in Ids /\ Adding \in Events
    BY <2>1, AddingType DEF IInv, Types
  <2>3. /\ last' # None /\ last' \in Ids /\ Len(last') = Len(previous) + 1
        /\ \A i \in 1 .. Len(previous) : last'[i] = previous[i]
    BY <2>1, <2>2, AppendProperties2
  <2>4. Len(previous) \in Nat /\ LastOrNull' = last'
    BY <2>2, <2>3, Lengths DEF LastOrNull
  <2>5. Prefix(previous, LastOrNull')
    BY <2>3, <2>4 DEF Prefix
  <2>6. ASSUME check.pc # "idle", check.calm PROVE previous = LastOrNull /\ Job.op # "delete"
    BY <2>1, <2>6 DEF Calm, IInv, AddInv, Deleting, Job
  <2>7. ASSUME check.pc # "idle", check.calm PROVE step' = "start"
    BY <2>1, <2>6, <2>7 DEF IInv, Shape
  <2>8. ASSUME check.pc # "idle", check.calm PROVE Prefix(LastOrNull, LastOrNull')
    BY <2>5, <2>6, <2>8
  <2>9. step' = "start" => ~Deleting'
    BY DEF Deleting
  <2>10. ASSUME check.pc # "idle", check.calm PROVE Calm'
    BY <2>1, <2>3, <2>4, <2>7, <2>8, <2>9, <2>10, CalmGrows
  <2>. QED BY <2>1, <2>10 DEF Calm
<1>5. CASE StartDelete
  <2>1. check'.calm = FALSE \/ (step' = "start" /\ UNCHANGED <<check, broken>>)
    BY <1>5 DEF StartDelete, Alarming, Release, Others
  <2>2. UNCHANGED <<last, cleaning>>
    BY <1>5 DEF StartDelete
  <2>3. LastOrNull' = LastOrNull /\ (step' = "start" => ~Deleting')
    BY <2>2 DEF LastOrNull, Deleting
  <2>. QED BY <1>1, <2>1, <2>2, <2>3 DEF Calm
<1>6. CASE Collect \/ Delete \/ Cut \/ Rewrite \/ Drop \/ DeleteFails
           \/ ImportRecord \/ ImportLastId \/ ImportEnds \/ ImportFails \/ UndoImport \/ UndoFails
  <2>1. step \notin {"start", "put", "link"} /\ check' = check
    BY <1>6 DEF Collect, Delete, Cut, Rewrite, Drop, DeleteFails, ImportRecord, ImportLastId,
                ImportEnds, ImportFails, Undoing, UndoImport, UndoFails, Working
  <2>. QED BY <2>1 DEF Calm
<1>7. CASE StartImport
  <2>1. UNCHANGED <<last, cleaning, check>> /\ (step' = "start" \/ last = None)
    BY <1>7 DEF StartImport, Release
  <2>2. LastOrNull' = LastOrNull /\ (step' = "start" => ~Deleting')
    BY <2>1 DEF LastOrNull, Deleting
  <2>3. check.pc # "idle" /\ check.calm => broken' = broken /\ step' = "start"
    BY <1>7, <2>1 DEF StartImport, Breaks, Overlaps, Calm, Cleaners
  <2>. QED BY <1>1, <2>1, <2>2, <2>3 DEF Calm
<1>8. CASE ReadFails \/ AddFails
  <2>1. /\ UNCHANGED <<last, cleaning, check, broken>>
        /\ step' = "start" \/ (step \in {"put", "link", "drop"} /\ Job.op # "add")
    BY <1>8 DEF ReadFails, AddFails, Working, Release, Job
  <2>2. LastOrNull' = LastOrNull /\ (step' = "start" => ~Deleting')
    BY <2>1 DEF LastOrNull, Deleting
  <2>3. check.pc # "idle" /\ check.calm => step' = "start"
    BY <2>1 DEF Calm, IInv, Shape, Deleting, Job
  <2>. QED BY <1>1, <2>1, <2>2, <2>3 DEF Calm
<1>9. CASE Clean
  <2>1. check'.calm = FALSE
    BY <1>9 DEF Clean, Alarming, Others
  <2>. QED BY <2>1 DEF Calm
<1>10. ASSUME NEW c \in Cleaners,
              \/ OpenKeys(c) \/ CleanEnds(c) \/ \E key \in doomed[c] : Sweep(c, key)
              \/ \E begun \in SUBSET doomed[c] : StreamFails(c, begun)
       PROVE  Calm'
  <2>1. cleaning[c] # "idle" /\ check' = check
    BY <1>10 DEF OpenKeys, CleanEnds, Sweep, StreamFails
  <2>. QED BY <2>1 DEF Calm
<1>11. CASE Check
  <2>1. /\ last # None /\ UNCHANGED <<last, queue, step, cleaning, broken>>
        /\ check' = [pc |-> "compare", newest |-> last, at |-> Null,
                     calm |-> broken = {} /\ step \in {"start", "put", "link"} /\ ~Deleting
                                /\ \A c \in Cleaners : cleaning[c] = "idle"]
    BY <1>11 DEF Check
  <2>2. Deleting' = Deleting /\ LastOrNull' = last /\ last = LastOrNull
    BY <2>1 DEF Deleting, LastOrNull
  <2>3. Prefix(last, LastOrNull')
    BY <1>1, <2>2
  <2>. QED BY <2>1, <2>2, <2>3 DEF Calm
<1>12. CASE Checking
  <2>1. UNCHANGED <<last, queue, step, cleaning, broken>>
    BY <1>12 DEF Checking, Compare, From, Search, Verify, Valid, Missing, Read
  <2>2. Deleting' = Deleting /\ LastOrNull' = LastOrNull
    BY <2>1 DEF Deleting, LastOrNull
  <2>3. Prefix(check.newest, check.newest) /\ Prefix(LastOrNull, LastOrNull)
    BY <1>0, Lengths DEF Prefix
  <2>4. Previous(check.at) \in Ids /\ Prefix(Previous(check.at), check.at)
    BY <1>0, PreviousProperties
  <2>5. Prefix(check.at, LastOrNull) => Prefix(Previous(check.at), LastOrNull)
    BY <1>0, <2>4, PrefixTransitive
  <2>6. CASE Compare
    BY <2>1, <2>2, <2>3, <2>6 DEF Compare, Read, Calm, Others, LastOrNull
  <2>7. CASE From
    BY <2>1, <2>2, <2>3, <2>7 DEF From, Read, Calm, Others, LastOrNull
  <2>8. CASE Search
    <3>1. Prefix(check.newest, check.at) /\ check.at # check.newest => Prefix(check.newest, Previous(check.at))
      BY <1>0, BeforePrefix
    <3>. QED BY <2>1, <2>2, <2>5, <2>8, <3>1 DEF Search, Read, Calm, Others
  <2>9. CASE Verify
    BY <2>1, <2>2, <2>5, <2>9 DEF Verify, Read, Calm, Others
  <2>10. CASE Valid \/ Missing
    BY <2>10 DEF Valid, Missing, NoCheck, Calm
  <2>. QED BY <1>12, <2>6, <2>8, <2>9, <2>10, <2>7 DEF Checking
<1>13. CASE Crash
  BY <1>13 DEF Crash, NoCheck, Calm
<1>14. CASE UNCHANGED vars
  <2>1. UNCHANGED <<last, queue, step, cleaning, broken, check>>
    BY <1>14 DEF vars
  <2>2. Deleting' = Deleting /\ LastOrNull' = LastOrNull
    BY <2>1 DEF Deleting, LastOrNull
  <2>. QED BY <2>1, <2>2 DEF Calm
<1>15. Hold => Calm'
  BY <1>3, <1>4, <1>5, <1>6, <1>7 DEF Hold
<1>. QED BY <1>2, <1>6, <1>8, <1>9, <1>10, <1>11, <1>12, <1>13, <1>14, <1>15 DEF Next, Keys, KeysFail

LEMMA CalmAlways == Spec => []Calm
<1>1. IInv /\ Others /\ Plain /\ Calm /\ [Next]_vars => Plain' /\ Calm'
  BY PlainStep, CalmStep
<1>. QED BY <1>1, PlainInit, CalmInit, Inductive, OthersAlways, PTL DEF Spec

\* checkIntegrity() takes no lock, yet it never reports a record that was not
\* deleted beside it: what it reads is in the chain as long as it is calm, and the
\* chain of a log that was not emptied has all its records.
THEOREM OnlyTrueAlarms == Spec => NoFalseAlarm
<1>1. IInv /\ Others /\ Calm /\ [Next]_vars => [Missing => ~check.calm \/ check.newest = Null]_vars
  <2>. SUFFICES ASSUME IInv, Others, Calm, Missing, check.calm, check.newest # Null PROVE FALSE
    OBVIOUS
  <2>1. check.pc \in {"search", "verify"} /\ (check.pc = "verify" => check.at # Null) /\ check.at \notin db
    BY DEF Missing
  <2>2. check.newest \in Ids /\ check.at \in Ids /\ LastOrNull \in Ids
    BY NullType DEF IInv, Types, Others, LastOrNull
  <2>3. last # None /\ broken = {} /\ ~Rewriting /\ ~Importing /\ Prefix(check.at, LastOrNull)
    BY <2>1 DEF Calm, Rewriting, Importing
  <2>4. check.at # Null
    <3>1. ASSUME check.pc = "search" PROVE check.at # Null
      <4>1. Prefix(check.newest, check.at)
        BY <3>1 DEF Calm
      <4>. QED BY <2>2, <4>1, Lengths DEF Prefix
    <3>. QED BY <2>1, <3>1
  <2>5. Chain(LastOrNull) \subseteq db
    BY <2>3 DEF IInv, ChainIntact, LastOrNull, Rewriting, Importing
  <2>. QED BY <2>1, <2>2, <2>3, <2>4, <2>5, ChainMember
<1>. QED BY <1>1, Inductive, OthersAlways, CalmAlways, PTL DEF Spec, NoFalseAlarm

=============================================================================
