--------------------------- MODULE FlashCfgProof ---------------------------
(***************************************************************************)
(* The configuration store, for any ids, values, sizes and sector: it      *)
(* never writes behind its sector, and it implements ConfigStore.          *)
(***************************************************************************)
EXTENDS FlashCfg, FiniteSetTheorems, FunctionTheorems, TLAPS

\* The constants, as the proofs need them.
LEMMA Constants ==
  /\ MaxObj \in Nat /\ Bank \in Nat
  /\ \A v \in Values : SizeOf[v] \in Nat /\ SizeOf[v] >= 1 /\ SizeOf[v] <= MaxObj
  /\ None \notin Values /\ Torn \notin Values /\ None # Torn
PROOF
  BY FlashCfgAssumption

----------------------------------------------------------------------------
(* A log and what is read from it.                                         *)

\* The objects of a log end within the sector, in the order of their places.
Placed(l) ==
  /\ l \in Seq(Entries)
  /\ \A k \in 1..Len(l) : l[k].end <= Bank /\ l[k].size <= MaxObj

\* The last object of an id exists: an invariant of the logs the code builds.
HasLast(l) == \A i \in Ids : Indexes(l, i) # {} => LastIndex(l, i) \in Indexes(l, i)

\* Of each id one object at most.
OneEach(l) == \A j, k \in 1..Len(l) : l[j].id = l[k].id => j = k

LEMMA LogFacts ==
  ASSUME NEW l \in Seq(Entries)
  PROVE  /\ Len(l) \in Nat
         /\ \A k \in 1..Len(l) : /\ l[k] \in Entries /\ l[k].id \in Ids
                                 /\ l[k].val \in Values \cup {Torn}
                                 /\ l[k].size \in Nat /\ l[k].end \in Nat
         /\ End(l) \in Nat
         /\ l # <<>> => Len(l) >= 1 /\ End(l) = l[Len(l)].end
PROOF
  <1>1. Len(l) \in Nat /\ \A k \in 1..Len(l) : l[k] \in Entries
    OBVIOUS
  <1>2. \A k \in 1..Len(l) : /\ l[k].id \in Ids /\ l[k].val \in Values \cup {Torn}
                             /\ l[k].size \in Nat /\ l[k].end \in Nat
    BY <1>1 DEF Entries
  <1>3. l # <<>> => Len(l) >= 1 /\ Len(l) \in 1..Len(l)
    BY <1>1
  <1> QED
    BY <1>1, <1>2, <1>3 DEF End

\* An entry appended is the last one, the others stay where they are.
LEMMA AppendFacts ==
  ASSUME NEW l \in Seq(Entries), NEW e \in Entries
  PROVE  /\ Append(l, e) \in Seq(Entries)
         /\ Len(Append(l, e)) = Len(l) + 1
         /\ \A k \in 1..Len(l) : Append(l, e)[k] = l[k]
         /\ Append(l, e)[Len(l) + 1] = e
         /\ Append(l, e) # <<>> /\ End(Append(l, e)) = e.end
PROOF
  <1>1. /\ Append(l, e) \in Seq(Entries) /\ Len(Append(l, e)) = Len(l) + 1
        /\ \A k \in 1..Len(l) : Append(l, e)[k] = l[k]
        /\ Append(l, e)[Len(l) + 1] = e
    OBVIOUS
  <1>2. Append(l, e) # <<>> /\ Len(l) \in Nat
    OBVIOUS
  <1> QED
    BY <1>1, <1>2 DEF End

\* What is read after an entry was appended.
LEMMA ReadAppend ==
  ASSUME NEW l \in Seq(Entries), NEW e \in Entries, HasLast(l)
  PROVE  /\ \A i \in Ids : Read(Append(l, e), i) = IF i = e.id THEN e.val ELSE Read(l, i)
         /\ \A i \in Ids : Indexes(Append(l, e), i) = IF i = e.id THEN Indexes(l, i) \cup {Len(l) + 1}
                                                     ELSE Indexes(l, i)
         /\ HasLast(Append(l, e))
PROOF
  <1> DEFINE g == Append(l, e)
  <1>1. /\ g \in Seq(Entries) /\ Len(g) = Len(l) + 1 /\ Len(l) \in Nat
        /\ \A k \in 1..Len(l) : g[k] = l[k]
        /\ g[Len(l) + 1] = e
    BY AppendFacts
  <1> HIDE DEF g
  <1>2. ASSUME NEW i \in Ids
        PROVE  Indexes(g, i) = IF i = e.id THEN Indexes(l, i) \cup {Len(l) + 1} ELSE Indexes(l, i)
    <2>1. \A k \in Indexes(g, i) : k = Len(l) + 1 \/ k \in 1..Len(l)
      BY <1>1 DEF Indexes
    <2>2. \A k \in 1..Len(l) : k \in Indexes(g, i) <=> k \in Indexes(l, i)
      BY <1>1 DEF Indexes
    <2>3. Len(l) + 1 \in Indexes(g, i) <=> i = e.id
      BY <1>1 DEF Indexes
    <2>4. Indexes(l, i) \subseteq 1..Len(l)
      BY DEF Indexes
    <2>5. \A k : k \in Indexes(g, i) <=> k \in Indexes(l, i) \/ (k = Len(l) + 1 /\ i = e.id)
      BY <1>1, <2>1, <2>2, <2>3, <2>4
    <2> QED
      BY <2>5
  <1>3. ASSUME NEW i \in Ids, i = e.id
        PROVE  LastIndex(g, i) = Len(l) + 1 /\ LastIndex(g, i) \in Indexes(g, i)
               /\ Read(g, i) = e.val
    <2>1. Len(l) + 1 \in Indexes(g, i) /\ \A j \in Indexes(g, i) : j \in Nat /\ j <= Len(l) + 1
      BY <1>1, <1>2, <1>3 DEF Indexes
    <2>2. \A k \in Indexes(g, i) : (\A j \in Indexes(g, i) : j <= k) => k = Len(l) + 1
      BY <2>1, <1>1
    <2>3. LastIndex(g, i) = Len(l) + 1
      BY <2>1, <2>2 DEF LastIndex
    <2> QED
      BY <2>1, <2>3, <1>1 DEF Read
  <1>4. ASSUME NEW i \in Ids, i # e.id
        PROVE  LastIndex(g, i) = LastIndex(l, i) /\ Read(g, i) = Read(l, i)
               /\ (Indexes(g, i) # {} => LastIndex(g, i) \in Indexes(g, i))
    <2>1. Indexes(g, i) = Indexes(l, i)
      BY <1>2, <1>4
    <2>2. LastIndex(g, i) = LastIndex(l, i)
      BY <2>1 DEF LastIndex
    <2>3. Indexes(l, i) # {} => LastIndex(l, i) \in Indexes(l, i) /\ LastIndex(l, i) \in 1..Len(l)
      BY DEF HasLast, Indexes
    <2> QED
      BY <2>1, <2>2, <2>3, <1>1 DEF Read
  <1>5. HasLast(g)
    BY <1>3, <1>4 DEF HasLast
  <1> QED
    BY <1>2, <1>3, <1>4, <1>5 DEF g

\* The empty log.
LEMMA EmptyLog ==
  /\ Placed(<<>>) /\ HasLast(<<>>) /\ OneEach(<<>>) /\ End(<<>>) = 0 /\ Len(<<>>) = 0
  /\ \A i : Indexes(<<>>, i) = {} /\ Read(<<>>, i) = None
PROOF
  <1>1. \A i : Indexes(<<>>, i) = {}
    BY DEF Indexes
  <1> QED
    BY <1>1 DEF Placed, HasLast, OneEach, End, Read

\* With one object of an id at most, it is the last one.
LEMMA ReadOne ==
  ASSUME NEW l \in Seq(Entries), OneEach(l), NEW k \in 1..Len(l)
  PROVE  LastIndex(l, l[k].id) = k /\ Read(l, l[k].id) = l[k].val
PROOF
  <1>1. Len(l) \in Nat
    OBVIOUS
  <1>2. Indexes(l, l[k].id) = {k}
    BY <1>1 DEF Indexes, OneEach
  <1>3. LastIndex(l, l[k].id) = k
    BY <1>1, <1>2 DEF LastIndex
  <1> QED
    BY <1>2, <1>3 DEF Read

\* A beginning of such a log reads the same, or nothing.
LEMMA ReadPrefix ==
  ASSUME NEW l \in Seq(Entries), OneEach(l), NEW n \in 0..Len(l)
  PROVE  /\ SubSeq(l, 1, n) \in Seq(Entries) /\ Len(SubSeq(l, 1, n)) = n
         /\ \A k \in 1..n : SubSeq(l, 1, n)[k] = l[k]
         /\ OneEach(SubSeq(l, 1, n)) /\ HasLast(SubSeq(l, 1, n))
         /\ \A i \in Ids : Read(SubSeq(l, 1, n), i) \in {Read(l, i), None}
         /\ n < Len(l) => Append(SubSeq(l, 1, n), l[n + 1]) = SubSeq(l, 1, n + 1)
         /\ n = Len(l) => SubSeq(l, 1, n) = l
PROOF
  <1> DEFINE g == SubSeq(l, 1, n)
  <1>1. /\ g \in Seq(Entries) /\ Len(g) = n /\ n \in Nat /\ Len(l) \in Nat /\ n <= Len(l)
        /\ \A k \in 1..n : g[k] = l[k]
    OBVIOUS
  <1>2. n < Len(l) => Append(g, l[n + 1]) = SubSeq(l, 1, n + 1)
    OBVIOUS
  <1>3. n = Len(l) => g = l
    OBVIOUS
  <1> HIDE DEF g
  <1>4. OneEach(g)
    BY <1>1 DEF OneEach
  <1>5. ASSUME NEW i \in Ids, Indexes(g, i) # {}
        PROVE  LastIndex(g, i) \in Indexes(g, i) /\ Read(g, i) = Read(l, i)
    <2>1. PICK k \in 1..n : g[k].id = i
      BY <1>1, <1>5 DEF Indexes
    <2>2. k \in 1..Len(g) /\ k \in 1..Len(l) /\ l[k].id = i
      BY <1>1, <2>1
    <2>3. LastIndex(g, i) = k /\ Read(g, i) = g[k].val
      BY <1>1, <1>4, <2>1, <2>2, ReadOne
    <2>4. Read(l, i) = l[k].val
      BY <2>2, ReadOne
    <2> QED
      BY <1>1, <2>1, <2>2, <2>3, <2>4 DEF Indexes
  <1>6. \A i \in Ids : Read(g, i) \in {Read(l, i), None}
    BY <1>5 DEF Read
  <1>7. HasLast(g)
    BY <1>5 DEF HasLast
  <1> QED
    BY <1>1, <1>2, <1>3, <1>4, <1>6, <1>7 DEF g

LEMMA OneEachHasLast ==
  ASSUME NEW l \in Seq(Entries), OneEach(l)
  PROVE  HasLast(l)
PROOF
  <1> SUFFICES ASSUME NEW i \in Ids, Indexes(l, i) # {}
               PROVE  LastIndex(l, i) \in Indexes(l, i)
    BY DEF HasLast
  <1>1. PICK k \in 1..Len(l) : l[k].id = i
    BY DEF Indexes
  <1>2. LastIndex(l, i) = k
    BY <1>1, ReadOne
  <1> QED
    BY <1>1, <1>2 DEF Indexes

\* An object put behind the others.
LEMMA PutFacts ==
  ASSUME NEW l \in Seq(Entries), NEW id \in Ids, NEW val \in Values \cup {Torn},
         NEW size \in Nat
  PROVE  \E e \in Entries : /\ Put(l, id, val, size) = Append(l, e)
                            /\ e.id = id /\ e.val = val /\ e.size = size
                            /\ e.end = End(l) + size
PROOF
  <1> DEFINE e == [id |-> id, val |-> val, size |-> size, end |-> End(l) + size]
  <1>1. End(l) + size \in Nat
    BY LogFacts
  <1>2. e \in Entries
    BY <1>1 DEF Entries
  <1> QED
    BY <1>2 DEF Put

\* Appending keeps a log placed, if the object ends within the sector.
LEMMA AppendPlaced ==
  ASSUME NEW l, Placed(l), NEW e \in Entries, e.end <= Bank, e.size <= MaxObj
  PROVE  Placed(Append(l, e))
PROOF
  <1>1. l \in Seq(Entries) /\ Len(l) \in Nat
    BY DEF Placed
  <1>2. /\ Append(l, e) \in Seq(Entries) /\ Len(Append(l, e)) = Len(l) + 1
        /\ \A k \in 1..Len(l) : Append(l, e)[k] = l[k]
        /\ Append(l, e)[Len(l) + 1] = e
    BY <1>1, AppendFacts
  <1>3. \A k \in 1..Len(l) + 1 : k \in 1..Len(l) \/ k = Len(l) + 1
    BY <1>1
  <1> QED
    BY <1>2, <1>3 DEF Placed

\* The object at the end of a log is the last one of its id.
LEMMA LastIsLast ==
  ASSUME NEW l \in Seq(Entries), l # <<>>
  PROVE  LastIndex(l, l[Len(l)].id) = Len(l) /\ Read(l, l[Len(l)].id) = l[Len(l)].val
PROOF
  <1> DEFINE n == Len(l)
             i == l[n].id
  <1>1. n \in Nat /\ n \in 1..n
    BY LogFacts
  <1>2. n \in Indexes(l, i) /\ \A j \in Indexes(l, i) : j \in Nat /\ j <= n
    BY <1>1 DEF Indexes
  <1>3. \A k \in Indexes(l, i) : (\A j \in Indexes(l, i) : j <= k) => k = n
    BY <1>1, <1>2
  <1>4. LastIndex(l, i) = n
    BY <1>2, <1>3 DEF LastIndex
  <1> QED
    BY <1>2, <1>4 DEF Read

\* A body written into the last object of a log.
LEMMA BodyFacts ==
  ASSUME NEW l \in Seq(Entries), l # <<>>, HasLast(l), NEW v \in Values
  PROVE  LET g == [l EXCEPT ![Len(l)].val = v]
         IN  /\ g \in Seq(Entries) /\ Len(g) = Len(l) /\ HasLast(g)
             /\ Placed(l) => Placed(g)
             /\ \A i \in Ids : Read(g, i) = IF i = l[Len(l)].id THEN v ELSE Read(l, i)
PROOF
  <1> DEFINE n == Len(l)
             e == [l[n] EXCEPT !.val = v]
             g == [l EXCEPT ![n].val = v]
  <1>1. n \in Nat /\ n >= 1 /\ n \in 1..n /\ l[n] \in Entries
    BY LogFacts
  <1>2. e \in Entries /\ e.id = l[n].id /\ e.val = v /\ e.size = l[n].size /\ e.end = l[n].end
    BY <1>1 DEF Entries
  <1>3. g = [l EXCEPT ![n] = e]
    OBVIOUS
  <1> HIDE DEF e
  <1>4. /\ g \in Seq(Entries) /\ Len(g) = n
        /\ \A k \in 1..n : g[k] = IF k = n THEN e ELSE l[k]
    BY <1>1, <1>2, <1>3
  <1> HIDE DEF g, n
  <1>5. \A i : Indexes(g, i) = Indexes(l, i)
    BY <1>1, <1>2, <1>4 DEF Indexes, n
  <1>6. \A i : LastIndex(g, i) = LastIndex(l, i)
    BY <1>5 DEF LastIndex
  <1>7. HasLast(g)
    BY <1>5, <1>6 DEF HasLast
  <1>8. Placed(l) => Placed(g)
    BY <1>1, <1>2, <1>4 DEF Placed, n
  <1>9. ASSUME NEW i \in Ids
        PROVE  Read(g, i) = IF i = l[n].id THEN v ELSE Read(l, i)
    <2>1. CASE Indexes(l, i) = {}
      <3>1. i # l[n].id
        BY <1>1, <2>1 DEF Indexes, n
      <3> QED
        BY <2>1, <3>1, <1>5 DEF Read
    <2>2. CASE Indexes(l, i) # {}
      <3>1. LastIndex(l, i) \in Indexes(l, i) /\ LastIndex(l, i) \in 1..n
            /\ l[LastIndex(l, i)].id = i
        BY <2>2 DEF HasLast, Indexes, n
      <3>2. Read(g, i) = g[LastIndex(l, i)].val /\ Read(l, i) = l[LastIndex(l, i)].val
        BY <2>2, <1>5, <1>6 DEF Read
      <3>3. i = l[n].id => LastIndex(l, i) = n
        BY <1>1, LastIsLast DEF n
      <3> QED
        BY <3>1, <3>2, <3>3, <1>2, <1>4
    <2> QED
      BY <2>1, <2>2
  <1> QED
    BY <1>4, <1>7, <1>8, <1>9 DEF g, n

LEMMA TimesMonotone ==
  ASSUME NEW a \in Nat, NEW b \in Nat, NEW m \in Nat, a <= b
  PROVE  a * m <= b * m
PROOF
  <1> DEFINE d == b - a
  <1>1. d \in Nat /\ b = a + d
    OBVIOUS
  <1> HIDE DEF d
  <1>2. b * m = a * m + d * m
    BY <1>1
  <1>3. d * m >= 0
    BY <1>1
  <1>4. a * m \in Int /\ d * m \in Int
    BY <1>1
  <1> QED
    BY <1>2, <1>3, <1>4

\* A log that holds at most one object of each id but the one being saved has
\* room for that one too.
LEMMA PackRoom ==
  ASSUME NEW l \in Seq(Entries), OneEach(l), NEW id \in Ids,
         \A k \in 1..Len(l) : l[k].id # id
  PROVE  (Len(l) + 1) * MaxObj <= Bank
PROOF
  <1> DEFINE others == Ids \ {id}
  <1> DEFINE f == [k \in 1..Len(l) |-> l[k].id]
  <1>1. IsFiniteSet(others) /\ Cardinality(others) = Cardinality(Ids) - 1
    BY FlashCfgAssumption, FS_RemoveElement
  <1>2. Cardinality(Ids) \in Nat
    BY FlashCfgAssumption, FS_CardinalityType
  <1>3. f \in [1..Len(l) -> others]
    BY LogFacts
  <1>4. \A j, k \in 1..Len(l) : f[j] = f[k] => j = k
    BY DEF OneEach
  <1>5. f \in Injection(1..Len(l), others)
    BY <1>3, <1>4 DEF Injection, IsInjective
  <1>6. Len(l) \in Nat
    OBVIOUS
  <1> HIDE DEF f, others
  <1>7. Cardinality(1..Len(l)) <= Cardinality(others)
    BY <1>1, <1>5, FS_Injection
  <1>8. Cardinality(1..Len(l)) = Len(l)
    BY <1>6, FS_Interval
  <1>9. Len(l) + 1 <= Cardinality(Ids)
    BY <1>1, <1>2, <1>6, <1>7, <1>8
  <1>10. Len(l) + 1 \in Nat /\ MaxObj \in Nat
    BY <1>6, Constants
  <1>11. (Len(l) + 1) * MaxObj <= Cardinality(Ids) * MaxObj
    BY <1>2, <1>9, <1>10, TimesMonotone
  <1>12. Cardinality(Ids) * MaxObj <= Bank /\ Bank \in Nat
    BY FlashCfgAssumption
  <1>13. \A a, b \in Int : a <= b /\ b <= Bank => a <= Bank
    BY <1>12
  <1>14. (Len(l) + 1) * MaxObj \in Int /\ Cardinality(Ids) * MaxObj \in Int
    BY <1>2, <1>10
  <1> QED
    BY <1>11, <1>12, <1>13, <1>14

----------------------------------------------------------------------------
(* The invariant.                                                          *)
LogOK == Placed(log) /\ HasLast(log) /\ Placed(buffer)

\* There is room for the object, or its header is the last one in the log.
ReqOK ==
  /\ pc = "head" => End(log) + SizeOf[req.val] <= Bank
  /\ pc = "body" => log # <<>> /\ log[Len(log)].id = req.id /\ log[Len(log)].val = Torn

\* The RAM copy has one object of an id at most and none of the one to save.
Compact(l) ==
  /\ OneEach(l)
  /\ \A k \in 1..Len(l) : l[k].id # req.id /\ l[k].end <= k * MaxObj

CompactOK == pc \in {"pack", "restore"} => Compact(buffer)

\* It has the last object of each id the first pass has met.
Met(i) == \E k \in 1..scan - 1 : log[k].id = i
CopiedOK ==
  pc = "pack" =>
    \A i \in Ids \ {req.id} :
      /\ Met(i) => Indexes(buffer, i) # {} /\ Read(buffer, i) = Read(log, i)
      /\ ~Met(i) => Indexes(buffer, i) = {}

\* The second pass has written the beginning of the copy.
RestoredOK == pc = "restore" => log = SubSeq(buffer, 1, scan - 1)

IInv == TypeOK /\ LogOK /\ ReqOK /\ CompactOK /\ CopiedOK /\ RestoredOK

LEMMA InitIInv == Init => IInv
PROOF
  <1> SUFFICES ASSUME Init PROVE IInv
    OBVIOUS
  <1>1. TypeOK
    BY EmptyLog DEF Init, TypeOK
  <1> QED
    BY <1>1, EmptyLog DEF Init, IInv, LogOK, ReqOK, CompactOK, CopiedOK, RestoredOK

\* Nothing but the place in the sector is at stake in FitsSector.
LEMMA IInvFits == IInv => FitsSector
PROOF
  <1> SUFFICES ASSUME NEW l, Placed(l) PROVE End(l) <= Bank
    BY DEF IInv, LogOK, FitsSector
  <1>1. CASE l = <<>>
    BY <1>1, EmptyLog, Constants
  <1>2. CASE l # <<>>
    BY <1>2, LogFacts DEF Placed
  <1> QED
    BY <1>1, <1>2

\* Every object fits in an empty sector.
LEMMA OneFits ==
  ASSUME NEW id \in Ids
  PROVE  MaxObj <= Bank
PROOF
  <1>1. PICK l : l = <<>>
    OBVIOUS
  <1>2. l \in Seq(Entries) /\ OneEach(l) /\ Len(l) = 0
    BY <1>1, EmptyLog DEF Placed
  <1>3. \A k \in 1..Len(l) : l[k].id # id
    BY <1>2
  <1>4. (Len(l) + 1) * MaxObj <= Bank
    BY <1>2, <1>3, PackRoom
  <1>5. (Len(l) + 1) * MaxObj = MaxObj
    BY <1>2, Constants
  <1> QED
    BY <1>4, <1>5

\* One more object behind a compact log fits in the sector and in its own share.
LEMMA CompactRoom ==
  ASSUME req \in Objects, NEW l \in Seq(Entries), Compact(l), NEW size \in Nat, size <= MaxObj
  PROVE  End(l) + size <= (Len(l) + 1) * MaxObj /\ End(l) + size <= Bank
PROOF
  <1>1. Len(l) \in Nat /\ End(l) \in Nat /\ MaxObj \in Nat /\ Bank \in Nat
    BY LogFacts, Constants
  <1>2. (Len(l) + 1) * MaxObj = Len(l) * MaxObj + MaxObj /\ Len(l) * MaxObj \in Nat
    BY <1>1
  <1>3. End(l) <= Len(l) * MaxObj
    <2>1. CASE l = <<>>
      BY <2>1, <1>2, EmptyLog
    <2>2. CASE l # <<>>
      <3>1. Len(l) \in 1..Len(l) /\ End(l) = l[Len(l)].end
        BY <2>2, LogFacts
      <3> QED
        BY <3>1 DEF Compact
    <2> QED
      BY <2>1, <2>2
  <1>4. End(l) + size <= (Len(l) + 1) * MaxObj
    BY <1>1, <1>2, <1>3
  <1>5. (Len(l) + 1) * MaxObj <= Bank
    BY PackRoom DEF Compact, Objects
  <1> QED
    BY <1>1, <1>2, <1>4, <1>5

\* pack_cfg_fmem, an object that is copied: the last one of its id.
LEMMA CopiedFacts ==
  ASSUME IInv, pc = "pack", NEW k \in 1..Len(log), log[k].id # req.id,
         Indexes(buffer, log[k].id) = {}
  PROVE  \E e \in Entries : /\ Copied(k) = Append(buffer, e)
                            /\ e.id = log[k].id /\ e.val = Read(log, log[k].id)
                            /\ e.size <= MaxObj
                            /\ e.end <= (Len(buffer) + 1) * MaxObj /\ e.end <= Bank
PROOF
  <1> DEFINE i == log[k].id
             last == log[LastIndex(log, i)]
  <1>1. log \in Seq(Entries) /\ buffer \in Seq(Entries) /\ req \in Objects
    BY DEF IInv, TypeOK
  <1>2. i \in Ids /\ k \in Indexes(log, i)
    BY <1>1, LogFacts DEF Indexes
  <1>3. LastIndex(log, i) \in Indexes(log, i)
    BY <1>2 DEF IInv, LogOK, HasLast
  <1>4. LastIndex(log, i) \in 1..Len(log) /\ last.id = i
    BY <1>3 DEF Indexes
  <1>5. last.val = Read(log, i)
    BY <1>2 DEF Read
  <1>6. last.size \in Nat /\ last.val \in Values \cup {Torn} /\ last.size <= MaxObj
    BY <1>1, <1>4, LogFacts DEF IInv, LogOK, Placed
  <1>7. Copied(k) = Put(buffer, last.id, last.val, last.size)
    BY DEF Copied
  <1>8. last.id \in Ids
    BY <1>2, <1>4
  <1>9. \A id \in Ids, val \in Values \cup {Torn}, size \in Nat :
          \E e \in Entries : /\ Put(buffer, id, val, size) = Append(buffer, e)
                             /\ e.id = id /\ e.val = val /\ e.size = size
                             /\ e.end = End(buffer) + size
    BY <1>1, PutFacts
  <1> HIDE DEF last, i
  <1>10. PICK e \in Entries : /\ Put(buffer, last.id, last.val, last.size) = Append(buffer, e)
                             /\ e.id = last.id /\ e.val = last.val /\ e.size = last.size
                             /\ e.end = End(buffer) + last.size
    BY <1>6, <1>8, <1>9
  <1>11. e.end <= (Len(buffer) + 1) * MaxObj /\ e.end <= Bank
    BY <1>1, <1>6, <1>10, CompactRoom DEF IInv, CompactOK
  <1> QED
    BY <1>4, <1>5, <1>6, <1>7, <1>10, <1>11 DEF i

\* An object of its own id keeps a log compact.
LEMMA AppendCompact ==
  ASSUME NEW l \in Seq(Entries), Compact(l), NEW e \in Entries, e.id # req.id,
         Indexes(l, e.id) = {}, e.end <= (Len(l) + 1) * MaxObj
  PROVE  Compact(Append(l, e))
PROOF
  <1> DEFINE g == Append(l, e)
  <1>1. /\ Len(g) = Len(l) + 1 /\ Len(l) \in Nat
        /\ \A k \in 1..Len(l) : g[k] = l[k]
        /\ g[Len(l) + 1] = e
    BY AppendFacts
  <1> HIDE DEF g
  <1>2. \A k \in 1..Len(g) : k \in 1..Len(l) \/ k = Len(l) + 1
    BY <1>1
  <1>3. \A k \in 1..Len(l) : l[k].id # e.id
    BY DEF Indexes
  <1>4. OneEach(g)
    BY <1>1, <1>2, <1>3 DEF Compact, OneEach
  <1>5. \A k \in 1..Len(g) : g[k].id # req.id /\ g[k].end <= k * MaxObj
    BY <1>1, <1>2 DEF Compact
  <1> QED
    BY <1>4, <1>5 DEF Compact, g

----------------------------------------------------------------------------
(* The steps keep the invariant.                                           *)

LEMMA SaveSameIInv == ASSUME IInv, NEW o \in Objects, SaveSame(o) PROVE IInv'
PROOF
  <1> USE DEF IInv, SaveSame
  <1>1. TypeOK'
    BY DEF TypeOK
  <1>2. LogOK'
    BY DEF LogOK
  <1> QED
    BY <1>1, <1>2 DEF ReqOK, CompactOK, CopiedOK, RestoredOK

LEMMA SaveIInv == ASSUME IInv, NEW o \in Objects, Save(o) PROVE IInv'
PROOF
  <1>1. /\ log \in Seq(Entries) /\ Len(log) \in Nat /\ log' = log /\ req' = o /\ scan' = 1
        /\ buffer' = <<>> /\ pc' \in {"head", "pack"} /\ result' = "none"
        /\ pc' = "head" => HasRoom(log, SizeOf[o.val])
    BY LogFacts DEF IInv, TypeOK, Save
  <1>2. o.id \in Ids /\ o.val \in Values
    BY DEF Objects
  <1>3. TypeOK'
    BY <1>1, EmptyLog DEF TypeOK, Placed
  <1>4. LogOK'
    BY <1>1, EmptyLog DEF IInv, LogOK
  <1>5. ReqOK'
    <2> SUFFICES ASSUME pc' = "head" PROVE End(log) + SizeOf[o.val] <= Bank
      BY <1>1 DEF ReqOK
    <2>1. CASE log = <<>>
      <3>1. End(log) = 0
        BY <2>1, EmptyLog
      <3> QED
        BY <3>1, <1>2, OneFits, Constants
    <2>2. CASE log # <<>>
      BY <1>1, <1>2, <2>2, LogFacts, Constants DEF HasRoom
    <2> QED
      BY <2>1, <2>2
  <1>6. CompactOK'
    BY <1>1, EmptyLog DEF CompactOK, Compact
  <1>7. CopiedOK'
    BY <1>1, EmptyLog DEF CopiedOK, Met
  <1>8. RestoredOK'
    BY <1>1 DEF RestoredOK
  <1> QED
    BY <1>3, <1>4, <1>5, <1>6, <1>7, <1>8 DEF IInv

LEMMA PackCopyIInv == ASSUME IInv, PackCopy PROVE IInv'
PROOF
  <1> DEFINE i == log[scan].id
  <1>1. /\ log \in Seq(Entries) /\ Len(log) \in Nat /\ buffer \in Seq(Entries)
        /\ pc = "pack" /\ scan \in 1..Len(log) /\ req \in Objects
        /\ log' = log /\ pc' = pc /\ req' = req /\ result' = result
        /\ buffer' = Copied(scan) /\ scan' = scan + 1 /\ i \in Ids
    BY LogFacts DEF IInv, TypeOK, PackCopy
  <1>2. \A j : Met(j)' <=> Met(j) \/ j = i
    <2>1. \A k : k \in 1..(scan + 1) - 1 <=> k \in 1..scan - 1 \/ k = scan
      BY <1>1
    <2> QED
      BY <1>1, <2>1 DEF Met
  <1>3. CASE i = req.id \/ Indexes(buffer, i) # {}
    <2>1. buffer' = buffer
      BY <1>1, <1>3 DEF Copied
    <2>2. TypeOK'
      BY <1>1, <2>1 DEF IInv, TypeOK
    <2>3. LogOK' /\ ReqOK' /\ CompactOK' /\ RestoredOK'
      BY <1>1, <2>1 DEF IInv, LogOK, ReqOK, CompactOK, Compact, RestoredOK
    <2>4. CopiedOK'
      <3>1. i # req.id => Met(i)
        BY <1>1, <1>3 DEF IInv, CopiedOK
      <3> QED
        BY <1>1, <1>2, <2>1, <3>1 DEF IInv, CopiedOK
    <2> QED
      BY <2>2, <2>3, <2>4 DEF IInv
  <1>4. CASE i # req.id /\ Indexes(buffer, i) = {}
    <2>1. PICK e \in Entries : /\ buffer' = Append(buffer, e)
                               /\ e.id = i /\ e.val = Read(log, i) /\ e.size <= MaxObj
                               /\ e.end <= (Len(buffer) + 1) * MaxObj /\ e.end <= Bank
      BY <1>1, <1>4, CopiedFacts
    <2>2. buffer' \in Seq(Entries)
      BY <1>1, <2>1, AppendFacts
    <2>3. TypeOK'
      BY <1>1, <2>2 DEF IInv, TypeOK
    <2>4. LogOK'
      BY <1>1, <2>1, AppendPlaced DEF IInv, LogOK
    <2>5. Compact(buffer)'
      <3>1. Compact(buffer)
        BY <1>1 DEF IInv, CompactOK
      <3>2. Compact(Append(buffer, e))
        BY <1>1, <1>4, <2>1, <3>1, AppendCompact
      <3> QED
        BY <1>1, <2>1, <3>2 DEF Compact
    <2>6. CopiedOK'
      <3>1. HasLast(buffer)
        BY <1>1, OneEachHasLast DEF IInv, CompactOK, Compact
      <3>2. \A j \in Ids : Read(buffer', j) = IF j = i THEN Read(log, i) ELSE Read(buffer, j)
        BY <1>1, <2>1, <3>1, ReadAppend
      <3>3. \A j \in Ids : Indexes(buffer', j) = IF j = i THEN Indexes(buffer, j) \cup {Len(buffer) + 1}
                                                  ELSE Indexes(buffer, j)
        BY <1>1, <2>1, <3>1, ReadAppend
      <3> QED
        BY <1>1, <1>2, <3>2, <3>3 DEF IInv, CopiedOK
    <2>7. ReqOK' /\ CompactOK' /\ RestoredOK'
      BY <1>1, <2>5 DEF ReqOK, CompactOK, RestoredOK
    <2> QED
      BY <2>3, <2>4, <2>6, <2>7 DEF IInv
  <1> QED
    BY <1>3, <1>4

LEMMA PackEraseIInv == ASSUME IInv, PackErase PROVE IInv'
PROOF
  <1>1. /\ pc = "pack" /\ log' = <<>> /\ pc' = "restore" /\ scan' = 1
        /\ req' = req /\ buffer' = buffer /\ result' = result
        /\ buffer \in Seq(Entries) /\ Len(buffer) \in Nat
    BY LogFacts DEF IInv, TypeOK, PackErase
  <1>2. TypeOK'
    BY <1>1, EmptyLog DEF IInv, TypeOK
  <1>3. LogOK'
    BY <1>1, EmptyLog DEF IInv, LogOK
  <1>4. CompactOK'
    BY <1>1 DEF IInv, CompactOK, Compact
  <1>5. RestoredOK'
    BY <1>1 DEF RestoredOK
  <1> QED
    BY <1>1, <1>2, <1>3, <1>4, <1>5 DEF IInv, ReqOK, CopiedOK

LEMMA RestoreIInv == ASSUME IInv, Restore PROVE IInv'
PROOF
  <1> DEFINE e == buffer[scan]
  <1>1. /\ pc = "restore" /\ pc' = pc /\ req' = req /\ buffer' = buffer /\ result' = result
        /\ buffer \in Seq(Entries) /\ log \in Seq(Entries) /\ Len(buffer) \in Nat
        /\ scan \in 1..Len(buffer) /\ scan' = scan + 1 /\ scan - 1 \in 0..Len(buffer)
        /\ log' = Append(log, e) /\ e \in Entries
    BY LogFacts DEF IInv, TypeOK, Restore
  <1>2. OneEach(buffer) /\ Compact(buffer)
    BY <1>1 DEF IInv, CompactOK, Compact
  <1>3. RestoredOK'
    <2>1. scan - 1 < Len(buffer) /\ (scan - 1) + 1 = scan /\ (scan + 1) - 1 = scan
      BY <1>1
    <2>2. Append(SubSeq(buffer, 1, scan - 1), buffer[scan]) = SubSeq(buffer, 1, scan)
      BY <1>1, <1>2, <2>1, ReadPrefix
    <2> QED
      BY <1>1, <2>1, <2>2 DEF IInv, RestoredOK
  <1>4. TypeOK'
    BY <1>1, AppendFacts DEF IInv, TypeOK
  <1>5. LogOK'
    <2>1. e.end <= Bank /\ e.size <= MaxObj
      BY <1>1 DEF IInv, LogOK, Placed
    <2>2. Placed(Append(log, e)) /\ HasLast(Append(log, e))
      BY <1>1, <2>1, AppendPlaced, ReadAppend DEF IInv, LogOK
    <2> QED
      BY <1>1, <2>2 DEF IInv, LogOK
  <1>6. CompactOK'
    BY <1>1, <1>2 DEF CompactOK, Compact
  <1> QED
    BY <1>1, <1>3, <1>4, <1>5, <1>6 DEF IInv, ReqOK, CopiedOK

\* The whole copy is in the log when the object itself is written.
LEMMA RestoredAll ==
  ASSUME IInv, pc = "restore", scan > Len(buffer)
  PROVE  log = buffer
PROOF
  <1>1. buffer \in Seq(Entries) /\ scan - 1 = Len(buffer) /\ Len(buffer) \in Nat
    BY LogFacts DEF IInv, TypeOK
  <1>2. SubSeq(buffer, 1, Len(buffer)) = buffer
    BY <1>1
  <1> QED
    BY <1>1, <1>2 DEF IInv, RestoredOK

LEMMA HeadFacts ==
  ASSUME IInv, WriteHead
  PROVE  \E e \in Entries : /\ log' = Append(log, e) /\ e.id = req.id /\ e.val = Torn
                            /\ e.size <= MaxObj /\ e.end <= Bank
PROOF
  <1>1. /\ log \in Seq(Entries) /\ buffer \in Seq(Entries) /\ req \in Objects
        /\ req.id \in Ids /\ req.val \in Values
    BY DEF IInv, TypeOK, Objects
  <1>2. PICK size \in Nat : size = SizeOf[req.val] /\ size <= MaxObj
    BY <1>1, Constants
  <1>3. End(log) + size <= Bank
    <2>1. CASE pc = "head"
      BY <1>2, <2>1 DEF IInv, ReqOK
    <2>2. CASE pc = "restore" /\ scan > Len(buffer)
      <3>1. log = buffer /\ Compact(buffer)
        BY <2>2, RestoredAll DEF IInv, CompactOK
      <3> QED
        BY <1>1, <1>2, <3>1, CompactRoom
    <2> QED
      BY <2>1, <2>2 DEF WriteHead
  <1>4. log' = Put(log, req.id, Torn, size)
    BY <1>2 DEF WriteHead
  <1> DEFINE e == [id |-> req.id, val |-> Torn, size |-> size, end |-> End(log) + size]
  <1>5. e \in Entries
    <2>1. End(log) + size \in Nat
      BY <1>1, LogFacts
    <2> QED
      BY <1>1, <2>1 DEF Entries
  <1>6. log' = Append(log, e)
    BY <1>4 DEF Put
  <1>7. e.id = req.id /\ e.val = Torn /\ e.size <= MaxObj /\ e.end <= Bank
    BY <1>2, <1>3
  <1> QED
    BY <1>5, <1>6, <1>7

LEMMA WriteHeadIInv == ASSUME IInv, WriteHead PROVE IInv'
PROOF
  <1>1. /\ log \in Seq(Entries) /\ Len(log) \in Nat /\ req \in Objects
        /\ pc' = "body" /\ req' = req /\ buffer' = buffer /\ scan' = scan /\ result' = result
    BY LogFacts DEF IInv, TypeOK, WriteHead
  <1>2. PICK e \in Entries : /\ log' = Append(log, e) /\ e.id = req.id /\ e.val = Torn
                             /\ e.size <= MaxObj /\ e.end <= Bank
    BY HeadFacts
  <1>3. /\ log' \in Seq(Entries) /\ Len(log') = Len(log) + 1 /\ log' # <<>>
        /\ log'[Len(log')] = e
    BY <1>1, <1>2, AppendFacts
  <1>4. scan \in 1..Len(log) + 1
    <2>1. CASE pc = "head"
      BY <2>1 DEF IInv, TypeOK
    <2>2. CASE pc = "restore" /\ scan > Len(buffer)
      BY <2>2, RestoredAll DEF IInv, TypeOK
    <2> QED
      BY <2>1, <2>2 DEF WriteHead
  <1>5. TypeOK'
    BY <1>1, <1>3, <1>4 DEF IInv, TypeOK
  <1>6. LogOK'
    BY <1>1, <1>2, AppendPlaced, ReadAppend DEF IInv, LogOK
  <1>7. ReqOK'
    BY <1>1, <1>2, <1>3 DEF ReqOK
  <1> QED
    BY <1>1, <1>5, <1>6, <1>7 DEF IInv, CompactOK, CopiedOK, RestoredOK

LEMMA WriteBodyIInv == ASSUME IInv, WriteBody PROVE IInv'
PROOF
  <1> DEFINE g == [log EXCEPT ![Len(log)].val = req.val]
  <1>1. /\ log \in Seq(Entries) /\ log # <<>> /\ req.val \in Values
        /\ log' = g /\ pc' = "idle" /\ result' = "ok"
        /\ req' = req /\ buffer' = buffer /\ scan' = scan
    BY DEF IInv, TypeOK, ReqOK, Objects, WriteBody
  <1>2. g \in Seq(Entries) /\ Len(g) = Len(log) /\ Placed(g) /\ HasLast(g)
    BY <1>1, BodyFacts DEF IInv, LogOK
  <1> HIDE DEF g
  <1>3. TypeOK'
    BY <1>1, <1>2 DEF IInv, TypeOK, WriteBody
  <1>4. LogOK'
    BY <1>1, <1>2 DEF IInv, LogOK
  <1> QED
    BY <1>1, <1>3, <1>4 DEF IInv, ReqOK, CompactOK, CopiedOK, RestoredOK

LEMMA StopIInv == ASSUME IInv, Stop PROVE IInv'
PROOF
  <1>1. /\ log \in Seq(Entries) /\ Len(log) \in Nat /\ buffer \in Seq(Entries) /\ Len(buffer) \in Nat
        /\ log' = log /\ pc' = "idle" /\ result' = "failed"
        /\ req' = req /\ buffer' = buffer /\ scan' = scan
    BY LogFacts DEF IInv, TypeOK, Stop, Stopped
  <1>2. scan \in 1..Len(log) + 1
    <2>1. CASE pc = "restore"
      <3>1. scan \in 1..Len(buffer) + 1 /\ scan - 1 \in 0..Len(buffer) /\ log = SubSeq(buffer, 1, scan - 1)
        BY <1>1, <2>1 DEF IInv, TypeOK, RestoredOK
      <3>2. Len(log) = scan - 1
        BY <1>1, <3>1
      <3> QED
        BY <3>1, <3>2
    <2>2. CASE pc # "restore"
      BY <2>2 DEF IInv, TypeOK
    <2> QED
      BY <2>1, <2>2
  <1>3. TypeOK'
    BY <1>1, <1>2 DEF IInv, TypeOK
  <1>4. LogOK'
    BY <1>1 DEF IInv, LogOK
  <1> QED
    BY <1>1, <1>3, <1>4 DEF IInv, ReqOK, CompactOK, CopiedOK, RestoredOK

LEMMA StopInRestoreIInv == ASSUME IInv, StopInRestore PROVE IInv'
PROOF
  <1> DEFINE e == [buffer[scan] EXCEPT !.val = Torn]
  <1>1. /\ log \in Seq(Entries) /\ Len(log) \in Nat /\ buffer \in Seq(Entries) /\ Len(buffer) \in Nat
        /\ log' = Append(log, e) /\ pc' = "idle" /\ result' = "failed"
        /\ req' = req /\ buffer' = buffer /\ scan' = scan
        /\ scan \in 1..Len(buffer) /\ pc = "restore"
    BY LogFacts DEF IInv, TypeOK, StopInRestore, Stopped
  <1>2. e \in Entries /\ e.end = buffer[scan].end /\ e.size = buffer[scan].size
    BY <1>1, LogFacts DEF Entries
  <1> HIDE DEF e
  <1>3. e.end <= Bank /\ e.size <= MaxObj
    BY <1>1, <1>2 DEF IInv, LogOK, Placed
  <1>4. Len(log) = scan - 1
    <2>1. scan - 1 \in 0..Len(buffer) /\ log = SubSeq(buffer, 1, scan - 1)
      BY <1>1 DEF IInv, RestoredOK
    <2> QED
      BY <1>1, <2>1
  <1>5. log' \in Seq(Entries) /\ Len(log') = Len(log) + 1
    BY <1>1, <1>2, AppendFacts
  <1>6. TypeOK'
    BY <1>1, <1>4, <1>5 DEF IInv, TypeOK
  <1>7. LogOK'
    BY <1>1, <1>2, <1>3, AppendPlaced, ReadAppend DEF IInv, LogOK
  <1> QED
    BY <1>1, <1>6, <1>7 DEF IInv, ReqOK, CompactOK, CopiedOK, RestoredOK

LEMMA NextIInv == IInv /\ [Next]_vars => IInv'
PROOF
  <1> SUFFICES ASSUME IInv, [Next]_vars PROVE IInv'
    OBVIOUS
  <1>1. CASE UNCHANGED vars
    BY <1>1 DEF vars, IInv, TypeOK, LogOK, ReqOK, CompactOK, Compact, CopiedOK, Met, RestoredOK
  <1>2. ASSUME NEW o \in Objects, SaveSame(o) PROVE IInv'
    BY <1>2, SaveSameIInv
  <1>3. ASSUME NEW o \in Objects, Save(o) PROVE IInv'
    BY <1>3, SaveIInv
  <1>4. CASE PackCopy
    BY <1>4, PackCopyIInv
  <1>5. CASE PackErase
    BY <1>5, PackEraseIInv
  <1>6. CASE Restore
    BY <1>6, RestoreIInv
  <1>7. CASE WriteHead
    BY <1>7, WriteHeadIInv
  <1>8. CASE WriteBody
    BY <1>8, WriteBodyIInv
  <1>9. CASE Stop
    BY <1>9, StopIInv
  <1>10. CASE StopInRestore
    BY <1>10, StopInRestoreIInv
  <1> QED
    BY <1>1, <1>2, <1>3, <1>4, <1>5, <1>6, <1>7, <1>8, <1>9, <1>10 DEF Next

\* In every reachable state the invariant holds.
THEOREM Invariant == Spec => []IInv
PROOF
  <1> QED
    BY InitIInv, NextIInv, PTL DEF Spec

\* The variables have their types, and the places of the two passes of a pack
\* are within what they walk.
THEOREM TypeCorrect == Spec => []TypeOK
PROOF
  <1>1. IInv => TypeOK
    BY DEF IInv
  <1> QED
    BY <1>1, Invariant, PTL

\* For any ids, object sizes and sector that satisfy the assumption, nothing is
\* written behind the end of the sector, although the address that a pack
\* returns is not tested again.
THEOREM StaysInSector == Spec => []FitsSector
PROOF
  <1> QED
    BY Invariant, IInvFits, PTL

----------------------------------------------------------------------------
(* The log implements ConfigStore.                                         *)

\* What is read is an object's value, or none, or torn.
LEMMA ReadType ==
  ASSUME NEW l \in Seq(Entries), HasLast(l), NEW i \in Ids
  PROVE  Read(l, i) \in Values \cup {None, Torn}
PROOF
  <1>1. CASE Indexes(l, i) = {}
    BY <1>1 DEF Read
  <1>2. CASE Indexes(l, i) # {}
    <2>1. LastIndex(l, i) \in 1..Len(l)
      BY <1>2 DEF HasLast, Indexes
    <2> QED
      BY <1>2, <2>1, LogFacts DEF Read
  <1> QED
    BY <1>1, <1>2

LEMMA InitStore == Init => Store!Init
PROOF
  <1> SUFFICES ASSUME Init PROVE Store!Init
    OBVIOUS
  <1>1. \A i \in Ids : Meant(i) = None
    BY EmptyLog DEF Init, Meant
  <1> QED
    BY <1>1 DEF Init, Store!Init, Store!Objects, Objects

\* Outside a pack's second pass the objects are those of the log.
LEMMA MeantLog ==
  /\ pc \in {"idle", "head", "pack"} => \A i \in Ids : Meant(i) = Read(log, i)
  /\ pc = "body" => \A i \in Ids : Meant(i) = IF i = req.id THEN req.val ELSE Read(log, i)
  /\ pc = "restore" => \A i \in Ids : Meant(i) = IF i = req.id THEN req.val ELSE Read(buffer, i)
PROOF
  BY DEF Meant

LEMMA MeantLogNext ==
  /\ pc' \in {"idle", "head", "pack"} => \A i \in Ids : Meant(i)' = Read(log', i)
  /\ pc' = "body" => \A i \in Ids : Meant(i)' = IF i = req'.id THEN req'.val ELSE Read(log', i)
  /\ pc' = "restore" => \A i \in Ids : Meant(i)' = IF i = req'.id THEN req'.val ELSE Read(buffer', i)
PROOF
  BY DEF Meant, Read, Indexes, LastIndex

\* A save that has nothing to write.
LEMMA SaveSameStore == ASSUME IInv, NEW o \in Objects, SaveSame(o) PROVE Store!Confirm(o)
PROOF
  <1>1. /\ pc = "idle" /\ pc' = "idle" /\ log' = log /\ o.id \in Ids
        /\ req' = o /\ result' = "ok" /\ Read(log, o.id) = o.val
    BY DEF SaveSame, Objects
  <1>2. \A i \in Ids : Meant(i) = Read(log, i) /\ Meant(i)' = Read(log, i)
    BY <1>1, MeantLog, MeantLogNext
  <1> QED
    BY <1>1, <1>2 DEF Store!Confirm

LEMMA SaveStore == ASSUME IInv, NEW o \in Objects, Save(o) PROVE Store!Begin(o)
PROOF
  <1>1. /\ pc = "idle" /\ pc' \in {"head", "pack"} /\ log' = log
        /\ req' = o /\ result' = "none"
    BY DEF Save
  <1>2. \A i \in Ids : Meant(i) = Read(log, i) /\ Meant(i)' = Read(log, i)
    BY <1>1, MeantLog, MeantLogNext
  <1> QED
    BY <1>1, <1>2 DEF Store!Begin

LEMMA PackCopyStore == ASSUME IInv, PackCopy PROVE UNCHANGED Store!vars
PROOF
  <1>1. pc = "pack" /\ pc' = pc /\ log' = log /\ req' = req /\ result' = result
    BY DEF PackCopy
  <1>2. \A i \in Ids : Meant(i) = Read(log, i) /\ Meant(i)' = Read(log, i)
    BY <1>1, MeantLog, MeantLogNext
  <1> QED
    BY <1>1, <1>2 DEF Store!vars

\* The first pass has copied what the log holds of the other ids.
LEMMA PackEraseStore == ASSUME IInv, PackErase PROVE Store!Commit
PROOF
  <1>1. /\ pc = "pack" /\ pc' = "restore" /\ req' = req /\ buffer' = buffer /\ result' = result
        /\ log \in Seq(Entries) /\ Len(log) \in Nat /\ scan = Len(log) + 1
        /\ req.id \in Ids
    BY LogFacts DEF IInv, TypeOK, PackErase, Objects
  <1>2. \A i \in Ids : Meant(i) = Read(log, i)
    BY <1>1, MeantLog
  <1>3. \A i \in Ids : Meant(i)' = IF i = req.id THEN req.val ELSE Read(buffer, i)
    BY <1>1, MeantLogNext
  <1>4. ASSUME NEW i \in Ids, i # req.id
        PROVE  Read(buffer, i) = Read(log, i)
    <2>1. Met(i) <=> Indexes(log, i) # {}
      BY <1>1 DEF Met, Indexes
    <2>2. CASE Met(i)
      BY <1>1, <1>4, <2>2 DEF IInv, CopiedOK
    <2>3. CASE ~Met(i)
      <3>1. Indexes(buffer, i) = {}
        BY <1>1, <1>4, <2>3 DEF IInv, CopiedOK
      <3> QED
        BY <2>1, <2>3, <3>1 DEF Read
    <2> QED
      BY <2>2, <2>3
  <1>5. [i \in Ids |-> Meant(i)]' = [[i \in Ids |-> Meant(i)] EXCEPT ![req.id] = req.val]
    BY <1>1, <1>2, <1>3, <1>4
  <1> QED
    BY <1>1, <1>5 DEF Store!Commit

\* What the second pass restores the store holds already.
LEMMA RestoreStore == ASSUME IInv, Restore PROVE UNCHANGED Store!vars
PROOF
  <1>1. pc = "restore" /\ pc' = pc /\ buffer' = buffer /\ req' = req /\ result' = result
    BY DEF Restore
  <1>2. \A i \in Ids : Meant(i)' = Meant(i)
    BY <1>1, MeantLog, MeantLogNext
  <1> QED
    BY <1>1, <1>2 DEF Store!vars

LEMMA WriteHeadStore == ASSUME IInv, WriteHead PROVE Store!Commit \/ Store!Rescued
PROOF
  <1>1. /\ pc' = "body" /\ req' = req /\ result' = result
        /\ log \in Seq(Entries) /\ req.id \in Ids /\ HasLast(log)
    BY DEF IInv, TypeOK, LogOK, WriteHead, Objects
  <1>2. PICK e \in Entries : log' = Append(log, e) /\ e.id = req.id
    BY HeadFacts
  <1>3. \A i \in Ids : i # req.id => Read(log', i) = Read(log, i)
    BY <1>1, <1>2, ReadAppend
  <1>4. \A i \in Ids : Meant(i)' = IF i = req.id THEN req.val ELSE Read(log, i)
    BY <1>1, <1>3, MeantLogNext
  <1>5. CASE pc = "head"
    <2>1. \A i \in Ids : Meant(i) = Read(log, i)
      BY <1>5, MeantLog
    <2>2. [i \in Ids |-> Meant(i)]' = [[i \in Ids |-> Meant(i)] EXCEPT ![req.id] = req.val]
      BY <1>1, <1>4, <2>1
    <2> QED
      BY <1>1, <1>5, <2>2 DEF Store!Commit
  <1>6. CASE pc = "restore" /\ scan > Len(buffer)
    <2>1. \A i \in Ids : Meant(i) = IF i = req.id THEN req.val ELSE Read(log, i)
      BY <1>6, RestoredAll, MeantLog
    <2> QED
      BY <1>1, <1>4, <1>6, <2>1 DEF Store!Rescued
  <1> QED
    BY <1>5, <1>6 DEF WriteHead

LEMMA WriteBodyStore == ASSUME IInv, WriteBody PROVE Store!Done
PROOF
  <1> DEFINE g == [log EXCEPT ![Len(log)].val = req.val]
  <1>1. /\ pc = "body" /\ pc' = "idle" /\ req' = req /\ result' = "ok" /\ log' = g
        /\ log \in Seq(Entries) /\ log # <<>> /\ HasLast(log) /\ req.val \in Values
        /\ log[Len(log)].id = req.id
    BY DEF IInv, TypeOK, LogOK, ReqOK, WriteBody, Objects
  <1>2. \A i \in Ids : Read(g, i) = IF i = req.id THEN req.val ELSE Read(log, i)
    BY <1>1, BodyFacts
  <1> HIDE DEF g
  <1>3. \A i \in Ids : Meant(i)' = Meant(i)
    BY <1>1, <1>2, MeantLog, MeantLogNext
  <1> QED
    BY <1>1, <1>3 DEF Store!Done

\* A stop takes at most what is at risk in its phase.
LEMMA StopStore == ASSUME IInv, Stop PROVE Store!Fail
PROOF
  <1>1. /\ pc # "idle" /\ pc' = "idle" /\ req' = req /\ result' = "failed" /\ log' = log
        /\ pc \in {"head", "body", "pack", "restore"}
        /\ log \in Seq(Entries) /\ buffer \in Seq(Entries) /\ HasLast(log) /\ req.id \in Ids
    BY DEF IInv, TypeOK, LogOK, Stop, Stopped, Objects
  <1>2. \A i \in Ids : Meant(i)' = Read(log, i)
    BY <1>1, MeantLogNext
  <1>3. [i \in Ids |-> Meant(i)]' \in [Ids -> Values \cup {None, Torn}]
    BY <1>1, <1>2, ReadType
  <1>4. CASE pc \in {"head", "pack"}
    <2>1. \A i \in Ids : Meant(i)' = Meant(i)
      BY <1>2, <1>4, MeantLog
    <2> QED
      BY <1>1, <1>3, <2>1 DEF Store!Fail
  <1>5. CASE pc = "body"
    <2>1. Read(log, req.id) = Torn
      BY <1>1, <1>5, LastIsLast DEF IInv, ReqOK
    <2>2. \A i \in Ids : i # req.id => Meant(i)' = Meant(i)
      BY <1>2, <1>5, MeantLog
    <2>3. \A i \in Ids : Meant(i)' \in {Meant(i)} \cup IF i \in {req.id} THEN {None, Torn} ELSE {}
      BY <1>2, <2>1, <2>2
    <2> QED
      BY <1>1, <1>3, <1>5, <2>3 DEF Store!Fail, Store!AtRisk
  <1>6. CASE pc = "restore"
    <2>1. /\ OneEach(buffer) /\ scan - 1 \in 0..Len(buffer) /\ log = SubSeq(buffer, 1, scan - 1)
          /\ \A k \in 1..Len(buffer) : buffer[k].id # req.id
      BY <1>1, <1>6, LogFacts DEF IInv, TypeOK, CompactOK, Compact, RestoredOK
    <2>2. \A i \in Ids : Read(log, i) \in {Read(buffer, i), None}
      BY <1>1, <2>1, ReadPrefix
    <2>3. Read(buffer, req.id) = None
      BY <2>1 DEF Read, Indexes
    <2>4. \A i \in Ids : Meant(i) = IF i = req.id THEN req.val ELSE Read(buffer, i)
      BY <1>6, MeantLog
    <2>5. \A i \in Ids : Meant(i)' \in {Meant(i)} \cup IF i \in Ids THEN {None, Torn} ELSE {}
      BY <1>2, <2>2, <2>3, <2>4
    <2> QED
      BY <1>1, <1>3, <1>6, <2>5 DEF Store!Fail, Store!AtRisk
  <1> QED
    BY <1>1, <1>4, <1>5, <1>6

LEMMA StopInRestoreStore == ASSUME IInv, StopInRestore PROVE Store!Fail
PROOF
  <1> DEFINE e == [buffer[scan] EXCEPT !.val = Torn]
  <1>1. /\ pc = "restore" /\ pc' = "idle" /\ req' = req /\ result' = "failed"
        /\ log' = Append(log, e) /\ scan \in 1..Len(buffer) /\ scan - 1 \in 0..Len(buffer)
        /\ log \in Seq(Entries) /\ buffer \in Seq(Entries) /\ HasLast(log) /\ req.id \in Ids
        /\ log = SubSeq(buffer, 1, scan - 1)
    BY LogFacts DEF IInv, TypeOK, LogOK, RestoredOK, StopInRestore, Stopped, Objects
  <1>2. OneEach(buffer) /\ \A k \in 1..Len(buffer) : buffer[k].id # req.id
    BY <1>1 DEF IInv, CompactOK, Compact
  <1>3. e \in Entries /\ e.val = Torn /\ e.id # req.id
    BY <1>1, <1>2, LogFacts DEF Entries
  <1> HIDE DEF e
  <1>4. \A i \in Ids : Read(log', i) = IF i = e.id THEN Torn ELSE Read(log, i)
    BY <1>1, <1>3, ReadAppend
  <1>5. HasLast(log')
    BY <1>1, <1>3, ReadAppend
  <1>6. \A i \in Ids : Read(log, i) \in {Read(buffer, i), None}
    BY <1>1, <1>2, ReadPrefix
  <1>7. Read(buffer, req.id) = None
    BY <1>2 DEF Read, Indexes
  <1>8. \A i \in Ids : Meant(i) = IF i = req.id THEN req.val ELSE Read(buffer, i)
    BY <1>1, MeantLog
  <1>9. \A i \in Ids : Meant(i)' = Read(log', i)
    BY <1>1, MeantLogNext
  <1>10. \A i \in Ids : Meant(i)' \in {Meant(i)} \cup IF i \in Ids THEN {None, Torn} ELSE {}
    BY <1>4, <1>6, <1>7, <1>8, <1>9
  <1>11. \A i \in Ids : Meant(i)' \in Values \cup {None, Torn}
    <2>1. \A i \in Ids : Read(log, i) \in Values \cup {None, Torn}
      BY <1>1, ReadType
    <2> QED
      BY <1>4, <1>9, <2>1
  <1>12. [i \in Ids |-> Meant(i)]' \in [Ids -> Values \cup {None, Torn}]
    BY <1>11
  <1> QED
    BY <1>1, <1>10, <1>12 DEF Store!Fail, Store!AtRisk

LEMMA StepStore == IInv /\ [Next]_vars => [Store!Next]_Store!vars
PROOF
  <1> SUFFICES ASSUME IInv, [Next]_vars PROVE Store!Next \/ UNCHANGED Store!vars
    BY DEF Store!vars
  <1> USE DEF Store!Next
  <1>1. CASE UNCHANGED vars
    BY <1>1 DEF vars, Store!vars, Meant, Read, Indexes, LastIndex
  <1>2. ASSUME NEW o \in Objects, SaveSame(o) PROVE Store!Next
    BY <1>2, SaveSameStore DEF Objects, Store!Objects
  <1>3. ASSUME NEW o \in Objects, Save(o) PROVE Store!Next
    BY <1>3, SaveStore DEF Objects, Store!Objects
  <1>4. CASE PackCopy
    BY <1>4, PackCopyStore
  <1>5. CASE PackErase
    BY <1>5, PackEraseStore
  <1>6. CASE Restore
    BY <1>6, RestoreStore
  <1>7. CASE WriteHead
    BY <1>7, WriteHeadStore
  <1>8. CASE WriteBody
    BY <1>8, WriteBodyStore
  <1>9. CASE Stop
    BY <1>9, StopStore
  <1>10. CASE StopInRestore
    BY <1>10, StopInRestoreStore
  <1> QED
    BY <1>1, <1>2, <1>3, <1>4, <1>5, <1>6, <1>7, <1>8, <1>9, <1>10 DEF Next

\* Saved objects are kept, by id, through any number of packs; a save that is
\* cut short damages its own object, and others only from the erase of the
\* sector until the copy is written back.
THEOREM StoreKept == Spec => ImplementsConfigStore
PROOF
  <1>1. Init => Store!Init
    BY InitStore
  <1>2. IInv /\ [Next]_vars => [Store!Next]_Store!vars
    BY StepStore
  <1> QED
    BY <1>1, <1>2, Invariant, PTL DEF Spec, ImplementsConfigStore, Store!Spec
=============================================================================
