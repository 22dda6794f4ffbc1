---------------------------- MODULE HistoryProofs ---------------------------
(***************************************************************************)
(* The two rings, for every capacity: the history implements its contract, *)
(* the web API sends it whole, and the event log, which appends without a  *)
(* lock, keeps its indexes in range and what no other append disturbed.    *)
(***************************************************************************)
EXTENDS HistoryApi, EventLog, SequenceTheorems, WellFoundedInduction, TLAPS

\* One step past the end of the ring wraps once.
LEMMA Wrap ==
    \A n, a \in Int : n > 0 /\ 0 <= a /\ a < n + n
                         => a % n = IF a < n THEN a ELSE a - n
<1> SUFFICES ASSUME NEW n \in Int, NEW a \in Int, n > 0, 0 <= a, a < n + n
             PROVE  a % n = IF a < n THEN a ELSE a - n
  OBVIOUS
<1>1. CASE a < n
  BY <1>1
<1>2. CASE ~(a < n)
  BY <1>2
<1> QED
  BY <1>1, <1>2

\* Where the i-th oldest of c records lies in a ring of d, when the next one
\* goes to h.
SlotAt(d, h, c, i) == (h + d - c + i - 1) % d

LEMMA SlotInRing ==
    ASSUME NEW d \in Nat \ {0}, NEW h \in 0 .. d - 1, NEW c \in 0 .. d,
           NEW i \in 1 .. c
    PROVE  /\ SlotAt(d, h, c, i) \in 0 .. d - 1
           /\ SlotAt(d, h, c, i) = IF h + d - c + i - 1 < d
                                   THEN h + d - c + i - 1
                                   ELSE h - c + i - 1
<1>1. d \in Nat \ {0}
  OBVIOUS
<1>2. /\ h + d - c + i - 1 \in Int
      /\ 0 <= h + d - c + i - 1
      /\ h + d - c + i - 1 < d + d
  BY <1>1
<1>3. SlotAt(d, h, c, i) = IF h + d - c + i - 1 < d
                        THEN h + d - c + i - 1
                        ELSE h + d - c + i - 1 - d
  BY <1>1, <1>2, Wrap DEF SlotAt
<1> QED
  BY <1>1, <1>2, <1>3

RecordsInSlots ==
    \A i \in 1 .. count : Contents[i] = buf[SlotAt(Depth, head, count, i)]

LEMMA ContentsAt == TypeOK => RecordsInSlots
<1> SUFFICES ASSUME TypeOK, NEW i \in 1 .. count
             PROVE  Contents[i] = buf[SlotAt(Depth, head, count, i)]
  BY DEF RecordsInSlots
<1>1. Depth \in Nat \ {0} /\ head \in 0 .. Depth - 1 /\ count \in 0 .. Depth
  BY HistoryAssumption DEF TypeOK
<1>2. Contents[i] = At(i - 1)
  BY <1>1 DEF Contents
<1>3. At(i - 1) = buf[(head + Depth - count + (i - 1)) % Depth]
  BY <1>1 DEF At
<1>4. head + Depth - count + (i - 1) = head + Depth - count + i - 1
  BY <1>1
<1> QED
  BY <1>2, <1>3, <1>4 DEF SlotAt

LEMMA ContentsAtNext == TypeOK' => RecordsInSlots'
  BY ContentsAt, PTL

LEMMA ContentsType ==
    ASSUME TypeOK
    PROVE  /\ Contents \in Seq(HistoryRecord)
           /\ Len(Contents) = count
           /\ DOMAIN Contents = 1 .. count
<1>1. count \in Nat
  BY HistoryAssumption DEF TypeOK
<1>2. \A i \in 1 .. count : Contents[i] \in HistoryRecord
  <2> SUFFICES ASSUME NEW i \in 1 .. count PROVE Contents[i] \in HistoryRecord
    OBVIOUS
  <2>1. SlotAt(Depth, head, count, i) \in 0 .. Depth - 1
    BY SlotInRing, HistoryAssumption DEF TypeOK
  <2> QED
    BY <2>1, ContentsAt DEF TypeOK, RecordsInSlots
<1>3. DOMAIN Contents = 1 .. count /\ Contents = [i \in 1 .. count |-> Contents[i]]
  BY DEF Contents
<1>4. Contents \in [1 .. count -> HistoryRecord]
  BY <1>2, <1>3
<1> QED
  BY <1>1, <1>3, <1>4

LEMMA TypeInit == Init => TypeOK
  BY HistoryAssumption
     DEF Init, TypeOK, HistoryRecord, Average, Snapshot, kEmpty, NoSnapshot,
         AtRest, EventFlags

\* The record AppendRecords writes.
NewRecord == [inner |-> avg.inner, outer |-> avg.outer,
              flags |-> FlagsOf(recorder.s) \cup windowFlags]

LEMMA NewRecordTyped == ASSUME TypeOK PROVE NewRecord \in HistoryRecord
  BY DEF TypeOK, NewRecord, HistoryRecord, FlagsOf, Snapshot, StateFlags,
         Average

LEMMA TypeStep == TypeOK /\ [Next]_vars => TypeOK'
<1> SUFFICES ASSUME TypeOK, [Next]_vars PROVE TypeOK'
  OBVIOUS
<1>1. CASE MeasurementCycle
  BY <1>1 DEF MeasurementCycle, TypeOK, ring, Snapshot, Average
<1>2. CASE \E f \in MailFlags : AddWindowFlags(f)
  BY <1>2 DEF AddWindowFlags, TypeOK, ring, EventFlags
<1>3. CASE AppendCopies
  BY <1>3 DEF AppendCopies, TypeOK, ring
<1>4. CASE AppendRecords
  <2>1. buf' \in [0 .. Depth - 1 -> HistoryRecord]
    BY <1>4, NewRecordTyped DEF AppendRecords, NewRecord, TypeOK
  <2>2. head' \in 0 .. Depth - 1
    BY <1>4, HistoryAssumption DEF AppendRecords, TypeOK
  <2>3. count' \in 0 .. Depth
    BY <1>4, HistoryAssumption DEF AppendRecords, TypeOK
  <2>4. /\ windowFlags' \subseteq EventFlags
        /\ avg' = avg /\ snapshot' = snapshot
        /\ recorder' \in [pc : {"idle", "append"}, s : Snapshot]
    BY <1>4 DEF AppendRecords, AtRest, NoSnapshot, Snapshot, Average, TypeOK
  <2> QED
    BY <2>1, <2>2, <2>3, <2>4 DEF TypeOK
<1>5. CASE UNCHANGED vars
  BY <1>5 DEF vars, ring, TypeOK
<1> QED
  BY <1>1, <1>2, <1>3, <1>4, <1>5 DEF Next

-----------------------------------------------------------------------------
(* Appending to the ring is appending to the sequence it holds.            *)

\* Where head and count are after an append, and which entry of before is then
\* the i-th.
NextHead(d, h)      == (h + 1) % d
NextCount(d, c)     == IF c < d THEN c + 1 ELSE c
FromBefore(d, c, i) == IF c < d THEN i ELSE i + 1

LEMMA SlotShift ==
    ASSUME NEW d \in Nat \ {0}, NEW h \in 0 .. d - 1, NEW c \in 0 .. d,
           NEW i \in 1 .. NextCount(d, c)
    PROVE  LET after == SlotAt(d, NextHead(d, h), NextCount(d, c), i)
               j     == FromBefore(d, c, i)
           IN  /\ after \in 0 .. d - 1
               /\ i = NextCount(d, c) => after = h
               /\ i < NextCount(d, c) => /\ j \in 1 .. c
                                         /\ after # h
                                         /\ after = SlotAt(d, h, c, j)
<1> DEFINE h2 == NextHead(d, h)
           c2 == NextCount(d, c)
           j  == FromBefore(d, c, i)
<1>0. /\ h2 = (h + 1) % d
      /\ c2 = IF c < d THEN c + 1 ELSE c
      /\ j = IF c < d THEN i ELSE i + 1
      /\ i \in 1 .. c2
  BY DEF NextHead, NextCount, FromBefore
<1> HIDE DEF h2, c2, j
<1>1. d \in Nat \ {0}
  OBVIOUS
<1>2. (h + 1) % d = IF h + 1 < d THEN h + 1 ELSE h + 1 - d
  BY <1>1, Wrap
<1>3. h2 = IF h + 1 < d THEN h + 1 ELSE 0
  BY <1>0, <1>1, <1>2
<1>4. h2 \in 0 .. d - 1 /\ c2 \in 0 .. d
  BY <1>0, <1>1, <1>3
<1>5. /\ SlotAt(d, h2, c2, i) \in 0 .. d - 1
      /\ SlotAt(d, h2, c2, i) = IF h2 + d - c2 + i - 1 < d
                                THEN h2 + d - c2 + i - 1
                                ELSE h2 - c2 + i - 1
  BY <1>0, <1>4, SlotInRing
<1>6. i = c2 => SlotAt(d, h2, c2, i) = h
  BY <1>0, <1>1, <1>3, <1>4, <1>5
<1>7. ASSUME i < c2
      PROVE  /\ j \in 1 .. c
             /\ SlotAt(d, h2, c2, i) # h
             /\ SlotAt(d, h2, c2, i) = SlotAt(d, h, c, j)
  <2>1. j \in 1 .. c
    BY <1>0, <1>1, <1>4, <1>7
  <2>2. SlotAt(d, h, c, j) = IF h + d - c + j - 1 < d
                             THEN h + d - c + j - 1
                             ELSE h - c + j - 1
    BY <2>1, SlotInRing
  <2>3. SlotAt(d, h2, c2, i) # h
    BY <1>0, <1>1, <1>3, <1>4, <1>5, <1>7
  <2>4. SlotAt(d, h2, c2, i) = SlotAt(d, h, c, j)
    BY <1>0, <1>1, <1>3, <1>4, <1>5, <1>7, <2>1, <2>2
  <2> QED
    BY <2>1, <2>3, <2>4
<1> QED
  BY <1>5, <1>6, <1>7 DEF h2, c2, j

LEMMA AppendSlots ==
    ASSUME TypeOK, TypeOK', AppendRecords, NEW i \in 1 .. count'
    PROVE  LET j == IF count < Depth THEN i ELSE i + 1
           IN  /\ i = count' => Contents'[i] = NewRecord
               /\ i < count' => j \in 1 .. count /\ Contents'[i] = Contents[j]
<1> DEFINE j     == IF count < Depth THEN i ELSE i + 1
           after == SlotAt(Depth, head', count', i)
<1>1. /\ buf \in [0 .. Depth - 1 -> HistoryRecord]
      /\ head \in 0 .. Depth - 1 /\ count \in 0 .. Depth
  BY DEF TypeOK
<1>2. /\ buf' = [buf EXCEPT ![head] = NewRecord]
      /\ head' = (head + 1) % Depth
      /\ count' = IF count < Depth THEN count + 1 ELSE count
  BY DEF AppendRecords, NewRecord
<1>3. /\ after \in 0 .. Depth - 1
      /\ i = count' => after = head
      /\ i < count' => /\ j \in 1 .. count
                       /\ after # head
                       /\ after = SlotAt(Depth, head, count, j)
  <2>1. Depth \in Nat \ {0}
    BY HistoryAssumption
  <2>2. /\ head' = NextHead(Depth, head)
        /\ count' = NextCount(Depth, count)
        /\ j = FromBefore(Depth, count, i)
    BY <1>2 DEF NextHead, NextCount, FromBefore
  <2> HIDE DEF j
  <2> QED
    BY <1>1, <2>1, <2>2, SlotShift
<1>4. Contents'[i] = buf'[after]
  BY ContentsAtNext DEF RecordsInSlots
<1>5. ASSUME i < count' PROVE j \in 1 .. count /\ Contents'[i] = Contents[j]
  <2>1. buf'[after] = buf[SlotAt(Depth, head, count, j)]
    BY <1>1, <1>2, <1>3, <1>5
  <2> QED
    BY <1>3, <1>4, <1>5, <2>1, ContentsAt DEF RecordsInSlots
<1>6. i = count' => Contents'[i] = NewRecord
  BY <1>1, <1>2, <1>3, <1>4
<1> QED
  BY <1>5, <1>6

LEMMA SequenceIsFunction ==
    ASSUME NEW S, NEW s \in Seq(S), NEW n \in Nat, Len(s) = n
    PROVE  s = [i \in 1 .. n |-> s[i]]
  OBVIOUS

LEMMA TailIsShift ==
    ASSUME NEW S, NEW s \in Seq(S), NEW n \in Nat, Len(s) = n + 1
    PROVE  Tail(s) = [i \in 1 .. n |-> s[i + 1]]
<1>1. s # <<>>
  OBVIOUS
<1>2. Tail(s) \in Seq(S) /\ Len(Tail(s)) = n
  BY <1>1
<1>3. \A i \in 1 .. n : Tail(s)[i] = s[i + 1]
  BY <1>1
<1> QED
  BY <1>2, <1>3, SequenceIsFunction

LEMMA AppendIsAppend ==
    ASSUME TypeOK, TypeOK', AppendRecords
    PROVE  Contents' = Keeps!LastItems(Append(Contents, NewRecord))
<1> DEFINE longer == Append(Contents, NewRecord)
           last   == Keeps!LastItems(longer)
<1>1. /\ Contents \in Seq(HistoryRecord) /\ NewRecord \in HistoryRecord
      /\ Len(Contents) = count /\ DOMAIN Contents = 1 .. count
      /\ count \in 0 .. Depth /\ Depth \in Nat \ {0}
  BY ContentsType, NewRecordTyped, HistoryAssumption DEF TypeOK
<1>2. DOMAIN Contents' = 1 .. count' /\ Contents' = [i \in 1 .. count' |-> Contents'[i]]
  BY DEF Contents
<1>3. count' = IF count < Depth THEN count + 1 ELSE count
  BY DEF AppendRecords
<1>4. /\ longer \in Seq(HistoryRecord) /\ Len(longer) = count + 1
      /\ \A i \in 1 .. count : longer[i] = Contents[i]
      /\ longer[count + 1] = NewRecord
  BY <1>1
<1>5. CASE count < Depth
  <2>1. last = longer
    BY <1>1, <1>4, <1>5 DEF Keeps!LastItems
  <2>2. \A i \in 1 .. count' : Contents'[i] = longer[i]
    BY <1>1, <1>3, <1>4, <1>5, AppendSlots
  <2>3. longer = [i \in 1 .. count' |-> longer[i]]
    <3>1. count' = count + 1 /\ count + 1 \in Nat
      BY <1>1, <1>3, <1>5
    <3> QED
      BY <1>4, <3>1, SequenceIsFunction
  <2> QED
    BY <1>2, <2>1, <2>2, <2>3
<1>6. CASE count = Depth
  <2>1. last = Tail(longer)
    BY <1>1, <1>4, <1>6 DEF Keeps!LastItems
  <2>2. last = [i \in 1 .. count' |-> longer[i + 1]]
    <3>1. count' = count /\ count \in Nat
      BY <1>1, <1>3, <1>6
    <3> QED
      BY <1>4, <2>1, <3>1, TailIsShift
  <2>3. \A i \in 1 .. count' : Contents'[i] = longer[i + 1]
    BY <1>1, <1>3, <1>4, <1>6, AppendSlots
  <2> QED
    BY <1>2, <2>2, <2>3
<1> QED
  BY <1>1, <1>5, <1>6

-----------------------------------------------------------------------------
(* The history implements its contract.                                     *)

LEMMA HistoryInit == Init => Keeps!Init
  BY HistoryAssumption DEF Init, Keeps!Init, Contents, EventFlags

LEMMA HistoryStep ==
    TypeOK /\ TypeOK' /\ [Next]_vars
        => [Keeps!Next]_<<Contents, windowFlags>>
<1> SUFFICES ASSUME TypeOK, TypeOK', [Next]_vars
             PROVE  Keeps!Next \/ UNCHANGED <<Contents, windowFlags>>
  OBVIOUS
<1>1. ASSUME UNCHANGED ring PROVE UNCHANGED Contents
  BY <1>1 DEF ring, Contents, At
<1>2. CASE MeasurementCycle
  BY <1>1, <1>2 DEF MeasurementCycle
<1>3. CASE AppendCopies
  BY <1>1, <1>3 DEF AppendCopies
<1>4. ASSUME NEW f \in MailFlags, AddWindowFlags(f)
      PROVE  Keeps!Next
  <2>1. f \in EventFlags /\ Keeps!Report(f)
    BY <1>1, <1>4 DEF AddWindowFlags, Keeps!Report, EventFlags
  <2> QED
    BY <2>1 DEF Keeps!Next
<1>5. CASE AppendRecords
  <2>1. /\ avg.inner \in Average /\ avg.outer \in Average
        /\ FlagsOf(recorder.s) \in SUBSET StateFlags
    BY DEF TypeOK, FlagsOf, Snapshot, StateFlags
  <2>2. Keeps!Record(avg.inner, avg.outer, FlagsOf(recorder.s))
    BY <1>5, AppendIsAppend DEF Keeps!Record, NewRecord, AppendRecords
  <2> QED
    BY <2>1, <2>2 DEF Keeps!Next
<1>6. CASE UNCHANGED vars
  BY <1>1, <1>6 DEF vars
<1> QED
  BY <1>2, <1>3, <1>4, <1>5, <1>6 DEF Next

\* history_buffer.h:17-19 and main.cpp:824-825, whatever the capacity: the ring
\* is the sequence of the last Depth records, and each event the mail task
\* reports is in exactly the next of them.
THEOREM HistoryImplements == Spec => HistoryIsKept
<1>1. Spec => []TypeOK
  BY TypeInit, TypeStep, PTL DEF Spec
<1> QED
  BY <1>1, HistoryInit, HistoryStep, PTL
     DEF Spec, HistoryIsKept, Keeps!Spec

-----------------------------------------------------------------------------
(* What a record says of itself.                                            *)

\* Why it may combine the two sources: they agree, and Core 1 alone changes
\* either.
SourcesAgree ==
    /\ snapshot.inner = avg.inner /\ snapshot.outer = avg.outer
    /\ recorder.pc = "append" => recorder.s = snapshot

HistoryInv == TypeOK /\ SourcesAgree /\ FlagsMatchTemperatures

LEMMA HistoryInvInit == Init => HistoryInv
  BY TypeInit
     DEF Init, HistoryInv, SourcesAgree, FlagsMatchTemperatures, NoSnapshot,
         AtRest

LEMMA NewRecordMatches ==
    ASSUME TypeOK, SourcesAgree, AppendRecords
    PROVE  /\ "InnerInvalid" \in NewRecord.flags <=> NewRecord.inner = NoTemp
           /\ "OuterInvalid" \in NewRecord.flags <=> NewRecord.outer = NoTemp
<1>1. /\ recorder.s \in Snapshot /\ windowFlags \subseteq EventFlags
      /\ recorder.s.inner = avg.inner /\ recorder.s.outer = avg.outer
  BY DEF TypeOK, SourcesAgree, AppendRecords
<1>2. /\ {"InnerInvalid", "OuterInvalid"} \cap EventFlags = {}
      /\ {"InnerInvalid", "OuterInvalid"} \cap AlarmFlags = {}
  BY HistoryAssumption DEF EventFlags
<1> QED
  BY <1>1, <1>2 DEF NewRecord, FlagsOf, Snapshot

LEMMA HistoryInvStep == HistoryInv /\ [Next]_vars => HistoryInv'
<1> SUFFICES ASSUME HistoryInv, [Next]_vars PROVE HistoryInv'
  OBVIOUS
<1>1. TypeOK /\ SourcesAgree /\ FlagsMatchTemperatures /\ TypeOK'
  BY TypeStep DEF HistoryInv
<1>2. ASSUME UNCHANGED ring PROVE FlagsMatchTemperatures'
  BY <1>1, <1>2 DEF ring, Contents, At, FlagsMatchTemperatures
<1>3. CASE MeasurementCycle
  BY <1>1, <1>2, <1>3 DEF MeasurementCycle, HistoryInv, SourcesAgree
<1>4. CASE \E f \in MailFlags : AddWindowFlags(f)
  BY <1>1, <1>2, <1>4 DEF AddWindowFlags, HistoryInv, SourcesAgree
<1>5. CASE AppendCopies
  BY <1>1, <1>2, <1>5 DEF AppendCopies, HistoryInv, SourcesAgree
<1>6. CASE AppendRecords
  <2>1. SourcesAgree'
    BY <1>1, <1>6 DEF AppendRecords, AtRest, SourcesAgree
  <2>2. ASSUME NEW i \in 1 .. count'
        PROVE  /\ "InnerInvalid" \in Contents'[i].flags
                    <=> Contents'[i].inner = NoTemp
               /\ "OuterInvalid" \in Contents'[i].flags
                    <=> Contents'[i].outer = NoTemp
    <3>1. CASE i = count'
      <4>1. Contents'[i] = NewRecord
        BY <1>1, <1>6, <3>1, AppendSlots
      <4> QED
        BY <1>1, <1>6, <4>1, NewRecordMatches
    <3>2. CASE i < count'
      <4>1. PICK j \in 1 .. count : Contents'[i] = Contents[j]
        BY <1>1, <1>6, <3>2, AppendSlots
      <4> QED
        BY <1>1, <4>1 DEF FlagsMatchTemperatures
    <3>3. i = count' \/ i < count'
      BY <1>1 DEF TypeOK
    <3> QED
      BY <3>1, <3>2, <3>3
  <2> QED
    BY <1>1, <2>1, <2>2 DEF HistoryInv, FlagsMatchTemperatures
<1>7. CASE UNCHANGED vars
  BY <1>1, <1>2, <1>7 DEF vars, HistoryInv, SourcesAgree
<1> QED
  BY <1>3, <1>4, <1>5, <1>6, <1>7 DEF Next

\* main.cpp:815-822, whatever the capacity and the alarms: every record flags
\* exactly the temperatures it lacks.
THEOREM FlagsAlwaysMatch == Spec => []FlagsMatchTemperatures
  BY HistoryInvInit, HistoryInvStep, PTL DEF Spec, HistoryInv

\* The state keeps its types, whatever the constants.
THEOREM HistoryTypeOK == Spec => []TypeOK
  BY TypeInit, TypeStep, PTL DEF Spec

-----------------------------------------------------------------------------
(* The web API.  It reads the ring and changes none of it.                 *)

LEMMA ApiOnlyReadsStep == [ANext]_aVars => [Next]_vars
  BY DEF ANext, aVars, ApiCopies, ApiWritesRecord, ApiEnds

LEMMA ApiOnlyReads == ASpec => Spec
<1>1. AInit => Init
  BY DEF AInit
<1> QED
  BY <1>1, ApiOnlyReadsStep, PTL DEF ASpec, Spec

\* The longest record, with its comma, and room for as many as the ring holds.
MaxRecord == 1 + RecordLen + 2 * TempLen
RoomForAll == HeadLen + Depth * MaxRecord + TailLen < Cap

ApiRecord == [pc : {"idle", "loop", "sent", "error"},
              doc : Seq(HistoryRecord), len : Nat]

\* The document is a prefix of the copy, as long as the whole is at this record;
\* and each record has added at most MaxRecord to its length.
ApiInv ==
    /\ TypeOK
    /\ scratch \in Seq(HistoryRecord) /\ Len(scratch) <= Depth
    /\ asked = scratch
    /\ api \in ApiRecord
    /\ Len(api.doc) <= Len(scratch)
    /\ \A i \in 1 .. Len(api.doc) : api.doc[i] = scratch[i]
    /\ api.pc = "sent" => Len(api.doc) = Len(scratch)
    /\ api.pc = "loop" => /\ HeadLen < Cap
                          /\ api.len <= HeadLen + Len(api.doc) * MaxRecord
                          /\ api.len = Upto(scratch)[Len(api.doc)]
    /\ NoOverrun
    /\ api.pc = "error" => DocumentLen(scratch) >= Cap
    /\ RoomForAll => api.pc # "error"

\* n records and one more; and no more of them than the ring holds.
LEMMA OneMoreRecord ==
    ASSUME NEW n \in Nat, NEW d \in Nat, NEW m \in Nat
    PROVE  /\ (n + 1) * m = n * m + m
           /\ n <= d => n * m <= d * m
           /\ n < d  => n * m + m <= d * m
           /\ n * m \in Nat
<1>1. (n + 1) * m = n * m + m
  OBVIOUS
<1>2. ASSUME NEW k \in Nat PROVE k * m \in Nat
  BY <1>2
<1>3. ASSUME n <= d PROVE n * m <= d * m
  <2>1. d - n \in Nat /\ d = n + (d - n)
    BY <1>3
  <2>2. d * m = n * m + (d - n) * m
    BY <2>1
  <2>3. (d - n) * m \in Nat
    BY <1>2, <2>1
  <2> QED
    BY <1>2, <2>2, <2>3
<1>4. ASSUME n < d PROVE n * m + m <= d * m
  <2>1. d - (n + 1) \in Nat /\ d = (n + 1) + (d - (n + 1))
    BY <1>4
  <2>2. d * m = (n + 1) * m + (d - (n + 1)) * m
    BY <2>1
  <2>3. (d - (n + 1)) * m \in Nat
    BY <1>2, <2>1
  <2> QED
    BY <1>1, <1>2, <2>2, <2>3
<1> QED
  BY <1>1, <1>2, <1>3, <1>4

LEMMA RecordFits ==
    ASSUME NEW r \in HistoryRecord, NEW first \in BOOLEAN
    PROVE  SizeOf(r, first) \in Nat /\ SizeOf(r, first) <= MaxRecord
<1>1. /\ RecordLen \in Nat /\ TempLen \in Nat /\ NullLen \in Nat
      /\ NullLen <= TempLen
  BY ApiAssumption
<1>2. /\ TextLen(r.inner) \in Nat /\ TextLen(r.inner) <= TempLen
      /\ TextLen(r.outer) \in Nat /\ TextLen(r.outer) <= TempLen
  BY <1>1 DEF TextLen
<1> QED
  BY <1>1, <1>2 DEF SizeOf, MaxRecord

LEMMA Lengths ==
    /\ Cap \in Nat \ {0} /\ HeadLen \in Nat /\ TailLen \in Nat
    /\ MaxRecord \in Nat /\ Depth \in Nat \ {0}
<1>1. RecordLen \in Nat /\ TempLen \in Nat
  BY ApiAssumption
<1> QED
  BY <1>1, ApiAssumption, HistoryAssumption DEF MaxRecord

-----------------------------------------------------------------------------
(* Induction over the natural numbers, for sets *)

LEMMA LeastNatural ==
    ASSUME NEW T \in SUBSET Nat, T # {}
    PROVE  \E n \in T : \A m \in T : n <= m
<1> DEFINE R == OpToRel(<, Nat)
<1>1. IsWellFoundedOn(R, Nat)
  BY NatLessThanWellFounded
<1>2. \A x, y \in Nat : x < y => <<x, y>> \in R
  BY DEF OpToRel
<1> HIDE DEF R
<1>3. PICK n \in T : \A m \in T : ~ (<<m, n>> \in R)
  BY <1>1, WFMin
<1>4. \A m \in T : ~ (m < n)
  BY <1>2, <1>3
<1> QED
  BY <1>4

LEMMA SetInduction ==
    ASSUME NEW S \in SUBSET Nat, 0 \in S, \A n \in S : n + 1 \in S
    PROVE  S = Nat
<1> DEFINE T == Nat \ S
<1> SUFFICES ASSUME T # {} PROVE FALSE
  OBVIOUS
<1>1. PICK n \in T : \A m \in T : n <= m
  BY LeastNatural
<1>2. n # 0 /\ n - 1 \in Nat
  OBVIOUS
<1>3. n - 1 \in S
  BY <1>1, <1>2
<1> QED
  BY <1>1, <1>3

-----------------------------------------------------------------------------
(* The length of a document *)

\* f is what the loop of serializeHistory has written after up to n records.
Loop(s, f, n) ==
    f = [i \in 0 .. n |-> IF i = 0 THEN HeadLen
                          ELSE f[i - 1] + SizeOf(s[i], i = 1)]

LEMMA LoopRuns == ASSUME NEW s, NEW n \in Nat PROVE \E f : Loop(s, f, n)
<1> DEFINE S == {m \in Nat : \E f : Loop(s, f, m)}
<1>1. 0 \in S
  <2>1. Loop(s, [i \in 0 .. 0 |-> HeadLen], 0)
    BY DEF Loop
  <2> QED
    BY <2>1
<1>2. \A m \in S : m + 1 \in S
  <2> SUFFICES ASSUME NEW m \in Nat, NEW f, Loop(s, f, m)
               PROVE  \E g : Loop(s, g, m + 1)
    OBVIOUS
  <2> DEFINE g == [i \in 0 .. m + 1 |->
                       IF i <= m THEN f[i]
                       ELSE f[m] + SizeOf(s[m + 1], m + 1 = 1)]
  <2>1. \A i \in 0 .. m : f[i] = IF i = 0 THEN HeadLen
                                 ELSE f[i - 1] + SizeOf(s[i], i = 1)
    BY DEF Loop
  <2>2. \A i \in 0 .. m : g[i] = f[i]
    OBVIOUS
  <2>3. g[m + 1] = f[m] + SizeOf(s[m + 1], m + 1 = 1)
    OBVIOUS
  <2>4. ASSUME NEW i \in 0 .. m + 1
        PROVE  g[i] = IF i = 0 THEN HeadLen ELSE g[i - 1] + SizeOf(s[i], i = 1)
    <3>1. CASE i \in 0 .. m
      <4>1. i # 0 => i - 1 \in 0 .. m
        BY <3>1
      <4> HIDE DEF g
      <4> QED
        BY <2>1, <2>2, <3>1, <4>1
    <3>2. CASE i = m + 1
      <4>1. i # 0 /\ i - 1 = m /\ m \in 0 .. m
        BY <3>2
      <4> HIDE DEF g
      <4> QED
        BY <2>2, <2>3, <3>2, <4>1
    <3> QED
      BY <3>1, <3>2
  <2>5. DOMAIN g = 0 .. m + 1 /\ g = [i \in 0 .. m + 1 |-> g[i]]
    OBVIOUS
  <2> HIDE DEF g
  <2>6. Loop(s, g, m + 1)
    BY <2>4, <2>5 DEF Loop
  <2> QED
    BY <2>6
<1> HIDE DEF S
<1>3. S = Nat
  <2>1. S \in SUBSET Nat
    BY DEF S
  <2> QED
    BY <1>1, <1>2, <2>1, SetInduction
<1> QED
  BY <1>3 DEF S

LEMMA UptoLoop ==
    ASSUME NEW s \in Seq(HistoryRecord)
    PROVE  /\ Upto(s)[0] = HeadLen
           /\ \A i \in 1 .. Len(s) :
                  Upto(s)[i] = Upto(s)[i - 1] + SizeOf(s[i], i = 1)
<1>1. Len(s) \in Nat
  OBVIOUS
<1>2. \E f : Loop(s, f, Len(s))
  BY <1>1, LoopRuns
<1>3. Upto(s) = CHOOSE f : Loop(s, f, Len(s))
  BY DEF Upto, Loop
<1>4. Loop(s, Upto(s), Len(s))
  BY <1>2, <1>3
<1> QED
  BY <1>1, <1>4 DEF Loop

\* The more records, the longer.
LEMMA UptoGrows ==
    ASSUME NEW s \in Seq(HistoryRecord), NEW n \in 0 .. Len(s)
    PROVE  \A k \in n .. Len(s) : /\ Upto(s)[n] \in Nat
                                  /\ Upto(s)[k] \in Nat
                                  /\ Upto(s)[n] <= Upto(s)[k]
<1> DEFINE f == Upto(s)
           N == Len(s)
           S == {m \in Nat : m <= N =>
                     /\ f[m] \in Nat
                     /\ \A i \in 0 .. m : f[i] \in Nat /\ f[i] <= f[m]}
<1>1. N \in Nat /\ \A i \in 1 .. N : s[i] \in HistoryRecord
  OBVIOUS
<1>2. f[0] = HeadLen /\ \A i \in 1 .. N : f[i] = f[i - 1] + SizeOf(s[i], i = 1)
  BY UptoLoop
<1> HIDE DEF f, N
<1>3. 0 \in S
  BY <1>2, Lengths
<1>4. \A m \in S : m + 1 \in S
  <2> SUFFICES ASSUME NEW m \in Nat, m + 1 <= N, f[m] \in Nat,
                      \A i \in 0 .. m : f[i] \in Nat /\ f[i] <= f[m]
               PROVE  /\ f[m + 1] \in Nat
                      /\ \A i \in 0 .. m + 1 : f[i] \in Nat /\ f[i] <= f[m + 1]
    BY <1>1
  <2>1. m + 1 \in 1 .. N /\ (m + 1) - 1 = m
    BY <1>1
  <2>2. SizeOf(s[m + 1], m + 1 = 1) \in Nat
    BY <1>1, <2>1, RecordFits
  <2>3. f[m + 1] = f[m] + SizeOf(s[m + 1], m + 1 = 1)
    BY <1>2, <2>1
  <2>4. f[m + 1] \in Nat /\ f[m] <= f[m + 1]
    BY <2>2, <2>3
  <2>5. \A i \in 0 .. m + 1 : i \in 0 .. m \/ i = m + 1
    OBVIOUS
  <2> QED
    BY <2>4, <2>5
<1> HIDE DEF S
<1>5. S = Nat
  <2>1. S \in SUBSET Nat
    BY DEF S
  <2> QED
    BY <1>3, <1>4, <2>1, SetInduction
<1> SUFFICES ASSUME NEW k \in n .. N
             PROVE  f[n] \in Nat /\ f[k] \in Nat /\ f[n] <= f[k]
  BY DEF f, N
<1>6. k \in S /\ k <= N /\ n \in 0 .. k
  BY <1>1, <1>5 DEF N
<1> QED
  BY <1>6 DEF S

\* A history that does not fit as far as some record does not fit whole.
LEMMA WholeIsLonger ==
    ASSUME NEW s \in Seq(HistoryRecord), NEW n \in 0 .. Len(s),
           Upto(s)[n] >= Cap
    PROVE  DocumentLen(s) >= Cap
<1>1. Len(s) \in n .. Len(s)
  OBVIOUS
<1>2. /\ Upto(s)[n] \in Nat /\ Upto(s)[Len(s)] \in Nat
      /\ Upto(s)[n] <= Upto(s)[Len(s)]
  BY <1>1, UptoGrows
<1> QED
  BY <1>2, Lengths DEF DocumentLen

-----------------------------------------------------------------------------
(* The invariant of the web API *)

LEMMA ApiInit == AInit => ApiInv
<1> SUFFICES ASSUME AInit PROVE ApiInv
  OBVIOUS
<1>1. TypeOK
  BY TypeInit DEF AInit
<1>2. <<>> \in Seq(HistoryRecord) /\ Len(<<>>) = 0
  OBVIOUS
<1>3. Asleep \in ApiRecord
  BY <1>2 DEF Asleep, ApiRecord
<1> QED
  BY <1>1, <1>2, <1>3, Lengths DEF AInit, ApiInv, Asleep, NoOverrun

LEMMA ApiStep == ApiInv /\ [ANext]_aVars => ApiInv'
<1> SUFFICES ASSUME ApiInv, [ANext]_aVars PROVE ApiInv'
  OBVIOUS
<1>1. TypeOK /\ TypeOK'
  BY ApiOnlyReadsStep, TypeStep DEF ApiInv
<1>2. CASE (Next \/ UNCHANGED vars) /\ UNCHANGED apiVars
  BY <1>1, <1>2 DEF apiVars, ApiInv, NoOverrun
<1>3. CASE ApiCopies
  <2>1. Contents \in Seq(HistoryRecord) /\ Len(Contents) <= Depth
    BY <1>1, ContentsType, HistoryAssumption DEF TypeOK
  <2>2. CASE HeadLen >= Cap
    <3>1. api' = [pc |-> "error", doc |-> <<>>, len |-> HeadLen]
      BY <1>3, <2>2 DEF ApiCopies
    <3>2. ~RoomForAll
      <4>1. Depth * MaxRecord \in Nat
        BY Lengths, OneMoreRecord
      <4> QED
        BY <2>2, <4>1, Lengths DEF RoomForAll
    <3>3. api' \in ApiRecord
      BY <3>1, Lengths DEF ApiRecord
    <3>4. DocumentLen(Contents) >= Cap
      BY <2>1, <2>2, Lengths, WholeIsLonger, UptoLoop
    <3>5. scratch' = Contents /\ asked' = Contents
      BY <1>3 DEF ApiCopies
    <3>6. DocumentLen(scratch)' >= Cap
      BY <3>4, <3>5 DEF DocumentLen, Upto, SizeOf, TextLen
    <3> QED
      BY <1>1, <2>1, <2>2, <3>1, <3>2, <3>3, <3>5, <3>6, Lengths
         DEF ApiInv, NoOverrun
  <2>3. CASE ~(HeadLen >= Cap)
    <3>1. api' = [pc |-> "loop", doc |-> <<>>, len |-> HeadLen]
      BY <1>3, <2>3 DEF ApiCopies
    <3>2. api' \in ApiRecord
      BY <3>1, Lengths DEF ApiRecord
    <3>3. 0 * MaxRecord = 0 /\ HeadLen < Cap
      BY <2>3, Lengths
    <3>4. api'.len <= HeadLen + Len(api'.doc) * MaxRecord
      BY <3>1, <3>3, Lengths
    <3>5. scratch' = Contents /\ asked' = Contents
      BY <1>3 DEF ApiCopies
    <3>6. api'.len = Upto(scratch')[Len(api'.doc)]
      BY <2>1, <3>1, <3>5, UptoLoop
    <3> QED
      BY <1>1, <2>1, <3>1, <3>2, <3>3, <3>4, <3>5, <3>6, Lengths
         DEF ApiInv, NoOverrun
  <2> QED
    BY <2>2, <2>3
<1>4. CASE ApiWritesRecord
  <2> DEFINE n == Len(api.doc)
             r == scratch[n + 1]
             size == SizeOf(r, api.doc = <<>>)
  <2>1. /\ api.pc = "loop" /\ n < Len(scratch) /\ HeadLen < Cap
        /\ api.len <= HeadLen + n * MaxRecord
        /\ api.len = Upto(scratch)[n] /\ scratch \in Seq(HistoryRecord)
        /\ scratch' = scratch /\ asked' = asked
        /\ n \in Nat /\ api.len \in Nat /\ api.len < Cap
    BY <1>4 DEF ApiWritesRecord, ApiInv, ApiRecord, NoOverrun
  <2>2. r \in HistoryRecord
    BY <2>1 DEF ApiInv
  <2>3. size \in Nat /\ size <= MaxRecord
    BY <2>2, RecordFits
  <2>4. n * MaxRecord + MaxRecord <= Depth * MaxRecord
        /\ (n + 1) * MaxRecord = n * MaxRecord + MaxRecord
        /\ n * MaxRecord \in Nat /\ Depth * MaxRecord \in Nat
    <3>1. n < Depth
      BY <2>1, Lengths DEF ApiInv
    <3> QED
      BY <2>1, <3>1, Lengths, OneMoreRecord
  <2>7. n + 1 \in 0 .. Len(scratch) /\ Upto(scratch)[n + 1] = api.len + size
    <3>1. n + 1 \in 1 .. Len(scratch) /\ (n + 1) - 1 = n
      BY <2>1
    <3>2. (api.doc = <<>>) = (n + 1 = 1)
      BY <2>1 DEF ApiInv, ApiRecord
    <3>3. Upto(scratch)[n + 1] = Upto(scratch)[n] + SizeOf(r, n + 1 = 1)
      BY <2>1, <3>1, UptoLoop
    <3> QED
      BY <2>1, <3>1, <3>2, <3>3
  <2>5. CASE size >= Cap - api.len
    <3>1. api' = [api EXCEPT !.pc = "error"]
      BY <1>4, <2>5 DEF ApiWritesRecord, Record
    <3>2. /\ api' \in ApiRecord /\ api'.pc = "error"
          /\ api'.doc = api.doc /\ api'.len = api.len
      BY <3>1 DEF ApiInv, ApiRecord
    <3>3. ~RoomForAll
      BY <2>1, <2>3, <2>4, <2>5, Lengths DEF RoomForAll
    <3>4. DocumentLen(scratch') >= Cap
      <4>1. api.len + size >= Cap
        BY <2>1, <2>3, <2>5, Lengths
      <4> QED
        BY <2>1, <2>7, <4>1, WholeIsLonger
    <3> HIDE DEF n, r, size
    <3> QED
      BY <1>1, <2>1, <3>2, <3>3, <3>4 DEF ApiInv, NoOverrun
  <2>6. CASE ~(size >= Cap - api.len)
    <3>1. api' = [pc |-> "loop", doc |-> Append(api.doc, r), len |-> api.len + size]
      BY <1>4, <2>6 DEF ApiWritesRecord, Record
    <3>2. Append(api.doc, r) \in Seq(HistoryRecord) /\ api.doc \in Seq(HistoryRecord)
      BY <2>2 DEF ApiInv, ApiRecord
    <3>3. Len(Append(api.doc, r)) = n + 1
          /\ \A i \in 1 .. n + 1 : Append(api.doc, r)[i] = scratch[i]
      BY <3>2 DEF ApiInv
    <3>4. api.len + size \in Nat /\ api.len + size < Cap
          /\ api.len + size <= HeadLen + (n + 1) * MaxRecord
      BY <2>1, <2>3, <2>4, <2>6, Lengths
    <3> HIDE DEF n, r, size
    <3>5. api' \in ApiRecord
      BY <3>1, <3>2, <3>4 DEF ApiRecord
    <3>6. n + 1 <= Len(scratch)
      BY <2>1 DEF ApiInv, n
    <3>7. api'.len = Upto(scratch')[Len(api'.doc)]
      BY <2>1, <2>7, <3>1, <3>3
    <3> QED
      BY <1>1, <2>1, <3>1, <3>3, <3>4, <3>5, <3>6, <3>7 DEF ApiInv, NoOverrun
  <2> QED
    BY <2>5, <2>6
<1>5. CASE ApiEnds
  <2>1. /\ api.pc = "loop" /\ Len(api.doc) = Len(scratch) /\ HeadLen < Cap
        /\ api.len <= HeadLen + Len(api.doc) * MaxRecord
        /\ api.len = Upto(scratch)[Len(scratch)]
        /\ scratch' = scratch /\ asked' = asked
        /\ api.len \in Nat /\ api.len < Cap /\ Len(api.doc) \in Nat
    BY <1>5 DEF ApiEnds, ApiInv, ApiRecord, NoOverrun
  <2>2. CASE TailLen >= Cap - api.len
    <3>1. api' = [api EXCEPT !.pc = "error"]
      BY <1>5, <2>2 DEF ApiEnds
    <3>2. /\ api' \in ApiRecord /\ api'.pc = "error"
          /\ api'.doc = api.doc /\ api'.len = api.len
      BY <3>1 DEF ApiInv, ApiRecord
    <3>3. Len(api.doc) * MaxRecord <= Depth * MaxRecord
          /\ Len(api.doc) * MaxRecord \in Nat /\ Depth * MaxRecord \in Nat
      <4>1. Len(api.doc) <= Depth
        BY <2>1 DEF ApiInv
      <4> QED
        BY <2>1, <4>1, Lengths, OneMoreRecord
    <3>4. ~RoomForAll
      BY <2>1, <2>2, <3>3, Lengths DEF RoomForAll
    <3>5. DocumentLen(scratch') >= Cap
      BY <2>1, <2>2, Lengths DEF DocumentLen
    <3> QED
      BY <1>1, <2>1, <3>2, <3>4, <3>5 DEF ApiInv, NoOverrun
  <2>3. CASE ~(TailLen >= Cap - api.len)
    <3>1. api' = [api EXCEPT !.pc = "sent", !.len = api.len + TailLen]
      BY <1>5, <2>3 DEF ApiEnds
    <3>2. api.len + TailLen \in Nat /\ api.len + TailLen < Cap
      BY <2>1, <2>3, Lengths
    <3>3. /\ api' \in ApiRecord /\ api'.pc = "sent"
          /\ api'.doc = api.doc /\ api'.len = api.len + TailLen
      BY <3>1, <3>2 DEF ApiInv, ApiRecord
    <3> QED
      BY <1>1, <2>1, <3>2, <3>3 DEF ApiInv, NoOverrun
  <2> QED
    BY <2>2, <2>3
<1>6. CASE UNCHANGED aVars
  BY <1>2, <1>6 DEF aVars
<1> QED
  BY <1>2, <1>3, <1>4, <1>5, <1>6 DEF ANext

LEMMA ApiAlways == ASpec => []ApiInv
<1> QED
  BY ApiInit, ApiStep, PTL DEF ASpec

\* json_api.cpp:94-137, main.cpp:561-575: a reply 200 is the history of one
\* moment, whole and in order, a reply 500 means that this history does not fit,
\* and the buffer is never overrun, however records and requests interleave and
\* whatever the sizes.
THEOREM ApiAlwaysTellsAll == ASpec => []ApiTellsAll
<1>1. ApiInv => ApiTellsAll
  <2> SUFFICES ASSUME ApiInv PROVE ApiTellsAll
    OBVIOUS
  <2>1. OneHistory
    <3> SUFFICES ASSUME api.pc = "sent" PROVE api.doc = asked
      BY DEF OneHistory
    <3>1. /\ api.doc \in Seq(HistoryRecord) /\ scratch \in Seq(HistoryRecord)
          /\ Len(api.doc) = Len(scratch)
          /\ \A i \in 1 .. Len(api.doc) : api.doc[i] = scratch[i]
      BY DEF ApiInv, ApiRecord
    <3>2. api.doc = scratch
      BY <3>1, SeqEqual
    <3> QED
      BY <3>2 DEF ApiInv
  <2> QED
    BY <2>1 DEF ApiInv, ApiTellsAll
<1> QED
  BY <1>1, ApiAlways, PTL

\* Config.h: the buffer has room for the longest history, so that the page
\* never gets 500 instead of it.
THEOREM ApiNeverRefuses ==
    ASSUME RoomForAll
    PROVE  ASpec => [](api.pc # "error")
<1>1. ApiInv => api.pc # "error"
  BY DEF ApiInv
<1> QED
  BY <1>1, ApiAlways, PTL

-----------------------------------------------------------------------------
(* The event log: what overlapping appends cannot break, and what a single *)
(* one keeps.                                                              *)

EntryOf(m) == [origin |-> m, message |-> m]

\* In buffer b the entries before h are those of s; and the same but for the one
\* in h, which the append in progress writes over.
Holds(b, h, s)    == \A i \in 1 .. Len(s) :
                       b[SlotAt(Capacity, h, Len(s), i)] = EntryOf(s[i])
HoldsBut(b, h, s) == \A i \in 1 .. Len(s) :
                       LET slot == SlotAt(Capacity, h, Len(s), i)
                       IN  slot # h => b[slot] = EntryOf(s[i])

\* How far the append of t has come when no other is in progress.
BeforeHead(t) ==
    task[t].pc \in {"origin", "message", "head", "next"} =>
        /\ task[t].slot = logHead
        /\ HoldsBut(logBuf, logHead, since)
        /\ task[t].pc # "origin" => logBuf[logHead].origin = task[t].msg
        /\ task[t].pc \in {"head", "next"} => logBuf[logHead].message = task[t].msg

AfterHead(t) ==
    task[t].pc \in {"count", "more"} =>
        /\ Holds(logBuf, logHead, Latest(Append(since, task[t].msg)))
        /\ task[t].pc = "more" => task[t].n = logCount

Undisturbed ==
    /\ \A t, u \in Tasks : Busy(t) /\ Busy(u) => t = u
    /\ Len(since) <= logCount
    /\ (\A t \in Tasks : ~Busy(t)) => Holds(logBuf, logHead, since)
    /\ \A t \in Tasks : BeforeHead(t) /\ AfterHead(t)

AppendsNamed == \A t \in Tasks : Busy(t) => task[t].msg \in Messages

LogInv ==
    /\ LogTypeOK /\ AppendsNamed
    /\ raced => \E t \in Tasks : Busy(t)
    /\ ~raced => Undisturbed

TaskState == [pc : {"idle", "origin", "message", "head", "next", "count", "more"},
              msg : Messages \cup {NoMsg}, slot : Slots, n : 0 .. Capacity]

\* What since becomes, entry by entry.
LEMMA LatestAppend ==
    ASSUME NEW s \in Seq(Messages), Len(s) <= Capacity, NEW m \in Messages
    PROVE  LET after == Latest(Append(s, m))
               c     == NextCount(Capacity, Len(s))
           IN  /\ after \in Seq(Messages) /\ Len(after) = c
               /\ after[c] = m
               /\ \A i \in 1 .. c - 1 : after[i] = s[FromBefore(Capacity, Len(s), i)]
<1>1. Capacity \in Nat \ {0} /\ Len(s) \in 0 .. Capacity
  BY LogAssumption
<1>2. /\ Append(s, m) \in Seq(Messages) /\ Len(Append(s, m)) = Len(s) + 1
      /\ Append(s, m)[Len(s) + 1] = m
      /\ \A i \in 1 .. Len(s) : Append(s, m)[i] = s[i]
  BY <1>1
<1>3. CASE Len(s) < Capacity
  BY <1>1, <1>2, <1>3 DEF Latest, NextCount, FromBefore
<1>4. CASE Len(s) = Capacity
  <2>1. Latest(Append(s, m)) = Tail(Append(s, m))
    BY <1>1, <1>2, <1>4 DEF Latest
  <2>2. /\ Tail(Append(s, m)) \in Seq(Messages)
        /\ Len(Tail(Append(s, m))) = Len(s)
        /\ \A i \in 1 .. Len(s) : Tail(Append(s, m))[i] = Append(s, m)[i + 1]
    BY <1>1, <1>2
  <2> QED
    BY <1>1, <1>2, <1>4, <2>1, <2>2 DEF NextCount, FromBefore
<1> QED
  BY <1>1, <1>3, <1>4

LEMMA LogTypeInit == LogInit => LogTypeOK /\ AppendsNamed
<1> SUFFICES ASSUME LogInit PROVE LogTypeOK /\ AppendsNamed
  OBVIOUS
<1>1. Capacity \in Nat \ {0} /\ 0 \in Slots /\ 0 \in 0 .. Capacity
  BY LogAssumption DEF Slots
<1>2. logBuf \in [Slots -> LogEntry]
  BY DEF LogInit, LogEntry, kEmptyEntry
<1>3. TaskAtRest \in TaskState /\ TaskAtRest.pc = "idle"
  BY <1>1 DEF TaskAtRest, TaskState
<1>4. task = [t \in Tasks |-> TaskAtRest]
  BY DEF LogInit
<1>5. task \in [Tasks -> TaskState] /\ AppendsNamed
  BY <1>3, <1>4 DEF AppendsNamed, Busy
<1>6. since = <<>> /\ since \in Seq(Messages) /\ Len(since) = 0
  BY DEF LogInit
<1> QED
  BY <1>1, <1>2, <1>5, <1>6 DEF LogInit, LogTypeOK, TaskState

LEMMA LogTypeStep ==
    LogTypeOK /\ AppendsNamed /\ [LogNext]_logVars => LogTypeOK' /\ AppendsNamed'
<1> SUFFICES ASSUME LogTypeOK, AppendsNamed, [LogNext]_logVars
             PROVE  LogTypeOK' /\ AppendsNamed'
  OBVIOUS
<1>1. /\ logBuf \in [Slots -> LogEntry] /\ logHead \in Slots
      /\ logCount \in 0 .. Capacity /\ task \in [Tasks -> TaskState]
      /\ raced \in BOOLEAN /\ since \in Seq(Messages) /\ Len(since) <= Capacity
      /\ Capacity \in Nat \ {0} /\ Slots = 0 .. Capacity - 1
  BY LogAssumption DEF LogTypeOK, TaskState, Slots
<1>2. ASSUME logBuf' \in [Slots -> LogEntry], logHead' \in Slots,
             logCount' \in 0 .. Capacity, raced' \in BOOLEAN,
             since' \in Seq(Messages), Len(since') <= Capacity,
             NEW t \in Tasks, NEW k \in TaskState, task' = [task EXCEPT ![t] = k],
             k.pc # "idle" => k.msg \in Messages
      PROVE  LogTypeOK' /\ AppendsNamed'
  <2>1. task' \in [Tasks -> TaskState]
    BY <1>1, <1>2
  <2>2. ASSUME NEW u \in Tasks, Busy(u)' PROVE task'[u].msg \in Messages
    BY <1>1, <1>2, <2>2 DEF AppendsNamed, Busy
  <2> QED
    BY <1>2, <2>1, <2>2 DEF LogTypeOK, AppendsNamed, TaskState
<1>3. ASSUME NEW t \in Tasks, TakeSlot(t) PROVE LogTypeOK' /\ AppendsNamed'
  <2> PICK m \in Messages :
        task' = [task EXCEPT ![t] = [pc |-> "origin", msg |-> m,
                                     slot |-> logHead, n |-> 0]]
    BY <1>3 DEF TakeSlot
  <2> DEFINE k == [pc |-> "origin", msg |-> m, slot |-> logHead, n |-> 0]
  <2>1. k \in TaskState /\ k.msg \in Messages
    BY <1>1 DEF TaskState
  <2>2. raced' \in BOOLEAN
    BY <1>3 DEF TakeSlot
  <2> QED
    BY <1>1, <1>2, <1>3, <2>1, <2>2 DEF TakeSlot, shared
<1>4. ASSUME NEW t \in Tasks, task[t].pc # "idle"
      PROVE  task[t] \in TaskState /\ task[t].msg \in Messages
  BY <1>1, <1>4 DEF AppendsNamed, Busy
<1>5. ASSUME NEW t \in Tasks, StoreOrigin(t) PROVE LogTypeOK' /\ AppendsNamed'
  <2> DEFINE k == [task[t] EXCEPT !.pc = "message"]
  <2>1. k \in TaskState /\ k.msg \in Messages
    BY <1>4, <1>5 DEF StoreOrigin, TaskState
  <2>2. logBuf' \in [Slots -> LogEntry]
    BY <1>1, <1>4, <1>5 DEF StoreOrigin, LogEntry, TaskState
  <2>3. task' = [task EXCEPT ![t] = k]
    BY <1>1, <1>5 DEF StoreOrigin
  <2> QED
    BY <1>1, <1>2, <1>5, <2>1, <2>2, <2>3 DEF StoreOrigin
<1>6. ASSUME NEW t \in Tasks, StoreMessage(t) PROVE LogTypeOK' /\ AppendsNamed'
  <2> DEFINE k == [task[t] EXCEPT !.pc = "head"]
  <2>1. k \in TaskState /\ k.msg \in Messages
    BY <1>4, <1>6 DEF StoreMessage, TaskState
  <2>2. logBuf' \in [Slots -> LogEntry]
    BY <1>1, <1>4, <1>6 DEF StoreMessage, LogEntry, TaskState
  <2>3. task' = [task EXCEPT ![t] = k]
    BY <1>1, <1>6 DEF StoreMessage
  <2> QED
    BY <1>1, <1>2, <1>6, <2>1, <2>2, <2>3 DEF StoreMessage
<1>7. ASSUME NEW t \in Tasks, LoadHead(t) PROVE LogTypeOK' /\ AppendsNamed'
  <2> PICK h \in {logHead, task[t].slot} :
        task' = [task EXCEPT ![t].pc = "next", ![t].slot = h]
    BY <1>7 DEF LoadHead
  <2> DEFINE k == [task[t] EXCEPT !.pc = "next", !.slot = h]
  <2>1. k \in TaskState /\ k.msg \in Messages
    BY <1>1, <1>4, <1>7 DEF LoadHead, TaskState
  <2>2. task' = [task EXCEPT ![t] = k]
    BY <1>1
  <2> QED
    BY <1>1, <1>2, <1>7, <2>1, <2>2 DEF LoadHead, shared
<1>8. ASSUME NEW t \in Tasks, StoreHead(t) PROVE LogTypeOK' /\ AppendsNamed'
  <2> DEFINE k == [task[t] EXCEPT !.pc = "count"]
  <2>1. k \in TaskState /\ k.msg \in Messages
    BY <1>4, <1>8 DEF StoreHead, TaskState
  <2>2. logHead' \in Slots
    BY <1>1, <1>4, <1>8 DEF StoreHead, TaskState
  <2>3. task' = [task EXCEPT ![t] = k]
    BY <1>1, <1>8 DEF StoreHead
  <2> QED
    BY <1>1, <1>2, <1>8, <2>1, <2>2, <2>3 DEF StoreHead
<1>9. ASSUME NEW t \in Tasks, LoadCount(t) PROVE LogTypeOK' /\ AppendsNamed'
  <2> DEFINE k == [task[t] EXCEPT !.pc = "more", !.n = logCount]
  <2>1. k \in TaskState /\ k.msg \in Messages
    BY <1>1, <1>4, <1>9 DEF LoadCount, TaskState
  <2>2. task' = [task EXCEPT ![t] = k]
    BY <1>1, <1>9 DEF LoadCount
  <2> QED
    BY <1>1, <1>2, <1>9, <2>1, <2>2 DEF LoadCount, shared
<1>10. ASSUME NEW t \in Tasks, StoreCount(t) PROVE LogTypeOK' /\ AppendsNamed'
  <2>1. TaskAtRest \in TaskState /\ TaskAtRest.pc = "idle"
    BY <1>1 DEF TaskAtRest, TaskState
  <2>2. logCount' \in 0 .. Capacity
    BY <1>1, <1>4, <1>10 DEF StoreCount, TaskState
  <2>3. raced' \in BOOLEAN
    BY <1>10 DEF StoreCount, Ends
  <2>4. since' \in Seq(Messages) /\ Len(since') <= Capacity
    <3>1. task[t].msg \in Messages
      BY <1>4, <1>10 DEF StoreCount
    <3>2. /\ Latest(Append(since, task[t].msg)) \in Seq(Messages)
          /\ Len(Latest(Append(since, task[t].msg))) = NextCount(Capacity, Len(since))
      BY <1>1, <3>1, LatestAppend
    <3> QED
      BY <1>1, <1>10, <3>2 DEF StoreCount, Ends, NextCount
  <2> QED
    BY <1>1, <1>2, <1>10, <2>1, <2>2, <2>3, <2>4 DEF StoreCount, Ends
<1>11. CASE UNCHANGED logVars
  BY <1>11 DEF logVars, shared, LogTypeOK, AppendsNamed, Busy
<1> QED
  BY <1>3, <1>5, <1>6, <1>7, <1>8, <1>9, <1>10, <1>11 DEF LogNext, LogLine

\* Whatever the capacity, the tasks and their interleaving, no index of the log
\* leaves the buffer (event_log.cpp:11-33).
THEOREM LogTypeCorrect == LogSpec => []LogTypeOK
  BY LogTypeInit, LogTypeStep, PTL DEF LogSpec

\* A store to the slot being written disturbs no other entry.
LEMMA HoldsButStore ==
    ASSUME NEW b \in [Slots -> LogEntry], NEW b2 \in [Slots -> LogEntry],
           NEW h \in Slots, \A x \in Slots : x # h => b2[x] = b[x],
           NEW s \in Seq(Messages), Len(s) <= Capacity, HoldsBut(b, h, s)
    PROVE  HoldsBut(b2, h, s)
<1> SUFFICES ASSUME NEW i \in 1 .. Len(s), SlotAt(Capacity, h, Len(s), i) # h
             PROVE  b2[SlotAt(Capacity, h, Len(s), i)] = EntryOf(s[i])
  BY DEF HoldsBut
<1>1. Capacity \in Nat \ {0} /\ h \in 0 .. Capacity - 1 /\ Len(s) \in 0 .. Capacity
  BY LogAssumption DEF Slots
<1>2. SlotAt(Capacity, h, Len(s), i) \in Slots
  BY <1>1, SlotInRing DEF Slots
<1> QED
  BY <1>2 DEF HoldsBut

\* Moving the head on completes the entry in it.
LEMMA HoldsNext ==
    ASSUME NEW b, NEW h \in Slots, NEW s \in Seq(Messages), Len(s) <= Capacity,
           HoldsBut(b, h, s), NEW m \in Messages, b[h] = EntryOf(m)
    PROVE  Holds(b, NextHead(Capacity, h), Latest(Append(s, m)))
<1> DEFINE after == Latest(Append(s, m))
           c     == NextCount(Capacity, Len(s))
<1>1. Capacity \in Nat \ {0} /\ h \in 0 .. Capacity - 1 /\ Len(s) \in 0 .. Capacity
  BY LogAssumption DEF Slots
<1>2. /\ Len(after) = c /\ after[c] = m
      /\ \A i \in 1 .. c - 1 : after[i] = s[FromBefore(Capacity, Len(s), i)]
  BY LatestAppend
<1>3. c \in Nat
  BY <1>1 DEF NextCount
<1> SUFFICES ASSUME NEW i \in 1 .. c
             PROVE  b[SlotAt(Capacity, NextHead(Capacity, h), c, i)] = EntryOf(after[i])
  BY <1>2 DEF Holds
<1> DEFINE slot == SlotAt(Capacity, NextHead(Capacity, h), c, i)
           j    == FromBefore(Capacity, Len(s), i)
<1>4. /\ i = c => slot = h
      /\ i < c => /\ j \in 1 .. Len(s)
                  /\ slot # h
                  /\ slot = SlotAt(Capacity, h, Len(s), j)
  BY <1>1, SlotShift
<1>5. CASE i = c
  BY <1>2, <1>4, <1>5
<1>6. CASE i < c
  <2>1. i \in 1 .. c - 1 /\ after[i] = s[j]
    BY <1>2, <1>3, <1>6
  <2>2. b[slot] = EntryOf(s[j])
    BY <1>4, <1>6 DEF HoldsBut
  <2> QED
    BY <2>1, <2>2
<1> QED
  BY <1>3, <1>5, <1>6

LEMMA LogInvInit == LogInit => LogInv
<1> SUFFICES ASSUME LogInit PROVE LogInv
  OBVIOUS
<1>1. LogTypeOK /\ AppendsNamed
  BY LogTypeInit
<1>2. ~raced /\ since = <<>> /\ Len(since) = 0 /\ \A t \in Tasks : task[t].pc = "idle"
  BY DEF LogInit, TaskAtRest
<1>3. Undisturbed
  BY <1>1, <1>2 DEF Undisturbed, Busy, Holds, BeforeHead, AfterHead, LogTypeOK
<1> QED
  BY <1>1, <1>2, <1>3 DEF LogInv

\* A step inside an append needs to be looked at for that append only.
LEMMA AppendGoesOn ==
    ASSUME LogInv, NEW t \in Tasks, Busy(t),
           NEW k, task' = [task EXCEPT ![t] = k], k.pc # "idle",
           raced' = raced, UNCHANGED <<logCount, since>>,
           ~raced => BeforeHead(t)' /\ AfterHead(t)'
    PROVE  (raced' => \E u \in Tasks : Busy(u)') /\ (~raced' => Undisturbed')
<1>1. task'[t] = k /\ \A u \in Tasks : u # t => task'[u] = task[u]
  BY DEF LogInv, LogTypeOK
<1>2. Busy(t)'
  BY <1>1 DEF Busy
<1>3. ASSUME ~raced PROVE Undisturbed'
  <2>1. Undisturbed
    BY <1>3 DEF LogInv
  <2>2. \A u \in Tasks : u # t => task[u].pc = "idle" /\ task'[u].pc = "idle"
    BY <1>1, <2>1 DEF Undisturbed, Busy
  <2>3. \A u, v \in Tasks : Busy(u)' /\ Busy(v)' => u = v
    BY <2>2 DEF Busy
  <2>4. Len(since)' <= logCount'
    BY <2>1 DEF Undisturbed
  <2>5. \A u \in Tasks : BeforeHead(u)' /\ AfterHead(u)'
    <3> SUFFICES ASSUME NEW u \in Tasks PROVE BeforeHead(u)' /\ AfterHead(u)'
      OBVIOUS
    <3>1. CASE u = t
      BY <1>3, <3>1
    <3>2. CASE u # t
      BY <2>2, <3>2 DEF BeforeHead, AfterHead
    <3> QED
      BY <3>1, <3>2
  <2> QED
    BY <1>2, <2>3, <2>4, <2>5 DEF Undisturbed
<1> QED
  BY <1>2, <1>3

LEMMA LogInvStep == LogInv /\ [LogNext]_logVars => LogInv'
<1> SUFFICES ASSUME LogInv, [LogNext]_logVars PROVE LogInv'
  OBVIOUS
<1> DEFINE Kept == (raced' => \E u \in Tasks : Busy(u)') /\ (~raced' => Undisturbed')
<1>1. LogTypeOK' /\ AppendsNamed'
  BY LogTypeStep DEF LogInv
<1>2. /\ logBuf \in [Slots -> LogEntry] /\ logHead \in Slots
      /\ logCount \in 0 .. Capacity /\ task \in [Tasks -> TaskState]
      /\ raced \in BOOLEAN /\ since \in Seq(Messages) /\ Len(since) <= Capacity
      /\ Len(since) \in Nat /\ Capacity \in Nat \ {0} /\ Slots = 0 .. Capacity - 1
  BY LogAssumption DEF LogInv, LogTypeOK, TaskState, Slots
<1>3. ASSUME NEW t \in Tasks, task[t].pc # "idle"
      PROVE  /\ Busy(t) /\ task[t] \in TaskState /\ task[t].msg \in Messages
             /\ ~raced => BeforeHead(t) /\ AfterHead(t)
  BY <1>2, <1>3 DEF LogInv, AppendsNamed, Busy, Undisturbed
<1>4. ASSUME NEW t \in Tasks, TakeSlot(t) PROVE Kept
  <2> PICK m \in Messages :
        task' = [task EXCEPT ![t] = [pc |-> "origin", msg |-> m,
                                     slot |-> logHead, n |-> 0]]
    BY <1>4 DEF TakeSlot
  <2>1. /\ task'[t].pc = "origin" /\ task'[t].slot = logHead
        /\ \A u \in Tasks : u # t => task'[u] = task[u]
    BY <1>2
  <2>2. Busy(t)'
    BY <2>1 DEF Busy
  <2>3. UNCHANGED <<logBuf, logHead, logCount, since>>
    BY <1>4 DEF TakeSlot, shared
  <2>4. ASSUME ~raced' PROVE Undisturbed'
    <3>1. ~raced /\ Others(t) = {} /\ ~Busy(t)
      BY <1>4, <2>4 DEF TakeSlot
    <3>2. Undisturbed /\ \A u \in Tasks : ~Busy(u)
      BY <3>1 DEF Others, LogInv
    <3>3. \A u \in Tasks : u # t => task'[u].pc = "idle"
      BY <2>1, <3>2 DEF Busy
    <3>4. HoldsBut(logBuf, logHead, since)
      BY <3>2 DEF Undisturbed, Holds, HoldsBut
    <3>5. \A u \in Tasks : BeforeHead(u)' /\ AfterHead(u)'
      <4> SUFFICES ASSUME NEW u \in Tasks PROVE BeforeHead(u)' /\ AfterHead(u)'
        OBVIOUS
      <4>1. CASE u = t
        BY <2>1, <2>3, <3>4, <4>1 DEF BeforeHead, AfterHead
      <4>2. CASE u # t
        BY <3>3, <4>2 DEF BeforeHead, AfterHead
      <4> QED
        BY <4>1, <4>2
    <3>6. Len(since)' <= logCount'
      BY <2>3, <3>2 DEF Undisturbed
    <3>7. \A u, v \in Tasks : Busy(u)' /\ Busy(v)' => u = v
      BY <3>3 DEF Busy
    <3> QED
      BY <2>2, <3>5, <3>6, <3>7 DEF Undisturbed
  <2> QED
    BY <2>2, <2>4
<1>5. ASSUME NEW t \in Tasks, StoreOrigin(t) PROVE Kept
  <2> DEFINE k == [task[t] EXCEPT !.pc = "message"]
  <2>1. /\ Busy(t) /\ task[t] \in TaskState
        /\ ~raced => BeforeHead(t)
        /\ task[t].pc = "origin"
    BY <1>3, <1>5 DEF StoreOrigin
  <2>2. /\ task' = [task EXCEPT ![t] = k]
        /\ UNCHANGED <<logHead, logCount, raced, since>>
    BY <1>2, <1>5 DEF StoreOrigin
  <2>3. k.pc = "message" /\ k.slot = task[t].slot /\ k.msg = task[t].msg /\ task'[t] = k
    BY <1>2, <2>1, <2>2 DEF TaskState
  <2>4. ASSUME ~raced PROVE BeforeHead(t)' /\ AfterHead(t)'
    <3>1. task[t].slot = logHead /\ HoldsBut(logBuf, logHead, since)
      BY <2>1, <2>4 DEF BeforeHead
    <3>2. /\ logBuf' \in [Slots -> LogEntry]
          /\ \A x \in Slots : x # logHead => logBuf'[x] = logBuf[x]
          /\ logBuf'[logHead].origin = task[t].msg
      BY <1>1, <1>2, <1>5, <3>1 DEF StoreOrigin, LogEntry, LogTypeOK
    <3>3. HoldsBut(logBuf', logHead, since)
      BY <1>2, <3>1, <3>2, HoldsButStore
    <3> QED
      BY <2>2, <2>3, <3>1, <3>2, <3>3 DEF BeforeHead, AfterHead
  <2> QED
    BY <2>1, <2>2, <2>3, <2>4, AppendGoesOn
<1>6. ASSUME NEW t \in Tasks, StoreMessage(t) PROVE Kept
  <2> DEFINE k == [task[t] EXCEPT !.pc = "head"]
  <2>1. /\ Busy(t) /\ task[t] \in TaskState
        /\ ~raced => BeforeHead(t)
        /\ task[t].pc = "message"
    BY <1>3, <1>6 DEF StoreMessage
  <2>2. /\ task' = [task EXCEPT ![t] = k]
        /\ UNCHANGED <<logHead, logCount, raced, since>>
    BY <1>2, <1>6 DEF StoreMessage
  <2>3. k.pc = "head" /\ k.slot = task[t].slot /\ k.msg = task[t].msg /\ task'[t] = k
    BY <1>2, <2>1, <2>2 DEF TaskState
  <2>4. ASSUME ~raced PROVE BeforeHead(t)' /\ AfterHead(t)'
    <3>1. /\ task[t].slot = logHead /\ HoldsBut(logBuf, logHead, since)
          /\ logBuf[logHead].origin = task[t].msg
      BY <2>1, <2>4 DEF BeforeHead
    <3>2. /\ logBuf' \in [Slots -> LogEntry]
          /\ \A x \in Slots : x # logHead => logBuf'[x] = logBuf[x]
          /\ logBuf'[logHead].origin = task[t].msg
          /\ logBuf'[logHead].message = task[t].msg
      BY <1>1, <1>2, <1>6, <3>1 DEF StoreMessage, LogEntry, LogTypeOK
    <3>3. HoldsBut(logBuf', logHead, since)
      BY <1>2, <3>1, <3>2, HoldsButStore
    <3> QED
      BY <2>2, <2>3, <3>1, <3>2, <3>3 DEF BeforeHead, AfterHead
  <2> QED
    BY <2>1, <2>2, <2>3, <2>4, AppendGoesOn
<1>7. ASSUME NEW t \in Tasks, LoadHead(t) PROVE Kept
  <2> PICK h \in {logHead, task[t].slot} :
        task' = [task EXCEPT ![t].pc = "next", ![t].slot = h]
    BY <1>7 DEF LoadHead
  <2> DEFINE k == [task[t] EXCEPT !.pc = "next", !.slot = h]
  <2>1. /\ Busy(t) /\ task[t] \in TaskState
        /\ ~raced => BeforeHead(t)
        /\ task[t].pc = "head"
    BY <1>3, <1>7 DEF LoadHead
  <2>2. /\ task' = [task EXCEPT ![t] = k]
        /\ UNCHANGED <<logBuf, logHead, logCount, raced, since>>
    BY <1>2, <1>7 DEF LoadHead, shared
  <2>3. k.pc = "next" /\ k.slot = h /\ k.msg = task[t].msg /\ task'[t] = k
    BY <1>2, <2>1, <2>2 DEF TaskState
  <2>4. ASSUME ~raced PROVE BeforeHead(t)' /\ AfterHead(t)'
    <3>1. h = logHead
      BY <2>1, <2>4 DEF BeforeHead
    <3> QED
      BY <2>1, <2>2, <2>3, <2>4, <3>1 DEF BeforeHead, AfterHead
  <2> QED
    BY <2>1, <2>2, <2>3, <2>4, AppendGoesOn
<1>8. ASSUME NEW t \in Tasks, StoreHead(t) PROVE Kept
  <2> DEFINE k == [task[t] EXCEPT !.pc = "count"]
  <2>1. /\ Busy(t) /\ task[t] \in TaskState
        /\ ~raced => BeforeHead(t)
        /\ task[t].pc = "next" /\ task[t].msg \in Messages
    BY <1>3, <1>8 DEF StoreHead
  <2>2. /\ task' = [task EXCEPT ![t] = k]
        /\ UNCHANGED <<logBuf, logCount, raced, since>>
        /\ logHead' = NextHead(Capacity, task[t].slot)
    BY <1>2, <1>8 DEF StoreHead, NextHead
  <2>3. k.pc = "count" /\ k.msg = task[t].msg /\ task'[t] = k
    BY <1>2, <2>1, <2>2 DEF TaskState
  <2>4. ASSUME ~raced PROVE BeforeHead(t)' /\ AfterHead(t)'
    <3>1. /\ task[t].slot = logHead /\ HoldsBut(logBuf, logHead, since)
          /\ logBuf[logHead].origin = task[t].msg
          /\ logBuf[logHead].message = task[t].msg
      BY <2>1, <2>4 DEF BeforeHead
    <3>2. logBuf[logHead] = EntryOf(task[t].msg)
      BY <1>2, <3>1 DEF EntryOf, LogEntry
    <3>3. Holds(logBuf, NextHead(Capacity, logHead), Latest(Append(since, task[t].msg)))
      BY <1>2, <2>1, <3>1, <3>2, HoldsNext
    <3> QED
      BY <2>2, <2>3, <3>1, <3>3 DEF BeforeHead, AfterHead
  <2> QED
    BY <2>1, <2>2, <2>3, <2>4, AppendGoesOn
<1>9. ASSUME NEW t \in Tasks, LoadCount(t) PROVE Kept
  <2> DEFINE k == [task[t] EXCEPT !.pc = "more", !.n = logCount]
  <2>1. /\ Busy(t) /\ task[t] \in TaskState
        /\ ~raced => AfterHead(t)
        /\ task[t].pc = "count"
    BY <1>3, <1>9 DEF LoadCount
  <2>2. /\ task' = [task EXCEPT ![t] = k]
        /\ UNCHANGED <<logBuf, logHead, logCount, raced, since>>
    BY <1>2, <1>9 DEF LoadCount, shared
  <2>3. k.pc = "more" /\ k.n = logCount /\ k.msg = task[t].msg /\ task'[t] = k
    BY <1>2, <2>1, <2>2 DEF TaskState
  <2>4. ASSUME ~raced PROVE BeforeHead(t)' /\ AfterHead(t)'
    BY <2>1, <2>2, <2>3, <2>4 DEF BeforeHead, AfterHead
  <2> QED
    BY <2>1, <2>2, <2>3, <2>4, AppendGoesOn
<1>10. ASSUME NEW t \in Tasks, StoreCount(t) PROVE Kept
  <2>1. /\ Busy(t) /\ task[t] \in TaskState
        /\ ~raced => AfterHead(t)
        /\ task[t].pc = "more" /\ task[t].msg \in Messages
    BY <1>3, <1>10 DEF StoreCount
  <2>2. /\ logCount' = IF task[t].n < Capacity THEN task[t].n + 1 ELSE logCount
        /\ UNCHANGED <<logBuf, logHead>>
        /\ raced' = (raced /\ Others(t) # {})
        /\ since' = IF raced THEN <<>> ELSE Latest(Append(since, task[t].msg))
    BY <1>10 DEF StoreCount, Ends
  <2>3. /\ task'[t].pc = "idle"
        /\ \A u \in Tasks : u # t => task'[u] = task[u]
    BY <1>2, <1>10 DEF StoreCount, Ends, TaskAtRest
  <2>4. ASSUME raced' PROVE \E u \in Tasks : Busy(u)'
    BY <2>2, <2>3, <2>4 DEF Others, Busy
  <2>5. ASSUME \A u \in Tasks : task'[u].pc = "idle",
               Len(since') <= logCount', Holds(logBuf, logHead, since')
        PROVE  Undisturbed'
    BY <2>2, <2>5 DEF Undisturbed, Busy, BeforeHead, AfterHead
  <2>6. ASSUME ~raced', raced PROVE Undisturbed'
    <3>1. since' = <<>> /\ Len(since') = 0
      BY <2>2, <2>6
    <3>2. Len(since') <= logCount' /\ Holds(logBuf, logHead, since')
      BY <1>1, <3>1 DEF Holds, LogTypeOK
    <3>3. \A u \in Tasks : task'[u].pc = "idle"
      BY <2>2, <2>3, <2>6 DEF Others, Busy
    <3> QED
      BY <2>5, <3>2, <3>3
  <2>7. ASSUME ~raced PROVE Undisturbed'
    <3>1. Undisturbed /\ AfterHead(t)
      BY <2>1, <2>7 DEF LogInv
    <3>2. since' = Latest(Append(since, task[t].msg))
      BY <2>2, <2>7
    <3>3. Holds(logBuf, logHead, since') /\ task[t].n = logCount
      BY <2>1, <3>1, <3>2 DEF AfterHead
    <3>4. Len(since') = NextCount(Capacity, Len(since))
      BY <1>2, <2>1, <3>2, LatestAppend
    <3>5. Len(since') <= logCount'
      BY <1>2, <2>2, <3>1, <3>3, <3>4 DEF NextCount, Undisturbed
    <3>6. \A u \in Tasks : task'[u].pc = "idle"
      BY <2>1, <2>3, <3>1 DEF Undisturbed, Busy
    <3> QED
      BY <2>5, <3>3, <3>5, <3>6
  <2> QED
    BY <2>4, <2>6, <2>7
<1>11. ASSUME UNCHANGED logVars PROVE Kept
  BY <1>11 DEF logVars, shared, LogInv, Undisturbed, Busy, BeforeHead, AfterHead
<1>12. Kept => LogInv'
  BY <1>1 DEF LogInv
<1>13. CASE LogNext
  BY <1>4, <1>5, <1>6, <1>7, <1>8, <1>9, <1>10, <1>12, <1>13 DEF LogNext, LogLine
<1> QED
  BY <1>11, <1>12, <1>13

LEMMA LogInvIsKept == LogInv => NewestAreKept
<1> SUFFICES ASSUME LogInv, \A t \in Tasks : ~Busy(t)
             PROVE  /\ Len(since) <= logCount
                    /\ \A i \in 1 .. Len(since) :
                         LogAt(logCount - Len(since) + i - 1) = EntryOf(since[i])
  BY DEF NewestAreKept, EntryOf
<1>1. /\ Len(since) <= logCount /\ Holds(logBuf, logHead, since)
      /\ Len(since) \in Nat /\ logCount \in 0 .. Capacity
      /\ Capacity \in Nat \ {0} /\ logHead \in 0 .. Capacity - 1
  BY LogAssumption DEF LogInv, LogTypeOK, Undisturbed, Slots
<1> SUFFICES ASSUME NEW i \in 1 .. Len(since)
             PROVE  LogAt(logCount - Len(since) + i - 1) = EntryOf(since[i])
  BY <1>1
<1> DEFINE idx == logCount - Len(since) + i - 1
<1>2. ~(idx >= logCount) /\ logHead + Capacity - logCount + idx
                              = logHead + Capacity - Len(since) + i - 1
  BY <1>1
<1>3. LogAt(idx) = logBuf[SlotAt(Capacity, logHead, Len(since), i)]
  BY <1>2 DEF LogAt, SlotAt
<1> QED
  BY <1>1, <1>3 DEF Holds

\* event_log.h:15-16, whatever the capacity, the tasks and the messages: with no
\* append in progress the newest entries are, whole and in order, those logged
\* since appends last overlapped, however badly those did.
THEOREM NewestAlwaysKept == LogSpec => []NewestAreKept
  BY LogInvInit, LogInvStep, LogInvIsKept, PTL DEF LogSpec
=============================================================================
