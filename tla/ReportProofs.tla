----------------------------- MODULE ReportProofs -----------------------------
(***************************************************************************)
(* Theorems about Report, for logs of any length and any filter.           *)
(***************************************************************************)
EXTENDS Report, FiniteSetTheorems, SequenceTheorems, WellFoundedInduction, TLAPS

LEMMA InitTypes == Init => TypeOK
  BY DEF Init, TypeOK, Line

\* A line adds a row or replaces one, and the index stays within the rows.
LEMMA NextTypes ==
  ASSUME TypeOK, [Next]_vars
  PROVE  TypeOK'
<1> USE LogAssumption DEF TypeOK
<1>1. ASSUME NEW line \in Lines, ReadLine(line) PROVE TypeOK'
  <2>1. line \in Line /\ Empty \in Line
    BY DEF Line, Empty, Statuses
  <2>2. input' \in Seq(Line) /\ filter' \in Filters /\ phase' \in {"reading", "report", "error"}
    BY <1>1, <2>1 DEF ReadLine
  <2>3. CASE ~Selected(line)
    <3>1. rows' = Append(rows, Empty) /\ index' = index
      BY <1>1, <2>3 DEF ReadLine, BreakRow
    <3>2. rows' \in Seq(Line) /\ index' \in [DOMAIN index' -> 1 .. Len(rows')]
      BY <2>1, <3>1
    <3> QED BY <1>1, <2>2, <2>3, <3>2 DEF ReadLine
  <2>4. CASE Selected(line) /\ line.start \in DOMAIN index
    <3>1. rows' = [rows EXCEPT ![index[line.start]] = line] /\ index' = index
      BY <1>1, <2>4 DEF ReadLine, Replaced
    <3>2. rows' \in Seq(Line) /\ Len(rows') = Len(rows)
      <4>1. index[line.start] \in 1 .. Len(rows)
        BY <2>4
      <4> QED BY <2>1, <3>1, <4>1, ExceptSeq
    <3>3. index' \in [DOMAIN index' -> 1 .. Len(rows')]
      BY <3>1, <3>2
    <3>4. {invalid', records', duplicates'} \subseteq Nat
      BY <1>1, <2>4 DEF ReadLine
    <3> QED BY <2>2, <3>2, <3>3, <3>4
  <2>5. CASE Selected(line) /\ line.start \notin DOMAIN index
    <3>1. /\ rows' = Append(rows, line)
          /\ index' = [s \in DOMAIN index \cup {line.start} |->
                         IF s = line.start THEN Len(rows) + 1 ELSE index[s]]
      BY <1>1, <2>5 DEF ReadLine, Position
    <3>2. rows' \in Seq(Line) /\ Len(rows') = Len(rows) + 1
      BY <2>1, <3>1
    <3>3. index' \in [DOMAIN index' -> 1 .. Len(rows')]
      BY <3>1, <3>2
    <3> QED BY <1>1, <2>2, <2>5, <3>2, <3>3 DEF ReadLine
  <2> QED BY <2>3, <2>4, <2>5
<1>2. CASE EndReading
  BY <1>2 DEF EndReading
<1>3. CASE UNCHANGED vars
  BY <1>3 DEF vars
<1> QED BY <1>1, <1>2, <1>3 DEF Next

\* The replaced row always exists, so the loop over the rows meets only
\* decoded lines and empty rows.
THEOREM ReportTypeCorrect == Spec => []TypeOK
  BY InitTypes, NextTypes, PTL DEF Spec

(***************************************************************************)
(* One row for each cycle.                                                 *)
(***************************************************************************)

IndexFaithful ==
  /\ \A s \in DOMAIN index : s > 0 /\ rows[index[s]].start = s
  /\ \A i \in 1 .. Len(rows) :
       rows[i].start # 0 => rows[i].start \in DOMAIN index /\ index[rows[i].start] = i

Accounted == IsFiniteSet(DOMAIN index) /\ records = Cycles + duplicates

LEMMA NextFaithful ==
  ASSUME TypeOK, IndexFaithful, [Next]_vars
  PROVE  IndexFaithful'
<1> USE LogAssumption DEF TypeOK, IndexFaithful
<1>1. ASSUME NEW line \in Lines, ReadLine(line) PROVE IndexFaithful'
  <2>1. line \in Line /\ Empty \in Line /\ Empty.start = 0
    BY DEF Line, Empty, Statuses
  <2>2. CASE ~Selected(line)
    <3>1. rows' = Append(rows, Empty) /\ index' = index
      BY <1>1, <2>2 DEF ReadLine, BreakRow
    <3> QED BY <2>1, <3>1
  <2>3. CASE Selected(line) /\ line.start \in DOMAIN index
    <3>1. rows' = [rows EXCEPT ![index[line.start]] = line] /\ index' = index
      BY <1>1, <2>3 DEF ReadLine, Replaced
    <3> QED BY <2>1, <2>3, <3>1
  <2>4. CASE Selected(line) /\ line.start \notin DOMAIN index
    <3>1. /\ rows' = Append(rows, line)
          /\ index' = [s \in DOMAIN index \cup {line.start} |->
                         IF s = line.start THEN Len(rows) + 1 ELSE index[s]]
      BY <1>1, <2>4 DEF ReadLine, Position
    <3>2. line.start > 0
      BY <2>4 DEF Selected, Valid
    <3>3. \A s \in DOMAIN index' : s > 0 /\ rows'[index'[s]].start = s
      BY <2>1, <3>1, <3>2
    <3>4. ASSUME NEW i \in 1 .. Len(rows'), rows'[i].start # 0
          PROVE  rows'[i].start \in DOMAIN index' /\ index'[rows'[i].start] = i
      <4>1. CASE i = Len(rows) + 1
        BY <2>1, <3>1, <4>1
      <4>2. CASE i \in 1 .. Len(rows)
        <5>1. rows'[i] = rows[i]
          BY <3>1, <4>2
        <5> QED BY <2>4, <3>1, <3>4, <4>2, <5>1
      <4> QED BY <2>1, <3>1, <4>1, <4>2
    <3> QED BY <3>3, <3>4
  <2> QED BY <2>2, <2>3, <2>4
<1>2. CASE EndReading
  BY <1>2 DEF EndReading
<1>3. CASE UNCHANGED vars
  BY <1>3 DEF vars
<1> QED BY <1>1, <1>2, <1>3 DEF Next

\* A start has one row and that row holds it: however often and wherever a
\* cycle's outcome is appended again, the loop over the rows counts it once.
THEOREM NoCycleTwice == Spec => []IndexFaithful
<1>1. Init => IndexFaithful
  BY DEF Init, IndexFaithful
<1> QED BY <1>1, NextFaithful, ReportTypeCorrect, PTL DEF Spec

LEMMA NextAccounted ==
  ASSUME TypeOK, Accounted, [Next]_vars
  PROVE  Accounted'
<1> USE LogAssumption DEF TypeOK, Accounted, Cycles
<1>1. ASSUME NEW line \in Lines, ReadLine(line) PROVE Accounted'
  <2>1. CASE Selected(line) /\ line.start \notin DOMAIN index
    <3>1. DOMAIN index' = DOMAIN index \cup {line.start} /\ records' = records + 1
          /\ duplicates' = duplicates
      BY <1>1, <2>1 DEF ReadLine
    <3>2. IsFiniteSet(DOMAIN index') /\ Cardinality(DOMAIN index') = Cardinality(DOMAIN index) + 1
      BY <2>1, <3>1, FS_AddElement
    <3>3. Cardinality(DOMAIN index) \in Nat
      BY FS_CardinalityType
    <3> QED BY <3>1, <3>2, <3>3
  <2>2. CASE ~(Selected(line) /\ line.start \notin DOMAIN index)
    <3>1. Cardinality(DOMAIN index) \in Nat
      BY FS_CardinalityType
    <3> QED BY <1>1, <2>2, <3>1 DEF ReadLine
  <2> QED BY <2>1, <2>2
<1>2. CASE EndReading
  BY <1>2 DEF EndReading
<1>3. CASE UNCHANGED vars
  BY <1>3 DEF vars
<1> QED BY <1>1, <1>2, <1>3 DEF Next

\* The selected records are the cycles and the duplicates, for every log.
THEOREM RecordsAccounted == Spec => []Accounted
<1>1. Init => Accounted
  BY FS_EmptySet DEF Init, Accounted, Cycles
<1> QED BY <1>1, NextAccounted, ReportTypeCorrect, PTL DEF Spec

-----------------------------------------------------------------------------
(* The rows are the log: what the report is computed from. *)

Same(i, j) == input[i].start = input[j].start
Latest(m) == m \in Chosen /\ \A j \in Chosen : Same(j, m) => j <= m

\* The lines that have a row of their own, and which row that is.
Standing(n) == {i \in 1 .. n : i \notin Chosen \/ i \in Heads}
Place(n) == Cardinality(Standing(n))

\* Every cycle of the log has one row, where its first record was, holding its
\* last outcome; every line that was not used is an empty row.
RowsAreOutcomes ==
  /\ Len(rows) = Place(Len(input))
  /\ \A i \in Heads : rows[Place(i)] = Outcome(i)
  /\ \A i \in DOMAIN input \ Chosen : rows[Place(i)] = Empty

(***************************************************************************)
(* What reading a line preserves.  The index must lead from every record   *)
(* of a cycle to the row of its first one, and there must be a first and a *)
(* last record of each cycle to speak of.                                  *)
(***************************************************************************)
TableInv ==
  /\ Len(rows) = Place(Len(input))
  /\ DOMAIN index = {input[i].start : i \in Chosen}
  /\ \A i \in Chosen : \E h \in Heads : Same(h, i)
  /\ \A i \in Chosen : \E m \in Chosen : Same(m, i) /\ Latest(m)
  /\ \A i \in Heads : index[input[i].start] = Place(i)
  /\ \A m \in Chosen : Latest(m) => rows[index[input[m].start]] = input[m]
  /\ \A i \in DOMAIN input \ Chosen : rows[Place(i)] = Empty

Ready == TypeOK /\ IndexFaithful /\ Accounted /\ TableInv

LEMMA PlaceType ==
  ASSUME NEW n \in Nat
  PROVE  IsFiniteSet(Standing(n)) /\ Place(n) \in Nat
<1>1. IsFiniteSet(1 .. n)
  BY FS_Interval
<1>2. Standing(n) \in SUBSET (1 .. n)
  BY DEF Standing
<1>3. IsFiniteSet(Standing(n))
  BY <1>1, <1>2, FS_Subset
<1> QED BY <1>3, FS_CardinalityType DEF Place

LEMMA PlaceBounds ==
  ASSUME NEW n \in Nat, NEW i \in 1 .. n, i \in Standing(i)
  PROVE  Place(i) \in 1 .. Place(n)
<1>1. Standing(i) \in SUBSET Standing(n) /\ IsFiniteSet(Standing(n))
  BY PlaceType DEF Standing
<1>2. Place(i) <= Place(n) /\ Place(i) \in Nat /\ Place(n) \in Nat
  BY <1>1, PlaceType, FS_Subset DEF Place
<1>3. Place(i) # 0
  BY PlaceType, FS_EmptySet DEF Place
<1> QED BY <1>2, <1>3

\* A line comes after all others, and is the first record of a cycle when the
\* index does not know its start.
LEMMA ReadLog ==
  ASSUME Ready, NEW line \in Lines, ReadLine(line), NEW n \in Nat, n = Len(input)
  PROVE  /\ line \in Line /\ DOMAIN input = 1 .. n /\ DOMAIN input' = 1 .. n + 1
         /\ \A i \in 1 .. n : input'[i] = input[i]
         /\ input'[n + 1] = line
         /\ Chosen \subseteq 1 .. n /\ Heads \subseteq Chosen
         /\ Chosen' = IF Selected(line) THEN Chosen \cup {n + 1} ELSE Chosen
         /\ Heads' = IF Selected(line) /\ line.start \notin DOMAIN index
                     THEN Heads \cup {n + 1} ELSE Heads
<1>1. line \in Line /\ DOMAIN input = 1 .. n
  BY LogAssumption DEF Ready, TypeOK
<1>2. /\ DOMAIN input' = 1 .. n + 1 /\ input'[n + 1] = line
      /\ \A i \in 1 .. n : input'[i] = input[i]
  BY <1>1 DEF ReadLine, Ready, TypeOK
<1>3. filter' = filter
  BY DEF ReadLine
<1>4. Chosen \subseteq 1 .. n /\ Heads \subseteq Chosen
  BY <1>1 DEF Chosen, Heads
<1>5. Chosen' = IF Selected(line) THEN Chosen \cup {n + 1} ELSE Chosen
  BY <1>1, <1>2, <1>3 DEF Chosen, Selected
<1>6. ASSUME NEW i \in Chosen PROVE i \in Heads' <=> i \in Heads
  BY <1>1, <1>2, <1>4, <1>5, <1>6 DEF Heads
<1>7. Selected(line) => (n + 1 \in Heads' <=> line.start \notin DOMAIN index)
  <2>1. DOMAIN index = {input[i].start : i \in Chosen}
    BY DEF Ready, TableInv
  <2> QED BY <1>1, <1>2, <1>4, <1>5, <2>1 DEF Heads
<1>8. Heads' \subseteq Chosen'
  BY DEF Heads
<1>9. Heads' = IF Selected(line) /\ line.start \notin DOMAIN index
               THEN Heads \cup {n + 1} ELSE Heads
  <2>1. CASE ~Selected(line)
    BY <1>4, <1>5, <1>6, <1>8, <2>1
  <2>2. CASE Selected(line) /\ line.start \in DOMAIN index
    <3>1. Chosen' = Chosen \cup {n + 1} /\ n + 1 \notin Heads'
      BY <1>5, <1>7, <2>2
    <3>2. Heads' = Heads
      BY <1>4, <1>6, <1>8, <3>1
    <3> QED BY <2>2, <3>2
  <2>3. CASE Selected(line) /\ line.start \notin DOMAIN index
    <3>1. Chosen' = Chosen \cup {n + 1} /\ n + 1 \in Heads'
      BY <1>5, <1>7, <2>3
    <3> QED BY <1>4, <1>6, <1>8, <2>3, <3>1
  <2> QED BY <2>1, <2>2, <2>3
<1> QED BY <1>1, <1>2, <1>4, <1>5, <1>9

\* The lines read before keep their places; the new one takes the next place
\* unless it is a later record of a cycle.
LEMMA NextPlace ==
  ASSUME Ready, NEW line \in Lines, ReadLine(line), NEW n \in Nat, n = Len(input)
  PROVE  /\ \A i \in 1 .. n : Place(i)' = Place(i)
         /\ Place(n + 1)' = IF Selected(line) /\ line.start \in DOMAIN index
                            THEN Place(n) ELSE Place(n) + 1
<1> DEFINE Later == Selected(line) /\ line.start \in DOMAIN index
<1>1. /\ Chosen \subseteq 1 .. n /\ Heads \subseteq Chosen
      /\ Chosen' = IF Selected(line) THEN Chosen \cup {n + 1} ELSE Chosen
      /\ Heads' = IF Selected(line) /\ line.start \notin DOMAIN index
                  THEN Heads \cup {n + 1} ELSE Heads
  BY ReadLog
<1>2. \A i \in 1 .. n : Standing(i)' = Standing(i)
  BY <1>1 DEF Standing
<1>3. Standing(n + 1)' = IF Later THEN Standing(n) ELSE Standing(n) \cup {n + 1}
  <2>1. 1 .. n + 1 = (1 .. n) \cup {n + 1} /\ n + 1 \notin 1 .. n
    BY <1>1
  <2>2. n + 1 \in Standing(n + 1)' <=> ~Later
    BY <1>1, <2>1 DEF Standing
  <2>3. \A i \in 1 .. n : i \in Standing(n + 1)' <=> i \in Standing(n)
    BY <1>1, <2>1 DEF Standing
  <2>4. Standing(n + 1)' \subseteq 1 .. n + 1 /\ Standing(n) \subseteq 1 .. n
    BY DEF Standing
  <2> HIDE DEF Later
  <2>5. CASE Later
    <3>1. Standing(n + 1)' = Standing(n)
      BY <2>1, <2>2, <2>3, <2>4, <2>5
    <3> QED BY <2>5, <3>1
  <2>6. CASE ~Later
    <3>1. Standing(n + 1)' = Standing(n) \cup {n + 1}
      BY <2>1, <2>2, <2>3, <2>4, <2>6
    <3> QED BY <2>6, <3>1
  <2> QED BY <2>5, <2>6
<1>4. IsFiniteSet(Standing(n)) /\ n + 1 \notin Standing(n)
  BY <1>1, PlaceType DEF Standing
<1>5. Cardinality(Standing(n) \cup {n + 1}) = Cardinality(Standing(n)) + 1
  BY <1>4, FS_AddElement
<1>6. \A i \in 1 .. n : Place(i)' = Place(i)
  BY <1>2 DEF Place
<1>7. Place(n + 1)' = IF Later THEN Place(n) ELSE Place(n) + 1
  BY <1>3, <1>5 DEF Place
<1> QED BY <1>6, <1>7

LEMMA TableInit == Init => TableInv
<1> SUFFICES ASSUME Init PROVE TableInv
  OBVIOUS
<1>1. Len(input) = 0 /\ DOMAIN input = {} /\ Len(rows) = 0 /\ DOMAIN index = {}
  BY DEF Init
<1>2. Chosen = {} /\ Heads = {}
  BY <1>1 DEF Chosen, Heads
<1>3. Place(0) = 0
  BY FS_EmptySet DEF Place, Standing
<1> QED BY <1>1, <1>2, <1>3 DEF TableInv

LEMMA TableStep ==
  ASSUME Ready, NEW line \in Lines, ReadLine(line)
  PROVE  TableInv'
<1>1. PICK n \in Nat : n = Len(input)
  BY DEF Ready, TypeOK
<1>2. /\ line \in Line /\ DOMAIN input = 1 .. n /\ DOMAIN input' = 1 .. n + 1
      /\ \A i \in 1 .. n : input'[i] = input[i]
      /\ input'[n + 1] = line
      /\ Chosen \subseteq 1 .. n /\ Heads \subseteq Chosen
      /\ Chosen' = IF Selected(line) THEN Chosen \cup {n + 1} ELSE Chosen
      /\ Heads' = IF Selected(line) /\ line.start \notin DOMAIN index
                  THEN Heads \cup {n + 1} ELSE Heads
  BY <1>1, ReadLog
<1>3. /\ \A i \in 1 .. n : Place(i)' = Place(i)
      /\ Place(n + 1)' = IF Selected(line) /\ line.start \in DOMAIN index
                         THEN Place(n) ELSE Place(n) + 1
  BY <1>1, NextPlace
<1>4. Len(input') = n + 1 /\ Place(n) \in Nat /\ Len(rows) = Place(n)
  BY <1>1, <1>2, PlaceType DEF Ready, TypeOK, TableInv, ReadLine
<1>5. \A i, j \in 1 .. n : Same(i, j)' <=> Same(i, j)
  BY <1>2 DEF Same
<1>6. /\ \A i \in Chosen : input[i].start \in DOMAIN index /\ input[i].start > 0
      /\ \A s \in DOMAIN index : \E i \in Chosen : input[i].start = s
      /\ \A s \in DOMAIN index : index[s] \in 1 .. Len(rows) /\ rows[index[s]].start = s /\ s > 0
  BY DEF Ready, TypeOK, TableInv, IndexFaithful
<1> USE DEF Ready
<1>7. \A i \in 1 .. n : i \in Heads \/ i \notin Chosen => Place(i) \in 1 .. Len(rows)
  BY <1>4, PlaceBounds DEF Standing
<1>8. \A i \in 1 .. n : i \notin Chosen => rows[Place(i)] = Empty /\ Empty.start = 0
  BY <1>2 DEF TableInv, Empty
<1>9. \A i \in Chosen : i \in 1 .. n /\ input'[i] = input[i]
  BY <1>2
<1>10. \A s : s \in DOMAIN index <=> \E i \in Chosen : s = input[i].start
  BY DEF TableInv
<1>11. CASE ~Selected(line)
  <2>1. rows' = Append(rows, Empty) /\ index' = index /\ Chosen' = Chosen /\ Heads' = Heads
    BY <1>2, <1>11 DEF ReadLine, BreakRow
  <2>2. \A m \in Chosen : Latest(m)' <=> Latest(m)
    BY <1>2, <1>5, <2>1 DEF Latest
  <2>3. /\ Len(rows') = Place(n) + 1 /\ rows'[Place(n) + 1] = Empty
        /\ \A p \in 1 .. Len(rows) : rows'[p] = rows[p]
    BY <1>4, <2>1 DEF TypeOK, Empty, Line, Statuses
  <2>4. Len(rows') = Place(Len(input))'
    BY <1>3, <1>4, <1>11, <2>3
  <2>5. DOMAIN index' = {input'[i].start : i \in Chosen'}
    BY <1>9, <1>10, <2>1
  <2>6. \A i \in Chosen' : \E h \in Heads' : Same(h, i)'
    BY <1>2, <1>5, <2>1 DEF TableInv
  <2>7. \A i \in Chosen' : \E m \in Chosen' : Same(m, i)' /\ Latest(m)'
    BY <1>2, <1>5, <2>1, <2>2 DEF TableInv
  <2>8. \A i \in Heads' : index'[input'[i].start] = Place(i)'
    BY <1>2, <1>3, <2>1 DEF TableInv
  <2>9. ASSUME NEW m \in Chosen, Latest(m)
        PROVE  rows'[index'[input'[m].start]] = input'[m]
    <3>1. index[input[m].start] \in 1 .. Len(rows) /\ rows[index[input[m].start]] = input[m]
      BY <1>6, <2>9 DEF TableInv
    <3> QED BY <1>9, <2>1, <2>3, <2>9, <3>1
  <2>10. \A i \in DOMAIN input' \ Chosen' : rows'[Place(i)'] = Empty
    BY <1>2, <1>3, <1>4, <1>7, <1>8, <1>11, <2>1, <2>3
  <2> QED BY <2>1, <2>2, <2>4, <2>5, <2>6, <2>7, <2>8, <2>9, <2>10 DEF TableInv
<1>12. CASE Selected(line) /\ line.start \in DOMAIN index
  <2> DEFINE q == index[line.start]
  <2>1. /\ rows' = [rows EXCEPT ![q] = line] /\ index' = index
        /\ Chosen' = Chosen \cup {n + 1} /\ Heads' = Heads
    BY <1>2, <1>12 DEF ReadLine, Replaced
  <2>2. q \in 1 .. Len(rows) /\ rows[q].start = line.start /\ line.start > 0
    BY <1>6, <1>12
  <2>3. /\ Len(rows') = Len(rows) /\ rows'[q] = line
        /\ \A p \in 1 .. Len(rows) : p # q => rows'[p] = rows[p]
    BY <1>2, <2>1, <2>2, ExceptSeq DEF TypeOK
  <2> HIDE DEF q
  <2>4. Len(rows') = Place(Len(input))'
    BY <1>3, <1>4, <1>12, <2>3
  <2>5. DOMAIN index' = {input'[i].start : i \in Chosen'}
    <3>1. input'[n + 1].start = line.start /\ n + 1 \in Chosen'
      BY <1>2, <2>1
    <3>2. ASSUME NEW i \in Chosen' PROVE input'[i].start \in DOMAIN index
      BY <1>12, <1>9, <1>10, <2>1, <3>1
    <3>3. \A s \in DOMAIN index : \E i \in Chosen' : s = input'[i].start
      BY <1>9, <1>10, <2>1
    <3> QED BY <2>1, <3>2, <3>3
  <2>6. \A i \in Chosen' : \E h \in Heads' : Same(h, i)'
    <3>1. PICK c \in Chosen : input[c].start = line.start
      BY <1>6, <1>12
    <3>2. PICK h \in Heads : Same(h, c)
      BY DEF TableInv
    <3>3. Same(h, n + 1)'
      BY <1>1, <1>2, <3>1, <3>2 DEF Same
    <3>4. \A i \in Chosen : \E g \in Heads : Same(g, i)'
      BY <1>2, <1>5 DEF TableInv
    <3> QED BY <2>1, <3>3, <3>4
  <2>7. \A m \in Chosen' : Latest(m)' <=>
          m = n + 1 \/ (m \in Chosen /\ Latest(m) /\ input[m].start # line.start)
    <3>1. Latest(n + 1)'
      <4>1. n + 1 \in Chosen' /\ \A j \in Chosen' : j <= n + 1
        BY <1>2, <2>1
      <4> QED BY <4>1 DEF Latest
    <3>2. ASSUME NEW m \in Chosen
          PROVE  Latest(m)' <=> Latest(m) /\ input[m].start # line.start
      <4>1. m \in 1 .. n /\ (Same(n + 1, m)' <=> line.start = input[m].start)
        BY <1>2, <3>2 DEF Same
      <4> QED BY <1>2, <1>5, <2>1, <4>1 DEF Latest
    <3> QED BY <1>2, <2>1, <3>1, <3>2
  <2>8. \A i \in Chosen' : \E m \in Chosen' : Same(m, i)' /\ Latest(m)'
    <3>1. Same(n + 1, n + 1)' /\ \A i \in Chosen : Same(n + 1, i)' <=> line.start = input[i].start
      BY <1>2 DEF Same
    <3>2. ASSUME NEW i \in Chosen, input[i].start # line.start
          PROVE  \E m \in Chosen : Same(m, i)' /\ Latest(m)'
      <4>1. PICK m \in Chosen : Same(m, i) /\ Latest(m)
        BY DEF TableInv
      <4>2. Same(m, i)' /\ input[m].start # line.start
        BY <1>2, <1>5, <3>2, <4>1 DEF Same
      <4> QED BY <2>1, <2>7, <4>1, <4>2
    <3> QED BY <2>1, <2>7, <3>1, <3>2
  <2>9. \A i \in Heads' : index'[input'[i].start] = Place(i)'
    BY <1>2, <1>3, <2>1 DEF TableInv
  <2>10. ASSUME NEW m \in Chosen', Latest(m)'
         PROVE  rows'[index'[input'[m].start]] = input'[m]
    <3>1. CASE m = n + 1
      BY <1>2, <2>1, <2>3, <3>1 DEF q
    <3>2. CASE m \in Chosen /\ Latest(m) /\ input[m].start # line.start
      <4>1. /\ input'[m] = input[m] /\ index[input[m].start] \in 1 .. Len(rows)
            /\ index[input[m].start] # q
        BY <1>2, <1>6, <2>2, <3>2
      <4> QED BY <2>1, <2>3, <3>2, <4>1 DEF TableInv
    <3> QED BY <2>7, <2>10, <3>1, <3>2
  <2>11. \A i \in DOMAIN input' \ Chosen' : rows'[Place(i)'] = Empty
    BY <1>2, <1>3, <1>7, <1>8, <2>1, <2>2, <2>3
  <2> QED BY <2>4, <2>5, <2>6, <2>8, <2>9, <2>10, <2>11 DEF TableInv
<1>13. CASE Selected(line) /\ line.start \notin DOMAIN index
  <2>1. /\ rows' = Append(rows, line)
        /\ index' = [s \in DOMAIN index \cup {line.start} |->
                       IF s = line.start THEN Len(rows) + 1 ELSE index[s]]
        /\ Chosen' = Chosen \cup {n + 1} /\ Heads' = Heads \cup {n + 1}
    BY <1>2, <1>13 DEF ReadLine, Position
  <2>2. /\ Len(rows') = Place(n) + 1 /\ rows'[Place(n) + 1] = line
        /\ \A p \in 1 .. Len(rows) : rows'[p] = rows[p]
    BY <1>2, <1>4, <2>1 DEF TypeOK
  <2>3. /\ index'[line.start] = Place(n) + 1
        /\ \A i \in Chosen : /\ index'[input[i].start] = index[input[i].start]
                             /\ input[i].start # line.start
    BY <1>4, <1>6, <1>13, <2>1
  <2>4. Len(rows') = Place(Len(input))'
    BY <1>3, <1>4, <1>13, <2>2
  <2>5. DOMAIN index' = {input'[i].start : i \in Chosen'}
    <3>1. DOMAIN index' = DOMAIN index \cup {line.start}
      BY <2>1
    <3> QED BY <1>2, <1>9, <1>10, <2>1, <3>1
  <2>6. Same(n + 1, n + 1)' /\ \A i \in Chosen : ~Same(n + 1, i)'
    BY <1>2, <2>3 DEF Same
  <2>7. \A i \in Chosen' : \E h \in Heads' : Same(h, i)'
    BY <1>2, <1>5, <2>1, <2>6 DEF TableInv
  <2>8. Latest(n + 1)' /\ \A m \in Chosen : Latest(m)' <=> Latest(m)
    <3>1. Latest(n + 1)'
      <4>1. n + 1 \in Chosen' /\ \A j \in Chosen' : j <= n + 1
        BY <1>2, <2>1
      <4> QED BY <4>1 DEF Latest
    <3>2. ASSUME NEW m \in Chosen PROVE Latest(m)' <=> Latest(m)
      BY <1>9, <1>5, <2>1, <2>6, <3>2 DEF Latest
    <3> QED BY <3>1, <3>2
  <2>9. \A i \in Chosen' : \E m \in Chosen' : Same(m, i)' /\ Latest(m)'
    BY <1>2, <1>5, <2>1, <2>6, <2>8 DEF TableInv
  <2>10. \A i \in Heads' : index'[input'[i].start] = Place(i)'
    BY <1>2, <1>3, <1>13, <2>1, <2>3 DEF TableInv
  <2>11. ASSUME NEW m \in Chosen', Latest(m)'
         PROVE  rows'[index'[input'[m].start]] = input'[m]
    <3>1. CASE m = n + 1
      BY <1>2, <2>2, <2>3, <3>1
    <3>2. CASE m \in Chosen
      <4>1. index[input[m].start] \in 1 .. Len(rows) /\ rows[index[input[m].start]] = input[m]
        BY <1>6, <2>8, <2>11, <3>2 DEF TableInv
      <4> QED BY <1>9, <2>2, <2>3, <3>2, <4>1
    <3> QED BY <2>1, <3>1, <3>2
  <2>12. \A i \in DOMAIN input' \ Chosen' : rows'[Place(i)'] = Empty
    BY <1>2, <1>3, <1>7, <1>8, <2>1, <2>2
  <2> QED BY <2>4, <2>5, <2>7, <2>9, <2>10, <2>11, <2>12 DEF TableInv
<1> QED BY <1>11, <1>12, <1>13

LEMMA CountsStep ==
  ASSUME Ready, NumbersOfLog, NEW line \in Lines, ReadLine(line)
  PROVE  NumbersOfLog'
<1>1. PICK n \in Nat : n = Len(input)
  BY DEF Ready, TypeOK
<1>2. /\ line \in Line /\ DOMAIN input = 1 .. n /\ DOMAIN input' = 1 .. n + 1
      /\ \A i \in 1 .. n : input'[i] = input[i]
      /\ input'[n + 1] = line
      /\ Chosen \subseteq 1 .. n /\ Heads \subseteq Chosen
      /\ Chosen' = IF Selected(line) THEN Chosen \cup {n + 1} ELSE Chosen
      /\ Heads' = IF Selected(line) /\ line.start \notin DOMAIN index
                  THEN Heads \cup {n + 1} ELSE Heads
  BY <1>1, ReadLog
<1> DEFINE Bad == {i \in DOMAIN input : ~Valid(input[i])}
<1>3. Bad \in SUBSET (1 .. n) /\ Chosen \in SUBSET (1 .. n) /\ Heads \in SUBSET (1 .. n)
  BY <1>2
<1>4. IsFiniteSet(Bad) /\ IsFiniteSet(Chosen) /\ IsFiniteSet(Heads)
  <2>1. IsFiniteSet(1 .. n)
    BY FS_Interval
  <2> HIDE DEF Bad
  <2> QED BY <1>3, <2>1, FS_Subset
<1>5. n + 1 \notin Bad /\ n + 1 \notin Chosen /\ n + 1 \notin Heads
  BY <1>3
<1>6. Bad' = IF Valid(line) THEN Bad ELSE Bad \cup {n + 1}
  <2>1. \A i \in 1 .. n : i \in Bad' <=> i \in Bad
    BY <1>2
  <2>2. n + 1 \in Bad' <=> ~Valid(line)
    BY <1>2
  <2>3. Bad' \subseteq 1 .. n + 1
    BY <1>2
  <2> HIDE DEF Bad
  <2>4. 1 .. n + 1 = (1 .. n) \cup {n + 1} /\ n + 1 \notin 1 .. n
    OBVIOUS
  <2>5. CASE Valid(line)
    <3>1. Bad' = Bad
      BY <1>3, <2>1, <2>2, <2>3, <2>5, <2>4
    <3> QED BY <2>5, <3>1
  <2>6. CASE ~Valid(line)
    <3>1. Bad' = Bad \cup {n + 1}
      BY <1>3, <2>1, <2>2, <2>3, <2>6, <2>4
    <3> QED BY <2>6, <3>1
  <2> QED BY <2>5, <2>6
<1>7. /\ Cardinality(Bad \cup {n + 1}) = Cardinality(Bad) + 1
      /\ Cardinality(Chosen \cup {n + 1}) = Cardinality(Chosen) + 1
      /\ Cardinality(Heads \cup {n + 1}) = Cardinality(Heads) + 1
  <2> HIDE DEF Bad
  <2> QED BY <1>4, <1>5, FS_AddElement
<1>8. invalid = Cardinality(Bad) /\ records = Cardinality(Chosen) /\ Cycles = Cardinality(Heads)
  BY DEF NumbersOfLog
<1>9. invalid' = Cardinality(Bad') /\ records' = Cardinality(Chosen')
  <2> HIDE DEF Bad
  <2>1. Selected(line) => Valid(line)
    BY DEF Selected
  <2> QED BY <1>2, <1>6, <1>7, <1>8, <2>1 DEF ReadLine
<1>10. Cycles' = Cardinality(Heads')
  <2>1. CASE Selected(line) /\ line.start \notin DOMAIN index
    <3>1. DOMAIN index' = DOMAIN index \cup {line.start}
      BY <2>1 DEF ReadLine
    <3>2. IsFiniteSet(DOMAIN index)
      BY DEF Ready, Accounted
    <3>3. Cardinality(DOMAIN index') = Cardinality(DOMAIN index) + 1
      BY <2>1, <3>1, <3>2, FS_AddElement
    <3> QED BY <1>2, <1>7, <1>8, <2>1, <3>3 DEF Cycles
  <2>2. CASE ~(Selected(line) /\ line.start \notin DOMAIN index)
    <3>1. index' = index
      BY <2>2 DEF ReadLine
    <3> QED BY <1>2, <1>8, <2>2, <3>1 DEF Cycles
  <2> QED BY <2>1, <2>2
<1>11. duplicates' = records' - Cycles'
  <2>1. Accounted' /\ TypeOK'
    BY NextAccounted, NextTypes DEF Ready, Next
  <2>2. Cycles' \in Nat
    BY <2>1, FS_CardinalityType DEF Accounted, Cycles
  <2> QED BY <2>1, <2>2 DEF Accounted, TypeOK
<1> QED BY <1>9, <1>10, <1>11 DEF NumbersOfLog

LEMMA LogStep ==
  ASSUME Ready, NumbersOfLog, [Next]_vars
  PROVE  Ready' /\ NumbersOfLog'
<1>1. TypeOK' /\ IndexFaithful' /\ Accounted'
  BY NextTypes, NextFaithful, NextAccounted DEF Ready
<1>2. ASSUME NEW line \in Lines, ReadLine(line) PROVE TableInv' /\ NumbersOfLog'
  BY <1>2, TableStep, CountsStep
<1>3. CASE EndReading \/ UNCHANGED vars
  <2>1. UNCHANGED <<filter, rows, index, invalid, records, duplicates, input>>
    BY <1>3 DEF EndReading, vars
  <2>2. Chosen' = Chosen
    BY <2>1 DEF Chosen, Selected
  <2>3. Heads' = Heads
    BY <2>1, <2>2 DEF Heads
  <2>4. \A n : Place(n)' = Place(n)
    BY <2>2, <2>3 DEF Place, Standing
  <2>5. TableInv'
    BY <2>1, <2>2, <2>3, <2>4 DEF Ready, TableInv, Same, Latest
  <2>6. NumbersOfLog'
    BY <2>1, <2>2, <2>3 DEF NumbersOfLog, Cycles
  <2> QED BY <1>1, <2>5, <2>6 DEF Ready
<1> QED BY <1>1, <1>2, <1>3 DEF Next, Ready

THEOREM LogInvariant == Spec => [](Ready /\ NumbersOfLog)
<1>1. Init => Ready /\ NumbersOfLog
  <2> SUFFICES ASSUME Init PROVE Ready /\ NumbersOfLog
    OBVIOUS
  <2>1. TypeOK /\ TableInv
    BY InitTypes, TableInit
  <2>2. DOMAIN input = {} /\ DOMAIN index = {} /\ Len(rows) = 0
    BY DEF Init
  <2>3. Chosen = {} /\ Heads = {} /\ {i \in DOMAIN input : ~Valid(input[i])} = {}
    BY <2>2 DEF Chosen, Heads
  <2>4. IndexFaithful /\ Accounted
    BY <2>2, FS_EmptySet DEF Init, IndexFaithful, Accounted, Cycles
  <2>5. NumbersOfLog
    BY <2>2, <2>3, FS_EmptySet DEF Init, NumbersOfLog, Cycles
  <2> QED BY <2>1, <2>4, <2>5 DEF Ready
<1> QED BY <1>1, LogStep, PTL DEF Spec

\* The numbers over the report are those of the log: its invalid lines, the
\* lines within the filter, their cycles and the records of a cycle beyond its
\* first one.
THEOREM NumbersAreOfTheLog == Spec => []NumbersOfLog
BY LogInvariant, PTL

LEMMA ReadyRows == Ready => RowsAreOutcomes
<1> SUFFICES ASSUME Ready PROVE RowsAreOutcomes
  OBVIOUS
<1>1. ASSUME NEW i \in Heads PROVE rows[Place(i)] = Outcome(i)
  <2> DEFINE S == {j \in Chosen : input[j].start = input[i].start}
  <2>1. PICK m \in Chosen : Same(m, i) /\ Latest(m)
    BY <1>1 DEF Ready, TableInv, Heads
  <2>2. m \in S /\ \A j \in S : m >= j
    BY <2>1 DEF Same, Latest, Chosen, Ready, TypeOK
  <2>3. ASSUME NEW x \in S, \A j \in S : x >= j PROVE x = m
    BY <2>2, <2>3 DEF Chosen, Ready, TypeOK
  <2>4. Max(S) = m
    BY <2>2, <2>3 DEF Max
  <2>5. rows[index[input[m].start]] = input[m] /\ index[input[i].start] = Place(i)
    BY <1>1, <2>1 DEF Ready, TableInv
  <2> QED BY <2>1, <2>4, <2>5 DEF Outcome, Same
<1> QED BY <1>1 DEF RowsAreOutcomes, Ready, TableInv

\* The report is computed from one row for each cycle, in the order of the
\* first records and with the last outcome, and from an empty row for every
\* other line, for logs of any length.
THEOREM TableIsTheLog == Spec => []RowsAreOutcomes
  BY ReadyRows, LogInvariant, PTL

(***************************************************************************)
(* The percentile.                                                         *)
(***************************************************************************)

\* The code's index is in bounds for any number of values, and it is the first
\* with at least 95 of 100 values at or before it.
THEOREM RankIsNearest ==
  ASSUME NEW n \in Nat \ {0}
  PROVE  /\ Rank(n) \in 1 .. n
         /\ 20 * Rank(n) >= 19 * n
         /\ 20 * (Rank(n) - 1) < 19 * n
  BY DEF Rank

-----------------------------------------------------------------------------
(* The loop over the rows, and what the report says of the log. *)

(***************************************************************************)
(* Induction over the naturals, for sets of them.                          *)
(***************************************************************************)

Below == {pair \in Nat \X Nat : pair[1] < pair[2]}

\* A set of naturals that holds 0 and every successor holds them all.
LEMMA SetInduction ==
  ASSUME NEW S, 0 \in S, \A n \in Nat : n \in S => n + 1 \in S
  PROVE  Nat \subseteq S
<1>1. SUFFICES ASSUME Nat \ S # {} PROVE FALSE
  OBVIOUS
<1> DEFINE T == Nat \ S
<1>2. PICK x \in T : \A y \in T : ~ (<<y, x>> \in Below)
  <2>1. T \subseteq Nat /\ T # {}
    BY <1>1 DEF T
  <2>2. IsWellFoundedOn(Below, Nat)
    BY NatLessThanWellFounded DEF OpToRel, Below
  <2> HIDE DEF T
  <2> QED BY <2>1, <2>2, WFMin
<1>3. x # 0 /\ x - 1 \in Nat /\ <<x - 1, x>> \in Below
  BY DEF Below
<1>4. x - 1 \in S /\ (x - 1) + 1 = x
  BY <1>2, <1>3
<1> QED BY <1>3, <1>4

\* The same up to n.
LEMMA UpTo ==
  ASSUME NEW S, NEW n \in Nat, 0 \in S,
         \A k \in 0 .. n - 1 : k \in S => k + 1 \in S
  PROVE  0 .. n \subseteq S
<1> DEFINE T == {k \in Nat : k <= n => k \in S}
<1>1. 0 \in T /\ \A k \in Nat : k \in T => k + 1 \in T
  OBVIOUS
<1>2. Nat \subseteq T
  <2> HIDE DEF T
  <2> QED BY <1>1, SetInduction
<1> QED BY <1>2

LEMMA MaxIs ==
  ASSUME NEW S \in SUBSET Int, NEW m \in S, \A x \in S : m >= x
  PROVE  Max(S) = m
<1>1. \A x \in S : (\A y \in S : x >= y) => x = m
  OBVIOUS
<1> QED BY <1>1 DEF Max

LEMMA MinIs ==
  ASSUME NEW S \in SUBSET Int, NEW m \in S, \A x \in S : m <= x
  PROVE  Min(S) = m
<1>1. \A x \in S : (\A y \in S : x <= y) => x = m
  OBVIOUS
<1> QED BY <1>1 DEF Min

(***************************************************************************)
(* The loop over the rows, one row at a time.                              *)
(***************************************************************************)

\* What FoldLeft computes for the sets of the first k places.
Folds(F, s, k) ==
  F = [t \in SUBSET (1 .. k) |->
         IF t = {} THEN EmptyReport ELSE AddRow(F[t \ {Max(t)}], s[Max(t)])]

LEMMA FoldExists ==
  ASSUME NEW s, NEW m \in Nat
  PROVE  \E F : Folds(F, s, m)
<1> DEFINE S == {k \in Nat : \E F : Folds(F, s, k)}
<1>1. 0 \in S
  <2> DEFINE F == [t \in SUBSET (1 .. 0) |-> EmptyReport]
  <2>1. \A t \in SUBSET (1 .. 0) : t = {}
    OBVIOUS
  <2>2. F = [t \in SUBSET (1 .. 0) |->
               IF t = {} THEN EmptyReport ELSE AddRow(F[t \ {Max(t)}], s[Max(t)])]
    BY <2>1
  <2>3. Folds(F, s, 0)
    BY <2>2 DEF Folds
  <2> QED BY <2>3
<1>2. ASSUME NEW k \in Nat, k \in S PROVE k + 1 \in S
  <2>1. PICK F : Folds(F, s, k)
    BY <1>2
  <2> DEFINE H == [t \in SUBSET (1 .. k + 1) |->
                     IF k + 1 \in t THEN AddRow(F[t \ {k + 1}], s[k + 1]) ELSE F[t]]
  <2>2. ASSUME NEW t \in SUBSET (1 .. k + 1)
        PROVE  H[t] = IF t = {} THEN EmptyReport ELSE AddRow(H[t \ {Max(t)}], s[Max(t)])
    <3>1. CASE k + 1 \in t
      <4>1. Max(t) = k + 1
        BY <3>1, MaxIs
      <4>2. t \ {k + 1} \in SUBSET (1 .. k + 1) /\ k + 1 \notin t \ {k + 1} /\ t # {}
        BY <3>1
      <4>3. H[t \ {k + 1}] = F[t \ {k + 1}]
        BY <4>2
      <4>4. H[t] = AddRow(F[t \ {k + 1}], s[k + 1])
        BY <3>1
      <4> HIDE DEF H
      <4> QED BY <4>1, <4>2, <4>3, <4>4
    <3>2. CASE k + 1 \notin t
      <4>1. t \in SUBSET (1 .. k)
        BY <3>2
      <4>2. t \ {Max(t)} \in SUBSET (1 .. k) /\ t \ {Max(t)} \in SUBSET (1 .. k + 1)
        BY <4>1
      <4>3. H[t] = F[t] /\ H[t \ {Max(t)}] = F[t \ {Max(t)}]
        BY <3>2, <4>2
      <4> HIDE DEF H
      <4> QED BY <2>1, <4>1, <4>3 DEF Folds
    <3> QED BY <3>1, <3>2
  <2>3. H = [t \in SUBSET (1 .. k + 1) |-> H[t]]
    OBVIOUS
  <2>4. Folds(H, s, k + 1)
    <3> HIDE DEF H
    <3> QED BY <2>2, <2>3 DEF Folds
  <2> QED BY <2>4
<1>3. Nat \subseteq S
  <2> HIDE DEF S
  <2> QED BY <1>1, <1>2, SetInduction
<1> QED BY <1>3

\* The loop starts with an empty report and goes through one state for each row.
LEMMA Loop ==
  ASSUME NEW s, NEW n \in Nat, DOMAIN s = 1 .. n
  PROVE  \E at : /\ at[0] = EmptyReport
                 /\ \A k \in 0 .. n - 1 : at[k + 1] = AddRow(at[k], s[k + 1])
                 /\ FoldLeft(AddRow, EmptyReport, s) = at[n]
<1> DEFINE F == CHOOSE F : Folds(F, s, n)
           at == [k \in 0 .. n |-> F[1 .. k]]
<1>1. Folds(F, s, n)
  BY FoldExists
<1>2. FoldLeft(AddRow, EmptyReport, s) = F[1 .. n]
  BY DEF FoldLeft, MapThenFoldSet, Folds
<1> HIDE DEF F
<1>3. at[0] = EmptyReport
  <2>1. 1 .. 0 = {} /\ {} \in SUBSET (1 .. n)
    OBVIOUS
  <2>2. F[{}] = EmptyReport
    BY <1>1, <2>1 DEF Folds
  <2> QED BY <2>1, <2>2
<1>4. ASSUME NEW k \in 0 .. n - 1 PROVE at[k + 1] = AddRow(at[k], s[k + 1])
  <2>1. 1 .. k + 1 \in SUBSET (1 .. n) /\ 1 .. k + 1 # {} /\ k + 1 \in 0 .. n /\ k \in 0 .. n
    OBVIOUS
  <2>2. Max(1 .. k + 1) = k + 1
    <3>1. k + 1 \in 1 .. k + 1 /\ 1 .. k + 1 \in SUBSET Int /\ \A x \in 1 .. k + 1 : k + 1 >= x
      OBVIOUS
    <3> QED BY <3>1, MaxIs
  <2>3. (1 .. k + 1) \ {k + 1} = 1 .. k
    OBVIOUS
  <2>4. F[1 .. k + 1] = AddRow(F[1 .. k], s[k + 1])
    BY <1>1, <2>1, <2>2, <2>3 DEF Folds
  <2> QED BY <2>1, <2>4
<1>5. at[n] = F[1 .. n]
  OBVIOUS
<1> HIDE DEF at
<1> QED BY <1>2, <1>3, <1>4, <1>5

(***************************************************************************)
(* What one row does to the report: the numbers and the windows.           *)
(***************************************************************************)

Window ==
  [start : Int, end : Int, samples : Nat, startCapacity : Int, endCapacity : Int]
ReportType ==
  [first : Int, last : Int, took : Seq(Int), statuses : [Statuses -> Nat],
   window : Window, discharge : Seq(Window)]

Used(row) == row.start # 0
Sampled(row) == Used(row) /\ Capacity(row) >= 0

Flushed(x) == IF x.window.samples >= 2 THEN Append(x.discharge, x.window) ELSE x.discharge

LEMMA FlushFacts ==
  ASSUME NEW x \in ReportType
  PROVE  /\ Flush(x) \in ReportType
         /\ Flush(x).window = NoWindow /\ Flush(x).discharge = Flushed(x)
         /\ \A f \in {"first", "last", "took", "statuses"} : Flush(x)[f] = x[f]
<1>1. NoWindow \in Window
  BY DEF NoWindow, Window
<1>2. Flushed(x) \in Seq(Window)
  BY DEF Flushed, ReportType
<1>3. Flush(x) = [x EXCEPT !.window = NoWindow, !.discharge = Flushed(x)]
  BY DEF Flush, Flushed, ReportType
<1> QED BY <1>1, <1>2, <1>3 DEF ReportType

LEMMA CountedFacts ==
  ASSUME NEW x \in ReportType, NEW row \in Line
  PROVE  /\ Counted(x, row) \in ReportType
         /\ Counted(x, row).window = x.window /\ Counted(x, row).discharge = x.discharge
         /\ Counted(x, row).took = Append(x.took, row.took)
         /\ Counted(x, row).statuses = [x.statuses EXCEPT ![row.status] = @ + 1]
         /\ Counted(x, row).first =
              IF x.first = 0 \/ row.start < x.first THEN row.start ELSE x.first
         /\ Counted(x, row).last =
              IF x.last < row.start + row.took THEN row.start + row.took ELSE x.last
<1> DEFINE ended == row.start + row.took
<1>1. /\ x.first \in Int /\ x.last \in Int /\ row.start \in Nat /\ row.took \in Int
      /\ row.status \in Statuses /\ ended \in Int
  BY DEF ReportType, Line
<1>2. Min({x.first, row.start}) = IF row.start < x.first THEN row.start ELSE x.first
  <2>1. ASSUME NEW m \in {x.first, row.start}, m <= x.first, m <= row.start
        PROVE  Min({x.first, row.start}) = m
    <3>1. {x.first, row.start} \in SUBSET Int /\ \A y \in {x.first, row.start} : m <= y
      BY <1>1, <2>1
    <3> QED BY <2>1, <3>1, MinIs
  <2> QED BY <1>1, <2>1
<1>3. Max({x.last, ended}) = IF x.last < ended THEN ended ELSE x.last
  <2> HIDE DEF ended
  <2>1. ASSUME NEW m \in {x.last, ended}, m >= x.last, m >= ended
        PROVE  Max({x.last, ended}) = m
    BY <1>1, <2>1, MaxIs
  <2> QED BY <1>1, <2>1
<1> DEFINE first == IF x.first = 0 \/ row.start < x.first THEN row.start ELSE x.first
           last == IF x.last < ended THEN ended ELSE x.last
           took == Append(x.took, row.took)
           statuses == [x.statuses EXCEPT ![row.status] = @ + 1]
<1>4. Counted(x, row) = [x EXCEPT !.first = first, !.last = last, !.took = took,
                                  !.statuses = statuses]
  <2>1. first = IF x.first = 0 THEN row.start ELSE Min({x.first, row.start})
    BY <1>2
  <2>2. last = Max({x.last, ended})
    BY <1>3
  <2>3. Counted(x, row) =
          [x EXCEPT !.first = IF x.first = 0 THEN row.start ELSE Min({x.first, row.start}),
                    !.last = Max({x.last, ended}), !.took = took, !.statuses = statuses]
    BY <1>1 DEF Counted, ReportType
  <2> HIDE DEF first, last, took, statuses, ended
  <2> QED BY <2>1, <2>2, <2>3
<1>5. first \in Int /\ last \in Int
  BY <1>1
<1>6. took \in Seq(Int)
  BY <1>1 DEF ReportType
<1>7. statuses \in [Statuses -> Nat]
  BY <1>1 DEF ReportType
<1>8. /\ Counted(x, row) \in ReportType
      /\ Counted(x, row).window = x.window /\ Counted(x, row).discharge = x.discharge
      /\ Counted(x, row).took = took /\ Counted(x, row).statuses = statuses
      /\ Counted(x, row).first = first /\ Counted(x, row).last = last
  <2> HIDE DEF first, last, took, statuses
  <2> QED BY <1>4, <1>5, <1>6, <1>7 DEF ReportType
<1> QED BY <1>8

LEMMA CapacityType ==
  ASSUME NEW row \in Line
  PROVE  Capacity(row) \in Int /\ Capacity(row) >= -1
BY DEF Capacity, Line

LEMMA ExtendedType ==
  ASSUME NEW w \in Window, NEW row \in Line
  PROVE  Extended(w, row) \in Window
<1>1. row.start \in Int /\ Capacity(row) \in Int
  BY CapacityType DEF Line
<1> QED BY <1>1 DEF Extended, Window

\* A row that is not used touches nothing but the window.
LEMMA AddRowFacts ==
  ASSUME NEW x \in ReportType, NEW row \in Line
  PROVE  /\ AddRow(x, row) \in ReportType
         /\ \A f \in {"first", "last", "took", "statuses"} :
              AddRow(x, row)[f] = IF Used(row) THEN Counted(x, row)[f] ELSE x[f]
         /\ AddRow(x, row).window =
              IF ~Sampled(row) THEN NoWindow
              ELSE Extended(IF Disagrees(x.window, row) THEN NoWindow ELSE x.window, row)
         /\ AddRow(x, row).discharge =
              IF Sampled(row) /\ ~Disagrees(x.window, row) THEN x.discharge ELSE Flushed(x)
<1>1. CASE ~Used(row)
  <2>1. AddRow(x, row) = Flush(x) /\ ~Sampled(row)
    BY <1>1 DEF AddRow, Used, Sampled
  <2> QED BY <1>1, <2>1, FlushFacts
<1>2. CASE Used(row)
  <2> DEFINE y == Counted(x, row)
  <2>1. y \in ReportType /\ y.window = x.window /\ y.discharge = x.discharge
    BY CountedFacts
  <2>2. Flushed(y) = Flushed(x)
    BY <2>1 DEF Flushed
  <2> HIDE DEF y
  <2>3. CASE ~Sampled(row)
    <3>1. AddRow(x, row) = Flush(y)
      BY <1>2, <2>3, CapacityType DEF AddRow, Used, Sampled, y
    <3> QED BY <1>2, <2>1, <2>2, <2>3, <3>1, FlushFacts DEF y
  <2>4. CASE Sampled(row)
    <3> DEFINE before == IF Disagrees(y.window, row) THEN Flush(y) ELSE y
    <3>1. AddRow(x, row) = [before EXCEPT !.window = Extended(@, row)]
      BY <1>2, <2>4, CapacityType DEF AddRow, Used, Sampled, Linked, y
    <3>2. /\ before \in ReportType
          /\ before.window = (IF Disagrees(x.window, row) THEN NoWindow ELSE x.window)
          /\ before.discharge = (IF ~Disagrees(x.window, row) THEN x.discharge ELSE Flushed(x))
          /\ \A f \in {"first", "last", "took", "statuses"} : before[f] = y[f]
      BY <2>1, <2>2, FlushFacts
    <3> HIDE DEF before
    <3>3. Extended(before.window, row) \in Window
      BY <3>2, ExtendedType DEF ReportType
    <3>4. /\ AddRow(x, row) \in ReportType
          /\ AddRow(x, row).window = Extended(before.window, row)
          /\ AddRow(x, row).discharge = before.discharge
          /\ \A f \in {"first", "last", "took", "statuses"} : AddRow(x, row)[f] = before[f]
      BY <3>1, <3>2, <3>3 DEF ReportType
    <3> QED BY <1>2, <2>4, <3>2, <3>4 DEF y
  <2> QED BY <2>3, <2>4
<1> QED BY <1>1, <1>2

(***************************************************************************)
(* The windows.  A row links to the next one when both are samples and     *)
(* nothing speaks against one discharge; a span is a longest chain of at   *)
(* least two rows.                                                         *)
(***************************************************************************)

Linking(s, p) ==
  /\ p \in 1 .. Len(s) - 1 /\ Sampled(s[p]) /\ Sampled(s[p + 1])
  /\ s[p].start < s[p + 1].start /\ Capacity(s[p + 1]) <= Capacity(s[p])

Chain(s, a, b) == \A p \in a .. b - 1 : Linking(s, p)

\* The spans that end before row k.
Spans(s, k) ==
  {span \in (1 .. Len(s)) \X (1 .. Len(s)) :
     /\ span[1] < span[2] /\ span[2] < k /\ Chain(s, span[1], span[2])
     /\ ~Linking(s, span[1] - 1) /\ ~Linking(s, span[2])}

SpanWindow(s, a, b) ==
  [start |-> s[a].start, end |-> s[b].start, samples |-> b - a + 1,
   startCapacity |-> Capacity(s[a]), endCapacity |-> Capacity(s[b])]

Enumerates(windows, s, S) ==
  \E spans \in [DOMAIN windows -> S] :
    /\ \A span \in S : \E n \in DOMAIN windows : spans[n] = span
    /\ \A m, n \in DOMAIN windows : m < n => spans[m][1] < spans[n][1]
    /\ \A n \in DOMAIN windows : windows[n] = SpanWindow(s, spans[n][1], spans[n][2])

\* After k rows the open window is the chain that ends at row k, if it is a
\* sample, and the reported ones are the spans that ended before it.
OpenChain(s, k, window) ==
  IF k = 0 \/ ~Sampled(s[k])
  THEN window = NoWindow
  ELSE \E a \in 1 .. k : /\ Chain(s, a, k) /\ ~Linking(s, a - 1)
                         /\ window = SpanWindow(s, a, k)

WindowsInv(s, k, x) ==
  OpenChain(s, k, x.window) /\ Enumerates(x.discharge, s, Spans(s, k))

LEMMA OneMore ==
  ASSUME NEW windows \in Seq(Window), NEW s, NEW S \in SUBSET (Nat \X Nat),
         Enumerates(windows, s, S),
         NEW a \in Nat, NEW b \in Nat, \A span \in S : span[1] < a
  PROVE  Enumerates(Append(windows, SpanWindow(s, a, b)), s, S \cup {<<a, b>>})
<1> DEFINE w == SpanWindow(s, a, b)
           more == Append(windows, w)
           n == Len(windows)
<1>1. n \in Nat /\ DOMAIN windows = 1 .. n
  OBVIOUS
<1>2. /\ DOMAIN more = 1 .. n + 1 /\ more[n + 1] = w
      /\ \A m \in 1 .. n : more[m] = windows[m]
  BY <1>1
<1>3. PICK spans \in [1 .. n -> S] :
        /\ \A span \in S : \E m \in 1 .. n : spans[m] = span
        /\ \A l, m \in 1 .. n : l < m => spans[l][1] < spans[m][1]
        /\ \A m \in 1 .. n : windows[m] = SpanWindow(s, spans[m][1], spans[m][2])
  BY <1>1 DEF Enumerates
<1> HIDE DEF n, more
<1> DEFINE all == [m \in 1 .. n + 1 |-> IF m = n + 1 THEN <<a, b>> ELSE spans[m]]
<1>4. all[n + 1] = <<a, b>> /\ \A m \in 1 .. n : all[m] = spans[m]
  BY <1>1
<1>5. all \in [1 .. n + 1 -> S \cup {<<a, b>>}]
  BY <1>1
<1> HIDE DEF all, w
<1>6. \A span \in S \cup {<<a, b>>} : \E m \in 1 .. n + 1 : all[m] = span
  <2>1. ASSUME NEW span \in S PROVE \E m \in 1 .. n + 1 : all[m] = span
    <3>1. PICK m \in 1 .. n : spans[m] = span
      BY <1>3
    <3>2. m \in 1 .. n + 1 /\ all[m] = span
      BY <1>1, <1>4, <3>1
    <3> QED BY <3>2
  <2>2. n + 1 \in 1 .. n + 1
    BY <1>1
  <2> QED BY <1>4, <2>1, <2>2
<1>7. \A l, m \in 1 .. n + 1 : l < m => all[l][1] < all[m][1]
  <2> SUFFICES ASSUME NEW l \in 1 .. n + 1, NEW m \in 1 .. n + 1, l < m
               PROVE  all[l][1] < all[m][1]
    OBVIOUS
  <2>1. l \in 1 .. n /\ all[l] = spans[l] /\ spans[l] \in S
    BY <1>1, <1>3, <1>4
  <2>2. CASE m = n + 1
    BY <1>4, <2>1, <2>2
  <2>3. CASE m \in 1 .. n
    BY <1>3, <1>4, <2>1, <2>3
  <2> QED BY <1>1, <2>2, <2>3
<1>8. \A m \in 1 .. n + 1 : more[m] = SpanWindow(s, all[m][1], all[m][2])
  <2> TAKE m \in 1 .. n + 1
  <2>1. CASE m = n + 1
    BY <1>2, <1>4, <2>1 DEF w
  <2>2. CASE m \in 1 .. n
    BY <1>2, <1>3, <1>4, <2>2
  <2> QED BY <1>1, <2>1, <2>2
<1>9. Enumerates(more, s, S \cup {<<a, b>>})
  <2>1. all \in [DOMAIN more -> S \cup {<<a, b>>}]
    BY <1>2, <1>5
  <2>2. /\ \A span \in S \cup {<<a, b>>} : \E m \in DOMAIN more : all[m] = span
        /\ \A l, m \in DOMAIN more : l < m => all[l][1] < all[m][1]
        /\ \A m \in DOMAIN more : more[m] = SpanWindow(s, all[m][1], all[m][2])
    BY <1>2, <1>6, <1>7, <1>8
  <2> QED BY <2>1, <2>2 DEF Enumerates
<1> QED BY <1>9 DEF more, w

LEMMA SampleTypes ==
  ASSUME NEW s \in Seq(Line), NEW p \in 1 .. Len(s)
  PROVE  s[p] \in Line /\ s[p].start \in Nat /\ Capacity(s[p]) \in Int
<1>1. s[p] \in Line
  BY ElementOfSeq
<1>2. Capacity(s[p]) \in Int
  BY <1>1, CapacityType
<1>3. s[p].start \in Nat
  BY <1>1 DEF Line
<1> QED BY <1>1, <1>2, <1>3

\* A flush reports the open window if it is a span.
LEMMA Closing ==
  ASSUME NEW s \in Seq(Line), NEW k \in 0 .. Len(s), NEW x \in ReportType,
         WindowsInv(s, k, x), ~Linking(s, k)
  PROVE  Enumerates(Flushed(x), s, Spans(s, k + 1))
<1>1. x.discharge \in Seq(Window) /\ Enumerates(x.discharge, s, Spans(s, k))
  BY DEF ReportType, WindowsInv
<1>2. Spans(s, k) \subseteq Spans(s, k + 1) /\ Spans(s, k) \in SUBSET (Nat \X Nat)
  BY DEF Spans
<1>3. CASE Spans(s, k + 1) \subseteq Spans(s, k) /\ x.window.samples < 2
  <2>1. Flushed(x) = x.discharge
    BY <1>3 DEF Flushed, ReportType, Window
  <2>2. Spans(s, k + 1) = Spans(s, k)
    BY <1>2, <1>3
  <2> QED BY <1>1, <2>1, <2>2
<1>4. ASSUME NEW span \in Spans(s, k + 1), span \notin Spans(s, k)
      PROVE  /\ span = <<span[1], k>> /\ span[1] \in 1 .. k - 1 /\ Chain(s, span[1], k)
             /\ ~Linking(s, span[1] - 1) /\ Linking(s, k - 1)
  BY <1>4 DEF Spans, Chain
<1>5. CASE k = 0 \/ ~Sampled(s[k])
  <2>1. x.window.samples = 0
    BY <1>5 DEF WindowsInv, OpenChain, NoWindow
  <2>2. ~Linking(s, k - 1)
    BY <1>5 DEF Linking
  <2> QED BY <1>3, <1>4, <2>1, <2>2
<1>6. CASE ~(k = 0 \/ ~Sampled(s[k]))
  <2>1. PICK a \in 1 .. k : /\ Chain(s, a, k) /\ ~Linking(s, a - 1)
                            /\ x.window = SpanWindow(s, a, k)
    BY <1>6 DEF WindowsInv, OpenChain
  <2>2. x.window.samples = k - a + 1
    BY <2>1 DEF SpanWindow
  <2>3. CASE a = k
    BY <1>3, <1>4, <2>1, <2>2, <2>3
  <2>4. CASE a < k
    <3>1. Flushed(x) = Append(x.discharge, SpanWindow(s, a, k))
      BY <2>1, <2>2, <2>4 DEF Flushed
    <3>2. <<a, k>> \in Spans(s, k + 1)
      BY <2>1, <2>4 DEF Spans
    <3>3. ASSUME NEW span \in Spans(s, k + 1), span \notin Spans(s, k)
          PROVE  span = <<a, k>>
      <4>1. CASE span[1] < a
        BY <1>4, <2>1, <3>3, <4>1 DEF Chain
      <4>2. CASE span[1] > a
        BY <1>4, <2>1, <3>3, <4>2 DEF Chain
      <4> QED BY <1>4, <3>3, <4>1, <4>2
    <3>4. ASSUME NEW span \in Spans(s, k) PROVE span[1] < a
      <4>1. /\ span[1] \in Nat /\ span[2] \in Nat /\ span[1] < span[2] /\ span[2] < k
            /\ ~Linking(s, span[2])
        BY DEF Spans
      <4> QED BY <2>1, <4>1 DEF Chain
    <3>5. Spans(s, k + 1) = Spans(s, k) \cup {<<a, k>>}
      BY <1>2, <3>2, <3>3
    <3> QED BY <1>1, <1>2, <3>1, <3>4, <3>5, OneMore
  <2> QED BY <2>3, <2>4
<1> QED BY <1>5, <1>6

LEMMA WindowsStep ==
  ASSUME NEW s \in Seq(Line), NEW k \in 0 .. Len(s) - 1, NEW x \in ReportType,
         WindowsInv(s, k, x)
  PROVE  WindowsInv(s, k + 1, AddRow(x, s[k + 1]))
<1> DEFINE row == s[k + 1]
           y == AddRow(x, row)
<1>1. row \in Line /\ row.start \in Nat /\ Capacity(row) \in Int
  <2>1. k + 1 \in 1 .. Len(s)
    OBVIOUS
  <2> QED BY <2>1, SampleTypes
<1>2. /\ y.window = IF ~Sampled(row) THEN NoWindow
                    ELSE Extended(IF Disagrees(x.window, row) THEN NoWindow ELSE x.window, row)
      /\ y.discharge = IF Sampled(row) /\ ~Disagrees(x.window, row)
                       THEN x.discharge ELSE Flushed(x)
  BY <1>1, AddRowFacts
<1> HIDE DEF y
<1>3. Extended(NoWindow, row) = SpanWindow(s, k + 1, k + 1)
  BY DEF Extended, NoWindow, SpanWindow
<1>4. Chain(s, k + 1, k + 1)
  BY DEF Chain
<1>5. CASE Linking(s, k)
  <2>1. k \in 1 .. Len(s) /\ Sampled(s[k]) /\ Sampled(row)
    BY <1>5 DEF Linking
  <2>2. PICK a \in 1 .. k : /\ Chain(s, a, k) /\ ~Linking(s, a - 1)
                            /\ x.window = SpanWindow(s, a, k)
    BY <2>1 DEF WindowsInv, OpenChain
  <2>3. x.window.samples = k - a + 1 /\ x.window.end = s[k].start
        /\ x.window.endCapacity = Capacity(s[k])
    BY <2>2 DEF SpanWindow
  <2>4. ~Disagrees(x.window, row)
    BY <1>1, <1>5, <2>1, <2>3, SampleTypes DEF Disagrees, Linking
  <2>5. Extended(x.window, row) = SpanWindow(s, a, k + 1)
    BY <2>2, <2>3 DEF Extended, SpanWindow
  <2>6. Chain(s, a, k + 1)
    BY <1>5, <2>2 DEF Chain
  <2>7. Spans(s, k + 1) = Spans(s, k)
    BY <1>5 DEF Spans
  <2> HIDE DEF row
  <2>8. y.window = SpanWindow(s, a, k + 1) /\ y.discharge = x.discharge
    BY <1>2, <2>1, <2>4, <2>5
  <2>9. OpenChain(s, k + 1, y.window)
    BY <2>1, <2>2, <2>6, <2>8 DEF OpenChain, row
  <2> QED BY <2>7, <2>8, <2>9 DEF WindowsInv, y, row
<1>6. CASE ~Linking(s, k)
  <2>1. Enumerates(Flushed(x), s, Spans(s, k + 1))
    BY <1>6, Closing
  <2>2. CASE k = 0 \/ ~Sampled(s[k])
    <3>1. x.window = NoWindow /\ Flushed(x) = x.discharge /\ ~Disagrees(x.window, row)
      BY <2>2 DEF WindowsInv, OpenChain, NoWindow, Flushed, Disagrees
    <3>2. y.discharge = Flushed(x)
      BY <1>2, <3>1
    <3>3. OpenChain(s, k + 1, y.window)
      <4>1. CASE ~Sampled(row)
        BY <1>2, <4>1 DEF OpenChain
      <4>2. CASE Sampled(row)
        <5>1. y.window = SpanWindow(s, k + 1, k + 1)
          BY <1>2, <1>3, <3>1, <4>2
        <5> QED BY <1>4, <1>6, <4>2, <5>1 DEF OpenChain
      <4> QED BY <4>1, <4>2
    <3> QED BY <2>1, <3>2, <3>3 DEF WindowsInv, y
  <2>3. CASE ~(k = 0 \/ ~Sampled(s[k]))
    <3>1. PICK a \in 1 .. k : x.window = SpanWindow(s, a, k)
      BY <2>3 DEF WindowsInv, OpenChain
    <3>2. x.window.samples = k - a + 1 /\ x.window.end = s[k].start
          /\ x.window.endCapacity = Capacity(s[k])
      BY <3>1 DEF SpanWindow
    <3>3. Sampled(row) => Disagrees(x.window, row)
      BY <1>1, <1>6, <2>3, <3>2, SampleTypes DEF Disagrees, Linking
    <3>4. y.discharge = Flushed(x)
      BY <1>2, <3>3
    <3>5. OpenChain(s, k + 1, y.window)
      <4>1. CASE ~Sampled(row)
        BY <1>2, <4>1 DEF OpenChain
      <4>2. CASE Sampled(row)
        <5>1. y.window = SpanWindow(s, k + 1, k + 1)
          BY <1>2, <1>3, <3>3, <4>2
        <5> QED BY <1>4, <1>6, <4>2, <5>1 DEF OpenChain
      <4> QED BY <4>1, <4>2
    <3> QED BY <2>1, <3>4, <3>5 DEF WindowsInv, y
  <2> QED BY <2>2, <2>3
<1> QED BY <1>5, <1>6

(***************************************************************************)
(* The numbers.                                                            *)
(***************************************************************************)

UsedRows(s, k) == {p \in 1 .. k : Used(s[p])}
OfStatus(s, k, t) == {p \in UsedRows(s, k) : s[p].status = t}
EndOf(row) == row.start + row.took

\* Rows that came from lines in use.
Sound(s) == \A p \in 1 .. Len(s) : Used(s[p]) => Valid(s[p])

\* The durations, in the order of the rows.
Durations(s, k, took) ==
  \E pos \in Bijection(DOMAIN took, UsedRows(s, k)) :
    \A n \in DOMAIN took : took[n] = s[pos[n]].took

NumbersInv(s, k, x) ==
  /\ Durations(s, k, x.took)
  /\ \A t \in Statuses : x.statuses[t] = Cardinality(OfStatus(s, k, t))
  /\ IF UsedRows(s, k) = {} THEN x.first = 0 /\ x.last = 0
     ELSE /\ \E p \in UsedRows(s, k) : x.first = s[p].start
          /\ \E p \in UsedRows(s, k) : x.last = EndOf(s[p])
          /\ \A p \in UsedRows(s, k) : x.first <= s[p].start /\ x.last >= EndOf(s[p])

LEMMA UsedStep ==
  ASSUME NEW s, NEW k \in Nat
  PROVE  /\ UsedRows(s, k + 1) =
              IF Used(s[k + 1]) THEN UsedRows(s, k) \cup {k + 1} ELSE UsedRows(s, k)
         /\ k + 1 \notin UsedRows(s, k)
         /\ \A t : OfStatus(s, k + 1, t) =
              IF Used(s[k + 1]) /\ s[k + 1].status = t
              THEN OfStatus(s, k, t) \cup {k + 1} ELSE OfStatus(s, k, t)
         /\ \A t : k + 1 \notin OfStatus(s, k, t) /\ IsFiniteSet(OfStatus(s, k, t))
<1>1. UsedRows(s, k + 1) =
        (IF Used(s[k + 1]) THEN UsedRows(s, k) \cup {k + 1} ELSE UsedRows(s, k))
      /\ k + 1 \notin UsedRows(s, k)
  BY DEF UsedRows
<1>2. \A t : IsFiniteSet(OfStatus(s, k, t))
  <2> TAKE t
  <2>1. OfStatus(s, k, t) \in SUBSET (1 .. k) /\ IsFiniteSet(1 .. k)
    BY FS_Interval DEF OfStatus, UsedRows
  <2> QED BY <2>1, FS_Subset
<1>3. ASSUME NEW t
      PROVE  /\ OfStatus(s, k + 1, t) =
                  IF Used(s[k + 1]) /\ s[k + 1].status = t
                  THEN OfStatus(s, k, t) \cup {k + 1} ELSE OfStatus(s, k, t)
             /\ k + 1 \notin OfStatus(s, k, t)
  BY <1>1 DEF OfStatus
<1> QED BY <1>1, <1>2, <1>3

LEMMA DurationsStep ==
  ASSUME NEW s, NEW k \in Nat, NEW took \in Seq(Int), NEW d \in Int,
         Durations(s, k, took), d = s[k + 1].took, Used(s[k + 1])
  PROVE  Durations(s, k + 1, Append(took, d))
<1> DEFINE more == Append(took, d)
           n == Len(took)
           U == UsedRows(s, k)
<1>1. n \in Nat /\ DOMAIN took = 1 .. n
  OBVIOUS
<1>2. /\ DOMAIN more = 1 .. n + 1 /\ more[n + 1] = d
      /\ \A m \in 1 .. n : more[m] = took[m]
  BY <1>1
<1>3. PICK pos \in Bijection(1 .. n, U) : \A m \in 1 .. n : took[m] = s[pos[m]].took
  BY <1>1 DEF Durations
<1>4. /\ pos \in [1 .. n -> U]
      /\ \A l, m \in 1 .. n : pos[l] = pos[m] => l = m
      /\ \A p \in U : \E m \in 1 .. n : pos[m] = p
  BY <1>3 DEF Bijection, Injection, Surjection, IsInjective
<1> HIDE DEF n, more
<1> DEFINE all == [m \in 1 .. n + 1 |-> IF m = n + 1 THEN k + 1 ELSE pos[m]]
           V == U \cup {k + 1}
<1>5. UsedRows(s, k + 1) = V /\ k + 1 \notin U
  BY UsedStep
<1> HIDE DEF U
<1>6. all[n + 1] = k + 1 /\ \A m \in 1 .. n : all[m] = pos[m]
  BY <1>1
<1>7. all \in [1 .. n + 1 -> V]
  BY <1>1, <1>4
<1> HIDE DEF all
<1>8. ASSUME NEW l \in 1 .. n + 1, NEW m \in 1 .. n + 1, all[l] = all[m] PROVE l = m
  <2>1. \A j \in 1 .. n + 1 : j = n + 1 \/ (j \in 1 .. n /\ all[j] \in U)
    BY <1>1, <1>4, <1>6
  <2> QED BY <1>4, <1>5, <1>6, <1>8, <2>1
<1>9. ASSUME NEW p \in V PROVE \E m \in 1 .. n + 1 : all[m] = p
  <2>1. CASE p = k + 1
    BY <1>1, <1>6, <2>1
  <2>2. CASE p \in U
    <3>1. PICK m \in 1 .. n : pos[m] = p
      BY <1>4, <2>2
    <3>2. m \in 1 .. n + 1 /\ all[m] = p
      BY <1>1, <1>6, <3>1
    <3> QED BY <3>2
  <2> QED BY <2>1, <2>2
<1>10. all \in Bijection(1 .. n + 1, V)
  <2>1. all \in Injection(1 .. n + 1, V)
    BY <1>7, <1>8 DEF Injection, IsInjective
  <2>2. all \in Surjection(1 .. n + 1, V)
    BY <1>7, <1>9 DEF Surjection
  <2> QED BY <2>1, <2>2 DEF Bijection
<1>11. \A m \in 1 .. n + 1 : more[m] = s[all[m]].took
  <2> TAKE m \in 1 .. n + 1
  <2>1. CASE m = n + 1
    BY <1>2, <1>6, <2>1
  <2>2. CASE m \in 1 .. n
    BY <1>2, <1>3, <1>6, <2>2
  <2> QED BY <1>1, <2>1, <2>2
<1>12. Durations(s, k + 1, more)
  BY <1>2, <1>5, <1>10, <1>11 DEF Durations
<1> QED BY <1>12 DEF more

LEMMA NumbersStep ==
  ASSUME NEW s \in Seq(Line), Sound(s), NEW k \in 0 .. Len(s) - 1, NEW x \in ReportType,
         NumbersInv(s, k, x)
  PROVE  NumbersInv(s, k + 1, AddRow(x, s[k + 1]))
<1> DEFINE row == s[k + 1]
           y == AddRow(x, row)
<1>1. /\ row \in Line /\ row.start \in Nat /\ row.took \in Int /\ row.status \in Statuses
      /\ Used(row) => row.start > 0 /\ row.took >= 0
  <2>1. k + 1 \in 1 .. Len(s)
    OBVIOUS
  <2>2. row \in Line
    BY <2>1, ElementOfSeq
  <2>3. Used(row) => Valid(row)
    BY <2>1 DEF Sound
  <2> HIDE DEF row
  <2> QED BY <2>2, <2>3 DEF Line, Valid
<1>2. \A f \in {"first", "last", "took", "statuses"} :
        y[f] = IF Used(row) THEN Counted(x, row)[f] ELSE x[f]
  BY <1>1, AddRowFacts
<1>3. /\ y.first = IF Used(row) THEN Counted(x, row).first ELSE x.first
      /\ y.last = IF Used(row) THEN Counted(x, row).last ELSE x.last
      /\ y.took = IF Used(row) THEN Counted(x, row).took ELSE x.took
      /\ y.statuses = IF Used(row) THEN Counted(x, row).statuses ELSE x.statuses
  <2> HIDE DEF y
  <2> QED BY <1>2
<1> HIDE DEF y
<1>4. k \in Nat /\ x.took \in Seq(Int) /\ x.statuses \in [Statuses -> Nat]
      /\ x.first \in Int /\ x.last \in Int
  BY DEF ReportType
<1>5. CASE ~Used(row)
  <2>1. UsedRows(s, k + 1) = UsedRows(s, k)
        /\ \A t \in Statuses : OfStatus(s, k + 1, t) = OfStatus(s, k, t)
    BY <1>4, <1>5, UsedStep
  <2>2. Durations(s, k + 1, y.took)
    BY <1>3, <1>5, <2>1 DEF NumbersInv, Durations
  <2>3. NumbersInv(s, k + 1, y)
    BY <1>3, <1>5, <2>1, <2>2 DEF NumbersInv
  <2> QED BY <2>3 DEF y
<1>6. CASE Used(row)
  <2>1. /\ y.took = Append(x.took, row.took)
        /\ y.statuses = [x.statuses EXCEPT ![row.status] = @ + 1]
        /\ y.first = IF x.first = 0 \/ row.start < x.first THEN row.start ELSE x.first
        /\ y.last = IF x.last < EndOf(row) THEN EndOf(row) ELSE x.last
    BY <1>1, <1>3, <1>6, CountedFacts DEF EndOf
  <2>2. Durations(s, k + 1, y.took)
    BY <1>1, <1>4, <1>6, <2>1, DurationsStep DEF NumbersInv
  <2>3. ASSUME NEW t \in Statuses
        PROVE  y.statuses[t] = Cardinality(OfStatus(s, k + 1, t))
    <3>1. x.statuses[t] = Cardinality(OfStatus(s, k, t))
      BY DEF NumbersInv
    <3>2. CASE row.status = t
      <4>1. Cardinality(OfStatus(s, k, t) \cup {k + 1}) = Cardinality(OfStatus(s, k, t)) + 1
        BY <1>4, UsedStep, FS_AddElement
      <4>2. y.statuses[t] = x.statuses[t] + 1
        BY <1>4, <2>1, <3>2
      <4> QED BY <1>4, <1>6, <3>1, <3>2, <4>1, <4>2, UsedStep
    <3>3. CASE row.status # t
      <4>1. y.statuses[t] = x.statuses[t]
        BY <1>1, <1>4, <2>1, <3>3
      <4> QED BY <1>4, <3>1, <3>3, <4>1, UsedStep
    <3> QED BY <3>2, <3>3
  <2>4. /\ \E p \in UsedRows(s, k + 1) : y.first = s[p].start
        /\ \E p \in UsedRows(s, k + 1) : y.last = EndOf(s[p])
        /\ \A p \in UsedRows(s, k + 1) : y.first <= s[p].start /\ y.last >= EndOf(s[p])
    <3>1. UsedRows(s, k + 1) = UsedRows(s, k) \cup {k + 1}
      BY <1>4, <1>6, UsedStep
    <3>2. \A p \in UsedRows(s, k) : s[p].start \in Nat /\ s[p].start > 0 /\ EndOf(s[p]) \in Int
      <4> TAKE p \in UsedRows(s, k)
      <4>1. p \in 1 .. Len(s) /\ Used(s[p])
        BY DEF UsedRows
      <4>2. s[p] \in Line /\ Valid(s[p])
        BY <4>1, ElementOfSeq DEF Sound
      <4> QED BY <4>2 DEF Line, Valid, EndOf
    <3>3. row.start > 0 /\ EndOf(row) \in Int /\ EndOf(row) > 0
      BY <1>1, <1>6 DEF EndOf
    <3>4. CASE UsedRows(s, k) = {}
      <4>1. y.first = row.start /\ y.last = EndOf(row)
        BY <2>1, <3>3, <3>4 DEF NumbersInv
      <4> QED BY <1>1, <3>1, <3>3, <3>4, <4>1
    <3>5. CASE UsedRows(s, k) # {}
      <4>1. /\ \E p \in UsedRows(s, k) : x.first = s[p].start
            /\ \E p \in UsedRows(s, k) : x.last = EndOf(s[p])
            /\ \A p \in UsedRows(s, k) : x.first <= s[p].start /\ x.last >= EndOf(s[p])
        BY <3>5 DEF NumbersInv
      <4>2. x.first > 0
        BY <3>2, <4>1
      <4>3. \E p \in UsedRows(s, k + 1) : y.first = s[p].start
        BY <2>1, <3>1, <4>1
      <4>4. \E p \in UsedRows(s, k + 1) : y.last = EndOf(s[p])
        BY <2>1, <3>1, <4>1
      <4>5. ASSUME NEW p \in UsedRows(s, k + 1)
            PROVE  y.first <= s[p].start /\ y.last >= EndOf(s[p])
        <5>1. CASE p = k + 1
          BY <1>1, <1>4, <2>1, <3>3, <4>2, <5>1
        <5>2. CASE p \in UsedRows(s, k)
          <6> DEFINE e == EndOf(s[p])
                     f == EndOf(row)
          <6>1. x.first <= s[p].start /\ x.last >= e /\ e \in Int /\ s[p].start \in Int
            BY <3>2, <4>1, <5>2
          <6> HIDE DEF e, f, row
          <6>2. y.last >= e
            BY <1>4, <2>1, <3>3, <6>1 DEF f
          <6>3. y.first <= s[p].start
            BY <1>1, <1>4, <2>1, <3>3, <4>2, <6>1
          <6> QED BY <6>2, <6>3 DEF e
        <5> QED BY <3>1, <5>1, <5>2
      <4> QED BY <4>3, <4>4, <4>5
    <3> QED BY <3>4, <3>5
  <2>5. UsedRows(s, k + 1) # {}
    BY <2>4
  <2>6. NumbersInv(s, k + 1, y)
    BY <2>2, <2>3, <2>4, <2>5 DEF NumbersInv
  <2> QED BY <2>6 DEF y
<1> QED BY <1>5, <1>6

LEMMA LoopResult ==
  ASSUME NEW s \in Seq(Line), Sound(s)
  PROVE  \E y \in ReportType :
           /\ y = Flush(FoldLeft(AddRow, EmptyReport, s))
           /\ NumbersInv(s, Len(s), y)
           /\ Enumerates(y.discharge, s, Spans(s, Len(s) + 1))
<1> DEFINE n == Len(s)
<1>1. n \in Nat /\ DOMAIN s = 1 .. n
  BY LenProperties
<1>2. PICK at : /\ at[0] = EmptyReport
                /\ \A k \in 0 .. n - 1 : at[k + 1] = AddRow(at[k], s[k + 1])
                /\ FoldLeft(AddRow, EmptyReport, s) = at[n]
  BY <1>1, Loop
<1> DEFINE S == {k \in 0 .. n : /\ at[k] \in ReportType /\ NumbersInv(s, k, at[k])
                                /\ WindowsInv(s, k, at[k])}
<1>3. 0 \in S
  <2> DEFINE x == EmptyReport
  <2>1. /\ x \in ReportType /\ x.first = 0 /\ x.last = 0 /\ x.took = <<>>
        /\ x.window = NoWindow /\ x.discharge = <<>>
        /\ x.statuses = [t \in Statuses |-> 0]
    <3>1. NoWindow \in Window /\ <<>> \in Seq(Int) /\ <<>> \in Seq(Window)
      BY DEF NoWindow, Window
    <3> QED BY <3>1 DEF EmptyReport, ReportType
  <2> HIDE DEF x
  <2>2. UsedRows(s, 0) = {} /\ \A t : OfStatus(s, 0, t) = {}
    BY DEF UsedRows, OfStatus
  <2>3. Durations(s, 0, <<>>)
    <3>1. <<>> \in Bijection({}, {}) /\ DOMAIN <<>> = {}
      BY DEF Bijection, Injection, Surjection, IsInjective
    <3> QED BY <2>2, <3>1 DEF Durations
  <2>4. NumbersInv(s, 0, x)
    BY <2>1, <2>2, <2>3, FS_EmptySet DEF NumbersInv
  <2>5. Spans(s, 0) = {}
    BY DEF Spans
  <2>6. Enumerates(<<>>, s, {})
    <3>1. <<>> \in [DOMAIN <<>> -> {}] /\ DOMAIN <<>> = {}
      OBVIOUS
    <3> QED BY <3>1 DEF Enumerates
  <2>7. WindowsInv(s, 0, x)
    BY <2>1, <2>5, <2>6 DEF WindowsInv, OpenChain
  <2> QED BY <1>1, <1>2, <2>1, <2>4, <2>7 DEF x
<1>4. ASSUME NEW k \in 0 .. n - 1, k \in S PROVE k + 1 \in S
  <2>1. at[k + 1] = AddRow(at[k], s[k + 1]) /\ at[k] \in ReportType
    BY <1>2, <1>4
  <2>2. s[k + 1] \in Line
    <3>1. k + 1 \in 1 .. Len(s)
      BY <1>1
    <3> QED BY <3>1, ElementOfSeq
  <2>3. at[k + 1] \in ReportType
    BY <2>1, <2>2, AddRowFacts
  <2>4. NumbersInv(s, k + 1, at[k + 1]) /\ WindowsInv(s, k + 1, at[k + 1])
    BY <1>4, <2>1, NumbersStep, WindowsStep
  <2> QED BY <1>1, <2>3, <2>4
<1>5. n \in S
  <2> HIDE DEF S, n
  <2>1. 0 .. n \subseteq S
    BY <1>1, <1>3, <1>4, UpTo
  <2> QED BY <1>1, <2>1
<1> DEFINE x == at[n]
<1>6. x \in ReportType /\ NumbersInv(s, n, x) /\ WindowsInv(s, n, x)
  BY <1>5
<1> HIDE DEF x
<1>7. ~Linking(s, n)
  BY <1>1 DEF Linking
<1>8. Enumerates(Flushed(x), s, Spans(s, n + 1))
  BY <1>1, <1>6, <1>7, Closing
<1> DEFINE y == Flush(x)
<1>9. /\ y \in ReportType /\ y.discharge = Flushed(x)
      /\ \A f \in {"first", "last", "took", "statuses"} : y[f] = x[f]
  BY <1>6, FlushFacts
<1> HIDE DEF y
<1>10. y.first = x.first /\ y.last = x.last /\ y.took = x.took /\ y.statuses = x.statuses
  BY <1>9
<1>11. NumbersInv(s, n, y)
  BY <1>6, <1>10 DEF NumbersInv
<1> QED BY <1>2, <1>8, <1>9, <1>11 DEF x, y

(***************************************************************************)
(* From the rows back to the lines.                                        *)
(***************************************************************************)

Own == Standing(Len(input))

LEMMA LogFacts ==
  ASSUME Ready
  PROVE  /\ Len(input) \in Nat /\ DOMAIN input = 1 .. Len(input)
         /\ Heads \subseteq Chosen /\ Chosen \subseteq 1 .. Len(input)
         /\ Own = (1 .. Len(input) \ Chosen) \cup Heads
         /\ Len(rows) = Place(Len(input)) /\ Len(rows) \in Nat
         /\ \A i \in Heads : rows[Place(i)] = Outcome(i)
         /\ \A i \in Own \ Heads : rows[Place(i)] = Empty
<1>1. Len(input) \in Nat /\ DOMAIN input = 1 .. Len(input) /\ Len(rows) \in Nat
  BY DEF Ready, TypeOK
<1>2. Heads \subseteq Chosen /\ Chosen \subseteq 1 .. Len(input)
  BY <1>1 DEF Heads, Chosen
<1>3. Own = (1 .. Len(input) \ Chosen) \cup Heads
  BY <1>2 DEF Own, Standing
<1>4. RowsAreOutcomes
  BY ReadyRows
<1> QED BY <1>1, <1>2, <1>3, <1>4 DEF RowsAreOutcomes

\* The outcome of a cycle is a line in use, and its start tells it apart.
LEMMA OutcomeFacts ==
  ASSUME Ready, NEW i \in Heads
  PROVE  /\ Outcome(i) \in Line /\ Valid(Outcome(i)) /\ Used(Outcome(i))
         /\ Outcome(i) \in {input[j] : j \in DOMAIN input}
<1> DEFINE S == {j \in Chosen : input[j].start = input[i].start}
<1>1. PICK m \in Chosen : Same(m, i) /\ Latest(m)
  BY LogFacts DEF Ready, TableInv
<1>2. S \in SUBSET Int /\ m \in S /\ \A j \in S : m >= j
  BY <1>1, LogFacts DEF Same, Latest
<1>3. Max(S) = m
  <2> HIDE DEF S
  <2> QED BY <1>2, MaxIs
<1>4. Outcome(i) = input[m]
  BY <1>3 DEF Outcome
<1>5. m \in DOMAIN input /\ Selected(input[m])
  BY <1>1 DEF Chosen
<1>6. input[m] \in Line
  BY <1>5, ElementOfSeq, LogFacts DEF Ready, TypeOK
<1>7. Valid(input[m]) /\ Used(input[m])
  BY <1>5, <1>6 DEF Selected, Valid, Used, Line
<1> QED BY <1>4, <1>5, <1>6, <1>7

\* A line that has a row of its own comes before another one exactly if its row does.
LEMMA PlaceOrder ==
  ASSUME Ready, NEW i \in Own, NEW j \in Own, i < j
  PROVE  Place(i) < Place(j)
<1>1. i \in 1 .. Len(input) /\ j \in 1 .. Len(input) /\ i \in Standing(i) /\ j \in Standing(j)
  BY DEF Own, Standing
<1>2. Standing(i) \in SUBSET (Standing(j) \ {j})
  BY <1>1 DEF Standing
<1>3. IsFiniteSet(Standing(j)) /\ Place(j) \in Nat /\ Place(i) \in Nat
  BY <1>1, PlaceType
<1>4. IsFiniteSet(Standing(j) \ {j}) /\ Cardinality(Standing(j) \ {j}) = Place(j) - 1
  BY <1>1, <1>3, FS_RemoveElement DEF Place
<1>5. Place(i) <= Cardinality(Standing(j) \ {j})
  BY <1>2, <1>4, FS_Subset DEF Place
<1> QED BY <1>3, <1>4, <1>5

LEMMA PlaceFacts ==
  ASSUME Ready
  PROVE  /\ Own \subseteq 1 .. Len(input)
         /\ \A i \in Own : Place(i) \in 1 .. Len(rows)
         /\ \A i, j \in Own : (Place(i) = Place(j) <=> i = j) /\ (Place(i) < Place(j) <=> i < j)
         /\ \A p \in 1 .. Len(rows) : \E i \in Own : Place(i) = p
<1>1. /\ Own \subseteq 1 .. Len(input) /\ Len(input) \in Nat
      /\ Len(rows) = Place(Len(input)) /\ Len(rows) \in Nat
  BY LogFacts DEF Own, Standing
<1>2. \A i \in Own : Place(i) \in 1 .. Len(rows)
  <2> TAKE i \in Own
  <2>1. i \in Standing(i) /\ i \in 1 .. Len(input)
    BY <1>1 DEF Own, Standing
  <2> QED BY <1>1, <2>1, PlaceBounds
<1>3. \A i, j \in Own : (Place(i) = Place(j) <=> i = j) /\ (Place(i) < Place(j) <=> i < j)
  <2> TAKE i, j \in Own
  <2>1. i \in Nat /\ j \in Nat /\ Place(i) \in Nat /\ Place(j) \in Nat
    BY <1>1, <1>2
  <2>2. (i < j => Place(i) < Place(j)) /\ (j < i => Place(j) < Place(i))
    BY PlaceOrder
  <2> QED BY <2>1, <2>2
<1>4. \A p \in 1 .. Len(rows) : \E i \in Own : Place(i) = p
  <2> DEFINE f == [i \in Own |-> Place(i)]
  <2>1. f \in Injection(Own, 1 .. Len(rows))
    BY <1>2, <1>3 DEF Injection, IsInjective
  <2>2. IsFiniteSet(1 .. Len(rows)) /\ Cardinality(1 .. Len(rows)) = Len(rows)
    BY <1>1, FS_Interval
  <2>3. Cardinality(Own) = Cardinality(1 .. Len(rows))
    BY <1>1, <2>2 DEF Own, Place
  <2>4. f \in Surjection(Own, 1 .. Len(rows))
    BY <2>1, <2>2, <2>3, FS_Injection
  <2> QED BY <2>4 DEF Surjection
<1> QED BY <1>1, <1>2, <1>3, <1>4

\* A row in use is that of a cycle.
LEMMA UsedIsHead ==
  ASSUME Ready, NEW p \in 1 .. Len(rows), Used(rows[p])
  PROVE  \E i \in Heads : Place(i) = p /\ rows[p] = Outcome(i)
<1>1. PICK i \in Own : Place(i) = p
  BY PlaceFacts
<1>2. i \in Heads
  BY <1>1, LogFacts DEF Used, Empty
<1> QED BY <1>1, <1>2, LogFacts

LEMMA Neighbours ==
  ASSUME Ready, NEW i \in Own, NEW j \in Own, i < j
  PROVE  Place(j) = Place(i) + 1 <=> \A k \in i + 1 .. j - 1 : k \in Chosen \ Heads
<1>1. /\ i \in Nat /\ j \in Nat /\ Own \subseteq 1 .. Len(input) /\ Len(rows) \in Nat
      /\ Len(input) \in Nat
  BY PlaceFacts, LogFacts
<1>2. Place(i) \in Nat /\ Place(j) \in Nat /\ Place(i) < Place(j) /\ Place(j) <= Len(rows)
  BY <1>1, PlaceFacts
<1>3. \A k \in i + 1 .. j - 1 : k \in Own <=> k \notin Chosen \ Heads
  BY <1>1, LogFacts
<1>4. ASSUME NEW k \in i + 1 .. j - 1, k \in Own PROVE Place(j) # Place(i) + 1
  <2>1. Place(i) < Place(k) /\ Place(k) < Place(j) /\ Place(k) \in Nat
    BY <1>1, <1>4, PlaceFacts
  <2> QED BY <1>2, <2>1
<1>5. ASSUME Place(j) # Place(i) + 1 PROVE \E k \in i + 1 .. j - 1 : k \in Own
  <2>1. Place(i) + 1 \in 1 .. Len(rows)
    BY <1>1, <1>2
  <2>2. PICK k \in Own : Place(k) = Place(i) + 1
    BY <2>1, PlaceFacts
  <2>3. Place(i) < Place(k) /\ Place(k) < Place(j)
    BY <1>2, <1>5, <2>2
  <2>4. i < k /\ k < j /\ k \in Nat
    BY <1>1, <2>3, PlaceFacts
  <2> QED BY <1>1, <2>4
<1> QED BY <1>3, <1>4, <1>5

LEMMA SampledIs ==
  ASSUME NEW row \in Line
  PROVE  /\ Sampled(row) <=> Used(row) /\ row.status = "discharging" /\ row.capacity \in 0 .. 100
         /\ Sampled(row) => Capacity(row) = row.capacity
BY DEF Sampled, Capacity, Line

\* Neighbours of the log are linked rows.
LEMMA AdjoinsIsLinking ==
  ASSUME Ready, NEW i \in Heads, NEW j \in Heads
  PROVE  Adjoins(i, j) <=> Place(j) = Place(i) + 1 /\ Linking(rows, Place(i))
<1>1. /\ i \in Own /\ j \in Own /\ Place(i) \in 1 .. Len(rows) /\ Place(j) \in 1 .. Len(rows)
      /\ rows[Place(i)] = Outcome(i) /\ rows[Place(j)] = Outcome(j) /\ Len(rows) \in Nat
      /\ i < j <=> Place(i) < Place(j)
  BY LogFacts, PlaceFacts
<1>2. /\ Outcome(i) \in Line /\ Used(Outcome(i)) /\ Outcome(j) \in Line /\ Used(Outcome(j))
  BY OutcomeFacts
<1>3. /\ Sampled(Outcome(i)) <=> Outcome(i).status = "discharging" /\ Outcome(i).capacity \in 0 .. 100
      /\ Sampled(Outcome(j)) <=> Outcome(j).status = "discharging" /\ Outcome(j).capacity \in 0 .. 100
      /\ Sampled(Outcome(i)) => Capacity(Outcome(i)) = Outcome(i).capacity
      /\ Sampled(Outcome(j)) => Capacity(Outcome(j)) = Outcome(j).capacity
  BY <1>2, SampledIs
<1>4. i < j => (Place(j) = Place(i) + 1 <=> \A k \in i + 1 .. j - 1 : k \in Chosen \ Heads)
  BY <1>1, Neighbours
<1>5. Adjoins(i, j) <=>
        /\ Place(j) = Place(i) + 1 /\ Sampled(Outcome(i)) /\ Sampled(Outcome(j))
        /\ Outcome(i).start < Outcome(j).start
        /\ Capacity(Outcome(j)) <= Capacity(Outcome(i))
  <2>1. Place(j) = Place(i) + 1 => i < j
    BY <1>1
  <2> QED BY <1>3, <1>4, <2>1 DEF Adjoins
<1>6. Place(j) = Place(i) + 1 =>
        (Linking(rows, Place(i)) <=>
           /\ Sampled(Outcome(i)) /\ Sampled(Outcome(j))
           /\ Outcome(i).start < Outcome(j).start
           /\ Capacity(Outcome(j)) <= Capacity(Outcome(i)))
  <2> SUFFICES ASSUME Place(j) = Place(i) + 1
               PROVE  Linking(rows, Place(i)) <=>
                        /\ Sampled(Outcome(i)) /\ Sampled(Outcome(j))
                        /\ Outcome(i).start < Outcome(j).start
                        /\ Capacity(Outcome(j)) <= Capacity(Outcome(i))
    OBVIOUS
  <2>1. Place(i) \in 1 .. Len(rows) - 1 /\ rows[Place(i) + 1] = Outcome(j)
    BY <1>1
  <2> QED BY <1>1, <2>1 DEF Linking
<1> QED BY <1>5, <1>6

\* Both ends of a link are rows of cycles.
LEMMA LinkedRows ==
  ASSUME Ready, NEW p, Linking(rows, p)
  PROVE  \E i, j \in Heads : Place(i) = p /\ Place(j) = p + 1 /\ Adjoins(i, j)
<1>1. p \in 1 .. Len(rows) /\ p + 1 \in 1 .. Len(rows) /\ Used(rows[p]) /\ Used(rows[p + 1])
  BY LogFacts DEF Linking, Sampled
<1>2. PICK i \in Heads : Place(i) = p
  BY <1>1, UsedIsHead
<1>3. PICK j \in Heads : Place(j) = p + 1
  BY <1>1, UsedIsHead
<1>4. Adjoins(i, j)
  BY <1>2, <1>3, AdjoinsIsLinking
<1> QED BY <1>2, <1>3, <1>4

LEMMA JoinedIsChain ==
  ASSUME Ready, NEW i \in Heads, NEW j \in Heads, i <= j
  PROVE  Joined(i, j) <=> Chain(rows, Place(i), Place(j))
<1>1. /\ i \in Own /\ j \in Own /\ Place(i) \in Nat /\ Place(j) \in Nat /\ i \in Nat /\ j \in Nat
      /\ Place(i) <= Place(j)
  BY LogFacts, PlaceFacts
<1>2. \A k \in Heads : k \in Own /\ k \in Nat /\ Place(k) \in Nat
  BY LogFacts, PlaceFacts
<1>3. ASSUME Joined(i, j) PROVE Chain(rows, Place(i), Place(j))
  <2> DEFINE S == {d \in Nat : d <= Place(j) - Place(i) =>
                      \E k \in Heads : k >= i /\ k <= j /\ Place(k) = Place(i) + d}
  <2>1. 0 \in S
    BY <1>1
  <2>2. ASSUME NEW k \in Heads, k >= i, k < j
        PROVE  \E l \in Heads : l > k /\ l <= j /\ Place(l) = Place(k) + 1 /\ Linking(rows, Place(k))
    <3>1. k \in Heads \cap i .. j - 1
      BY <1>1, <1>2, <2>2
    <3>2. PICK l \in Heads \cap k + 1 .. j : Adjoins(k, l)
      BY <1>3, <3>1 DEF Joined
    <3>3. l \in Heads /\ l > k /\ l <= j
      BY <1>1, <1>2, <3>2
    <3> QED BY <3>2, <3>3, AdjoinsIsLinking
  <2>3. ASSUME NEW d \in Nat, d < Place(j) - Place(i),
               NEW k \in Heads, k >= i, k <= j, Place(k) = Place(i) + d
        PROVE  k < j
    BY <1>1, <1>2, <2>3
  <2>4. ASSUME NEW d \in Nat, d \in S PROVE d + 1 \in S
    <3>1. CASE d + 1 <= Place(j) - Place(i)
      <4>1. PICK k \in Heads : k >= i /\ k <= j /\ Place(k) = Place(i) + d
        BY <1>1, <2>4, <3>1
      <4>2. k < j
        BY <1>1, <2>3, <3>1, <4>1
      <4>3. PICK l \in Heads : l > k /\ l <= j /\ Place(l) = Place(k) + 1
        BY <2>2, <4>1, <4>2
      <4>4. l >= i /\ Place(l) = Place(i) + (d + 1)
        BY <1>1, <1>2, <4>1, <4>3
      <4> QED BY <4>3, <4>4
    <3>2. CASE ~(d + 1 <= Place(j) - Place(i))
      BY <3>2
    <3> QED BY <3>1, <3>2
  <2>5. Nat \subseteq S
    <3> HIDE DEF S
    <3> QED BY <2>1, <2>4, SetInduction
  <2>6. ASSUME NEW p \in Place(i) .. Place(j) - 1 PROVE Linking(rows, p)
    <3>1. p - Place(i) \in Nat /\ p - Place(i) < Place(j) - Place(i)
          /\ Place(i) + (p - Place(i)) = p
      BY <1>1
    <3>2. PICK k \in Heads : k >= i /\ k <= j /\ Place(k) = p
      <4> DEFINE d == p - Place(i)
      <4>1. d \in Nat /\ d <= Place(j) - Place(i) /\ Place(i) + d = p
        BY <1>1, <3>1
      <4> HIDE DEF d
      <4>2. d \in S
        BY <2>5, <4>1
      <4> QED BY <4>1, <4>2
    <3>3. k < j
      BY <2>3, <3>1, <3>2
    <3> QED BY <2>2, <3>2, <3>3
  <2> QED BY <2>6 DEF Chain
<1>4. ASSUME Chain(rows, Place(i), Place(j)) PROVE Joined(i, j)
  <2> SUFFICES ASSUME NEW k \in Heads \cap i .. j - 1
               PROVE  \E l \in Heads \cap k + 1 .. j : Adjoins(k, l)
    BY DEF Joined
  <2>1. k \in Own /\ k \in Nat /\ Place(k) \in Nat /\ i <= k /\ k < j
    BY <1>1, <1>2
  <2>2. Place(i) <= Place(k) /\ Place(k) < Place(j)
    BY <1>1, <2>1, PlaceFacts
  <2>3. Linking(rows, Place(k))
    BY <1>1, <1>4, <2>1, <2>2 DEF Chain
  <2>4. PICK h, l \in Heads : Place(h) = Place(k) /\ Place(l) = Place(k) + 1 /\ Adjoins(h, l)
    BY <2>3, LinkedRows
  <2>5. h = k /\ l \in Own /\ l \in Nat
    BY <1>2, <2>1, <2>4, PlaceFacts
  <2>6. Place(k) < Place(l) /\ Place(l) <= Place(j)
    BY <1>1, <2>1, <2>2, <2>4
  <2>7. k < l /\ l <= j
    BY <1>1, <2>1, <2>5, <2>6, PlaceFacts
  <2> QED BY <1>1, <2>1, <2>4, <2>5, <2>7
<1> QED BY <1>3, <1>4

LEMMA EndsOfRuns ==
  ASSUME Ready, NEW i \in Heads
  PROVE  /\ (\A k \in Heads : ~Adjoins(k, i)) <=> ~Linking(rows, Place(i) - 1)
         /\ (\A k \in Heads : ~Adjoins(i, k)) <=> ~Linking(rows, Place(i))
<1>1. \A k \in Heads : k \in Own /\ Place(k) \in Nat
  BY LogFacts, PlaceFacts
<1>2. ASSUME NEW k \in Heads, Adjoins(k, i) PROVE Linking(rows, Place(i) - 1)
  <2>1. Place(i) = Place(k) + 1 /\ Linking(rows, Place(k))
    BY <1>2, AdjoinsIsLinking
  <2>2. Place(i) - 1 = Place(k)
    BY <1>1, <2>1
  <2> QED BY <2>1, <2>2
<1>3. ASSUME Linking(rows, Place(i) - 1) PROVE \E k \in Heads : Adjoins(k, i)
  <2>1. PICK k, l \in Heads : Place(l) = (Place(i) - 1) + 1 /\ Adjoins(k, l)
    BY <1>3, LinkedRows
  <2>2. l = i
    BY <1>1, <2>1, PlaceFacts
  <2> QED BY <2>1, <2>2
<1>4. ASSUME NEW k \in Heads, Adjoins(i, k) PROVE Linking(rows, Place(i))
  BY <1>4, AdjoinsIsLinking
<1>5. ASSUME Linking(rows, Place(i)) PROVE \E k \in Heads : Adjoins(i, k)
  <2>1. PICK k, l \in Heads : Place(k) = Place(i) /\ Adjoins(k, l)
    BY <1>5, LinkedRows
  <2>2. k = i
    BY <1>1, <2>1, PlaceFacts
  <2> QED BY <2>1, <2>2
<1> QED BY <1>2, <1>3, <1>4, <1>5

SpanOf(run) == <<Place(run[1]), Place(run[2])>>

\* The runs of the log are the spans of the rows.
LEMMA RunsAreSpans ==
  ASSUME Ready
  PROVE  /\ \A run \in Runs : SpanOf(run) \in Spans(rows, Len(rows) + 1)
         /\ \A span \in Spans(rows, Len(rows) + 1) : \E run \in Runs : SpanOf(run) = span
<1>1. \A k \in Heads : k \in Own /\ k \in Nat /\ Place(k) \in 1 .. Len(rows)
  BY LogFacts, PlaceFacts
<1>2. Len(rows) \in Nat
  BY LogFacts
<1>3. ASSUME NEW i \in Heads, NEW j \in Heads
      PROVE  <<i, j>> \in Runs <=> <<Place(i), Place(j)>> \in Spans(rows, Len(rows) + 1)
  <2>1. i < j <=> Place(i) < Place(j)
    BY <1>1, PlaceFacts
  <2>2. i < j => (Joined(i, j) <=> Chain(rows, Place(i), Place(j)))
    BY <1>1, JoinedIsChain
  <2>3. <<i, j>> \in Runs <=>
          /\ i < j /\ Joined(i, j)
          /\ \A k \in Heads : ~Adjoins(k, i)
          /\ \A k \in Heads : ~Adjoins(j, k)
    BY DEF Runs
  <2>4. <<Place(i), Place(j)>> \in Spans(rows, Len(rows) + 1) <=>
          /\ Place(i) < Place(j) /\ Chain(rows, Place(i), Place(j))
          /\ ~Linking(rows, Place(i) - 1) /\ ~Linking(rows, Place(j))
    BY <1>1, <1>2 DEF Spans
  <2> QED BY <2>1, <2>2, <2>3, <2>4, EndsOfRuns
<1>4. ASSUME NEW run \in Runs PROVE SpanOf(run) \in Spans(rows, Len(rows) + 1)
  <2>1. run = <<run[1], run[2]>> /\ run[1] \in Heads /\ run[2] \in Heads
    BY DEF Runs
  <2> QED BY <1>3, <2>1 DEF SpanOf
<1>5. ASSUME NEW span \in Spans(rows, Len(rows) + 1) PROVE \E run \in Runs : SpanOf(run) = span
  <2>1. /\ span = <<span[1], span[2]>> /\ span[1] \in 1 .. Len(rows) /\ span[2] \in 1 .. Len(rows)
        /\ span[1] < span[2] /\ Chain(rows, span[1], span[2])
    BY DEF Spans
  <2>2. Linking(rows, span[1]) /\ Linking(rows, span[2] - 1)
    BY <1>2, <2>1 DEF Chain
  <2>3. PICK i \in Heads : Place(i) = span[1]
    BY <2>2, LinkedRows
  <2>4. PICK j \in Heads : Place(j) = (span[2] - 1) + 1
    BY <2>2, LinkedRows
  <2>5. <<Place(i), Place(j)>> = span
    BY <1>2, <2>1, <2>3, <2>4
  <2>6. <<i, j>> \in Runs /\ SpanOf(<<i, j>>) = span
    BY <1>3, <2>5 DEF SpanOf
  <2> QED BY <2>6
<1> QED BY <1>4, <1>5

LEMMA WindowsAgree ==
  ASSUME Ready, NEW run \in Runs
  PROVE  WindowOf(run[1], run[2]) = SpanWindow(rows, Place(run[1]), Place(run[2]))
<1> DEFINE i == run[1]
           j == run[2]
           a == Place(i)
           b == Place(j)
           S == Heads \cap i .. j
<1>1. i \in Heads /\ j \in Heads /\ i < j
  BY DEF Runs
<1>2. SpanOf(run) \in Spans(rows, Len(rows) + 1)
  BY RunsAreSpans
<1>3. a \in Nat /\ b \in Nat /\ a < b /\ Chain(rows, a, b)
  BY <1>2, LogFacts DEF Spans, SpanOf
<1>4. \A k \in Heads : k \in Own /\ k \in Nat /\ Place(k) \in Nat
  BY LogFacts, PlaceFacts
<1> HIDE DEF i, j
<1>5. \A p \in a .. b : \E k \in S : Place(k) = p
  <2> TAKE p \in a .. b
  <2>1. PICK k \in Heads : Place(k) = p
    <3>1. CASE p = b
      BY <1>1, <3>1
    <3>2. CASE p < b
      <4>1. Linking(rows, p)
        BY <1>3, <3>2 DEF Chain
      <4> QED BY <4>1, LinkedRows
    <3> QED BY <1>3, <3>1, <3>2
  <2>2. a <= Place(k) /\ Place(k) <= b
    BY <1>3, <2>1
  <2>3. ~(Place(k) < Place(i)) /\ ~(Place(j) < Place(k))
    BY <1>3, <1>4, <2>2
  <2>4. ~(k < i) /\ ~(j < k)
    BY <1>1, <1>4, <2>3, PlaceFacts
  <2>5. k \in S
    BY <1>1, <1>4, <2>4
  <2> QED BY <2>1, <2>5
<1>6. \A k \in S : Place(k) \in a .. b
  <2> TAKE k \in S
  <2>1. ~(k < i) /\ ~(j < k) /\ k \in Own /\ i \in Own /\ j \in Own
    BY <1>1, <1>4
  <2>2. ~(Place(k) < Place(i)) /\ ~(Place(j) < Place(k))
    BY <2>1, PlaceFacts
  <2> QED BY <1>3, <1>4, <2>2
<1>7. Cardinality(S) = b - a + 1
  <2> DEFINE f == [k \in S |-> Place(k)]
  <2>1. f \in Injection(S, a .. b)
    BY <1>4, <1>6, PlaceFacts DEF Injection, IsInjective
  <2>2. f \in Surjection(S, a .. b)
    BY <1>5, <1>6 DEF Surjection
  <2>3. IsFiniteSet(a .. b) /\ Cardinality(a .. b) = b - a + 1
    BY <1>3, FS_Interval
  <2> QED BY <2>1, <2>2, <2>3, FS_Injection
<1>8. /\ rows[a] = Outcome(i) /\ rows[b] = Outcome(j)
      /\ Outcome(i) \in Line /\ Outcome(j) \in Line
  BY <1>1, LogFacts, OutcomeFacts
<1>9. Sampled(rows[a]) /\ Sampled(rows[b])
  <2>1. Linking(rows, a) /\ Linking(rows, b - 1) /\ (b - 1) + 1 = b
    BY <1>3 DEF Chain
  <2> QED BY <2>1 DEF Linking
<1>10. Capacity(rows[a]) = Outcome(i).capacity /\ Capacity(rows[b]) = Outcome(j).capacity
  BY <1>8, <1>9, SampledIs
<1>11. WindowOf(i, j) = SpanWindow(rows, a, b)
  BY <1>7, <1>8, <1>10 DEF WindowOf, SpanWindow
<1> QED BY <1>11 DEF i, j

LEMMA SoundRows == Ready => Sound(rows)
<1> SUFFICES ASSUME Ready, NEW p \in 1 .. Len(rows), Used(rows[p]) PROVE Valid(rows[p])
  BY DEF Sound
<1> QED BY UsedIsHead, OutcomeFacts

LEMMA ReportResult ==
  ASSUME Ready
  PROVE  /\ Report \in ReportType
         /\ NumbersInv(rows, Len(rows), Report)
         /\ Enumerates(Report.discharge, rows, Spans(rows, Len(rows) + 1))
<1>1. rows \in Seq(Line) /\ Sound(rows)
  BY SoundRows DEF Ready, TypeOK
<1>2. \E y \in ReportType :
           /\ y = Flush(FoldLeft(AddRow, EmptyReport, rows))
           /\ NumbersInv(rows, Len(rows), y)
           /\ Enumerates(y.discharge, rows, Spans(rows, Len(rows) + 1))
  BY <1>1, LoopResult
<1> QED BY <1>2 DEF Report

LEMMA ReadyWindows == Ready => WindowsAreRuns
<1> SUFFICES ASSUME Ready
             PROVE  \E runs \in [DOMAIN Report.discharge -> Runs] :
                      /\ \A run \in Runs : \E n \in DOMAIN Report.discharge : runs[n] = run
                      /\ \A m, n \in DOMAIN Report.discharge : m < n => runs[m][1] < runs[n][1]
                      /\ \A n \in DOMAIN Report.discharge :
                           Report.discharge[n] = WindowOf(runs[n][1], runs[n][2])
  BY DEF WindowsAreRuns
<1> DEFINE windows == Report.discharge
           S == Spans(rows, Len(rows) + 1)
<1>1. PICK spans \in [DOMAIN windows -> S] :
        /\ \A span \in S : \E n \in DOMAIN windows : spans[n] = span
        /\ \A m, n \in DOMAIN windows : m < n => spans[m][1] < spans[n][1]
        /\ \A n \in DOMAIN windows : windows[n] = SpanWindow(rows, spans[n][1], spans[n][2])
  BY ReportResult DEF Enumerates
<1>2. /\ \A run \in Runs : SpanOf(run) \in S
      /\ \A span \in S : \E run \in Runs : SpanOf(run) = span
  BY RunsAreSpans
<1>3. \A run \in Runs : /\ SpanOf(run)[1] = Place(run[1]) /\ SpanOf(run)[2] = Place(run[2])
                        /\ run = <<run[1], run[2]>> /\ run[1] \in Own /\ run[2] \in Own
  BY LogFacts DEF SpanOf, Runs
<1> HIDE DEF windows, S
<1> DEFINE runs == [n \in DOMAIN windows |-> CHOOSE run \in Runs : SpanOf(run) = spans[n]]
<1>4. \A n \in DOMAIN windows : runs[n] \in Runs /\ SpanOf(runs[n]) = spans[n]
  <2> TAKE n \in DOMAIN windows
  <2>1. \E run \in Runs : SpanOf(run) = spans[n]
    BY <1>1, <1>2
  <2> QED BY <2>1
<1>5. runs \in [DOMAIN windows -> Runs]
  BY <1>4
<1> HIDE DEF runs
<1>6. ASSUME NEW run \in Runs PROVE \E n \in DOMAIN windows : runs[n] = run
  <2>1. PICK n \in DOMAIN windows : spans[n] = SpanOf(run)
    BY <1>1, <1>2, <1>6
  <2>2. SpanOf(runs[n]) = SpanOf(run) /\ runs[n] \in Runs
    BY <1>4, <2>1
  <2>3. Place(runs[n][1]) = Place(run[1]) /\ Place(runs[n][2]) = Place(run[2])
    BY <1>3, <2>2
  <2>4. runs[n][1] = run[1] /\ runs[n][2] = run[2]
    BY <1>3, <2>2, <2>3, PlaceFacts
  <2> QED BY <1>3, <2>2, <2>4
<1>7. ASSUME NEW m \in DOMAIN windows, NEW n \in DOMAIN windows, m < n
      PROVE  runs[m][1] < runs[n][1]
  <2>1. Place(runs[m][1]) < Place(runs[n][1])
    BY <1>1, <1>3, <1>4, <1>7
  <2> QED BY <1>3, <1>4, <2>1, PlaceFacts
<1>8. \A n \in DOMAIN windows : windows[n] = WindowOf(runs[n][1], runs[n][2])
  BY <1>1, <1>3, <1>4, WindowsAgree
<1> QED BY <1>5, <1>6, <1>7, <1>8 DEF windows

(***************************************************************************)
(* The numbers of the report.                                              *)
(***************************************************************************)

\* A bijection keeps the size of every part.
LEMMA PartSize ==
  ASSUME NEW A, NEW B, IsFiniteSet(A), NEW c \in Bijection(A, B),
         NEW K \in SUBSET A, NEW S \in SUBSET B,
         \A k \in A : k \in K <=> c[k] \in S
  PROVE  IsFiniteSet(S) /\ IsFiniteSet(K) /\ Cardinality(S) = Cardinality(K)
<1>1. /\ c \in [A -> B]
      /\ \A l, m \in A : c[l] = c[m] => l = m
      /\ \A b \in B : \E m \in A : c[m] = b
  BY DEF Bijection, Injection, Surjection, IsInjective
<1> DEFINE f == [k \in K |-> c[k]]
<1>2. IsFiniteSet(K)
  BY FS_Subset
<1>3. f \in Bijection(K, S)
  <2>1. f \in [K -> S]
    BY <1>1
  <2>2. f \in Injection(K, S)
    BY <1>1, <2>1 DEF Injection, IsInjective
  <2>3. \A b \in S : \E m \in K : f[m] = b
    BY <1>1
  <2>4. f \in Surjection(K, S)
    BY <2>1, <2>3 DEF Surjection
  <2> QED BY <2>2, <2>4 DEF Bijection
<1> QED BY <1>2, <1>3, FS_Bijection DEF ExistsBijection

\* Each cycle has one row in use.
LEMMA CyclesAreRows ==
  ASSUME Ready
  PROVE  /\ [i \in Heads |-> Place(i)] \in Bijection(Heads, UsedRows(rows, Len(rows)))
         /\ IsFiniteSet(Heads)
<1> DEFINE f == [i \in Heads |-> Place(i)]
           U == UsedRows(rows, Len(rows))
<1>1. \A i \in Heads : i \in Own /\ Place(i) \in 1 .. Len(rows) /\ Used(rows[Place(i)])
  BY LogFacts, PlaceFacts, OutcomeFacts
<1>2. f \in [Heads -> U]
  BY <1>1 DEF UsedRows
<1>3. f \in Injection(Heads, U)
  BY <1>1, <1>2, PlaceFacts DEF Injection, IsInjective
<1>4. \A p \in U : \E i \in Heads : f[i] = p
  BY UsedIsHead DEF UsedRows
<1>5. f \in Surjection(Heads, U)
  BY <1>2, <1>4 DEF Surjection
<1>6. IsFiniteSet(Heads)
  <2>1. IsFiniteSet(1 .. Len(input)) /\ Heads \in SUBSET (1 .. Len(input))
    BY LogFacts, FS_Interval
  <2> QED BY <2>1, FS_Subset
<1> QED BY <1>3, <1>5, <1>6 DEF Bijection

\* The cycles of the durations, in their order.
LEMMA DurationsOfCycles ==
  ASSUME Ready
  PROVE  \E c \in Bijection(DOMAIN Report.took, Heads) :
           \A n \in DOMAIN Report.took : Report.took[n] = Outcome(c[n]).took
<1> DEFINE U == UsedRows(rows, Len(rows))
           took == Report.took
           D == DOMAIN took
<1>1. PICK pos \in Bijection(D, U) : \A n \in D : took[n] = rows[pos[n]].took
  BY ReportResult DEF NumbersInv, Durations
<1>2. \A p \in U : \E i \in Heads : Place(i) = p /\ rows[p] = Outcome(i)
  BY UsedIsHead DEF UsedRows
<1>3. \A i \in Heads : i \in Own /\ Place(i) \in U
  BY LogFacts, PlaceFacts, OutcomeFacts DEF UsedRows
<1>4. /\ pos \in [D -> U]
      /\ \A l, m \in D : pos[l] = pos[m] => l = m
      /\ \A b \in U : \E m \in D : pos[m] = b
  BY <1>1 DEF Bijection, Injection, Surjection, IsInjective
<1> HIDE DEF U, D, took
<1> DEFINE c == [n \in D |-> CHOOSE i \in Heads : Place(i) = pos[n] /\ rows[pos[n]] = Outcome(i)]
<1>5. \A n \in D : c[n] \in Heads /\ Place(c[n]) = pos[n] /\ rows[pos[n]] = Outcome(c[n])
  <2> TAKE n \in D
  <2>1. \E i \in Heads : Place(i) = pos[n] /\ rows[pos[n]] = Outcome(i)
    BY <1>2, <1>4
  <2> QED BY <2>1
<1>6. c \in [D -> Heads]
  BY <1>5
<1> HIDE DEF c
<1>7. c \in Injection(D, Heads)
  <2>1. \A l, m \in D : c[l] = c[m] => l = m
    BY <1>4, <1>5
  <2> QED BY <1>6, <2>1 DEF Injection, IsInjective
<1>8. c \in Surjection(D, Heads)
  <2>1. ASSUME NEW i \in Heads PROVE \E n \in D : c[n] = i
    <3>1. PICK n \in D : pos[n] = Place(i)
      BY <1>3, <1>4
    <3>2. Place(c[n]) = Place(i) /\ c[n] \in Own /\ i \in Own
      BY <1>3, <1>5, <3>1
    <3> QED BY <3>2, PlaceFacts
  <2> QED BY <1>6, <2>1 DEF Surjection
<1>9. \A n \in D : took[n] = Outcome(c[n]).took
  BY <1>1, <1>5
<1> QED BY <1>7, <1>8, <1>9 DEF Bijection, D, took

(***************************************************************************)
(* Sorting.                                                                *)
(***************************************************************************)

SortedBy(values, p) ==
  /\ p \in [DOMAIN values -> DOMAIN values] /\ IsInjective(p)
  /\ \A i, j \in DOMAIN values : i <= j => values[p[i]] <= values[p[j]]

\* The place of a value is the number of those before it; equal ones keep their order.
LEMMA OrderExists ==
  ASSUME NEW n \in Nat, NEW values \in [1 .. n -> Int]
  PROVE  \E p : SortedBy(values, p)
<1> DEFINE D == 1 .. n
           UpToValue(i) == {j \in D : \/ values[j] < values[i]
                                      \/ values[j] = values[i] /\ j <= i}
           r == [i \in D |-> Cardinality(UpToValue(i))]
<1>1. IsFiniteSet(D) /\ Cardinality(D) = n
  BY FS_Interval
<1>2. \A i \in D : values[i] \in Int
  OBVIOUS
<1>3. \A i \in D : /\ i \in UpToValue(i) /\ IsFiniteSet(UpToValue(i))
                   /\ Cardinality(UpToValue(i)) \in 1 .. n
  <2> TAKE i \in D
  <2>1. i \in UpToValue(i) /\ UpToValue(i) \in SUBSET D
    BY <1>2
  <2> HIDE DEF UpToValue, D
  <2>2. IsFiniteSet(UpToValue(i)) /\ Cardinality(UpToValue(i)) <= n
    BY <1>1, <2>1, FS_Subset
  <2>3. Cardinality(UpToValue(i)) \in Nat /\ Cardinality(UpToValue(i)) # 0
    BY <2>1, <2>2, FS_CardinalityType, FS_EmptySet
  <2> QED BY <2>1, <2>2, <2>3
<1>4. ASSUME NEW i \in D, NEW j \in D, values[i] < values[j] \/ (values[i] = values[j] /\ i < j)
      PROVE  Cardinality(UpToValue(i)) < Cardinality(UpToValue(j))
  <2>1. UpToValue(i) \in SUBSET UpToValue(j)
    BY <1>2, <1>4
  <2>2. j \notin UpToValue(i)
    BY <1>2, <1>4
  <2> HIDE DEF UpToValue
  <2>3. j \in UpToValue(j) /\ IsFiniteSet(UpToValue(j))
    BY <1>3
  <2>4. /\ Cardinality(UpToValue(i)) <= Cardinality(UpToValue(j))
        /\ Cardinality(UpToValue(i)) # Cardinality(UpToValue(j))
    BY <2>1, <2>2, <2>3, FS_Subset
  <2>5. Cardinality(UpToValue(i)) \in Nat /\ Cardinality(UpToValue(j)) \in Nat
    BY <1>3
  <2> QED BY <2>4, <2>5
<1> HIDE DEF UpToValue
<1>5. r \in Injection(D, D)
  <2>1. r \in [D -> D]
    BY <1>3
  <2>2. ASSUME NEW i \in D, NEW j \in D, i # j PROVE r[i] # r[j]
    <3>1. \/ values[i] < values[j] \/ (values[i] = values[j] /\ i < j)
          \/ values[j] < values[i] \/ (values[j] = values[i] /\ j < i)
      BY <1>2, <2>2
    <3>2. r[i] \in Nat /\ r[j] \in Nat
      BY <2>1
    <3>3. r[i] < r[j] \/ r[j] < r[i]
      BY <1>4, <3>1
    <3> QED BY <3>2, <3>3
  <2> QED BY <2>1, <2>2 DEF Injection, IsInjective
<1>6. \A k \in D : \E i \in D : r[i] = k
  <2>1. r \in Surjection(D, D)
    BY <1>1, <1>5, FS_Injection
  <2> QED BY <2>1 DEF Surjection
<1>7. \A i \in D : r[i] \in Nat
  BY <1>3
<1>8. \A i, j \in D : r[i] < r[j] \/ i = j => values[i] <= values[j]
  <2> SUFFICES ASSUME NEW i \in D, NEW j \in D, r[i] < r[j] \/ i = j
               PROVE  values[i] <= values[j]
    OBVIOUS
  <2>1. ~(values[j] < values[i])
    <3> SUFFICES ASSUME values[j] < values[i] PROVE FALSE
      OBVIOUS
    <3>1. r[j] < r[i]
      BY <1>4
    <3> HIDE DEF r
    <3>2. r[i] \in Nat /\ r[j] \in Nat
      BY <1>7
    <3> QED BY <3>1, <3>2
  <2>2. values[i] \in Int /\ values[j] \in Int
    BY <1>2
  <2> QED BY <2>1, <2>2
<1> HIDE DEF r
<1> DEFINE p == [k \in D |-> CHOOSE i \in D : r[i] = k]
<1>9. \A k \in D : p[k] \in D /\ r[p[k]] = k
  <2> TAKE k \in D
  <2>1. \E i \in D : r[i] = k
    BY <1>6
  <2> QED BY <2>1
<1>10. p \in [D -> D]
  BY <1>9
<1> HIDE DEF p
<1>11. IsInjective(p)
  <2>1. \A k, l \in D : p[k] = p[l] => k = l
    BY <1>9
  <2>2. DOMAIN p = D
    BY <1>10
  <2> HIDE DEF D
  <2> QED BY <2>1, <2>2 DEF IsInjective
<1>12. \A i, j \in D : i <= j => values[p[i]] <= values[p[j]]
  <2> SUFFICES ASSUME NEW i \in D, NEW j \in D, i <= j PROVE values[p[i]] <= values[p[j]]
    OBVIOUS
  <2>1. CASE i = j
    BY <1>8, <1>9, <2>1
  <2>2. CASE i < j
    BY <1>8, <1>9, <2>2
  <2> QED BY <2>1, <2>2
<1>13. SortedBy(values, p)
  BY <1>10, <1>11, <1>12 DEF SortedBy
<1> QED BY <1>13

\* Sorting rearranges the values in ascending order.
LEMMA SortedFacts ==
  ASSUME NEW values \in Seq(Int)
  PROVE  /\ DOMAIN Sorted(values) = DOMAIN values
         /\ \E p \in Bijection(DOMAIN values, DOMAIN values) :
              \A i \in DOMAIN values : Sorted(values)[i] = values[p[i]]
         /\ \A i, j \in DOMAIN values : i <= j => Sorted(values)[i] <= Sorted(values)[j]
         /\ \A i \in DOMAIN values : Sorted(values)[i] \in Int
<1> DEFINE D == DOMAIN values
           p == CHOOSE q \in [D -> D] :
                  IsInjective(q) /\ \A i, j \in D : i <= j => values[q[i]] <= values[q[j]]
<1>1. Len(values) \in Nat /\ D = 1 .. Len(values) /\ values \in [1 .. Len(values) -> Int]
  OBVIOUS
<1>2. SortedBy(values, p)
  <2>1. \E q : SortedBy(values, q)
    BY <1>1, OrderExists
  <2> QED BY <2>1 DEF SortedBy
<1>3. Sorted(values) = [i \in D |-> values[p[i]]]
  BY DEF Sorted
<1> HIDE DEF p, D
<1>4. p \in Injection(D, D) /\ IsFiniteSet(D) /\ p \in [D -> D]
  <2>1. IsFiniteSet(D)
    BY <1>1, FS_Interval
  <2>2. p \in [D -> D] /\ IsInjective(p)
    BY <1>2 DEF SortedBy, D
  <2> QED BY <2>1, <2>2 DEF Injection
<1>5. p \in Bijection(D, D)
  BY <1>4, FS_Injection DEF Bijection
<1>6. \A i \in D : Sorted(values)[i] = values[p[i]] /\ Sorted(values)[i] \in Int
  BY <1>1, <1>3, <1>4
<1>7. \A i, j \in D : i <= j => Sorted(values)[i] <= Sorted(values)[j]
  BY <1>2, <1>6 DEF SortedBy, D
<1>8. DOMAIN Sorted(values) = D
  BY <1>3
<1> QED BY <1>5, <1>6, <1>7, <1>8 DEF D

(***************************************************************************)
(* The numbers of the report are those of the cycles.                      *)
(***************************************************************************)

AtMost(sorted, v) == {k \in DOMAIN sorted : sorted[k] <= v}

\* In ascending order, at least the first k values are no larger than the
\* k-th, and only those before it can be smaller.
LEMMA Ranks ==
  ASSUME NEW n \in Nat, NEW s, DOMAIN s = 1 .. n, \A i \in 1 .. n : s[i] \in Int,
         \A i, j \in 1 .. n : i <= j => s[i] <= s[j],
         NEW v \in Int
  PROVE  /\ IsFiniteSet(AtMost(s, v)) /\ Cardinality(AtMost(s, v)) \in 0 .. n
         /\ \A k \in 1 .. n : s[k] <= v => Cardinality(AtMost(s, v)) >= k
         /\ \A k \in 1 .. n : s[k] > v => Cardinality(AtMost(s, v)) < k
<1>1. /\ AtMost(s, v) \in SUBSET (1 .. n)
      /\ IsFiniteSet(1 .. n) /\ Cardinality(1 .. n) = n
  BY FS_Interval DEF AtMost
<1>2. IsFiniteSet(AtMost(s, v)) /\ Cardinality(AtMost(s, v)) <= n
  BY <1>1, FS_Subset
<1>3. Cardinality(AtMost(s, v)) \in Nat
  BY <1>2, FS_CardinalityType
<1>4. ASSUME NEW k \in 1 .. n, s[k] <= v PROVE Cardinality(AtMost(s, v)) >= k
  <2>1. 1 .. k \in SUBSET AtMost(s, v)
    BY <1>4 DEF AtMost
  <2>2. Cardinality(1 .. k) = k
    BY FS_Interval
  <2>3. Cardinality(1 .. k) <= Cardinality(AtMost(s, v))
    BY <1>2, <2>1, FS_Subset
  <2> QED BY <1>3, <2>2, <2>3
<1>5. ASSUME NEW k \in 1 .. n, s[k] > v PROVE Cardinality(AtMost(s, v)) < k
  <2>1. AtMost(s, v) \in SUBSET (1 .. k - 1)
    BY <1>5 DEF AtMost
  <2>2. IsFiniteSet(1 .. k - 1) /\ Cardinality(1 .. k - 1) = k - 1
    BY FS_Interval
  <2>3. Cardinality(AtMost(s, v)) <= Cardinality(1 .. k - 1)
    BY <2>1, <2>2, FS_Subset
  <2> QED BY <1>3, <2>2, <2>3
<1> QED BY <1>2, <1>3, <1>4, <1>5

\* What the distribution says of the values it is given.
LEMMA DistributionFacts ==
  ASSUME NEW values \in Seq(Int), values # <<>>
  PROVE  LET d == Distribution(values)
             n == Len(values)
             of(v) == 20 * Cardinality(AtMost(Sorted(values), v))
         IN  /\ {d.p95, d.p95 - 1, d.min - 1, d.max, d.median2 \div 2} \subseteq Int
             /\ of(d.p95) >= 19 * n /\ of(d.p95 - 1) < 19 * n
             /\ of(d.median2 \div 2) >= 10 * n
             /\ of(d.min - 1) = 0 /\ of(d.max) = 20 * n
<1> DEFINE n == Len(values)
           s == Sorted(values)
           d == Distribution(values)
           mid == n \div 2 + 1
<1>1. n \in Nat \ {0} /\ DOMAIN values = 1 .. n
  BY EmptySeq
<1>2. /\ DOMAIN s = 1 .. n /\ \A i \in 1 .. n : s[i] \in Int
      /\ \A i, j \in 1 .. n : i <= j => s[i] <= s[j]
  BY <1>1, SortedFacts
<1>3. /\ d.min = s[1] /\ d.max = s[n] /\ d.p95 = s[Rank(n)]
      /\ d.median2 = IF n % 2 = 0 THEN s[mid - 1] + s[mid] ELSE 2 * s[mid]
  BY DEF Distribution
<1> HIDE DEF n, s, d
<1>4. /\ Rank(n) \in 1 .. n /\ 20 * Rank(n) >= 19 * n /\ 20 * (Rank(n) - 1) < 19 * n
  BY <1>1, RankIsNearest
<1> DEFINE of == [v \in Int |-> Cardinality(AtMost(s, v))]
<1>5. \A v \in Int : /\ of[v] \in 0 .. n
                     /\ \A k \in 1 .. n : s[k] <= v => of[v] >= k
                     /\ \A k \in 1 .. n : s[k] > v => of[v] < k
  BY <1>1, <1>2, Ranks
<1>12. \A v \in Int : of[v] = Cardinality(AtMost(s, v))
  OBVIOUS
<1> HIDE DEF of
<1>6. d.p95 \in Int /\ 20 * of[d.p95] >= 19 * n /\ 20 * of[d.p95 - 1] < 19 * n
  <2>1. d.p95 \in Int /\ d.p95 - 1 \in Int /\ d.p95 = s[Rank(n)]
    BY <1>2, <1>3, <1>4
  <2>2. of[d.p95] \in Int /\ of[d.p95] >= Rank(n)
    BY <1>4, <1>5, <2>1
  <2>3. of[d.p95 - 1] \in Int /\ of[d.p95 - 1] < Rank(n)
    BY <1>4, <1>5, <2>1
  <2> QED BY <1>1, <1>4, <2>1, <2>2, <2>3
<1>7. d.max \in Int /\ of[d.max] = n
  <2>1. d.max \in Int /\ d.max = s[n] /\ n \in 1 .. n
    BY <1>1, <1>2, <1>3
  <2> QED BY <1>5, <2>1
<1>8. d.min \in Int /\ of[d.min - 1] = 0
  <2>1. d.min \in Int /\ d.min - 1 \in Int /\ s[1] > d.min - 1 /\ 1 \in 1 .. n
    BY <1>1, <1>2, <1>3
  <2> QED BY <1>5, <2>1
<1>9. d.median2 \div 2 \in Int /\ of[d.median2 \div 2] \in Int /\ 2 * of[d.median2 \div 2] >= n
  <2>1. CASE n % 2 = 0
    <3>1. mid - 1 \in 1 .. n /\ mid \in 1 .. n /\ 2 * (mid - 1) = n
      BY <1>1, <2>1
    <3>2. s[mid - 1] \in Int /\ s[mid] \in Int /\ s[mid - 1] <= s[mid]
      BY <1>1, <1>2, <3>1
    <3>3. d.median2 = s[mid - 1] + s[mid]
      BY <1>3, <2>1
    <3> HIDE DEF mid
    <3>4. d.median2 \div 2 \in Int /\ s[mid - 1] <= d.median2 \div 2
      BY <3>2, <3>3
    <3> QED BY <1>1, <1>5, <3>1, <3>4
  <2>2. CASE n % 2 # 0
    <3>1. mid \in 1 .. n /\ 2 * mid >= n
      BY <1>1, <2>2
    <3>2. s[mid] \in Int /\ d.median2 = 2 * s[mid]
      BY <1>2, <1>3, <2>2, <3>1
    <3> HIDE DEF mid
    <3>3. d.median2 \div 2 \in Int /\ s[mid] <= d.median2 \div 2
      BY <3>2
    <3> QED BY <1>1, <1>5, <3>1, <3>3
  <2> QED BY <2>1, <2>2
<1>10. {d.p95, d.p95 - 1, d.min - 1, d.max, d.median2 \div 2} \subseteq Int
  BY <1>6, <1>7, <1>8, <1>9
<1>11. 20 * of[d.median2 \div 2] >= 10 * n
  BY <1>1, <1>9
<1>13. /\ 20 * Cardinality(AtMost(s, d.p95)) >= 19 * n
       /\ 20 * Cardinality(AtMost(s, d.p95 - 1)) < 19 * n
  BY <1>6, <1>10, <1>12
<1>14. 20 * Cardinality(AtMost(s, d.median2 \div 2)) >= 10 * n
  BY <1>10, <1>11, <1>12
<1>15. /\ 20 * Cardinality(AtMost(s, d.min - 1)) = 0
       /\ 20 * Cardinality(AtMost(s, d.max)) = 20 * n
  <2>1. Cardinality(AtMost(s, d.min - 1)) = 0 /\ Cardinality(AtMost(s, d.max)) = n
    BY <1>7, <1>8, <1>10, <1>12
  <2> QED BY <2>1
<1> HIDE DEF of
<1> QED BY <1>10, <1>13, <1>14, <1>15 DEF n, s, d

\* A cycle's duration is at most v as often as a sorted duration is.
LEMMA ShareIs ==
  ASSUME Ready, NEW v \in Int
  PROVE  Cardinality({i \in Heads : Outcome(i).took <= v}) =
         Cardinality(AtMost(Sorted(Report.took), v))
<1> DEFINE took == Report.took
           D == DOMAIN took
           S == {i \in Heads : Outcome(i).took <= v}
           K == {n \in D : took[n] <= v}
           L == AtMost(Sorted(took), v)
<1>1. took \in Seq(Int) /\ IsFiniteSet(D)
  <2>1. took \in Seq(Int)
    BY ReportResult DEF ReportType
  <2> QED BY <2>1, FS_Interval
<1>2. PICK c \in Bijection(D, Heads) : \A n \in D : took[n] = Outcome(c[n]).took
  BY DurationsOfCycles
<1>3. PICK p \in Bijection(D, D) : \A n \in D : Sorted(took)[n] = took[p[n]]
  BY <1>1, SortedFacts
<1>4. DOMAIN Sorted(took) = D
  BY <1>1, SortedFacts
<1>5. c \in [D -> Heads] /\ p \in [D -> D]
  BY <1>2, <1>3 DEF Bijection, Injection
<1> HIDE DEF took, D
<1>6. \A n \in D : n \in K <=> c[n] \in S
  BY <1>2, <1>5
<1>7. \A n \in D : n \in L <=> p[n] \in K
  BY <1>3, <1>4, <1>5 DEF AtMost
<1>8. S \in SUBSET Heads /\ K \in SUBSET D /\ L \in SUBSET D
  BY <1>4 DEF AtMost
<1> HIDE DEF S, K, L
<1>9. Cardinality(S) = Cardinality(K)
  BY <1>1, <1>2, <1>6, <1>8, PartSize
<1>10. Cardinality(K) = Cardinality(L)
  BY <1>1, <1>3, <1>7, <1>8, PartSize
<1> QED BY <1>9, <1>10 DEF S, L, took

LEMMA StatusCounts ==
  ASSUME Ready, NEW s \in Statuses
  PROVE  Report.statuses[s] = Cardinality({i \in Heads : Outcome(i).status = s})
<1> DEFINE U == UsedRows(rows, Len(rows))
           c == [i \in Heads |-> Place(i)]
           K == {i \in Heads : Outcome(i).status = s}
           S == OfStatus(rows, Len(rows), s)
<1>1. c \in Bijection(Heads, U) /\ IsFiniteSet(Heads)
  BY CyclesAreRows
<1>2. \A i \in Heads : rows[c[i]] = Outcome(i)
  BY LogFacts
<1>3. \A i \in Heads : c[i] \in U
  BY <1>1 DEF Bijection, Injection
<1>4. \A i \in Heads : i \in K <=> c[i] \in S
  BY <1>2, <1>3 DEF OfStatus
<1>5. K \in SUBSET Heads /\ S \in SUBSET U
  BY DEF OfStatus
<1>6. Report.statuses[s] = Cardinality(S)
  BY ReportResult DEF NumbersInv
<1> HIDE DEF c, K, S, U
<1>7. Cardinality(S) = Cardinality(K)
  BY <1>1, <1>4, <1>5, PartSize
<1> QED BY <1>6, <1>7 DEF K

LEMMA DurationCounts ==
  ASSUME Ready, NEW v
  PROVE  Cardinality({i \in Heads : Outcome(i).took = v}) =
         Cardinality({n \in DOMAIN Report.took : Report.took[n] = v})
<1> DEFINE took == Report.took
           D == DOMAIN took
           S == {i \in Heads : Outcome(i).took = v}
           K == {n \in D : took[n] = v}
<1>1. IsFiniteSet(D)
  <2>1. took \in Seq(Int)
    BY ReportResult DEF ReportType
  <2> QED BY <2>1, FS_Interval
<1>2. PICK c \in Bijection(D, Heads) : \A n \in D : took[n] = Outcome(c[n]).took
  BY DurationsOfCycles
<1>3. c \in [D -> Heads]
  BY <1>2 DEF Bijection, Injection
<1> HIDE DEF took, D
<1>4. \A n \in D : n \in K <=> c[n] \in S
  BY <1>2, <1>3
<1>5. S \in SUBSET Heads /\ K \in SUBSET D
  OBVIOUS
<1> HIDE DEF S, K
<1>6. Cardinality(S) = Cardinality(K)
  BY <1>1, <1>2, <1>4, <1>5, PartSize
<1> QED BY <1>6 DEF S, K, D, took

\* The span of time the report covers.
LEMMA FirstAndLast ==
  ASSUME Ready, Heads # {}
  PROVE  /\ Report.first = Min({Outcome(i).start : i \in Heads})
         /\ Report.last = Max({Outcome(i).start + Outcome(i).took : i \in Heads})
<1> DEFINE U == UsedRows(rows, Len(rows))
           Starts == {Outcome(i).start : i \in Heads}
           Ends == {Outcome(i).start + Outcome(i).took : i \in Heads}
<1>1. \A i \in Heads : Place(i) \in U /\ rows[Place(i)] = Outcome(i)
  BY LogFacts, PlaceFacts, OutcomeFacts DEF UsedRows
<1>2. \A p \in U : \E i \in Heads : rows[p] = Outcome(i)
  BY UsedIsHead DEF UsedRows
<1>3. U # {}
  BY <1>1
<1>4. NumbersInv(rows, Len(rows), Report)
  BY ReportResult
<1>5. /\ \E p \in U : Report.first = rows[p].start
      /\ \E p \in U : Report.last = EndOf(rows[p])
      /\ \A p \in U : Report.first <= rows[p].start /\ Report.last >= EndOf(rows[p])
  BY <1>3, <1>4 DEF NumbersInv
<1> HIDE DEF U
<1>6. \A i \in Heads : Outcome(i).start \in Int /\ Outcome(i).took \in Int
  BY OutcomeFacts DEF Line
<1>7. Starts \in SUBSET Int /\ Ends \in SUBSET Int
  BY <1>6
<1>8. Report.first \in Starts /\ \A x \in Starts : Report.first <= x
  BY <1>1, <1>2, <1>5
<1>9. Report.last \in Ends /\ \A x \in Ends : Report.last >= x
  BY <1>1, <1>2, <1>5 DEF EndOf
<1> HIDE DEF Starts, Ends
<1> QED BY <1>7, <1>8, <1>9, MinIs, MaxIs DEF Starts, Ends

\* Each cycle has one duration.
LEMMA AsManyDurations ==
  ASSUME Ready
  PROVE  Len(Report.took) = Cardinality(Heads) /\ Report.took \in Seq(Int)
<1> DEFINE took == Report.took
<1>1. took \in Seq(Int)
  BY ReportResult DEF ReportType
<1>2. DOMAIN took = 1 .. Len(took) /\ Len(took) \in Nat
  BY <1>1
<1>3. IsFiniteSet(DOMAIN took) /\ Cardinality(DOMAIN took) = Len(took)
  BY <1>2, FS_Interval
<1>4. ExistsBijection(DOMAIN took, Heads)
  BY DurationsOfCycles DEF ExistsBijection
<1> QED BY <1>1, <1>3, <1>4, FS_Bijection

LEMMA ReadyOutcomes == Ready /\ NumbersOfLog => FinalOutcomes
<1> SUFFICES ASSUME Ready, NumbersOfLog PROVE FinalOutcomes
  OBVIOUS
<1> DEFINE took == Report.took
           d == Distribution(took)
           share(v) == 20 * Cardinality({i \in Heads : Outcome(i).took <= v})
<1>1. \A s \in Statuses : Report.statuses[s] = CountOf(LAMBDA o : o.status = s)
  BY StatusCounts DEF CountOf
<1>2. \A n \in {input[i].took : i \in DOMAIN input} :
        CountOf(LAMBDA o : o.took = n) = Cardinality({i \in DOMAIN took : took[i] = n})
  BY DurationCounts DEF CountOf
<1>3. ASSUME Heads # {}
      PROVE  /\ share(d.p95) >= 19 * Cycles /\ share(d.p95 - 1) < 19 * Cycles
             /\ share(d.median2 \div 2) >= 10 * Cycles
             /\ share(d.min - 1) = 0 /\ share(d.max) = 20 * Cycles
  <2>1. Len(took) = Cycles /\ took \in Seq(Int) /\ took # <<>>
    <3>1. Len(took) = Cardinality(Heads) /\ took \in Seq(Int)
      BY AsManyDurations
    <3>2. Cardinality(Heads) # 0
      BY <1>3, CyclesAreRows, FS_EmptySet
    <3> QED BY <3>1, <3>2, EmptySeq DEF NumbersOfLog
  <2>2. /\ {d.p95, d.p95 - 1, d.min - 1, d.max, d.median2 \div 2} \subseteq Int
        /\ 20 * Cardinality(AtMost(Sorted(took), d.p95)) >= 19 * Len(took)
        /\ 20 * Cardinality(AtMost(Sorted(took), d.p95 - 1)) < 19 * Len(took)
        /\ 20 * Cardinality(AtMost(Sorted(took), d.median2 \div 2)) >= 10 * Len(took)
        /\ 20 * Cardinality(AtMost(Sorted(took), d.min - 1)) = 0
        /\ 20 * Cardinality(AtMost(Sorted(took), d.max)) = 20 * Len(took)
    BY <2>1, DistributionFacts
  <2>3. \A v \in Int : Cardinality({i \in Heads : Outcome(i).took <= v}) =
                       Cardinality(AtMost(Sorted(took), v))
    BY ShareIs
  <2> HIDE DEF took, d
  <2> QED BY <2>1, <2>2, <2>3
<1>4. Heads # {} => /\ Report.first = Min({Outcome(i).start : i \in Heads})
                    /\ Report.last = Max({Outcome(i).start + Outcome(i).took : i \in Heads})
  BY FirstAndLast
<1> QED BY <1>1, <1>2, <1>3, <1>4 DEF FinalOutcomes

\* When the log has ended, the discharge windows of the report are the longest
\* runs of adjacent discharging cycles, in their order, for every log and every
\* filter: the loop over the rows links nothing across a record it could not
\* use and loses no window, wherever second outcomes changed a cycle.
THEOREM WindowsAreTheRuns == Spec => []WindowsAreRuns
BY LogInvariant, ReadyWindows, PTL

\* The counts, the span of time, the median and the percentile of the report
\* are those of the last outcome of each cycle, for every log and every filter.
THEOREM OutcomesAreFinal == Spec => []FinalOutcomes
BY LogInvariant, ReadyOutcomes, PTL
=============================================================================
