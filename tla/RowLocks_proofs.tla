---------------------------- MODULE RowLocks_proofs ----------------------------
(***************************************************************************)
(* Theorems about RowLocks, for any number of transactions, residents and  *)
(* calls: the world row makes operations atomic, a key is decided once, and*)
(* no wait cycle is without a foreign key check.                           *)
(***************************************************************************)
EXTENDS RowLocks, FiniteSetTheorems, SequenceTheorems, WellFoundedInduction, TLAPS

-----------------------------------------------------------------------------
(* Rows and statements *)

Keys == {c.key : c \in Calls}
Modes == {"UPDATE", "KEY SHARE"}

Rows ==
  {World, Lease} \cup {Request(k) : k \in Keys} \cup {Outcome(k) : k \in Keys}
    \cup {Runtime(x) : x \in Residents} \cup {WakeRow(x) : x \in Residents}
    \cup {Resource(CHOOSE x \in c.parties : TRUE) : c \in Calls}

Statements == [how : {"lock", "insert"}, row : Rows, mode : Modes]

\* the order in which rows that are not below the world are locked
Level(row) ==
  IF row[1] = "action_requests" THEN 0
  ELSE IF row[1] = "simulation_driver_leases" THEN 1
  ELSE IF row[1] = "worlds" THEN 2
  ELSE 3 + Rank[row[2]]

\* What rows there are, and where they are in that order.
LEMMA RowKinds ==
  /\ \A row \in Rows : ~BelowWorld(row) => Level(row) \in Nat
  /\ World \in Rows /\ ~BelowWorld(World) /\ Level(World) = 2
  /\ Lease \in Rows /\ ~BelowWorld(Lease) /\ Level(Lease) = 1
  /\ \A k \in Keys : /\ Request(k) \in Rows /\ ~BelowWorld(Request(k))
                     /\ Level(Request(k)) = 0
                     /\ Outcome(k) \in Rows /\ BelowWorld(Outcome(k))
  /\ \A x \in Residents : /\ Runtime(x) \in Rows /\ BelowWorld(Runtime(x))
                          /\ WakeRow(x) \in Rows /\ ~BelowWorld(WakeRow(x))
                          /\ Level(WakeRow(x)) = 3 + Rank[x] /\ Rank[x] \in Nat
  /\ \A c \in Calls : LET row == Resource(CHOOSE x \in c.parties : TRUE) IN
                      row \in Rows /\ BelowWorld(row)
<1>1. World \in Rows /\ ~BelowWorld(World) /\ Level(World) = 2
  BY DEF Rows, World, BelowWorld, Level
<1>2. Lease \in Rows /\ ~BelowWorld(Lease) /\ Level(Lease) = 1
  BY DEF Rows, Lease, BelowWorld, Level
<1>3. ASSUME NEW k \in Keys
      PROVE  /\ Request(k) \in Rows /\ ~BelowWorld(Request(k))
             /\ Level(Request(k)) = 0
             /\ Outcome(k) \in Rows /\ BelowWorld(Outcome(k))
  BY <1>3 DEF Rows, Request, Outcome, BelowWorld, Level
<1>4. ASSUME NEW x \in Residents
      PROVE  /\ Runtime(x) \in Rows /\ BelowWorld(Runtime(x))
             /\ WakeRow(x) \in Rows /\ ~BelowWorld(WakeRow(x))
             /\ Level(WakeRow(x)) = 3 + Rank[x] /\ Rank[x] \in Nat
  BY <1>4, RowAssumption DEF Rows, Runtime, WakeRow, BelowWorld, Level
<1>5. ASSUME NEW c \in Calls, NEW row, row = Resource(CHOOSE x \in c.parties : TRUE)
      PROVE  row \in Rows /\ BelowWorld(row)
  BY <1>5 DEF Rows, Resource, BelowWorld
<1>6. ASSUME NEW row \in Rows, ~BelowWorld(row)
      PROVE  Level(row) \in Nat
  <2>1. ASSUME NEW c \in Calls, row = Resource(CHOOSE x \in c.parties : TRUE)
        PROVE  FALSE
    BY <1>5, <1>6, <2>1
  <2> QED
    BY <1>1, <1>2, <1>3, <1>4, <1>6, <2>1 DEF Rows
<1> QED
  BY <1>1, <1>2, <1>3, <1>4, <1>5, <1>6

\* row is locked before `other`, as far as their order matters
Ahead(row, other) ==
  BelowWorld(row) \/ BelowWorld(other) \/ Level(row) < Level(other)

Within(row, lo, hi) ==
  ~BelowWorld(row) => lo <= Level(row) /\ (Level(row) <= hi \/ hi = 3)

\* a run of locks with levels from lo to hi, 3: no bound, in order
Part(s, lo, hi) ==
  /\ s \in Seq(Statements)
  /\ \A i \in 1 .. Len(s) :
       s[i].how = "lock" /\ s[i].mode = "UPDATE" /\ Within(s[i].row, lo, hi)
  /\ \A i, j \in 1 .. Len(s) : i < j => Ahead(s[i].row, s[j].row)

\* A part with a wider range.
LEMMA WiderPart ==
  ASSUME NEW s, NEW lo \in 1 .. 3, NEW hi \in 1 .. 3, Part(s, lo, hi)
  PROVE  Part(s, 1, 3)
<1>1. ASSUME NEW i \in 1 .. Len(s) PROVE Within(s[i].row, 1, 3)
  <2>1. s \in Seq(Statements)
    BY DEF Part
  <2>2. s[i] \in Statements
    BY <2>1, ElementOfSeq
  <2>3. BelowWorld(s[i].row) \/ Level(s[i].row) \in Nat
    BY <2>2, RowKinds DEF Statements
  <2> QED
    BY <2>3 DEF Part, Within
<1> QED
  BY <1>1 DEF Part

\* no row is below the world
Open(s) == \A i \in 1 .. Len(s) : ~BelowWorld(s[i].row)

\* Parts whose ranges follow each other make a part.
LEMMA JoinedParts ==
  ASSUME NEW lo \in Nat, NEW mid \in 0 .. 2, NEW next, next = mid + 1, NEW hi \in 0 .. 3,
         lo <= next, mid <= hi, NEW s, NEW t, Part(s, lo, mid), Part(t, next, hi)
  PROVE  Part(s \o t, lo, hi)
<1> DEFINE u == s \o t
<1>1. s \in Seq(Statements) /\ t \in Seq(Statements)
  BY DEF Part
<1>2. /\ u \in Seq(Statements) /\ Len(u) = Len(s) + Len(t)
      /\ \A i \in 1 .. Len(s) + Len(t) : u[i] = IF i <= Len(s) THEN s[i] ELSE t[i - Len(s)]
  BY <1>1, ConcatProperties
<1>3. Len(s) \in Nat /\ Len(t) \in Nat
  BY <1>1, LenProperties
<1> HIDE DEF u
<1>4. ASSUME NEW i \in 1 .. Len(u)
      PROVE  \/ i \in 1 .. Len(s) /\ u[i] = s[i]
             \/ i > Len(s) /\ i - Len(s) \in 1 .. Len(t) /\ u[i] = t[i - Len(s)]
  BY <1>2, <1>3
<1>5. ASSUME NEW i \in 1 .. Len(s) PROVE s[i].row \in Rows
  <2>1. s[i] \in Statements
    BY <1>1, ElementOfSeq
  <2> QED
    BY <2>1 DEF Statements
<1>6. ASSUME NEW i \in 1 .. Len(t) PROVE t[i].row \in Rows
  <2>1. t[i] \in Statements
    BY <1>1, ElementOfSeq
  <2> QED
    BY <2>1 DEF Statements
<1>7. ASSUME NEW i \in 1 .. Len(u)
      PROVE  u[i].how = "lock" /\ u[i].mode = "UPDATE" /\ Within(u[i].row, lo, hi)
  <2>1. CASE i \in 1 .. Len(s) /\ u[i] = s[i]
    <3>1. Within(s[i].row, lo, mid) /\ s[i].how = "lock" /\ s[i].mode = "UPDATE"
      BY <2>1 DEF Part
    <3>2. Level(s[i].row) \in Nat \/ BelowWorld(s[i].row)
      BY <1>5, <2>1, RowKinds
    <3> QED
      BY <2>1, <3>1, <3>2 DEF Within
  <2>2. CASE i - Len(s) \in 1 .. Len(t) /\ u[i] = t[i - Len(s)]
    <3> DEFINE k == i - Len(s)
    <3>1. Within(t[k].row, next, hi) /\ t[k].how = "lock" /\ t[k].mode = "UPDATE"
      BY <2>2 DEF Part
    <3>2. Level(t[k].row) \in Nat \/ BelowWorld(t[k].row)
      BY <1>6, <2>2, RowKinds
    <3> QED
      BY <2>2, <3>1, <3>2 DEF Within
  <2> QED
    BY <1>4, <2>1, <2>2
<1>8. ASSUME NEW i \in 1 .. Len(u), NEW j \in 1 .. Len(u), i < j
      PROVE  Ahead(u[i].row, u[j].row)
  <2>1. CASE i \in 1 .. Len(s) /\ u[i] = s[i] /\ j \in 1 .. Len(s) /\ u[j] = s[j]
    BY <1>8, <2>1 DEF Part
  <2>2. CASE /\ i - Len(s) \in 1 .. Len(t) /\ u[i] = t[i - Len(s)]
             /\ j - Len(s) \in 1 .. Len(t) /\ u[j] = t[j - Len(s)]
    <3>1. i - Len(s) < j - Len(s)
      BY <1>3, <1>8
    <3> QED
      BY <2>2, <3>1 DEF Part
  <2>3. CASE /\ i \in 1 .. Len(s) /\ u[i] = s[i]
             /\ j - Len(s) \in 1 .. Len(t) /\ u[j] = t[j - Len(s)]
    <3>1. Within(s[i].row, lo, mid) /\ Within(t[j - Len(s)].row, next, hi)
      BY <2>3 DEF Part
    <3>2. /\ Level(s[i].row) \in Nat \/ BelowWorld(s[i].row)
          /\ Level(t[j - Len(s)].row) \in Nat \/ BelowWorld(t[j - Len(s)].row)
      BY <1>5, <1>6, <2>3, RowKinds
    <3> QED
      BY <2>3, <3>1, <3>2 DEF Within, Ahead
  <2> QED
    BY <1>3, <1>4, <1>8, <2>1, <2>2, <2>3
<1>9. Part(u, lo, hi)
  BY <1>2, <1>7, <1>8 DEF Part
<1> QED
  BY <1>9 DEF u

\* No statement, or one, is a part.
LEMMA SmallParts ==
  /\ \A lo, hi : Part(<<>>, lo, hi)
  /\ \A row \in Rows : \A lo, hi :
       Within(row, lo, hi) => Part(<<ForUpdate(row)>>, lo, hi)
<1>1. ASSUME NEW lo, NEW hi PROVE Part(<<>>, lo, hi)
  BY EmptySeq DEF Part
<1>2. ASSUME NEW row \in Rows, NEW lo, NEW hi, Within(row, lo, hi)
      PROVE  Part(<<ForUpdate(row)>>, lo, hi)
  <2>1. ForUpdate(row) \in Statements
    BY DEF ForUpdate, Statements, Modes
  <2> QED
    BY <1>2, <2>1 DEF Part, ForUpdate
<1> QED
  BY <1>1, <1>2

-----------------------------------------------------------------------------
(* The statements of an operation *)

\* Residents can be put in the order of their UUIDs, and Sorted does so.
LEMMA SortedFacts ==
  ASSUME NEW S \in SUBSET Residents, NEW s, s = Sorted(S),
         NEW n, n = Cardinality(S)
  PROVE  /\ n \in Nat /\ s \in [1 .. n -> S]
         /\ \A i, j \in 1 .. n : i < j => Rank[s[i]] < Rank[s[j]]
<1> DEFINE before(x) == {y \in S : Rank[y] < Rank[x]}
           place == [x \in S |-> Cardinality(before(x)) + 1]
<1>1. IsFiniteSet(S)
  BY RowAssumption, FS_Subset
<1>2. n \in Nat
  BY <1>1, FS_CardinalityType
<1>3. \A x \in S : Rank[x] \in Nat
  BY RowAssumption
<1>4. ASSUME NEW x \in S
      PROVE  IsFiniteSet(before(x)) /\ Cardinality(before(x)) \in Nat /\ Cardinality(before(x)) < n
  <2>1. before(x) \in SUBSET S /\ x \notin before(x)
    BY <1>3
  <2> HIDE DEF before
  <2>2. IsFiniteSet(before(x)) /\ Cardinality(before(x)) <= Cardinality(S)
    BY <1>1, <2>1, FS_Subset
  <2>3. Cardinality(before(x)) # Cardinality(S)
    BY <1>1, <2>1, FS_Subset
  <2>4. Cardinality(before(x)) \in Nat
    BY <2>2, FS_CardinalityType
  <2> QED
    BY <1>2, <2>2, <2>3, <2>4
<1>5. ASSUME NEW x \in S, NEW y \in S, Rank[x] < Rank[y]
      PROVE  Cardinality(before(x)) < Cardinality(before(y))
  <2>1. before(x) \in SUBSET before(y) /\ x \in before(y) /\ x \notin before(x)
    BY <1>3, <1>5
  <2> HIDE DEF before
  <2>2. Cardinality(before(x)) <= Cardinality(before(y))
    BY <1>4, <2>1, FS_Subset
  <2>3. Cardinality(before(x)) # Cardinality(before(y))
    BY <1>4, <2>1, FS_Subset
  <2> QED
    BY <1>4, <2>2, <2>3
<1>6. /\ \A x \in S : place[x] \in 1 .. n
      /\ \A x, y \in S : Rank[x] < Rank[y] => place[x] < place[y]
  <2> HIDE DEF before
  <2> QED
    BY <1>2, <1>4, <1>5
<1>7. place \in [S -> 1 .. n]
  BY <1>6
<1> HIDE DEF place
<1>8. place \in Injection(S, 1 .. n)
  <2>1. \A x, y \in S : place[x] = place[y] => x = y
    BY <1>3, <1>6, RowAssumption
  <2> QED
    BY <1>7, <2>1 DEF Injection, IsInjective
<1>9. IsFiniteSet(1 .. n) /\ Cardinality(1 .. n) = n
  <2>1. 1 \in Int /\ n \in Int
    BY <1>2
  <2>2. IsFiniteSet(1 .. n)
    BY <2>1, FS_Interval
  <2>3. Cardinality(1 .. n) = IF 1 > n THEN 0 ELSE n - 1 + 1
    BY <2>1, FS_Interval
  <2> QED
    BY <1>2, <2>2, <2>3
<1>10. place \in Surjection(S, 1 .. n)
  BY <1>8, <1>9, FS_Injection
<1>11. \A i \in 1 .. n : \E x \in S : place[x] = i
  BY <1>10 DEF Surjection
<1> DEFINE order == [i \in 1 .. n |-> CHOOSE x \in S : place[x] = i]
<1>12. \A i \in 1 .. n : order[i] \in S /\ place[order[i]] = i
  BY <1>11
<1>13. order \in [1 .. n -> S]
  BY <1>12
<1> HIDE DEF order
<1>14. \A i, j \in DOMAIN order : i < j => Rank[order[i]] < Rank[order[j]]
  <2> SUFFICES ASSUME NEW i \in 1 .. n, NEW j \in 1 .. n, i < j
               PROVE  Rank[order[i]] < Rank[order[j]]
    BY <1>13
  <2> DEFINE x == order[i]
             y == order[j]
  <2>1. x \in S /\ y \in S /\ place[x] < place[y]
    BY <1>12
  <2>2. x # y /\ ~(Rank[y] < Rank[x])
    BY <1>6, <2>1
  <2>3. Rank[x] # Rank[y]
    BY <2>1, <2>2, RowAssumption
  <2> HIDE DEF x, y
  <2>4. Rank[x] < Rank[y]
    BY <1>3, <2>1, <2>2, <2>3
  <2> QED
    BY <2>4 DEF x, y
<1>15. /\ s \in [1 .. Cardinality(S) -> S]
       /\ \A i, j \in DOMAIN s : i < j => Rank[s[i]] < Rank[s[j]]
  BY <1>13, <1>14 DEF Sorted
<1> QED
  BY <1>2, <1>15

\* A function on 1 .. n is a sequence of length n.
LEMMA FunctionIsSeq ==
  ASSUME NEW S, NEW n \in Nat, NEW f \in [1 .. n -> S]
  PROVE  f \in Seq(S) /\ Len(f) = n
OBVIOUS

\* The locks of every stretch of a program, and their place in the order.
LEMMA LockRuns ==
  ASSUME NEW c \in Calls
  PROVE  /\ Part(Fence(c), 1, 1)
         /\ Part(RuntimeLocks(c), 3, 2)
         /\ Part(ResourceLocks(c), 3, 2)
         /\ Part(<<ForUpdate(Outcome(c.key))>>, 3, 2)
         /\ Part(<<ForUpdate(World)>>, 2, 2)
         /\ Part(WakeLocks(c), 3, 3) /\ Open(WakeLocks(c))
<1>1. /\ c.parties \in SUBSET Residents /\ c.wakes \in SUBSET Residents
      /\ c.item \in BOOLEAN /\ c.fenced \in BOOLEAN /\ c.key \in Keys
  BY CallAssumption DEF Keys
<1>2. Part(Fence(c), 1, 1)
  <2>1. Part(<<ForUpdate(Lease)>>, 1, 1)
    BY SmallParts, RowKinds DEF Within
  <2>2. CASE c.fenced
    BY <2>1, <2>2 DEF Fence
  <2>3. CASE ~c.fenced
    BY <2>3, SmallParts DEF Fence
  <2> QED
    BY <2>2, <2>3
<1>3. Part(ResourceLocks(c), 3, 2)
  <2> DEFINE row == Resource(CHOOSE x \in c.parties : TRUE)
  <2>1. row \in Rows /\ BelowWorld(row)
    BY RowKinds
  <2> HIDE DEF row
  <2>2. Part(<<ForUpdate(row)>>, 3, 2)
    BY <2>1, SmallParts DEF Within
  <2>3. CASE c.item
    BY <2>2, <2>3 DEF ResourceLocks, row
  <2>4. CASE ~c.item
    BY <2>4, SmallParts DEF ResourceLocks
  <2> QED
    BY <2>3, <2>4
<1>4. Part(<<ForUpdate(Outcome(c.key))>>, 3, 2)
  BY <1>1, SmallParts, RowKinds DEF Within
<1>5. Part(<<ForUpdate(World)>>, 2, 2)
  BY SmallParts, RowKinds DEF Within
<1>6. Part(RuntimeLocks(c), 3, 2)
  <2>1. PICK s : s = Sorted(c.parties)
    OBVIOUS
  <2>2. PICK n : n = Cardinality(c.parties)
    OBVIOUS
  <2>3. n \in Nat /\ s \in [1 .. n -> c.parties]
    BY <1>1, <2>1, <2>2, SortedFacts
  <2>4. PICK u : u = [i \in 1 .. n |-> ForUpdate(Runtime(s[i]))]
    OBVIOUS
  <2>5. u = RuntimeLocks(c)
    BY <2>1, <2>3, <2>4 DEF RuntimeLocks
  <2>6. ASSUME NEW i \in 1 .. n
        PROVE  u[i] \in Statements /\ u[i].how = "lock" /\ u[i].mode = "UPDATE"
               /\ BelowWorld(u[i].row)
    <3>1. s[i] \in Residents
      BY <1>1, <2>3
    <3> QED
      BY <2>4, <3>1, RowKinds DEF ForUpdate, Statements, Modes
  <2>7. u \in Seq(Statements) /\ Len(u) = n
    BY <2>3, <2>4, <2>6, FunctionIsSeq
  <2>8. Part(u, 3, 2)
    BY <2>6, <2>7 DEF Part, Within, Ahead
  <2> QED
    BY <2>5, <2>8
<1>7. Part(WakeLocks(c), 3, 3) /\ Open(WakeLocks(c))
  <2>1. PICK s : s = Sorted(c.wakes)
    OBVIOUS
  <2>2. PICK n : n = Cardinality(c.wakes)
    OBVIOUS
  <2>3. /\ n \in Nat /\ s \in [1 .. n -> c.wakes]
        /\ \A i, j \in 1 .. n : i < j => Rank[s[i]] < Rank[s[j]]
    BY <1>1, <2>1, <2>2, SortedFacts
  <2>4. PICK u : u = [i \in 1 .. n |-> ForUpdate(WakeRow(s[i]))]
    OBVIOUS
  <2>5. u = WakeLocks(c)
    BY <2>1, <2>3, <2>4 DEF WakeLocks
  <2>6. ASSUME NEW i \in 1 .. n
        PROVE  /\ u[i] \in Statements /\ u[i].how = "lock" /\ u[i].mode = "UPDATE"
               /\ Level(u[i].row) = 3 + Rank[s[i]] /\ Rank[s[i]] \in Nat
               /\ ~BelowWorld(u[i].row)
    <3>1. s[i] \in Residents
      BY <1>1, <2>3
    <3> QED
      BY <2>4, <3>1, RowKinds DEF ForUpdate, Statements, Modes
  <2>7. u \in Seq(Statements) /\ Len(u) = n
    BY <2>3, <2>4, <2>6, FunctionIsSeq
  <2>8. \A i \in 1 .. n : Within(u[i].row, 3, 3)
    BY <2>6 DEF Within
  <2>9. \A i, j \in 1 .. n : i < j => Ahead(u[i].row, u[j].row)
    BY <2>3, <2>6 DEF Ahead
  <2>10. Part(u, 3, 3)
    BY <2>6, <2>7, <2>8, <2>9 DEF Part
  <2>11. Open(u)
    BY <2>6, <2>7 DEF Open
  <2> QED
    BY <2>5, <2>10, <2>11
<1> QED
  BY <1>2, <1>3, <1>4, <1>5, <1>6, <1>7

\* registerNextWorkPreparationWakes goes from employee to employee in their order.
LEMMA RegisterRun ==
  ASSUME NEW c \in Calls
  PROVE  /\ Part(RegisterLocks(c), 2, 3)
         /\ Len(RegisterLocks(c)) >= 1 /\ RegisterLocks(c)[1] = ForUpdate(World)
<1>1. c.wakes \in SUBSET Residents
  BY CallAssumption
<1>2. PICK s : s = Sorted(c.wakes)
  OBVIOUS
<1>3. PICK n : n = Cardinality(c.wakes)
  OBVIOUS
<1>4. /\ n \in Nat /\ s \in [1 .. n -> c.wakes]
      /\ \A i, j \in 1 .. n : i < j => Rank[s[i]] < Rank[s[j]]
  BY <1>1, <1>2, <1>3, SortedFacts
<1>5. s \in Seq(c.wakes) /\ Len(s) = n
  BY <1>4, FunctionIsSeq
<1> DEFINE row(i) == IF i % 2 = 1 THEN WakeRow(s[(i + 1) \div 2]) ELSE Runtime(s[i \div 2])
<1>6. PICK u : u = [i \in 1 .. 2 * n |-> ForUpdate(row(i))]
  OBVIOUS
<1>7. RegisterLocks(c) = <<ForUpdate(World)>> \o u
  BY <1>2, <1>5, <1>6 DEF RegisterLocks
<1>8. ASSUME NEW i \in 1 .. 2 * n
      PROVE  \/ /\ row(i) \in Rows /\ BelowWorld(row(i))
             \/ /\ row(i) \in Rows /\ (i + 1) \div 2 \in 1 .. n
                /\ 2 * ((i + 1) \div 2) = i + 1
                /\ Level(row(i)) = 3 + Rank[s[(i + 1) \div 2]]
                /\ Rank[s[(i + 1) \div 2]] \in Nat
  <2>1. CASE i % 2 = 1
    <3>1. PICK k : k = (i + 1) \div 2
      OBVIOUS
    <3>2. k \in 1 .. n /\ 2 * k = i + 1
      BY <1>4, <2>1, <3>1
    <3>3. s[k] \in Residents /\ row(i) = WakeRow(s[k])
      BY <1>1, <1>4, <2>1, <3>1, <3>2
    <3> QED
      BY <3>1, <3>2, <3>3, RowKinds
  <2>2. CASE i % 2 # 1
    <3>1. PICK k : k = i \div 2
      OBVIOUS
    <3>2. k \in 1 .. n
      BY <1>4, <2>2, <3>1
    <3>3. s[k] \in Residents /\ row(i) = Runtime(s[k])
      BY <1>1, <1>4, <2>2, <3>1, <3>2
    <3> QED
      BY <3>3, RowKinds
  <2> QED
    BY <2>1, <2>2
<1> HIDE DEF row
<1>9. 2 * n \in Nat
  BY <1>4
<1>10. ASSUME NEW i \in 1 .. 2 * n
       PROVE  /\ u[i] \in Statements /\ u[i].how = "lock" /\ u[i].mode = "UPDATE"
              /\ u[i].row = row(i) /\ Within(u[i].row, 3, 3)
  BY <1>6, <1>8 DEF ForUpdate, Statements, Modes, Within
<1>11. u \in Seq(Statements) /\ Len(u) = 2 * n
  BY <1>6, <1>9, <1>10, FunctionIsSeq
<1>12. ASSUME NEW i \in 1 .. 2 * n, NEW j \in 1 .. 2 * n, i < j
       PROVE  Ahead(u[i].row, u[j].row)
  <2>1. CASE BelowWorld(row(i)) \/ BelowWorld(row(j))
    BY <1>10, <2>1 DEF Ahead
  <2>2. ASSUME NEW k \in 1 .. n, 2 * k = i + 1, Level(row(i)) = 3 + Rank[s[k]],
               Rank[s[k]] \in Nat,
               NEW m \in 1 .. n, 2 * m = j + 1, Level(row(j)) = 3 + Rank[s[m]],
               Rank[s[m]] \in Nat
        PROVE  Level(row(i)) < Level(row(j))
    <3>1. k < m
      BY <1>4, <1>12, <2>2
    <3>2. Rank[s[k]] < Rank[s[m]]
      BY <1>4, <3>1
    <3> QED
      BY <2>2, <3>2
  <2> QED
    BY <1>8, <1>10, <2>1, <2>2 DEF Ahead
<1>13. Part(u, 3, 3)
  BY <1>10, <1>11, <1>12 DEF Part
<1>14. Part(RegisterLocks(c), 2, 3)
  <2>1. 2 \in Nat /\ 2 \in 0 .. 2 /\ 3 = 2 + 1 /\ 3 \in 0 .. 3 /\ 2 <= 3
    OBVIOUS
  <2>2. Part(<<ForUpdate(World)>> \o u, 2, 3)
    BY <1>13, <2>1, LockRuns, JoinedParts, Zenon
  <2> QED
    BY <1>7, <2>2, Zenon
<1>15. Len(RegisterLocks(c)) >= 1 /\ RegisterLocks(c)[1] = ForUpdate(World)
  <2>1. <<ForUpdate(World)>> \in Seq(Statements) /\ Len(<<ForUpdate(World)>>) = 1
    BY LockRuns DEF Part
  <2>2. Len(u) \in Nat
    BY <1>9, <1>11
  <2> QED
    BY <1>7, <1>11, <2>1, <2>2, ConcatProperties
<1> QED
  BY <1>14, <1>15

-----------------------------------------------------------------------------
(* Programs *)

\* what is below the world is locked after the world
Covered(s) ==
  \A i \in 1 .. Len(s) : BelowWorld(s[i].row) =>
    \E j \in 1 .. Len(s) : j < i /\ s[j] = ForUpdate(World)

Shielded(s) == Covered(s) /\ \E j \in 1 .. Len(s) : s[j] = ForUpdate(World)

\* What follows a part that locks the world on top is covered by it.
LEMMA ShieldJoined ==
  ASSUME NEW s \in Seq(Statements), NEW t \in Seq(Statements),
         Shielded(s) \/ (Open(s) /\ Shielded(t))
  PROVE  Shielded(s \o t)
<1> DEFINE u == s \o t
<1>1. /\ Len(u) = Len(s) + Len(t)
      /\ \A i \in 1 .. Len(s) + Len(t) : u[i] = IF i <= Len(s) THEN s[i] ELSE t[i - Len(s)]
  BY ConcatProperties
<1>2. Len(s) \in Nat /\ Len(t) \in Nat
  BY LenProperties
<1> HIDE DEF u
<1>3. \A i \in 1 .. Len(s) : i \in 1 .. Len(u) /\ u[i] = s[i]
  BY <1>1, <1>2
<1>4. \A i \in 1 .. Len(t) : i + Len(s) \in 1 .. Len(u) /\ u[i + Len(s)] = t[i]
  BY <1>1, <1>2
<1>5. \A i \in 1 .. Len(u) : i \in 1 .. Len(s) \/ (i > Len(s) /\ i - Len(s) \in 1 .. Len(t))
  BY <1>1, <1>2
<1>6. ASSUME Shielded(s) PROVE Shielded(u)
  <2>1. PICK k \in 1 .. Len(s) : s[k] = ForUpdate(World)
    BY <1>6 DEF Shielded
  <2>2. k \in 1 .. Len(u) /\ u[k] = ForUpdate(World)
    BY <1>3, <2>1
  <2>3. ASSUME NEW i \in 1 .. Len(u), BelowWorld(u[i].row)
        PROVE  \E j \in 1 .. Len(u) : j < i /\ u[j] = ForUpdate(World)
    <3>1. CASE i \in 1 .. Len(s)
      BY <1>3, <1>6, <2>3, <3>1 DEF Shielded, Covered
    <3>2. CASE i > Len(s)
      BY <1>2, <2>1, <2>2, <3>2
    <3> QED
      BY <1>5, <3>1, <3>2
  <2> QED
    BY <2>2, <2>3 DEF Shielded, Covered
<1>7. ASSUME Open(s), Shielded(t) PROVE Shielded(u)
  <2>1. PICK k \in 1 .. Len(t) : t[k] = ForUpdate(World)
    BY <1>7 DEF Shielded
  <2>2. \E j \in 1 .. Len(u) : u[j] = ForUpdate(World)
    BY <1>4, <2>1
  <2>3. ASSUME NEW i \in 1 .. Len(u), BelowWorld(u[i].row)
        PROVE  \E j \in 1 .. Len(u) : j < i /\ u[j] = ForUpdate(World)
    <3>1. i \notin 1 .. Len(s)
      BY <1>3, <1>7, <2>3 DEF Open
    <3>2. i - Len(s) \in 1 .. Len(t) /\ u[i] = t[i - Len(s)]
      <4>1. i - Len(s) \in 1 .. Len(t)
        BY <1>5, <3>1
      <4>2. (i - Len(s)) + Len(s) = i
        BY <1>2
      <4> QED
        BY <1>4, <4>1, <4>2
    <3>3. PICK j \in 1 .. Len(t) : j < i - Len(s) /\ t[j] = ForUpdate(World)
      BY <1>7, <2>3, <3>2 DEF Shielded, Covered
    <3>4. j + Len(s) \in 1 .. Len(u) /\ u[j + Len(s)] = ForUpdate(World) /\ j + Len(s) < i
      BY <1>2, <1>4, <3>3
    <3> QED
      BY <3>4
  <2> QED
    BY <2>2, <2>3 DEF Shielded, Covered
<1> QED
  BY <1>6, <1>7 DEF u

\* The locks of the operations that lock the world: in order, and the world on top.
LEMMA LockPrograms ==
  ASSUME NEW c \in Calls
  PROVE  /\ Part(ExecuteLocks(c), 1, 3) /\ Shielded(ExecuteLocks(c))
         /\ Part(CompleteLocks(c), 1, 3) /\ Shielded(CompleteLocks(c))
         /\ Part(AdvanceLocks(c), 1, 3) /\ Shielded(AdvanceLocks(c))
         /\ Part(<<ForUpdate(World)>>, 1, 3) /\ Shielded(<<ForUpdate(World)>>)
         /\ Part(RegisterLocks(c), 1, 3) /\ Shielded(RegisterLocks(c))
         /\ Part(WakeLocks(c), 1, 3) /\ Open(WakeLocks(c))
<1> DEFINE world == <<ForUpdate(World)>>
           a == Fence(c) \o world
           b == a \o RuntimeLocks(c)
           d == b \o ResourceLocks(c)
           e == b \o <<ForUpdate(Outcome(c.key))>>
<1>1. /\ Part(Fence(c), 1, 1) /\ Part(RuntimeLocks(c), 3, 2) /\ Part(ResourceLocks(c), 3, 2)
      /\ Part(<<ForUpdate(Outcome(c.key))>>, 3, 2) /\ Part(world, 2, 2)
      /\ Part(WakeLocks(c), 3, 3)
  BY LockRuns
<1>2. Shielded(world) /\ Open(Fence(c))
  <2>1. Len(world) = 1 /\ world[1] = ForUpdate(World)
    OBVIOUS
  <2>2. ~BelowWorld(ForUpdate(World).row)
    BY RowKinds DEF ForUpdate
  <2>3. Shielded(world)
    <3> HIDE DEF world
    <3> QED
      BY <2>1, <2>2 DEF Shielded, Covered
  <2>4. Open(Fence(c))
    <3>1. CASE c.fenced
      BY <3>1, RowKinds DEF Fence, Open, ForUpdate
    <3>2. CASE ~c.fenced
      BY <3>2 DEF Fence, Open
    <3> QED
      BY <3>1, <3>2, CallAssumption
  <2> QED
    BY <2>3, <2>4
<1> HIDE DEF world
<1>3. Part(a, 1, 2) /\ Shielded(a)
  <2>1. Part(a, 1, 2)
    BY <1>1, JoinedParts
  <2> QED
    BY <1>1, <1>2, <2>1, ShieldJoined DEF Part
<1> HIDE DEF a
<1>4. Part(b, 1, 2) /\ Shielded(b)
  <2>1. Part(b, 1, 2)
    BY <1>1, <1>3, JoinedParts
  <2> QED
    BY <1>1, <1>3, <2>1, ShieldJoined DEF Part
<1> HIDE DEF b
<1>5. Part(d, 1, 2) /\ Shielded(d)
  <2>1. Part(d, 1, 2)
    BY <1>1, <1>4, JoinedParts
  <2> QED
    BY <1>1, <1>4, <2>1, ShieldJoined DEF Part
<1>6. Part(e, 1, 2) /\ Shielded(e)
  <2>1. Part(e, 1, 2)
    BY <1>1, <1>4, JoinedParts
  <2> QED
    BY <1>1, <1>4, <2>1, ShieldJoined DEF Part
<1> HIDE DEF d, e
<1>7. Part(d \o WakeLocks(c), 1, 3) /\ Shielded(d \o WakeLocks(c))
  <2>1. Part(d \o WakeLocks(c), 1, 3)
    BY <1>1, <1>5, JoinedParts
  <2> QED
    BY <1>1, <1>5, <2>1, ShieldJoined DEF Part
<1>8. Part(e \o WakeLocks(c), 1, 3) /\ Shielded(e \o WakeLocks(c))
  <2>1. Part(e \o WakeLocks(c), 1, 3)
    BY <1>1, <1>6, JoinedParts
  <2> QED
    BY <1>1, <1>6, <2>1, ShieldJoined DEF Part
<1>9. Part(ExecuteLocks(c), 1, 3) /\ Shielded(ExecuteLocks(c))
  BY <1>7 DEF ExecuteLocks, d, b, a, world
<1>10. Part(CompleteLocks(c), 1, 3) /\ Shielded(CompleteLocks(c))
  BY <1>8 DEF CompleteLocks, e, b, a, world
<1>11. Part(AdvanceLocks(c), 1, 3) /\ Shielded(AdvanceLocks(c))
  BY <1>3, WiderPart DEF AdvanceLocks, a, world
<1>12. Part(world, 1, 3)
  <2>1. 2 \in 1 .. 3
    OBVIOUS
  <2> QED
    BY <2>1, LockRuns, WiderPart, Zenon DEF world
<1>13. Part(RegisterLocks(c), 1, 3) /\ Shielded(RegisterLocks(c))
  <2>1. Part(RegisterLocks(c), 1, 3)
    BY RegisterRun, WiderPart
  <2>2. PICK s : s = RegisterLocks(c)
    OBVIOUS
  <2>3. s[1] = ForUpdate(World) /\ s \in Seq(Statements) /\ ~BelowWorld(s[1].row)
    BY <2>1, <2>2, RegisterRun, RowKinds DEF Part, ForUpdate
  <2>4. Len(s) \in Nat /\ Len(s) >= 1
    BY <2>2, <2>3, RegisterRun, LenProperties
  <2> QED
    BY <2>1, <2>2, <2>3, <2>4 DEF Shielded, Covered
<1>14. Part(WakeLocks(c), 1, 3) /\ Open(WakeLocks(c))
  <2>1. 3 \in 1 .. 3
    OBVIOUS
  <2> QED
    BY <2>1, LockRuns, WiderPart, Zenon
<1> QED
  BY <1>2, <1>9, <1>10, <1>11, <1>12, <1>13, <1>14 DEF world

\* What program each operation is.
LEMMA ProgramForms ==
  ASSUME NEW c \in Calls
  PROVE  \/ c.op = "EXECUTE" /\ Program(c) = <<Insert(Request(c.key))>> \o ExecuteLocks(c)
         \/ c.op = "PERSIST" /\ Program(c) = <<Insert(Request(c.key))>>
         \/ c.op = "ACQUIRE" /\ Program(c) = <<Insert(Lease)>>
         \/ /\ c.op \notin {"EXECUTE", "PERSIST", "ACQUIRE"}
            /\ Program(c) \in {CompleteLocks(c), AdvanceLocks(c), <<ForUpdate(World)>>,
                               RegisterLocks(c), WakeLocks(c)}
<1>1. c.op \in Operations
  BY CallAssumption
<1>2. CASE c.op = "EXECUTE"
  <2>1. Program(c) = <<Insert(Request(c.key))>> \o ExecuteLocks(c)
    BY <1>2, Zenon DEF Program
  <2> QED
    BY <1>2, <2>1
<1>3. CASE c.op = "PERSIST"
  <2>1. Program(c) = <<Insert(Request(c.key))>>
    BY <1>3, Zenon DEF Program
  <2> QED
    BY <1>3, <2>1
<1>4. CASE c.op = "COMPLETE"
  <2>1. Program(c) = CompleteLocks(c)
    BY <1>4, Zenon DEF Program
  <2> QED
    BY <1>4, <2>1
<1>5. CASE c.op = "ADVANCE"
  <2>1. Program(c) = AdvanceLocks(c)
    BY <1>5, Zenon DEF Program
  <2> QED
    BY <1>5, <2>1
<1>6. CASE c.op = "CLOCK"
  <2>1. Program(c) = <<ForUpdate(World)>>
    BY <1>6, Zenon DEF Program
  <2> QED
    BY <1>6, <2>1
<1>7. CASE c.op = "REGISTER_WAKES"
  <2>1. Program(c) = RegisterLocks(c)
    BY <1>7, Zenon DEF Program
  <2> QED
    BY <1>7, <2>1
<1>8. CASE c.op = "ACKNOWLEDGE"
  <2>1. Program(c) = WakeLocks(c)
    BY <1>8, Zenon DEF Program
  <2> QED
    BY <1>8, <2>1
<1>9. CASE c.op = "ACQUIRE"
  <2>1. Program(c) = <<Insert(Lease)>>
    BY <1>9, Zenon DEF Program
  <2> QED
    BY <1>9, <2>1
<1> QED
  BY <1>1, <1>2, <1>3, <1>4, <1>5, <1>6, <1>7, <1>8, <1>9 DEF Operations

(***************************************************************************)
(* A transaction with statements s still to execute, that holds h and has  *)
(* inserted m: what it locks follows what it holds, rows below the world   *)
(* come under the world's lock, only an INSERT checks a foreign key, and   *)
(* an INSERT is its first statement.                                       *)
(***************************************************************************)
Sound(s, h, m) ==
  /\ s \in Seq(Statements) /\ h \in SUBSET (Rows \X Modes)
  /\ \A i, j \in 1 .. Len(s) :
       i < j /\ s[i].mode = "UPDATE" => Ahead(s[i].row, s[j].row)
  /\ \A l \in h : \A i \in 1 .. Len(s) : l[2] = "UPDATE" => Ahead(l[1], s[i].row)
  /\ \A l \in h : BelowWorld(l[1]) => <<World, "UPDATE">> \in h
  /\ \A i \in 1 .. Len(s) : BelowWorld(s[i].row) =>
       \/ <<World, "UPDATE">> \in h
       \/ \E j \in 1 .. Len(s) : j < i /\ s[j] = ForUpdate(World)
  /\ \A l \in h : l[2] = "KEY SHARE" => m # {} /\ l[1] = World
  /\ \A i \in 1 .. Len(s) : s[i].mode = "KEY SHARE" => m # {} /\ s[i].row = World
  /\ \A i \in 1 .. Len(s) : s[i].how = "insert" =>
       i = 1 /\ h = {} /\ s[i].mode = "UPDATE" /\ ~BelowWorld(s[i].row) /\ Level(s[i].row) < 2

\* Every program is sound when it starts, and an INSERT is of its own row.
LEMMA ProgramSound ==
  ASSUME NEW c \in Calls
  PROVE  /\ Sound(Program(c), {}, {})
         /\ \A i \in 1 .. Len(Program(c)) : Program(c)[i].how = "insert" =>
              Program(c)[i].row = Request(c.key) \/ Program(c)[i].row = Lease
         /\ c.op = "EXECUTE" => /\ Program(c) # <<>>
                                /\ Program(c)[1] = Insert(Request(c.key))
<1>1. c.key \in Keys
  BY DEF Keys
<1>2. ASSUME NEW s, Part(s, 1, 3), Shielded(s) \/ Open(s)
      PROVE  Sound(s, {}, {}) /\ \A i \in 1 .. Len(s) : s[i].how = "lock"
  <2>1. \A i \in 1 .. Len(s) : BelowWorld(s[i].row) =>
          \E j \in 1 .. Len(s) : j < i /\ s[j] = ForUpdate(World)
    BY <1>2 DEF Shielded, Covered, Open
  <2> QED
    BY <1>2, <2>1 DEF Sound, Part
<1>3. ASSUME NEW row \in Rows, ~BelowWorld(row), Level(row) < 2,
             NEW s, s = <<Insert(row)>>
      PROVE  Sound(s, {}, {}) /\ Len(s) = 1 /\ s[1] = Insert(row)
  <2>1. Insert(row) \in Statements
    BY DEF Insert, Statements, Modes
  <2>2. s \in Seq(Statements) /\ Len(s) = 1 /\ s[1] = Insert(row)
    BY <1>3, <2>1
  <2>3. Insert(row).mode = "UPDATE" /\ Insert(row).row = row
    BY DEF Insert
  <2>4. \A i, j \in 1 .. Len(s) : ~(i < j)
    BY <2>2
  <2>5. \A i \in 1 .. Len(s) : i = 1
    BY <2>2
  <2> QED
    BY <1>3, <2>2, <2>3, <2>4, <2>5 DEF Sound
<1>4. ASSUME c.op = "EXECUTE", Program(c) = <<Insert(Request(c.key))>> \o ExecuteLocks(c)
      PROVE  /\ Sound(Program(c), {}, {}) /\ Program(c) # <<>>
             /\ Program(c)[1] = Insert(Request(c.key))
             /\ \A i \in 1 .. Len(Program(c)) : Program(c)[i].how = "insert" => i = 1
  <2>1. PICK row : row = Request(c.key)
    OBVIOUS
  <2>2. PICK t : t = ExecuteLocks(c)
    OBVIOUS
  <2>3. PICK u : u = <<Insert(row)>> \o t
    OBVIOUS
  <2>4. row \in Rows /\ ~BelowWorld(row) /\ Level(row) = 0
    BY <1>1, <2>1, RowKinds
  <2>5. Part(t, 1, 3) /\ Shielded(t) /\ t \in Seq(Statements)
    BY <2>2, LockPrograms DEF Part
  <2>6. /\ Insert(row) \in Statements
        /\ <<Insert(row)>> \in Seq(Statements) /\ Len(<<Insert(row)>>) = 1
        /\ <<Insert(row)>>[1] = Insert(row)
    BY <2>4 DEF Insert, Statements, Modes
  <2>7. Len(t) \in Nat
    BY <2>5, LenProperties
  <2>8. /\ u \in Seq(Statements) /\ Len(u) = Len(t) + 1 /\ u[1] = Insert(row)
        /\ \A i \in 2 .. Len(u) : u[i] = t[i - 1] /\ i - 1 \in 1 .. Len(t)
        /\ \A i \in 1 .. Len(t) : u[i + 1] = t[i] /\ i + 1 \in 2 .. Len(u)
    BY <2>3, <2>5, <2>6, <2>7, ConcatProperties
  <2>9. \A i \in 1 .. Len(u) : i = 1 \/ i \in 2 .. Len(u)
    BY <2>7, <2>8
  <2>10. /\ u[1].how = "insert" /\ u[1].mode = "UPDATE" /\ u[1].row = row
    BY <2>8 DEF Insert
  <2>11. ASSUME NEW i \in 2 .. Len(u)
         PROVE  /\ u[i].how = "lock" /\ u[i].mode = "UPDATE" /\ Ahead(row, u[i].row)
    <3>1. i - 1 \in 1 .. Len(t) /\ u[i] = t[i - 1]
      BY <2>8
    <3>2. t[i - 1].row \in Rows
      <4>1. t[i - 1] \in Statements
        BY <2>5, <3>1, ElementOfSeq
      <4> QED
        BY <4>1 DEF Statements
    <3>3. BelowWorld(t[i - 1].row) \/ Level(t[i - 1].row) \in Nat
      BY <3>2, RowKinds
    <3> QED
      BY <2>4, <2>5, <3>1, <3>3 DEF Part, Within, Ahead
  <2>12. ASSUME NEW i \in 1 .. Len(u), NEW j \in 1 .. Len(u), i < j
         PROVE  Ahead(u[i].row, u[j].row)
    <3>1. j \in 2 .. Len(u)
      BY <2>9, <2>12
    <3>2. CASE i = 1
      BY <2>10, <2>11, <3>1, <3>2
    <3>3. CASE i \in 2 .. Len(u)
      <4>1. i - 1 \in 1 .. Len(t) /\ j - 1 \in 1 .. Len(t) /\ i - 1 < j - 1
        BY <2>7, <2>8, <2>12, <3>1, <3>3
      <4>2. Ahead(t[i - 1].row, t[j - 1].row)
        BY <2>5, <4>1 DEF Part
      <4> QED
        BY <2>8, <3>1, <3>3, <4>2
    <3> QED
      BY <2>9, <3>2, <3>3
  <2>13. ASSUME NEW i \in 1 .. Len(u), BelowWorld(u[i].row)
         PROVE  \E j \in 1 .. Len(u) : j < i /\ u[j] = ForUpdate(World)
    <3>1. i \in 2 .. Len(u)
      BY <2>4, <2>9, <2>10, <2>13
    <3>2. PICK k \in 1 .. Len(t) : k < i - 1 /\ t[k] = ForUpdate(World)
      BY <2>5, <2>8, <2>13, <3>1 DEF Shielded, Covered
    <3>3. k + 1 \in 1 .. Len(u) /\ k + 1 < i /\ u[k + 1] = ForUpdate(World)
      BY <2>7, <2>8, <3>1, <3>2
    <3> QED
      BY <3>3
  <2>14. \A i \in 1 .. Len(u) : u[i].mode = "UPDATE" /\ (u[i].how = "insert" => i = 1)
    BY <2>9, <2>10, <2>11
  <2>15. Sound(u, {}, {})
    <3>1. \A i \in 1 .. Len(u) : u[i].how = "insert" =>
            i = 1 /\ u[i].mode = "UPDATE" /\ ~BelowWorld(u[i].row) /\ Level(u[i].row) < 2
      BY <2>4, <2>10, <2>14
    <3>2. \A i \in 1 .. Len(u) : u[i].mode # "KEY SHARE"
      BY <2>14
    <3> QED
      BY <2>8, <2>12, <2>13, <3>1, <3>2 DEF Sound
  <2>16. u # <<>>
    BY <2>7, <2>8, EmptySeq
  <2> QED
    BY <1>4, <2>1, <2>2, <2>3, <2>8, <2>14, <2>15, <2>16
<1>5. CASE c.op = "PERSIST" /\ Program(c) = <<Insert(Request(c.key))>>
  <2>1. Request(c.key) \in Rows /\ ~BelowWorld(Request(c.key)) /\ Level(Request(c.key)) < 2
    BY <1>1, RowKinds
  <2>2. /\ Sound(Program(c), {}, {}) /\ Len(Program(c)) = 1
        /\ Program(c)[1] = Insert(Request(c.key))
    BY <1>3, <1>5, <2>1
  <2> QED
    BY <1>5, <2>2 DEF Insert
<1>6. CASE c.op = "ACQUIRE" /\ Program(c) = <<Insert(Lease)>>
  <2>1. Lease \in Rows /\ ~BelowWorld(Lease) /\ Level(Lease) < 2
    BY RowKinds
  <2>2. /\ Sound(Program(c), {}, {}) /\ Len(Program(c)) = 1
        /\ Program(c)[1] = Insert(Lease)
    BY <1>3, <1>6, <2>1
  <2> QED
    BY <1>6, <2>2 DEF Insert
<1>7. CASE /\ c.op \notin {"EXECUTE", "PERSIST", "ACQUIRE"}
           /\ Program(c) \in {CompleteLocks(c), AdvanceLocks(c), <<ForUpdate(World)>>,
                              RegisterLocks(c), WakeLocks(c)}
  <2>1. PICK s : s = Program(c)
    OBVIOUS
  <2>2. Part(s, 1, 3) /\ (Shielded(s) \/ Open(s))
    BY <1>7, <2>1, LockPrograms
  <2>3. Sound(s, {}, {}) /\ \A i \in 1 .. Len(s) : s[i].how = "lock"
    BY <1>2, <2>2
  <2> QED
    BY <1>7, <2>1, <2>3
<1>8. CASE c.op = "EXECUTE" /\ Program(c) = <<Insert(Request(c.key))>> \o ExecuteLocks(c)
  BY <1>4, <1>8 DEF Insert
<1> QED
  BY <1>5, <1>6, <1>7, <1>8, ProgramForms

\* The first statement of a sequence that is not empty, and the others.
LEMMA FirstOf ==
  ASSUME NEW s \in Seq(Statements), s # <<>>
  PROVE  /\ Len(s) \in Nat /\ Len(s) >= 1 /\ Head(s) = s[1] /\ s[1] \in Statements
         /\ Tail(s) \in Seq(Statements) /\ Len(Tail(s)) = Len(s) - 1
         /\ \A i \in 1 .. Len(Tail(s)) : Tail(s)[i] = s[i + 1] /\ i + 1 \in 1 .. Len(s)
<1>1. Len(s) \in Nat \ {0}
  BY EmptySeq
<1>2. /\ Head(s) \in Statements /\ Tail(s) \in Seq(Statements) /\ Len(Tail(s)) = Len(s) - 1
      /\ \A i \in 1 .. Len(Tail(s)) : Tail(s)[i] = s[i + 1]
  BY HeadTailProperties
<1>3. Head(s) = s[1]
  OBVIOUS
<1> QED
  BY <1>1, <1>2, <1>3

\* what a transaction holds after its first statement
With(h, s) == h \cup {<<Head(s).row, Head(s).mode>>}

\* A transaction that executes its first statement stays sound, even if it stops there.
LEMMA StatementDone ==
  ASSUME NEW s, NEW h, NEW m, Sound(s, h, m), s # <<>>
  PROVE  Sound(Tail(s), With(h, s), m) /\ Sound(<<>>, With(h, s), m)
<1>1. s \in Seq(Statements) /\ h \in SUBSET (Rows \X Modes)
  BY DEF Sound
<1>2. /\ Len(s) \in Nat /\ Len(s) >= 1 /\ Head(s) = s[1] /\ s[1] \in Statements
      /\ Tail(s) \in Seq(Statements) /\ Len(Tail(s)) = Len(s) - 1
      /\ \A i \in 1 .. Len(Tail(s)) : Tail(s)[i] = s[i + 1] /\ i + 1 \in 1 .. Len(s)
  BY <1>1, FirstOf
<1>3. PICK t : t = Tail(s)
  OBVIOUS
<1>4. PICK row : row = s[1].row
  OBVIOUS
<1>5. PICK mode : mode = s[1].mode
  OBVIOUS
<1>6. PICK h2 : h2 = With(h, s)
  OBVIOUS
<1>7. /\ row \in Rows /\ mode \in Modes /\ h2 = h \cup {<<row, mode>>}
      /\ h2 \in SUBSET (Rows \X Modes)
      /\ \A l \in h2 : l \in h \/ (l[1] = row /\ l[2] = mode)
  <2>1. row \in Rows /\ mode \in Modes
    BY <1>2, <1>4, <1>5 DEF Statements
  <2>2. h2 = h \cup {<<row, mode>>}
    BY <1>2, <1>4, <1>5, <1>6 DEF With
  <2> QED
    BY <1>1, <2>1, <2>2
<1>8. 1 \in 1 .. Len(s)
  BY <1>2
<1>9. ASSUME NEW l \in h2, BelowWorld(l[1])
      PROVE  <<World, "UPDATE">> \in h2
  <2>1. CASE l \in h
    BY <1>7, <1>9, <2>1 DEF Sound
  <2>2. CASE l[1] = row
    <3>1. \A j \in 1 .. Len(s) : ~(j < 1)
      BY <1>2
    <3>2. <<World, "UPDATE">> \in h
      BY <1>4, <1>8, <1>9, <2>2, <3>1 DEF Sound
    <3> QED
      BY <1>7, <3>2
  <2> QED
    BY <1>7, <1>9, <2>1, <2>2
<1>10. ASSUME NEW l \in h2, l[2] = "KEY SHARE"
       PROVE  m # {} /\ l[1] = World
  <2>1. CASE l \in h
    BY <1>10, <2>1 DEF Sound
  <2>2. CASE l[1] = row /\ l[2] = mode
    BY <1>4, <1>5, <1>8, <1>10, <2>2 DEF Sound
  <2> QED
    BY <1>7, <1>10, <2>1, <2>2
<1>11. \A i \in 1 .. Len(t) : t[i] = s[i + 1] /\ i + 1 \in 1 .. Len(s) /\ 1 < i + 1
  BY <1>2, <1>3
<1>12. ASSUME NEW l \in h2, NEW i \in 1 .. Len(t), l[2] = "UPDATE"
       PROVE  Ahead(l[1], t[i].row)
  <2>1. CASE l \in h
    BY <1>11, <1>12, <2>1 DEF Sound
  <2>2. CASE l[1] = row /\ l[2] = mode
    <3>1. s[1].mode = "UPDATE"
      BY <1>5, <1>12, <2>2
    <3>2. Ahead(s[1].row, s[i + 1].row)
      BY <1>8, <1>11, <3>1 DEF Sound
    <3> QED
      BY <1>4, <1>11, <2>2, <3>2
  <2> QED
    BY <1>7, <1>12, <2>1, <2>2
<1>13. ASSUME NEW i \in 1 .. Len(t), NEW j \in 1 .. Len(t), i < j, t[i].mode = "UPDATE"
       PROVE  Ahead(t[i].row, t[j].row)
  <2>1. /\ t[i] = s[i + 1] /\ i + 1 \in 1 .. Len(s)
        /\ t[j] = s[j + 1] /\ j + 1 \in 1 .. Len(s)
    BY <1>11
  <2>2. i + 1 < j + 1
    BY <1>13
  <2>3. \A a, b \in 1 .. Len(s) : a < b /\ s[a].mode = "UPDATE" => Ahead(s[a].row, s[b].row)
    BY DEF Sound
  <2>4. s[i + 1].mode = "UPDATE"
    BY <1>13, <2>1
  <2>5. Ahead(s[i + 1].row, s[j + 1].row)
    BY <2>1, <2>2, <2>3, <2>4
  <2> QED
    BY <2>1, <2>5
<1>14. ASSUME NEW i \in 1 .. Len(t), BelowWorld(t[i].row), <<World, "UPDATE">> \notin h2
       PROVE  \E j \in 1 .. Len(t) : j < i /\ t[j] = ForUpdate(World)
  <2>1. PICK k \in 1 .. Len(s) : k < i + 1 /\ s[k] = ForUpdate(World)
    BY <1>7, <1>11, <1>14 DEF Sound
  <2>2. k # 1
    BY <1>4, <1>5, <1>7, <1>14, <2>1 DEF ForUpdate
  <2>3. k - 1 \in 1 .. Len(t) /\ k - 1 < i /\ (k - 1) + 1 = k
    BY <1>2, <1>3, <2>1, <2>2
  <2>4. t[k - 1] = ForUpdate(World)
    BY <1>11, <2>1, <2>3
  <2> QED
    BY <2>3, <2>4
<1>15. ASSUME NEW i \in 1 .. Len(t)
       PROVE  /\ t[i].how # "insert"
              /\ t[i].mode = "KEY SHARE" => m # {} /\ t[i].row = World
  <2>1. t[i] = s[i + 1] /\ i + 1 \in 1 .. Len(s) /\ i + 1 # 1
    BY <1>11
  <2>2. \A a \in 1 .. Len(s) : s[a].mode = "KEY SHARE" => m # {} /\ s[a].row = World
    BY DEF Sound
  <2>3. \A a \in 1 .. Len(s) : s[a].how = "insert" => a = 1
    BY DEF Sound
  <2> QED
    BY <2>1, <2>2, <2>3
<1>16. Sound(t, h2, m)
  BY <1>2, <1>3, <1>7, <1>9, <1>10, <1>12, <1>13, <1>14, <1>15 DEF Sound
<1>17. Sound(<<>>, h2, m)
  <2>1. <<>> \in Seq(Statements) /\ Len(<<>>) = 0
    BY EmptySeq
  <2>2. PICK e : e = <<>>
    OBVIOUS
  <2>3. e \in Seq(Statements) /\ \A i \in 1 .. Len(e) : FALSE
    BY <2>1, <2>2
  <2>4. Sound(e, h2, m)
    BY <1>7, <1>9, <1>10, <2>3 DEF Sound
  <2> QED
    BY <2>2, <2>4
<1> QED
  BY <1>3, <1>6, <1>16, <1>17

\* So does one that inserts its row, whose foreign key is checked next.
LEMMA RowInserted ==
  ASSUME NEW s, NEW h, NEW m, Sound(s, h, m), s # <<>>, Head(s).how = "insert",
         NEW m2, m2 # {}
  PROVE  Sound(<<KeyShare(World)>> \o Tail(s), With(h, s), m2)
<1>1. s \in Seq(Statements)
  BY DEF Sound
<1>2. /\ Len(s) \in Nat /\ Len(s) >= 1 /\ Head(s) = s[1] /\ s[1] \in Statements
      /\ Tail(s) \in Seq(Statements) /\ Len(Tail(s)) = Len(s) - 1
      /\ \A i \in 1 .. Len(Tail(s)) : Tail(s)[i] = s[i + 1] /\ i + 1 \in 1 .. Len(s)
  BY <1>1, FirstOf
<1>3. PICK row : row = s[1].row
  OBVIOUS
<1>4. 1 \in 1 .. Len(s)
  BY <1>2
<1>5. /\ row \in Rows /\ s[1].mode = "UPDATE" /\ ~BelowWorld(row) /\ Level(row) < 2
      /\ Level(row) \in Nat /\ h = {} /\ s[1].how = "insert"
  <2>1. s[1].how = "insert"
    BY <1>2
  <2>2. s[1].mode = "UPDATE" /\ ~BelowWorld(row) /\ Level(row) < 2 /\ h = {}
    BY <1>3, <1>4, <2>1 DEF Sound
  <2>3. row \in Rows
    BY <1>2, <1>3 DEF Statements
  <2> QED
    BY <2>1, <2>2, <2>3, RowKinds
<1>6. PICK u : u = <<KeyShare(World)>> \o Tail(s)
  OBVIOUS
<1>7. /\ KeyShare(World) \in Statements /\ KeyShare(World).row = World
      /\ KeyShare(World).mode = "KEY SHARE" /\ KeyShare(World).how = "lock"
  BY RowKinds DEF KeyShare, Statements, Modes
<1>8. /\ u \in Seq(Statements) /\ Len(u) = Len(s) /\ u[1] = KeyShare(World)
      /\ \A i \in 2 .. Len(s) : u[i] = s[i]
  <2>1. /\ <<KeyShare(World)>> \in Seq(Statements) /\ Len(<<KeyShare(World)>>) = 1
        /\ <<KeyShare(World)>>[1] = KeyShare(World)
    <3>1. PICK k : k = KeyShare(World)
      OBVIOUS
    <3>2. k \in Statements
      BY <1>7, <3>1, Zenon
    <3>3. <<k>> \in Seq(Statements) /\ Len(<<k>>) = 1 /\ <<k>>[1] = k
      BY <3>2
    <3> QED
      BY <3>1, <3>3, Zenon
  <2>2. /\ u \in Seq(Statements) /\ Len(u) = 1 + Len(Tail(s))
        /\ \A i \in 1 .. 1 + Len(Tail(s)) :
             u[i] = IF i <= 1 THEN <<KeyShare(World)>>[i] ELSE Tail(s)[i - 1]
    BY <1>2, <1>6, <2>1, ConcatProperties
  <2>3. ASSUME NEW i \in 2 .. Len(s) PROVE u[i] = s[i]
    <3>1. i - 1 \in 1 .. Len(Tail(s)) /\ i \in 1 .. 1 + Len(Tail(s)) /\ ~(i <= 1)
      BY <1>2
    <3>2. (i - 1) + 1 = i
      OBVIOUS
    <3> QED
      BY <1>2, <2>2, <3>1, <3>2
  <2> QED
    BY <1>2, <2>1, <2>2, <2>3
<1>9. \A i \in 1 .. Len(u) : i = 1 \/ i \in 2 .. Len(s)
  BY <1>2, <1>8
<1>10. \A i \in 2 .. Len(s) : i \in 1 .. Len(s) /\ 1 < i
  BY <1>2
<1>11. With(h, s) = {<<row, "UPDATE">>}
  BY <1>2, <1>3, <1>5 DEF With
<1>12. ASSUME NEW i \in 1 .. Len(u), NEW j \in 1 .. Len(u), i < j, u[i].mode = "UPDATE"
       PROVE  Ahead(u[i].row, u[j].row)
  <2>1. i # 1
    BY <1>7, <1>8, <1>12
  <2>2. i \in 2 .. Len(s) /\ j \in 2 .. Len(s)
    BY <1>2, <1>9, <1>12, <2>1
  <2> QED
    BY <1>8, <1>10, <1>12, <2>2 DEF Sound
<1>13. ASSUME NEW i \in 1 .. Len(u)
       PROVE  Ahead(row, u[i].row)
  <2>1. CASE i = 1
    BY <1>5, <1>7, <1>8, <2>1, RowKinds DEF Ahead
  <2>2. CASE i \in 2 .. Len(s)
    <3>1. Ahead(s[1].row, s[i].row)
      BY <1>4, <1>5, <1>10, <2>2 DEF Sound
    <3> QED
      BY <1>3, <1>8, <2>2, <3>1
  <2> QED
    BY <1>9, <2>1, <2>2
<1>14. ASSUME NEW i \in 1 .. Len(u), BelowWorld(u[i].row)
       PROVE  \E j \in 1 .. Len(u) : j < i /\ u[j] = ForUpdate(World)
  <2>1. i \in 2 .. Len(s)
    BY <1>7, <1>8, <1>9, <1>14, RowKinds
  <2>2. PICK k \in 1 .. Len(s) : k < i /\ s[k] = ForUpdate(World)
    BY <1>5, <1>8, <1>10, <1>14, <2>1 DEF Sound
  <2>3. k # 1
    BY <1>5, <2>2 DEF ForUpdate
  <2>4. k \in 2 .. Len(s)
    BY <1>2, <2>2, <2>3
  <2> QED
    BY <1>8, <2>2, <2>4
<1>15. ASSUME NEW i \in 1 .. Len(u)
       PROVE  u[i].how # "insert"
  <2>1. CASE i = 1
    BY <1>7, <1>8, <2>1
  <2>2. CASE i \in 2 .. Len(s)
    <3>1. u[i] = s[i] /\ i \in 1 .. Len(s) /\ i # 1
      BY <1>2, <1>8, <2>2
    <3>2. \A a \in 1 .. Len(s) : s[a].how = "insert" => a = 1
      BY DEF Sound
    <3> QED
      BY <3>1, <3>2
  <2> QED
    BY <1>9, <2>1, <2>2
<1>16. PICK h2 : h2 = With(h, s)
  OBVIOUS
<1>17. /\ h2 \in SUBSET (Rows \X Modes)
       /\ \A l \in h2 : l[1] = row /\ l[2] = "UPDATE"
  <2>1. h2 = {<<row, "UPDATE">>}
    BY <1>11, <1>16, Zenon
  <2>2. PICK lock : lock = <<row, "UPDATE">>
    OBVIOUS
  <2>3. lock \in Rows \X Modes /\ lock[1] = row /\ lock[2] = "UPDATE"
    BY <1>5, <2>2 DEF Modes
  <2> QED
    BY <2>1, <2>2, <2>3
<1>18. ASSUME NEW i \in 1 .. Len(u), u[i].mode = "KEY SHARE"
       PROVE  u[i].row = World
  <2>1. CASE i = 1
    BY <1>7, <1>8, <2>1
  <2>2. CASE i \in 2 .. Len(s)
    BY <1>8, <1>10, <1>18, <2>2 DEF Sound
  <2> QED
    BY <1>9, <2>1, <2>2
<1>19. Sound(u, h2, m2)
  BY <1>5, <1>8, <1>12, <1>13, <1>14, <1>15, <1>17, <1>18 DEF Sound
<1> QED
  BY <1>6, <1>16, <1>19

-----------------------------------------------------------------------------
(* What a step does to the transactions *)

RowTypes ==
  /\ call \in [Txs -> Calls] /\ todo \in [Txs -> Seq(Statements)]
  /\ held \in [Txs -> SUBSET (Rows \X Modes)] /\ made \in [Txs -> SUBSET Rows]
  /\ ended \in [Txs -> {"open", "committed", "aborted"}]

\* t executes its statement; `rest` is left to do, m inserted
Executed(t, rest, m) ==
  /\ ended[t] = "open" /\ todo[t] # <<>> /\ \A u \in Txs : ~WaitsFor(t, u)
  /\ held'[t] = With(held[t], todo[t]) /\ todo'[t] = rest /\ made'[t] = m
  /\ ended'[t] = "open"

LockStep(t) ==
  /\ Head(todo[t]).how = "lock" /\ Executed(t, Tail(todo[t]), made[t])
  /\ present' = present /\ decided' = decided

InsertStep(t) ==
  /\ Head(todo[t]).how = "insert" /\ Head(todo[t]).row \notin present
  /\ Executed(t, <<KeyShare(World)>> \o Tail(todo[t]), made[t] \cup {Head(todo[t]).row})
  /\ present' = present /\ decided' = decided

FindStep(t) ==
  /\ Head(todo[t]).how = "insert" /\ Head(todo[t]).row \in present
  /\ Executed(t, IF Answered(t, Head(todo[t]).row) THEN <<>> ELSE Tail(todo[t]), made[t])
  /\ present' = present /\ decided' = decided

Ended(t) ==
  /\ todo'[t] = <<>> /\ held'[t] = {} /\ made'[t] = {} /\ ended'[t] # "open"
  /\ \/ /\ ended'[t] = "committed" /\ ended[t] = "open" /\ todo[t] = <<>>
        /\ present' = present \cup made[t]
        /\ decided' = IF call[t].op = "EXECUTE" THEN decided \cup {call[t].key} ELSE decided
     \/ ended'[t] = "aborted" /\ present' = present /\ decided' = decided

Others(t) ==
  \A u \in Txs \ {t} : /\ todo'[u] = todo[u] /\ held'[u] = held[u] /\ made'[u] = made[u]
                       /\ ended'[u] = ended[u]

\* Every step is nothing, or one step of one transaction.
LEMMA StepShape ==
  ASSUME RowTypes, [Next]_vars
  PROVE  /\ RowTypes' /\ call' = call
         /\ \/ UNCHANGED vars
            \/ \E t \in Txs : /\ Others(t)
                              /\ LockStep(t) \/ InsertStep(t) \/ FindStep(t) \/ Ended(t)
<1>1. CASE UNCHANGED vars
  BY <1>1 DEF vars, RowTypes
<1>2. ASSUME NEW t \in Txs, todo[t] # <<>>
      PROVE  /\ Head(todo[t]).row \in Rows /\ Head(todo[t]).mode \in Modes
             /\ Tail(todo[t]) \in Seq(Statements)
             /\ <<KeyShare(World)>> \o Tail(todo[t]) \in Seq(Statements)
  <2>1. PICK s : s = todo[t]
    OBVIOUS
  <2>2. s \in Seq(Statements) /\ s # <<>>
    BY <1>2, <2>1 DEF RowTypes
  <2>3. Head(s) \in Statements /\ Tail(s) \in Seq(Statements)
    BY <2>2, FirstOf, Zenon
  <2>4. PICK k : k = KeyShare(World)
    OBVIOUS
  <2>5. k \in Statements
    BY <2>4, RowKinds DEF KeyShare, Statements, Modes
  <2>6. <<k>> \o Tail(s) \in Seq(Statements)
    <3>1. <<k>> \in Seq(Statements)
      BY <2>5
    <3> QED
      BY <2>3, <3>1, ConcatProperties
  <2> QED
    BY <2>1, <2>3, <2>4, <2>6 DEF Statements
<1>3. ASSUME NEW t \in Txs, todo[t] # <<>>, Take(t)
      PROVE  /\ held' \in [Txs -> SUBSET (Rows \X Modes)]
             /\ held'[t] = With(held[t], todo[t])
             /\ \A u \in Txs \ {t} : held'[u] = held[u]
  <2>1. PICK lock : lock = <<Head(todo[t]).row, Head(todo[t]).mode>>
    OBVIOUS
  <2>2. lock \in Rows \X Modes
    BY <1>2, <1>3, <2>1
  <2>3. held' = [held EXCEPT ![t] = @ \cup {lock}]
    BY <1>3, <2>1, Zenon DEF Take
  <2>4. held'[t] = held[t] \cup {lock}
    BY <2>3 DEF RowTypes
  <2>5. With(held[t], todo[t]) = held[t] \cup {lock}
    BY <2>1, Zenon DEF With
  <2>6. held'[t] = With(held[t], todo[t])
    BY <2>4, <2>5, Zenon
  <2> QED
    BY <2>2, <2>3, <2>6 DEF RowTypes
<1>4. ASSUME NEW t \in Txs, LockRow(t)
      PROVE  RowTypes' /\ call' = call /\ Others(t) /\ LockStep(t)
  <2>1. /\ ended[t] = "open" /\ todo[t] # <<>> /\ Head(todo[t]).how = "lock"
        /\ \A u \in Txs : ~WaitsFor(t, u)
        /\ Take(t) /\ todo' = [todo EXCEPT ![t] = Tail(@)]
        /\ UNCHANGED <<call, made, ended, present, decided>>
    BY <1>4 DEF LockRow, Runnable
  <2>2. /\ held' \in [Txs -> SUBSET (Rows \X Modes)]
        /\ held'[t] = With(held[t], todo[t]) /\ \A u \in Txs \ {t} : held'[u] = held[u]
    BY <1>3, <2>1
  <2>3. /\ todo' \in [Txs -> Seq(Statements)] /\ todo'[t] = Tail(todo[t])
        /\ \A u \in Txs \ {t} : todo'[u] = todo[u]
    BY <1>2, <2>1 DEF RowTypes
  <2>4. RowTypes'
    BY <2>1, <2>2, <2>3 DEF RowTypes
  <2>5. Others(t) /\ Executed(t, Tail(todo[t]), made[t])
    BY <2>1, <2>2, <2>3 DEF Others, Executed
  <2> QED
    BY <2>1, <2>4, <2>5 DEF LockStep
<1>5. ASSUME NEW t \in Txs, InsertRow(t)
      PROVE  RowTypes' /\ call' = call /\ Others(t) /\ InsertStep(t)
  <2>1. /\ ended[t] = "open" /\ todo[t] # <<>> /\ Head(todo[t]).how = "insert"
        /\ \A u \in Txs : ~WaitsFor(t, u)
        /\ Head(todo[t]).row \notin present
        /\ Take(t) /\ made' = [made EXCEPT ![t] = @ \cup {Head(todo[t]).row}]
        /\ todo' = [todo EXCEPT ![t] = <<KeyShare(World)>> \o Tail(@)]
        /\ UNCHANGED <<call, ended, present, decided>>
    BY <1>5 DEF InsertRow, Runnable
  <2>2. /\ held' \in [Txs -> SUBSET (Rows \X Modes)]
        /\ held'[t] = With(held[t], todo[t]) /\ \A u \in Txs \ {t} : held'[u] = held[u]
    BY <1>3, <2>1
  <2>3. PICK rest : rest = <<KeyShare(World)>> \o Tail(todo[t])
    OBVIOUS
  <2>4. todo' = [todo EXCEPT ![t] = rest]
    BY <2>1, <2>3 DEF RowTypes
  <2>5. /\ todo' \in [Txs -> Seq(Statements)] /\ todo'[t] = rest
        /\ \A u \in Txs \ {t} : todo'[u] = todo[u]
    BY <1>2, <2>1, <2>3, <2>4 DEF RowTypes
  <2>6. /\ made' \in [Txs -> SUBSET Rows] /\ made'[t] = made[t] \cup {Head(todo[t]).row}
        /\ \A u \in Txs \ {t} : made'[u] = made[u]
    BY <1>2, <2>1 DEF RowTypes
  <2>7. RowTypes'
    BY <2>1, <2>2, <2>5, <2>6 DEF RowTypes
  <2>8. Others(t) /\ Executed(t, rest, made[t] \cup {Head(todo[t]).row})
    BY <2>1, <2>2, <2>5, <2>6 DEF Others, Executed
  <2> QED
    BY <2>1, <2>3, <2>7, <2>8 DEF InsertStep
<1>6. ASSUME NEW t \in Txs, FindRow(t)
      PROVE  RowTypes' /\ call' = call /\ Others(t) /\ FindStep(t)
  <2>1. /\ ended[t] = "open" /\ todo[t] # <<>> /\ Head(todo[t]).how = "insert"
        /\ \A u \in Txs : ~WaitsFor(t, u)
        /\ Head(todo[t]).row \in present /\ Take(t)
        /\ todo' = [todo EXCEPT ![t] = IF Answered(t, Head(todo[t]).row) THEN <<>> ELSE Tail(@)]
        /\ UNCHANGED <<call, made, ended, present, decided>>
    BY <1>6 DEF FindRow, Runnable
  <2>2. /\ held' \in [Txs -> SUBSET (Rows \X Modes)]
        /\ held'[t] = With(held[t], todo[t]) /\ \A u \in Txs \ {t} : held'[u] = held[u]
    BY <1>3, <2>1
  <2>3. PICK rest : rest = IF Answered(t, Head(todo[t]).row) THEN <<>> ELSE Tail(todo[t])
    OBVIOUS
  <2>4. todo' = [todo EXCEPT ![t] = rest]
    BY <2>1, <2>3 DEF RowTypes
  <2>5. rest \in Seq(Statements)
    BY <1>2, <2>1, <2>3
  <2>6. /\ todo' \in [Txs -> Seq(Statements)] /\ todo'[t] = rest
        /\ \A u \in Txs \ {t} : todo'[u] = todo[u]
    BY <2>4, <2>5 DEF RowTypes
  <2>7. RowTypes'
    BY <2>1, <2>2, <2>6 DEF RowTypes
  <2>8. Others(t) /\ Executed(t, rest, made[t])
    BY <2>1, <2>2, <2>6 DEF Others, Executed
  <2> QED
    BY <2>1, <2>3, <2>7, <2>8 DEF FindStep
<1>7. ASSUME NEW t \in Txs, NEW how \in {"committed", "aborted"}, End(t, how), call' = call
      PROVE  /\ RowTypes' /\ Others(t) /\ todo'[t] = <<>> /\ held'[t] = {} /\ made'[t] = {}
             /\ ended'[t] = how
  BY <1>7 DEF End, RowTypes, Others
<1>8. ASSUME NEW t \in Txs, CommitTx(t)
      PROVE  RowTypes' /\ call' = call /\ Others(t) /\ Ended(t)
  BY <1>7, <1>8 DEF CommitTx, Ended
<1>9. ASSUME NEW t \in Txs, Throw(t) \/ AbortVictim(t)
      PROVE  RowTypes' /\ call' = call /\ Others(t) /\ Ended(t)
  BY <1>7, <1>9 DEF Throw, AbortVictim, Ended
<1>10. CASE Next
  BY <1>1, <1>4, <1>5, <1>6, <1>8, <1>9, <1>10 DEF Next, AllEnded
<1> QED
  BY <1>1, <1>10

(***************************************************************************)
(* Every transaction is sound, one that has ended holds nothing, and no    *)
(* two hold conflicting locks of one row.                                  *)
(***************************************************************************)
Exclusive ==
  \A t, u \in Txs : t # u =>
    \A l \in held[t] : \A k \in held[u] : l[1] = k[1] => ~Conflicts(l[2], k[2])

LocksInv ==
  /\ RowTypes
  /\ \A t \in Txs : Sound(todo[t], held[t], made[t])
  /\ \A t \in Txs : ended[t] # "open" => todo[t] = <<>> /\ held[t] = {}
  /\ Exclusive

\* LocksInv is inductive.
LEMMA InitLocks == Init => LocksInv
<1> SUFFICES ASSUME Init PROVE LocksInv
  OBVIOUS
<1>1. /\ call \in [Txs -> Calls] /\ todo = [t \in Txs |-> Program(call[t])]
      /\ held = [t \in Txs |-> {}] /\ made = [t \in Txs |-> {}]
      /\ ended = [t \in Txs |-> "open"]
  BY DEF Init
<1>2. ASSUME NEW t \in Txs
      PROVE  Sound(todo[t], held[t], made[t])
  <2>1. call[t] \in Calls /\ todo[t] = Program(call[t]) /\ held[t] = {} /\ made[t] = {}
    BY <1>1
  <2>2. Sound(Program(call[t]), {}, {})
    BY <2>1, ProgramSound
  <2> QED
    BY <2>1, <2>2
<1>3. \A t \in Txs : todo[t] \in Seq(Statements)
  BY <1>2 DEF Sound
<1> QED
  BY <1>1, <1>2, <1>3 DEF LocksInv, RowTypes, Exclusive

\* Every statement keeps the locks exclusive and what is to come in order.
LEMMA LocksStep ==
  ASSUME LocksInv, [Next]_vars
  PROVE  LocksInv'
<1>1. RowTypes' /\ call' = call
  BY StepShape DEF LocksInv
<1>2. CASE UNCHANGED vars
  BY <1>1, <1>2 DEF LocksInv, Exclusive, vars
<1>3. ASSUME NEW t \in Txs, Others(t), LockStep(t) \/ InsertStep(t) \/ FindStep(t) \/ Ended(t)
      PROVE  LocksInv'
  <2>1. Sound(todo[t], held[t], made[t])
    BY DEF LocksInv
  <2>2. CASE Ended(t)
    <3>1. todo'[t] = <<>> /\ held'[t] = {} /\ made'[t] = {}
      BY <2>2 DEF Ended
    <3>2. Sound(todo'[t], held'[t], made'[t])
      <4>1. PICK e : e = <<>>
        OBVIOUS
      <4>2. e \in Seq(Statements) /\ \A i \in 1 .. Len(e) : FALSE
        BY <4>1
      <4>3. Sound(e, {}, {})
        BY <4>2 DEF Sound
      <4> QED
        BY <3>1, <4>1, <4>3
    <3>3. Exclusive'
      BY <1>3, <3>1 DEF LocksInv, Exclusive, Others
    <3> QED
      BY <1>1, <1>3, <3>1, <3>2, <3>3 DEF LocksInv, Others
  <2>3. CASE LockStep(t) \/ InsertStep(t) \/ FindStep(t)
    <3>1. /\ ended[t] = "open" /\ todo[t] # <<>> /\ (\A u \in Txs : ~WaitsFor(t, u))
          /\ held'[t] = With(held[t], todo[t]) /\ ended'[t] = "open"
      BY <2>3 DEF LockStep, InsertStep, FindStep, Executed
    <3>2. Sound(todo'[t], held'[t], made'[t])
      <4>1. CASE LockStep(t)
        BY <2>1, <3>1, <4>1, StatementDone DEF LockStep, Executed
      <4>2. CASE InsertStep(t)
        <5>1. PICK m2 : m2 = made[t] \cup {Head(todo[t]).row}
          OBVIOUS
        <5>2. m2 # {} /\ made'[t] = m2 /\ todo'[t] = <<KeyShare(World)>> \o Tail(todo[t])
          BY <4>2, <5>1 DEF InsertStep, Executed
        <5>3. Sound(<<KeyShare(World)>> \o Tail(todo[t]), With(held[t], todo[t]), m2)
          BY <2>1, <3>1, <4>2, <5>2, RowInserted DEF InsertStep
        <5> QED
          BY <3>1, <5>2, <5>3
      <4>3. CASE FindStep(t)
        <5>1. /\ Sound(Tail(todo[t]), With(held[t], todo[t]), made[t])
              /\ Sound(<<>>, With(held[t], todo[t]), made[t])
          BY <2>1, <3>1, StatementDone
        <5>2. (todo'[t] = <<>> \/ todo'[t] = Tail(todo[t])) /\ made'[t] = made[t]
          BY <4>3 DEF FindStep, Executed
        <5> QED
          BY <3>1, <5>1, <5>2
      <4> QED
        BY <2>3, <4>1, <4>2, <4>3
    <3>3. ASSUME NEW u \in Txs \ {t}, NEW l \in held'[t], NEW k \in held'[u], l[1] = k[1]
          PROVE  ~Conflicts(l[2], k[2]) /\ ~Conflicts(k[2], l[2])
      <4>1. k \in held[u]
        BY <1>3, <3>3 DEF Others
      <4>2. CASE l \in held[t]
        BY <3>3, <4>1, <4>2 DEF LocksInv, Exclusive
      <4>3. CASE l = <<Head(todo[t]).row, Head(todo[t]).mode>>
        <5>1. l[1] = Head(todo[t]).row /\ l[2] = Head(todo[t]).mode
          BY <4>3
        <5>2. ~Conflicts(k[2], l[2])
          BY <3>1, <3>3, <4>1, <5>1 DEF WaitsFor
        <5> QED
          BY <5>2 DEF Conflicts
      <4> QED
        BY <3>1, <3>3, <4>2, <4>3 DEF With
    <3>4. Exclusive'
      <4> SUFFICES ASSUME NEW a \in Txs, NEW b \in Txs, a # b,
                          NEW l \in held'[a], NEW k \in held'[b], l[1] = k[1]
                   PROVE  ~Conflicts(l[2], k[2])
        BY DEF Exclusive
      <4>1. CASE a = t
        BY <3>3, <4>1
      <4>2. CASE b = t
        BY <3>3, <4>2
      <4>3. CASE a # t /\ b # t
        BY <1>3, <4>3 DEF LocksInv, Exclusive, Others
      <4> QED
        BY <4>1, <4>2, <4>3
    <3> QED
      BY <1>1, <1>3, <3>1, <3>2, <3>4 DEF LocksInv, Others
  <2> QED
    BY <1>3, <2>2, <2>3
<1> QED
  BY <1>2, <1>3, StepShape DEF LocksInv

\* So the locks are in order in every reachable state.
LEMMA LocksHold == Spec => []LocksInv
<1>1. LocksInv /\ [Next]_vars => LocksInv'
  BY LocksStep
<1> QED
  BY <1>1, InitLocks, PTL DEF Spec

\* Who touches a row below the world, or is about to, owns the world row.
LEMMA BelowTheWorld ==
  ASSUME LocksInv, NEW t \in Txs, Touches(t)
  PROVE  <<World, "UPDATE">> \in held[t]
<1>1. PICK s : s = todo[t]
  OBVIOUS
<1>2. PICK h : h = held[t]
  OBVIOUS
<1>3. Sound(s, h, made[t])
  BY <1>1, <1>2 DEF LocksInv
<1>4. CASE \E l \in h : BelowWorld(l[1])
  BY <1>2, <1>3, <1>4 DEF Sound
<1>5. CASE s # <<>> /\ BelowWorld(Head(s).row)
  <2>1. s \in Seq(Statements)
    BY <1>3 DEF Sound
  <2>2. Len(s) \in Nat /\ Len(s) >= 1 /\ Head(s) = s[1]
    BY <1>5, <2>1, FirstOf
  <2>3. 1 \in 1 .. Len(s) /\ \A j \in 1 .. Len(s) : ~(j < 1)
    BY <2>2
  <2> QED
    BY <1>2, <1>3, <1>5, <2>2, <2>3 DEF Sound
<1> QED
  BY <1>1, <1>2, <1>4, <1>5 DEF Touches

(***************************************************************************)
(* The rows an operation decides on (runtime, resource, outcome) are only  *)
(* reached by the owner of the world row, so at most one transaction at a  *)
(* time holds or waits for any of them.                                    *)
(***************************************************************************)
THEOREM RowsAreReachedThroughTheWorld == Spec => []OperationsAreAtomic
<1>1. ASSUME LocksInv PROVE OperationsAreAtomic
  <2> SUFFICES ASSUME NEW t \in Txs, NEW u \in Txs, Touches(t), Touches(u), t # u
               PROVE  FALSE
    BY DEF OperationsAreAtomic
  <2>1. PICK lock : lock = <<World, "UPDATE">>
    OBVIOUS
  <2>2. lock \in held[t] /\ lock \in held[u]
    BY <1>1, <2>1, BelowTheWorld
  <2>3. ~Conflicts(lock[2], lock[2])
    BY <1>1, <2>2 DEF LocksInv, Exclusive
  <2> QED
    BY <2>1, <2>3 DEF Conflicts
<1> QED
  BY <1>1, LocksHold, PTL

-----------------------------------------------------------------------------
(* Deadlocks *)

\* A set of natural numbers that is not empty has a least member.
LEMMA LeastOf ==
  ASSUME NEW T \in SUBSET Nat, T # {}
  PROVE  \E t \in T : \A u \in T : t <= u
<1> DEFINE R == OpToRel(<, Nat)
<1>1. PICK t \in T : \A u \in T : ~(<<u, t>> \in R)
  <2>1. IsWellFoundedOn(R, Nat)
    BY NatLessThanWellFounded
  <2> HIDE DEF R
  <2> QED
    BY <2>1, WFMin
<1>2. \A u \in T : ~(u < t)
  BY <1>1 DEF OpToRel
<1> QED
  BY <1>2

\* Of finitely many things with a height, one is no lower than any other.
LEMMA HighestOf ==
  ASSUME NEW S, IsFiniteSet(S), S # {}, NEW height \in [S -> Nat]
  PROVE  \E x \in S : \A y \in S : ~(height[x] < height[y])
<1> DEFINE Above(x) == {y \in S : height[x] < height[y]}
           Sizes == {Cardinality(Above(x)) : x \in S}
<1>1. ASSUME NEW x \in S
      PROVE  IsFiniteSet(Above(x)) /\ Cardinality(Above(x)) \in Nat
  <2>1. IsFiniteSet(Above(x))
    BY FS_Subset
  <2> HIDE DEF Above
  <2> QED
    BY <2>1, FS_CardinalityType
<1>2. PICK least \in Sizes : \A n \in Sizes : least <= n
  <2>1. Sizes \in SUBSET Nat /\ Sizes # {}
    BY <1>1
  <2> HIDE DEF Sizes
  <2> QED
    BY <2>1, LeastOf
<1>3. PICK x \in S : least = Cardinality(Above(x))
  BY <1>2
<1>4. ASSUME NEW y \in S, height[x] < height[y]
      PROVE  FALSE
  <2>1. Above(y) \in SUBSET Above(x)
    BY <1>4
  <2>2. y \in Above(x) /\ y \notin Above(y)
    BY <1>4
  <2>3. Cardinality(Above(y)) < Cardinality(Above(x))
    <3> HIDE DEF Above
    <3>1. Above(y) # Above(x)
      BY <2>2
    <3>2. /\ Cardinality(Above(y)) <= Cardinality(Above(x))
          /\ Cardinality(Above(x)) = Cardinality(Above(y)) => Above(x) = Above(y)
      BY <1>1, <2>1, FS_Subset
    <3> QED
      BY <1>1, <3>1, <3>2
  <2>4. Cardinality(Above(x)) <= Cardinality(Above(y))
    BY <1>2, <1>3
  <2> HIDE DEF Above
  <2> QED
    BY <1>1, <2>3, <2>4
<1> QED
  BY <1>4

\* The statement a transaction is about to execute.
LEMMA FirstStatement ==
  ASSUME LocksInv, NEW t \in Txs, todo[t] # <<>>
  PROVE  /\ Head(todo[t]).row \in Rows
         /\ \A l \in held[t] : l[2] = "UPDATE" => Ahead(l[1], Head(todo[t]).row)
<1>1. PICK s : s = todo[t]
  OBVIOUS
<1>2. Sound(s, held[t], made[t]) /\ s \in Seq(Statements)
  BY <1>1 DEF LocksInv, Sound
<1>3. Len(s) \in Nat /\ Len(s) >= 1 /\ Head(s) = s[1] /\ s[1] \in Statements
  BY <1>1, <1>2, FirstOf
<1>4. 1 \in 1 .. Len(s)
  BY <1>3
<1> QED
  BY <1>1, <1>2, <1>3, <1>4 DEF Sound, Statements

\* A row somebody waits for is not below the world: its holder and the one
\* that waits would both own the world row.
LEMMA WaitsAboveTheWorld ==
  ASSUME LocksInv, NEW t \in Txs, NEW u \in Txs, WaitsFor(t, u)
  PROVE  ~BelowWorld(Head(todo[t]).row)
<1> SUFFICES ASSUME BelowWorld(Head(todo[t]).row) PROVE FALSE
  OBVIOUS
<1>1. t # u /\ todo[t] # <<>> /\ \E l \in held[u] : l[1] = Head(todo[t]).row
  BY DEF WaitsFor
<1>2. Touches(t) /\ Touches(u)
  BY <1>1 DEF Touches
<1>3. PICK lock : lock = <<World, "UPDATE">>
  OBVIOUS
<1>4. lock \in held[t] /\ lock \in held[u]
  BY <1>2, <1>3, BelowTheWorld
<1>5. ~Conflicts(lock[2], lock[2])
  BY <1>1, <1>4 DEF LocksInv, Exclusive
<1> QED
  BY <1>3, <1>5 DEF Conflicts

(***************************************************************************)
(* Who waits, waits for a row that comes before the row its holder waits   *)
(* for, unless the holder inserted a row and does not own the world.       *)
(***************************************************************************)
LEMMA WaitsClimb ==
  ASSUME LocksInv, NEW t \in Txs, NEW u \in Txs, WaitsFor(t, u), todo[u] # <<>>,
         ~BelowWorld(Head(todo[u]).row), made[u] = {} \/ <<World, "UPDATE">> \in held[u]
  PROVE  Level(Head(todo[t]).row) < Level(Head(todo[u]).row)
<1>1. PICK row : row = Head(todo[t]).row
  OBVIOUS
<1>2. PICK next : next = Head(todo[u]).row
  OBVIOUS
<1>3. ~BelowWorld(row) /\ ~BelowWorld(next)
  BY <1>1, <1>2, WaitsAboveTheWorld
<1>4. \A l \in held[u] : l[2] = "UPDATE" => Ahead(l[1], next)
  BY <1>2, FirstStatement
<1>5. PICK l \in held[u] : l[1] = row
  BY <1>1 DEF WaitsFor
<1>6. l[2] \in Modes
  BY <1>5 DEF LocksInv, RowTypes
<1>7. CASE l[2] = "UPDATE"
  BY <1>1, <1>2, <1>3, <1>4, <1>5, <1>7 DEF Ahead
<1>8. CASE l[2] = "KEY SHARE"
  <2>1. made[u] # {} /\ row = World
    BY <1>5, <1>8 DEF LocksInv, Sound
  <2>2. PICK lock : lock = <<World, "UPDATE">>
    OBVIOUS
  <2>3. lock \in held[u] /\ lock[1] = World /\ lock[2] = "UPDATE"
    BY <2>1, <2>2
  <2> QED
    BY <1>1, <1>2, <1>3, <1>4, <2>1, <2>3 DEF Ahead
<1> QED
  BY <1>6, <1>7, <1>8 DEF Modes

(***************************************************************************)
(* The lock orders of the operations (request, lease, world, the rows below*)
(* the world, wakes by UUID) are consistent: every deadlock, of however    *)
(* many transactions, contains one whose fresh INSERT checked or is about  *)
(* to check its foreign key and that does not own the world row.           *)
(***************************************************************************)
THEOREM OnlyForeignKeysDeadlock == Spec => []DeadlockNeedsForeignKey
<1>1. ASSUME LocksInv PROVE DeadlockNeedsForeignKey
  <2> SUFFICES ASSUME NEW ts \in SUBSET Txs, Deadlocked(ts),
                      \A t \in ts : made[t] = {} \/ <<World, "UPDATE">> \in held[t]
               PROVE  FALSE
    BY DEF DeadlockNeedsForeignKey
  <2> DEFINE height == [t \in ts |-> Level(Head(todo[t]).row)]
  <2>1. ts # {} /\ \A t \in ts : \E u \in ts : WaitsFor(t, u)
    BY DEF Deadlocked
  <2>2. ASSUME NEW t \in ts
        PROVE  /\ todo[t] # <<>> /\ ~BelowWorld(Head(todo[t]).row)
               /\ Level(Head(todo[t]).row) \in Nat
    <3>1. PICK u \in ts : WaitsFor(t, u)
      BY <2>1
    <3>2. todo[t] # <<>> /\ ~BelowWorld(Head(todo[t]).row)
      BY <1>1, <3>1, WaitsAboveTheWorld DEF WaitsFor
    <3>3. Head(todo[t]).row \in Rows
      BY <1>1, <3>2, FirstStatement
    <3> QED
      BY <3>2, <3>3, RowKinds
  <2>3. \A t \in ts : \E u \in ts : height[t] < height[u]
    <3> SUFFICES ASSUME NEW t \in ts PROVE \E u \in ts : height[t] < height[u]
      OBVIOUS
    <3>1. PICK u \in ts : WaitsFor(t, u)
      BY <2>1
    <3>2. Level(Head(todo[t]).row) < Level(Head(todo[u]).row)
      BY <1>1, <2>2, <3>1, WaitsClimb
    <3> QED
      BY <3>2
  <2>4. height \in [ts -> Nat]
    BY <2>2
  <2>5. IsFiniteSet(ts)
    BY RowAssumption, FS_Subset
  <2> HIDE DEF height
  <2> QED
    BY <2>1, <2>3, <2>4, <2>5, HighestOf
<1> QED
  BY <1>1, LocksHold, PTL

-----------------------------------------------------------------------------
(* Keys *)

Own(t) == Request(call[t].key)
Fresh(t) == held[t] = {} /\ todo[t] # <<>> /\ Head(todo[t]) = Insert(Own(t))
Claimed(t) ==
  /\ <<Own(t), "UPDATE">> \in held[t] /\ Own(t) \in present \cup made[t]
  /\ call[t].key \in decided => todo[t] = <<>> /\ <<World, "UPDATE">> \notin held[t]

(***************************************************************************)
(* An execution has done nothing yet or owns its request row; if its key   *)
(* is decided it has nothing left to do.  The request of a decided key has *)
(* been committed.                                                         *)
(***************************************************************************)
KeysInv ==
  /\ \A t \in Txs : ended[t] = "open" /\ call[t].op = "EXECUTE" => Fresh(t) \/ Claimed(t)
  /\ \A k \in decided : Request(k) \in present

\* KeysInv is inductive relative to LocksInv.
LEMMA InitKeys == Init => KeysInv
<1> SUFFICES ASSUME Init PROVE KeysInv
  OBVIOUS
<1>1. /\ call \in [Txs -> Calls] /\ todo = [t \in Txs |-> Program(call[t])]
      /\ held = [t \in Txs |-> {}] /\ decided = {}
  BY DEF Init
<1>2. ASSUME NEW t \in Txs, call[t].op = "EXECUTE"
      PROVE  Fresh(t)
  <2>1. PICK s : s = Program(call[t])
    OBVIOUS
  <2>2. Sound(s, {}, {}) /\ s # <<>> /\ s[1] = Insert(Request(call[t].key))
    BY <1>1, <1>2, <2>1, ProgramSound
  <2>3. Head(s) = s[1]
    BY <2>2, FirstOf DEF Sound
  <2> QED
    BY <1>1, <2>1, <2>2, <2>3 DEF Fresh, Own
<1> QED
  BY <1>1, <1>2 DEF KeysInv

\* Every statement keeps open executions of a decided key from deciding it again.
LEMMA KeysStep ==
  ASSUME LocksInv, KeysInv, [Next]_vars
  PROVE  KeysInv'
<1>1. call' = call
  BY StepShape DEF LocksInv
<1>2. CASE UNCHANGED vars
  BY <1>2 DEF KeysInv, Fresh, Claimed, Own, vars
<1>3. ASSUME NEW t \in Txs, Others(t), LockStep(t) \/ InsertStep(t) \/ FindStep(t)
      PROVE  KeysInv'
  <2>1. decided' = decided /\ present' = present
    BY <1>3 DEF LockStep, InsertStep, FindStep
  <2>2. /\ ended[t] = "open" /\ todo[t] # <<>> /\ held'[t] = With(held[t], todo[t])
    BY <1>3 DEF LockStep, InsertStep, FindStep, Executed
  <2>3. ASSUME NEW u \in Txs \ {t}, ended'[u] = "open", call'[u].op = "EXECUTE"
        PROVE  Fresh(u)' \/ Claimed(u)'
    <3>1. Fresh(u) \/ Claimed(u)
      BY <1>1, <1>3, <2>3 DEF KeysInv, Others
    <3>2. /\ todo'[u] = todo[u] /\ held'[u] = held[u] /\ made'[u] = made[u]
      BY <1>3 DEF Others
    <3> QED
      BY <1>1, <2>1, <3>1, <3>2 DEF Fresh, Claimed, Own
  <2>4. ASSUME call'[t].op = "EXECUTE"
        PROVE  Claimed(t)'
    <3>1. Fresh(t) \/ Claimed(t)
      BY <1>1, <2>2, <2>4 DEF KeysInv
    <3>2. PICK row : row = Own(t)
      OBVIOUS
    <3>3. PICK own : own = <<row, "UPDATE">>
      OBVIOUS
    <3>4. PICK world : world = <<World, "UPDATE">>
      OBVIOUS
    <3>5. own # world /\ row # Lease
      BY <3>2, <3>3, <3>4 DEF Own, Request, World, Lease
    <3>6. ASSUME Fresh(t)
          PROVE  held'[t] = {own} /\ Head(todo[t]).row = row /\ Head(todo[t]).how = "insert"
      BY <2>2, <3>2, <3>3, <3>6 DEF Fresh, With, Insert
    <3>7. CASE Claimed(t)
      <4>1. call[t].key \notin decided /\ own \in held[t] /\ row \in present \cup made[t]
        BY <2>2, <3>2, <3>3, <3>7 DEF Claimed
      <4>2. held[t] \subseteq held'[t] /\ made[t] \subseteq made'[t]
        BY <1>3, <2>2 DEF With, LockStep, InsertStep, FindStep, Executed
      <4> QED
        BY <1>1, <2>1, <3>2, <3>3, <4>1, <4>2 DEF Claimed, Own
    <3>8. CASE Fresh(t) /\ InsertStep(t)
      <4>1. row \notin present /\ row \in made'[t]
        BY <3>6, <3>8 DEF InsertStep, Executed
      <4>2. call[t].key \notin decided
        BY <3>2, <4>1 DEF KeysInv, Own
      <4> QED
        BY <1>1, <2>1, <3>2, <3>3, <3>6, <3>8, <4>1, <4>2 DEF Claimed, Own
    <3>9. CASE Fresh(t) /\ FindStep(t)
      <4>1. row \in present
        BY <3>6, <3>9 DEF FindStep
      <4>2. call[t].key \in decided => todo'[t] = <<>>
        BY <3>5, <3>6, <3>9 DEF FindStep, Executed, Answered
      <4>3. world \notin held'[t] /\ own \in held'[t]
        BY <3>5, <3>6, <3>9
      <4> QED
        BY <1>1, <2>1, <3>2, <3>3, <3>4, <4>1, <4>2, <4>3 DEF Claimed, Own
    <3>10. CASE Fresh(t) /\ LockStep(t)
      BY <3>6, <3>10 DEF LockStep
    <3> QED
      BY <1>3, <3>1, <3>7, <3>8, <3>9, <3>10
  <2>5. \A k \in decided' : Request(k) \in present'
    BY <2>1 DEF KeysInv
  <2> QED
    BY <2>3, <2>4, <2>5 DEF KeysInv
<1>4. ASSUME NEW t \in Txs, Others(t), Ended(t)
      PROVE  KeysInv'
  <2>1. /\ ended'[t] # "open" /\ present \subseteq present'
    BY <1>4 DEF Ended
  <2>2. ASSUME decided' # decided
        PROVE  /\ ended[t] = "open" /\ call[t].op = "EXECUTE" /\ Claimed(t)
               /\ decided' = decided \cup {call[t].key} /\ present' = present \cup made[t]
    <3>1. /\ ended[t] = "open" /\ todo[t] = <<>> /\ call[t].op = "EXECUTE"
          /\ decided' = decided \cup {call[t].key} /\ present' = present \cup made[t]
      BY <1>4, <2>2 DEF Ended
    <3>2. Fresh(t) \/ Claimed(t)
      BY <3>1 DEF KeysInv
    <3> QED
      BY <3>1, <3>2 DEF Fresh
  <2>3. ASSUME NEW u \in Txs \ {t}, ended'[u] = "open", call'[u].op = "EXECUTE"
        PROVE  Fresh(u)' \/ Claimed(u)'
    <3>1. Fresh(u) \/ Claimed(u)
      BY <1>1, <1>4, <2>3 DEF KeysInv, Others
    <3>2. /\ todo'[u] = todo[u] /\ held'[u] = held[u] /\ made'[u] = made[u]
      BY <1>4 DEF Others
    <3>3. CASE Fresh(u)
      BY <1>1, <3>2, <3>3 DEF Fresh, Own
    <3>4. CASE Claimed(u)
      <4>1. call[u].key \in decided' => call[u].key \in decided
        <5> SUFFICES ASSUME call[u].key \in decided', call[u].key \notin decided
                     PROVE  FALSE
          OBVIOUS
        <5>1. Claimed(t) /\ call[t].key = call[u].key
          BY <2>2
        <5>2. PICK own : own = <<Own(t), "UPDATE">>
          OBVIOUS
        <5>3. own \in held[t] /\ own \in held[u] /\ own[2] = "UPDATE"
          BY <3>4, <5>1, <5>2 DEF Claimed, Own
        <5>4. ~Conflicts(own[2], own[2])
          BY <2>3, <5>3 DEF LocksInv, Exclusive
        <5> QED
          BY <5>3, <5>4 DEF Conflicts
      <4> QED
        BY <1>1, <2>1, <3>2, <3>4, <4>1 DEF Claimed, Own
    <3> QED
      BY <3>1, <3>3, <3>4
  <2>4. ASSUME NEW k \in decided'
        PROVE  Request(k) \in present'
    <3>1. CASE k \in decided
      BY <2>1, <3>1 DEF KeysInv
    <3>2. CASE k \notin decided
      BY <2>2, <2>4, <3>2 DEF Claimed, Own
    <3> QED
      BY <3>1, <3>2
  <2> QED
    BY <2>1, <2>3, <2>4 DEF KeysInv
<1> QED
  BY <1>2, <1>3, <1>4, StepShape DEF LocksInv

(***************************************************************************)
(* Of the concurrent executions of one request, at most one commits after  *)
(* having locked the world: the others wait for the request row and find   *)
(* the outcome.                                                            *)
(***************************************************************************)
THEOREM ConcurrentExecutionsDecideOnce == Spec => KeyDecidedOnce
<1>1. KeysInv /\ LocksInv /\ [Next]_vars => KeysInv'
  BY KeysStep
<1>2. KeysInv => \A t \in Txs :
        ended[t] = "open" /\ call[t].op = "EXECUTE" /\ <<World, "UPDATE">> \in held[t]
          => call[t].key \notin decided
  BY DEF KeysInv, Fresh, Claimed
<1>3. KeysInv /\ [Next]_vars =>
        [\A t \in Txs :
           /\ ended[t] = "open" /\ ended'[t] = "committed"
           /\ call[t].op = "EXECUTE" /\ <<World, "UPDATE">> \in held[t]
           => call[t].key \notin decided]_vars
  BY <1>2
<1> QED
  BY <1>1, <1>3, InitKeys, LocksHold, PTL DEF Spec, KeyDecidedOnce

===============================================================================
