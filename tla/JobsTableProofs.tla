--------------------------- MODULE JobsTableProofs ---------------------------
(***************************************************************************)
(* Theorems about JobsTable for any number of jobs, groups, filters, polls *)
(* and batches: that the table's order is one, that the cursor, the tags   *)
(* and the range are places of it, and that a list, however old, is right  *)
(* about what is over as long as its IDs name the jobs they named then.    *)
(***************************************************************************)
EXTENDS JobsTable, FiniteSetTheorems, SequenceTheorems, FunctionTheorems, TLAPS

-----------------------------------------------------------------------------
(***************************************************************************)
(* Sorting.  Rows are put in order by counting what comes before each:     *)
(* Before is a strict order of any jobs, so the counts are the places.     *)
(***************************************************************************)

\* Before is a strict total order.
LEMMA BeforeOrders ==
    ASSUME NEW l, NEW mode, NEW i \in Nat, NEW j \in Nat, NEW k \in Nat
    PROVE  /\ ~Before(l, mode, i, i)
           /\ Before(l, mode, i, j) /\ Before(l, mode, j, k) => Before(l, mode, i, k)
           /\ i # j => Before(l, mode, i, j) \/ Before(l, mode, j, i)
  <1>1. Rank(l[i]) \in Nat /\ Rank(l[j]) \in Nat /\ Rank(l[k]) \in Nat
    BY DEF Rank
  <1>2. QED
    BY <1>1 DEF Before

\* Who comes before another has fewer before it, and everybody has a place.
LEMMA PlacesDiffer ==
    ASSUME NEW S \in SUBSET Nat, IsFiniteSet(S), NEW l, NEW mode, NEW i \in S
    PROVE  /\ Place(S, l, mode, i) \in 0..(Cardinality(S) - 1)
           /\ \A j \in S : Before(l, mode, i, j) => Place(S, l, mode, i) < Place(S, l, mode, j)
  <1> DEFINE B(x) == {y \in S : Before(l, mode, y, x)}
  <1>1. ASSUME NEW x \in S
        PROVE  IsFiniteSet(B(x)) /\ Cardinality(B(x)) \in Nat
    BY FS_Subset, FS_CardinalityType
  <1>2. Place(S, l, mode, i) < Cardinality(S)
    <2>1. i \notin B(i)
      BY BeforeOrders
    <2>2. B(i) \in SUBSET S /\ B(i) # S
      BY <2>1
    <2>3. Cardinality(B(i)) <= Cardinality(S) /\ Cardinality(S) # Cardinality(B(i))
      BY <2>2, FS_Subset
    <2>4. Cardinality(S) \in Nat
      BY FS_CardinalityType
    <2>5. QED
      BY <1>1, <2>3, <2>4 DEF Place
  <1>3. ASSUME NEW j \in S, Before(l, mode, i, j)
        PROVE  Place(S, l, mode, i) < Place(S, l, mode, j)
    <2>1. B(i) \in SUBSET B(j)
      BY <1>3, BeforeOrders
    <2>2. i \in B(j) /\ i \notin B(i)
      BY <1>3, BeforeOrders
    <2>3. Cardinality(B(i)) <= Cardinality(B(j)) /\ Cardinality(B(j)) # Cardinality(B(i))
      BY <1>1, <2>1, <2>2, FS_Subset
    <2>4. QED
      BY <1>1, <2>3 DEF Place
  <1>4. QED
    BY <1>1, <1>2, <1>3, FS_CardinalityType DEF Place

\* rows is a list of the jobs of S, all of them.
Lists(rows, S) ==
    /\ rows \in Seq(S)
    /\ \A i \in S : \E k \in DOMAIN rows : rows[k] = i

LEMMA SortedLists ==
    ASSUME NEW S \in SUBSET Nat, IsFiniteSet(S), NEW l, NEW mode
    PROVE  Lists(Sorted(S, l, mode), S)
  <1> DEFINE n == Cardinality(S)
             P == 0..(n - 1)
             f == [i \in S |-> Place(S, l, mode, i)]
  <1>1. n \in Nat
    BY FS_CardinalityType
  <1>2. f \in [S -> P]
    BY PlacesDiffer
  <1>3. ASSUME NEW i \in S, NEW j \in S, Place(S, l, mode, i) = Place(S, l, mode, j) PROVE i = j
    <2>1. ~Before(l, mode, i, j) /\ ~Before(l, mode, j, i)
      BY <1>3, PlacesDiffer
    <2>2. QED
      BY <2>1, BeforeOrders
  <1>4. f \in Injection(S, P)
    <2>1. \A i, j \in S : f[i] = f[j] => i = j
      BY <1>3
    <2>2. QED
      BY <1>2, <2>1, Fun_IsInj
  <1>5. IsFiniteSet(P) /\ Cardinality(P) = n
    <2>1. 0 \in Int /\ n - 1 \in Int
      BY <1>1
    <2>2. IsFiniteSet(P) /\ Cardinality(P) = IF 0 > n - 1 THEN 0 ELSE n - 1 - 0 + 1
      BY <2>1, FS_Interval
    <2>3. (IF 0 > n - 1 THEN 0 ELSE n - 1 - 0 + 1) = n
      BY <1>1
    <2>4. QED
      BY <2>2, <2>3
  <1>6. f \in Surjection(S, P)
    BY <1>4, <1>5, FS_Injection
  <1>7. \A p \in P : \E i \in S : Place(S, l, mode, i) = p
    BY <1>6 DEF Surjection
  <1> DEFINE r == Sorted(S, l, mode)
  <1>8. r = [k \in 1..n |-> CHOOSE i \in S : Place(S, l, mode, i) = k - 1]
    BY DEF Sorted
  <1>9. ASSUME NEW k \in 1..n PROVE r[k] \in S /\ Place(S, l, mode, r[k]) = k - 1
    <2>1. k - 1 \in P
      BY <1>1
    <2>2. \E i \in S : Place(S, l, mode, i) = k - 1
      BY <1>7, <2>1
    <2>3. r[k] = CHOOSE i \in S : Place(S, l, mode, i) = k - 1
      BY <1>8
    <2>4. QED
      BY <2>2, <2>3
  <1>10. r \in [1..n -> S]
    BY <1>8, <1>9
  <1>11. r \in Seq(S) /\ DOMAIN r = 1..n
    <2>1. r \in Seq(S)
      BY <1>1, <1>10
    <2>2. QED
      BY <1>10, <2>1
  <1>12. ASSUME NEW i \in S PROVE \E k \in DOMAIN r : r[k] = i
    <2>1. Place(S, l, mode, i) \in P
      BY PlacesDiffer
    <2>2. PICK k \in 1..n : k - 1 = Place(S, l, mode, i)
      <3>1. Place(S, l, mode, i) + 1 \in 1..n
        BY <1>1, <2>1
      <3>2. QED
        BY <2>1, <3>1
    <2>3. r[k] = i
      BY <1>3, <1>9, <2>2
    <2>4. QED
      BY <1>11, <2>3
  <1>13. QED
    BY <1>11, <1>12 DEF Lists

\* The table shows every job that the filter lets through.
LEMMA RowsList ==
    ASSUME NEW l, NEW f, NEW mode, NEW rev, DOMAIN l \subseteq Nat, IsFiniteSet(DOMAIN l)
    PROVE  Lists(RowsOf(l, f, mode, rev), DOMAIN l \cap f)
  <1> DEFINE S == DOMAIN l \cap f
             r == Sorted(S, l, mode)
  <1>1. S \in SUBSET Nat /\ IsFiniteSet(S)
    BY FS_Subset
  <1>2. Lists(r, S)
    BY <1>1, SortedLists
  <1> HIDE DEF r
  <1>3. r \in Seq(S) /\ DOMAIN r = 1..Len(r) /\ Len(r) \in Nat /\ \A k \in 1..Len(r) : r[k] \in S
    BY <1>2 DEF Lists
  <1> DEFINE q == SeqExt!Reverse(r)
  <1>4. Lists(q, S)
    <2>1. q = [i \in 1..Len(r) |-> r[(Len(r) - i) + 1]]
      BY DEF SeqExt!Reverse
    <2>2. \A i \in 1..Len(r) : (Len(r) - i) + 1 \in 1..Len(r)
      BY <1>3
    <2>3. q \in [1..Len(r) -> S]
      BY <1>3, <2>1, <2>2
    <2>4. q \in Seq(S)
      BY <1>3, <2>3
    <2>5. ASSUME NEW i \in S PROVE \E k \in DOMAIN q : q[k] = i
      <3>1. PICK k \in 1..Len(r) : r[k] = i
        BY <1>2, <1>3 DEF Lists
      <3>2. (Len(r) - k) + 1 \in 1..Len(r) /\ (Len(r) - ((Len(r) - k) + 1)) + 1 = k
        BY <1>3
      <3>3. q[(Len(r) - k) + 1] = i
        BY <2>1, <3>1, <3>2
      <3>4. QED
        BY <2>1, <3>2, <3>3
    <2>6. QED
      BY <2>4, <2>5 DEF Lists
  <1>5. RowsOf(l, f, mode, rev) = IF rev THEN q ELSE r
    BY DEF RowsOf, r
  <1>6. QED
    BY <1>2, <1>4, <1>5

-----------------------------------------------------------------------------
(***************************************************************************)
(* Places in the table, and selections of its rows.                        *)
(***************************************************************************)

\* What is below a bound is finite.
LEMMA KnownAreFinite ==
    ASSUME NEW n \in Nat, NEW S \in SUBSET (0..(n - 1))
    PROVE  S \in SUBSET Nat /\ IsFiniteSet(S)
  <1>1. IsFiniteSet(0..(n - 1))
    BY FS_Interval
  <1>2. IsFiniteSet(S)
    BY <1>1, FS_Subset
  <1>3. S \in SUBSET Nat
    OBVIOUS
  <1>4. QED
    BY <1>2, <1>3

LEMMA Clamped ==
    ASSUME NEW S, NEW rows \in Seq(S), NEW i \in Nat
    PROVE  /\ Clamp(i, rows) \in Nat
           /\ rows # <<>> => Clamp(i, rows) \in DOMAIN rows
           /\ Clamp(i, rows) # 0 => Clamp(i, rows) \in DOMAIN rows
  <1>1. Len(rows) \in Nat /\ DOMAIN rows = 1..Len(rows) /\ (rows # <<>> => Len(rows) > 0)
    OBVIOUS
  <1>2. QED
    BY <1>1 DEF Clamp

\* Wherever the cursor comes from, it ends on the row whose job it remembers.
LEMMA AnchorPlaces ==
    ASSUME NEW S, NEW rows \in Seq(S), NEW key, NEW prev \in Nat
    PROVE  /\ Anchor(rows, key, prev).cursor \in Nat
           /\ rows # <<>> => /\ Anchor(rows, key, prev).cursor \in DOMAIN rows
                             /\ rows[Anchor(rows, key, prev).cursor] = Anchor(rows, key, prev).key
  <1>1. CASE SeqExt!Contains(rows, key)
    <2>1. \E i \in DOMAIN rows : rows[i] = key
      BY <1>1 DEF SeqExt!Contains
    <2>2. PICK c : c = CHOOSE i \in DOMAIN rows : rows[i] = key
      OBVIOUS
    <2>3. c \in DOMAIN rows /\ rows[c] = key
      BY <2>1, <2>2
    <2>4. Anchor(rows, key, prev) = [cursor |-> c, key |-> key]
      BY <1>1, <2>2 DEF Anchor
    <2>5. QED
      BY <2>3, <2>4
  <1>2. CASE ~SeqExt!Contains(rows, key)
    <2>1. PICK c : c = Clamp(prev, rows)
      OBVIOUS
    <2>2. Anchor(rows, key, prev) = [cursor |-> c, key |-> IF c = 0 THEN None ELSE rows[c]]
      BY <1>2, <2>1 DEF Anchor
    <2>3. c \in Nat /\ (rows # <<>> => c \in DOMAIN rows)
      BY <2>1, Clamped
    <2>4. 0 \notin DOMAIN rows
      OBVIOUS
    <2>5. QED
      BY <2>2, <2>3, <2>4
  <1>3. QED
    BY <1>1, <1>2

\* The rows of two numbers that are places are rows of the table.
LEMMA BetweenRows ==
    ASSUME NEW S, NEW rows \in Seq(S), NEW a \in DOMAIN rows, NEW b \in DOMAIN rows
    PROVE  Between(rows, a, b) \in Seq(S)
  <1>1. a \in 1..Len(rows) /\ b \in 1..Len(rows) /\ Len(rows) \in Nat
    OBVIOUS
  <1>2. \A i \in a..b : rows[i] \in S
    BY <1>1
  <1>3. \A i \in b..a : rows[i] \in S
    BY <1>1
  <1>4. SubSeq(rows, a, b) \in Seq(S)
    BY <1>1, <1>2, SubSeqProperties
  <1>5. SubSeq(rows, b, a) \in Seq(S)
    BY <1>1, <1>3, SubSeqProperties
  <1>6. QED
    BY <1>4, <1>5 DEF Between

\* A list repeated names what the list names.
LEMMA RepeatedNames ==
    ASSUME NEW S, NEW s \in Seq(S), NEW n \in Nat
    PROVE  /\ Repeated(s, n) \in Seq(S)
           /\ n > 0 => \A k \in DOMAIN s : \E i \in DOMAIN Repeated(s, n) : Repeated(s, n)[i] = s[k]
  <1> DEFINE L == Len(s)
             m == n * L
             r == Repeated(s, n)
  <1>1. L \in Nat /\ DOMAIN s = 1..L /\ m \in Nat
    OBVIOUS
  <1>2. r = [i \in 1..m |-> s[((i - 1) % L) + 1]]
    BY DEF Repeated
  <1>3. ASSUME NEW i \in 1..m PROVE s[((i - 1) % L) + 1] \in S
    <2>1. L # 0
      <3>1. CASE L = 0
        <4>1. m = 0
          BY <3>1
        <4>2. QED
          BY <4>1
      <3>2. QED
        BY <3>1
    <2>2. (i - 1) % L \in 0..(L - 1)
      BY <1>1, <2>1
    <2>3. ((i - 1) % L) + 1 \in 1..L
      BY <1>1, <2>2
    <2>4. QED
      BY <1>1, <2>3
  <1>4. r \in [1..m -> S]
    BY <1>2, <1>3
  <1>5. r \in Seq(S)
    BY <1>1, <1>4
  <1>6. ASSUME n > 0, NEW k \in DOMAIN s PROVE \E i \in DOMAIN r : r[i] = s[k]
    <2>1. L <= m
      <3>1. m = L + (n - 1) * L /\ (n - 1) * L \in Nat
        BY <1>1, <1>6
      <3>2. QED
        BY <1>1, <3>1
    <2>2. k \in 1..m /\ k \in 1..L
      BY <1>1, <2>1
    <2>3. (k - 1) % L = k - 1
      BY <1>1, <2>2
    <2>4. ((k - 1) % L) + 1 = k
      BY <2>2, <2>3
    <2>5. r[k] = s[k]
      BY <1>2, <2>2, <2>4
    <2>6. QED
      BY <1>2, <2>2, <2>5
  <1>7. QED
    BY <1>5, <1>6

-----------------------------------------------------------------------------
(***************************************************************************)
(* The invariant.                                                          *)
(***************************************************************************)

\* No ID from here on was ever handed out.
Issued == IF nextID > handed THEN nextID ELSE handed

\* Every job has an ID that was handed out, and there is a group.
IDsKnown ==
    /\ nextID \in Nat /\ handed \in Nat
    /\ DOMAIN jobs \subseteq 0..(nextID - 1)
    /\ IsFiniteSet(groups) /\ Default \in groups

\* A job is a session and a state.
Shaped ==
    \A j \in DOMAIN jobs : jobs[j] = [session |-> jobs[j].session, state |-> jobs[j].state]

\* A list of IDs may be old, but what is finished in it is finished, or gone,
\* unless a reset has come between.
OverIs(l) ==
    \A j \in DOMAIN l \cap DOMAIN jobs : handed <= j /\ l[j] = "finished" => jobs[j].state = "finished"

\* The jobs l of n groups.
ListSound(l, n) ==
    /\ DOMAIN l \subseteq 0..(Issued - 1)
    /\ OverIs(l)
    /\ n \in Nat
    /\ DOMAIN l # {} => n > 0

\* The action under way, and what it was not asked about.
BatchSound ==
    /\ batch.ids \in Seq(Nat) /\ confirm \in Seq(Nat)
    /\ batch = [op |-> batch.op, asked |-> batch.asked, ids |-> batch.ids]
    /\ batch # Idle => batch.ids # <<>>
    /\ batch.op = "remove" /\ ~batch.asked =>
          \A i \in DOMAIN batch.ids :
              /\ batch.ids[i] \in 0..(Issued - 1)
              /\ batch.ids[i] >= handed /\ batch.ids[i] \in DOMAIN jobs
                    => jobs[batch.ids[i]].state = "finished"

\* The cursor, the tags and the range are places of the table.
PlacesSound ==
    /\ cursor \in Nat /\ anchor \in Nat /\ copies \in Nat
    /\ view = "jobs" =>
          /\ tagged \subseteq DOMAIN listed
          /\ Rows # <<>> => cursor \in DOMAIN Rows /\ Rows[cursor] = cursorKey
          /\ Rows # <<>> /\ visual => anchor \in DOMAIN Rows
          /\ DOMAIN listed # {} => copies > 0

JInv ==
    /\ IDsKnown /\ Shaped
    /\ ListSound(listed, nodes) /\ ListSound(poll.jobs, poll.nodes)
    /\ BatchSound /\ PlacesSound

\* What any step of the daemon leaves: IDs that no reset has freed are not used
\* again, and what is finished under them stays so.
Moved ==
    /\ IDsKnown' /\ Shaped'
    /\ handed <= handed' /\ Issued <= Issued'
    /\ \A j \in DOMAIN jobs' :
          handed' <= j /\ j < Issued => /\ j \in DOMAIN jobs
                                        /\ jobs[j].state = "finished" => jobs'[j].state = "finished"

-----------------------------------------------------------------------------
(* Steps of the daemon. *)

LEMMA IssuedIsNat ==
    ASSUME IDsKnown PROVE Issued \in Nat /\ nextID <= Issued /\ handed <= Issued
  BY DEF IDsKnown, Issued

\* A step of one job, or of a new one, that hands no ID out again.
LEMMA MovedOnly ==
    ASSUME JInv, Shaped', handed' = handed, groups' = groups,
           nextID' \in Nat, nextID <= nextID', DOMAIN jobs' \subseteq 0..(nextID' - 1),
           \A j \in DOMAIN jobs' :
              handed <= j /\ j < nextID
                => j \in DOMAIN jobs /\ (jobs[j].state = "finished" => jobs'[j].state = "finished")
    PROVE  Moved
  <1>1. IDsKnown'
    BY DEF JInv, IDsKnown
  <1>2. nextID \in Nat /\ handed \in Nat
    BY DEF JInv, IDsKnown
  <1>3. handed <= handed' /\ Issued <= Issued'
    BY <1>2 DEF Issued
  <1>4. ASSUME NEW j \in DOMAIN jobs', handed' <= j, j < Issued PROVE handed <= j /\ j < nextID
    BY <1>2, <1>4 DEF Issued
  <1>5. QED
    BY <1>1, <1>3, <1>4 DEF Moved

LEMMA MovedByNone == ASSUME JInv, UNCHANGED registry, UNCHANGED handed PROVE Moved
  <1>1. UNCHANGED <<groups, jobs, nextID>>
    BY DEF registry
  <1>2. Shaped' /\ nextID' \in Nat /\ nextID <= nextID' /\ DOMAIN jobs' \subseteq 0..(nextID' - 1)
    BY <1>1 DEF JInv, IDsKnown, Shaped
  <1>3. \A j \in DOMAIN jobs' : j \in DOMAIN jobs /\ (jobs[j].state = "finished" => jobs'[j].state = "finished")
    BY <1>1
  <1>4. QED
    BY <1>1, <1>2, <1>3, MovedOnly

LEMMA MovedByAdd == ASSUME JInv, NEW s, Add(s), UNCHANGED handed PROVE Moved
  <1>1. /\ DOMAIN jobs' = DOMAIN jobs \cup {nextID}
        /\ jobs'[nextID] = [session |-> s, state |-> "queued"]
        /\ \A j \in DOMAIN jobs \ {nextID} : jobs'[j] = jobs[j]
        /\ nextID' = nextID + 1 /\ groups' = groups
    BY DEF Add, Put
  <1>2. nextID \in Nat /\ DOMAIN jobs \subseteq 0..(nextID - 1)
    BY DEF JInv, IDsKnown
  <1>3. Shaped'
    BY <1>1 DEF JInv, Shaped
  <1>4. DOMAIN jobs' \subseteq 0..(nextID' - 1)
    BY <1>1, <1>2
  <1>5. \A j \in DOMAIN jobs' : j < nextID => j \in DOMAIN jobs /\ jobs'[j] = jobs[j]
    BY <1>1, <1>2
  <1>6. nextID' \in Nat /\ nextID <= nextID'
    BY <1>1, <1>2
  <1>7. QED
    BY <1>1, <1>3, <1>4, <1>5, <1>6, MovedOnly

LEMMA MovedBySetState ==
    ASSUME JInv, NEW j, NEW from, NEW to, from # "finished" \/ j < handed,
           SetState(j, from, to), UNCHANGED handed
    PROVE  Moved
  <1>1. PICK a, b : a = jobs[j].session /\ b = jobs[j].state /\ jobs[j] = [session |-> a, state |-> b]
    BY DEF SetState, JInv, Shaped
  <1>2. [[session |-> a, state |-> b] EXCEPT !.state = to] = [session |-> a, state |-> to]
    OBVIOUS
  <1>3. /\ DOMAIN jobs' = DOMAIN jobs
        /\ jobs'[j] = [session |-> a, state |-> to]
        /\ \A i \in DOMAIN jobs \ {j} : jobs'[i] = jobs[i]
        /\ nextID' = nextID /\ groups' = groups
    BY <1>1, <1>2 DEF SetState
  <1>4. jobs[j].state = from
    BY DEF SetState
  <1>5. Shaped'
    BY <1>3 DEF JInv, Shaped
  <1>6. ASSUME NEW i \in DOMAIN jobs', handed <= i
        PROVE  i \in DOMAIN jobs /\ (jobs[i].state = "finished" => jobs'[i].state = "finished")
    <2>1. CASE i # j
      BY <1>3, <2>1
    <2>2. CASE i = j
      <3>1. i \in Int /\ handed \in Int
        BY <1>3 DEF JInv, IDsKnown
      <3>2. from # "finished"
        BY <1>6, <2>2, <3>1
      <3>3. QED
        BY <1>3, <1>4, <2>2, <3>2
    <2>3. QED
      BY <2>1, <2>2
  <1>7. nextID' \in Nat /\ nextID <= nextID' /\ DOMAIN jobs' \subseteq 0..(nextID' - 1)
    BY <1>3 DEF JInv, IDsKnown
  <1>8. QED
    BY <1>3, <1>5, <1>6, <1>7, MovedOnly

LEMMA MovedByDrop ==
    ASSUME JInv, NEW X, jobs' = Drop(jobs, X), UNCHANGED <<groups, nextID, handed>>
    PROVE  Moved
  <1>1. DOMAIN jobs' = DOMAIN jobs \ X /\ \A i \in DOMAIN jobs' : jobs'[i] = jobs[i]
    BY DEF Drop
  <1>2. Shaped'
    BY <1>1 DEF JInv, Shaped
  <1>3. nextID' \in Nat /\ nextID <= nextID' /\ DOMAIN jobs' \subseteq 0..(nextID' - 1)
    BY <1>1 DEF JInv, IDsKnown
  <1>4. QED
    BY <1>1, <1>2, <1>3, MovedOnly

\* After a reset every ID counts as handed out before it.
LEMMA MovedByReset == ASSUME JInv, ResetIDs PROVE Moved
  <1>1. nextID' = 0 /\ groups' = {Default} /\ DOMAIN jobs' = {}
    BY DEF ResetIDs, Reset
  <1>2. nextID \in Nat /\ handed \in Nat /\ handed' = Issued
    BY DEF ResetIDs, JInv, IDsKnown, Issued
  <1>3. handed' \in Nat /\ handed <= handed' /\ Issued <= Issued'
    BY <1>1, <1>2 DEF Issued
  <1>4. IDsKnown'
    <2>1. IsFiniteSet(groups') /\ Default \in groups'
      BY <1>1, FS_Singleton
    <2>2. QED
      BY <1>1, <1>3, <2>1 DEF IDsKnown
  <1>5. Shaped'
    BY <1>1 DEF Shaped
  <1>6. QED
    BY <1>1, <1>3, <1>4, <1>5 DEF Moved

LEMMA MovedElsewhere == ASSUME JInv, Elsewhere PROVE Moved
  <1>1. CASE ResetIDs
    BY <1>1, MovedByReset
  <1>2. CASE UNCHANGED handed
    <2>1. CASE Submit(Default)
      BY <1>2, <2>1, MovedByAdd DEF Submit
    <2>2. ASSUME NEW j, SetRunning(j) \/ RequeueForRetry(j) \/ MarkFinished(j) \/ MarkSkipped(j)
          PROVE  Moved
      BY <1>2, <2>2, MovedBySetState DEF SetRunning, RequeueForRetry, MarkFinished, MarkSkipped
    <2>3. ASSUME NEW j, Leftover(j) PROVE Moved
      BY <1>2, <2>3, MovedBySetState DEF Leftover
    <2>4. ASSUME NEW j, Remove(j) PROVE Moved
      BY <1>2, <2>4, MovedByDrop DEF Remove
    <2>5. CASE ClearFinished({Default})
      BY <1>2, <2>5, MovedByDrop DEF ClearFinished
    <2>6. QED
      BY <1>1, <2>1, <2>2, <2>3, <2>4, <2>5 DEF Elsewhere
  <1>3. QED
    BY <1>1, <1>2 DEF Elsewhere

LEMMA MovedByBatch == ASSUME JInv, BatchStep PROVE Moved
  <1>1. \/ Remove(Head(batch.ids))
        \/ Add(jobs[Head(batch.ids)].session)
        \/ UNCHANGED registry
    BY DEF BatchStep
  <1>2. UNCHANGED handed
    BY DEF BatchStep
  <1>3. CASE Remove(Head(batch.ids))
    BY <1>2, <1>3, MovedByDrop DEF Remove
  <1>4. CASE Add(jobs[Head(batch.ids)].session)
    BY <1>2, <1>4, MovedByAdd
  <1>5. QED
    BY <1>1, <1>2, <1>3, <1>4, MovedByNone

\* A list that was right stays right.
LEMMA StaysSound ==
    ASSUME JInv, Moved, NEW l, NEW n, ListSound(l, n)
    PROVE  /\ DOMAIN l \subseteq 0..(Issued' - 1)
           /\ \A j \in DOMAIN l \cap DOMAIN jobs' :
                 handed' <= j /\ l[j] = "finished" => jobs'[j].state = "finished"
           /\ n \in Nat /\ (DOMAIN l # {} => n > 0)
  <1>1. Issued \in Nat /\ Issued' \in Nat /\ Issued <= Issued'
    BY DEF JInv, Moved, IDsKnown, Issued
  <1>2. DOMAIN l \subseteq 0..(Issued' - 1)
    BY <1>1 DEF ListSound
  <1>3. ASSUME NEW j \in DOMAIN l \cap DOMAIN jobs', handed' <= j, l[j] = "finished"
        PROVE  jobs'[j].state = "finished"
    <2>1. j < Issued /\ j \in Nat
      BY <1>1 DEF ListSound
    <2>2. handed \in Nat /\ handed' \in Nat /\ handed <= handed'
      BY DEF JInv, Moved, IDsKnown
    <2>3. handed <= j
      BY <1>3, <2>1, <2>2
    <2>4. QED
      BY <1>3, <2>1, <2>3 DEF Moved, ListSound, OverIs
  <1>4. QED
    BY <1>2, <1>3 DEF ListSound

LEMMA StaysOverAlone ==
    ASSUME JInv, Moved, NEW j \in 0..(Issued - 1),
           j >= handed /\ j \in DOMAIN jobs => jobs[j].state = "finished"
    PROVE  /\ j \in 0..(Issued' - 1)
           /\ j >= handed' /\ j \in DOMAIN jobs' => jobs'[j].state = "finished"
  <1>1. Issued \in Nat /\ Issued' \in Nat /\ Issued <= Issued'
    BY DEF JInv, Moved, IDsKnown, Issued
  <1>2. handed \in Nat /\ handed' \in Nat /\ handed <= handed'
    BY DEF JInv, Moved, IDsKnown
  <1>3. j \in 0..(Issued' - 1) /\ j < Issued /\ j \in Nat
    <2>1. PICK m, n : m = Issued /\ n = Issued'
      OBVIOUS
    <2>2. j \in 0..(m - 1)
      BY <2>1
    <2>3. m \in Nat /\ n \in Nat /\ m <= n
      BY <1>1, <2>1
    <2>4. j \in 0..(n - 1) /\ j < m /\ j \in Nat
      BY <2>2, <2>3
    <2>5. QED
      BY <2>1, <2>4
  <1>4. ASSUME j >= handed', j \in DOMAIN jobs' PROVE jobs'[j].state = "finished"
    <2>1. handed' <= j /\ j >= handed
      BY <1>2, <1>3, <1>4
    <2>2. j \in DOMAIN jobs /\ (jobs[j].state = "finished" => jobs'[j].state = "finished")
      BY <1>3, <1>4, <2>1 DEF Moved
    <2>3. QED
      BY <2>1, <2>2
  <1>5. QED
    BY <1>3, <1>4

\* What is said of lists that do not change.
LEMMA ListsStay ==
    ASSUME JInv, Moved
    PROVE  /\ UNCHANGED <<listed, nodes>> => ListSound(listed, nodes)'
           /\ UNCHANGED poll => ListSound(poll.jobs, poll.nodes)'
  <1>1. ASSUME UNCHANGED <<listed, nodes>> PROVE ListSound(listed, nodes)'
    <2> PICK l, n : l = listed /\ n = nodes
      OBVIOUS
    <2>1. ListSound(l, n)
      BY DEF JInv, ListSound, OverIs
    <2>2. /\ DOMAIN l \subseteq 0..(Issued' - 1)
          /\ \A j \in DOMAIN l \cap DOMAIN jobs' :
                handed' <= j /\ l[j] = "finished" => jobs'[j].state = "finished"
          /\ n \in Nat /\ (DOMAIN l # {} => n > 0)
      BY <2>1, StaysSound
    <2>3. l = listed' /\ n = nodes'
      BY <1>1
    <2>4. QED
      BY <2>2, <2>3 DEF ListSound, OverIs
  <1>2. ASSUME UNCHANGED poll PROVE ListSound(poll.jobs, poll.nodes)'
    <2> PICK l, n : l = poll.jobs /\ n = poll.nodes
      OBVIOUS
    <2>1. ListSound(l, n)
      BY DEF JInv, ListSound, OverIs
    <2>2. /\ DOMAIN l \subseteq 0..(Issued' - 1)
          /\ \A j \in DOMAIN l \cap DOMAIN jobs' :
                handed' <= j /\ l[j] = "finished" => jobs'[j].state = "finished"
          /\ n \in Nat /\ (DOMAIN l # {} => n > 0)
      BY <2>1, StaysSound
    <2>3. l = poll'.jobs /\ n = poll'.nodes
      BY <1>2
    <2>4. QED
      BY <2>2, <2>3 DEF ListSound, OverIs
  <1>3. QED
    BY <1>1, <1>2

LEMMA BatchStays == ASSUME JInv, Moved, UNCHANGED <<batch, confirm>> PROVE BatchSound'
  <1>1. ASSUME batch.op = "remove", ~batch.asked, NEW i \in DOMAIN batch.ids
        PROVE  /\ batch.ids[i] \in 0..(Issued' - 1)
               /\ batch.ids[i] >= handed' /\ batch.ids[i] \in DOMAIN jobs'
                     => jobs'[batch.ids[i]].state = "finished"
    <2>1. PICK j : j = batch.ids[i]
      OBVIOUS
    <2>2. j \in 0..(Issued - 1) /\ (j >= handed /\ j \in DOMAIN jobs => jobs[j].state = "finished")
      BY <1>1, <2>1 DEF JInv, BatchSound
    <2>3. QED
      BY <2>1, <2>2, StaysOverAlone
  <1>2. QED
    BY <1>1 DEF JInv, BatchSound

\* The table is where it was.
LEMMA PlacesStay ==
    ASSUME JInv, UNCHANGED <<view, listed, copies, filter, sortMode, sortRev, cursor, cursorKey,
                             visual, anchor, tagged>>
    PROVE  PlacesSound'
  BY DEF JInv, PlacesSound, Rows

LEMMA AllSound ==
    ASSUME JInv, Moved, BatchSound', PlacesSound',
           UNCHANGED <<listed, nodes>> \/ ListSound(listed, nodes)',
           UNCHANGED poll \/ ListSound(poll.jobs, poll.nodes)'
    PROVE  JInv'
  <1>1. IDsKnown' /\ Shaped'
    BY DEF Moved
  <1>2. QED
    BY <1>1, ListsStay DEF JInv

LEMMA OnlyPlaces ==
    ASSUME JInv, Moved, PlacesSound', UNCHANGED <<listed, nodes, poll, batch, confirm>>
    PROVE  JInv'
  <1>1. UNCHANGED <<listed, nodes>> /\ UNCHANGED poll /\ UNCHANGED <<batch, confirm>>
    OBVIOUS
  <1>2. BatchSound'
    BY <1>1, BatchStays
  <1>3. QED
    BY <1>1, <1>2, AllSound

\* The jobs that are listed, in a list.
LEMMA ListedRows ==
    ASSUME JInv
    PROVE  /\ DOMAIN listed \subseteq Nat /\ IsFiniteSet(DOMAIN listed)
           /\ Lists(Rows, DOMAIN listed \cap filter)
           /\ Rows \in Seq(DOMAIN listed)
  <1>1. DOMAIN listed \subseteq Nat /\ IsFiniteSet(DOMAIN listed)
    BY IssuedIsNat, KnownAreFinite DEF JInv, ListSound
  <1>2. Lists(Rows, DOMAIN listed \cap filter)
    BY <1>1, RowsList DEF Rows
  <1>3. Rows \in Seq(DOMAIN listed)
    BY <1>2 DEF Lists
  <1>4. QED
    BY <1>1, <1>2, <1>3

\* refreshJobsRows leaves the cursor, the tags and the range on places of the
\* new rows, wherever it starts from.
LEMMA Refreshed ==
    ASSUME NEW key, NEW prev \in Nat, NEW tags, NEW from \in Nat, Refresh(key, prev, tags, from),
           DOMAIN listed' \subseteq Nat, IsFiniteSet(DOMAIN listed')
    PROVE  /\ cursor' \in Nat /\ anchor' \in Nat
           /\ tagged' \subseteq DOMAIN listed'
           /\ Rows' # <<>> => /\ cursor' \in DOMAIN Rows' /\ Rows'[cursor'] = cursorKey'
                              /\ visual' => anchor' \in DOMAIN Rows'
  <1>1. PICK rows : rows = RowsOf(listed', filter', sortMode', sortRev')
    OBVIOUS
  <1>2. Lists(rows, DOMAIN listed' \cap filter')
    BY <1>1, RowsList
  <1>3. rows \in Seq(DOMAIN listed' \cap filter')
    BY <1>2 DEF Lists
  <1>4. Rows' = rows
    BY <1>1 DEF Rows
  <1>5. /\ cursor' = Anchor(rows, key, prev).cursor /\ cursorKey' = Anchor(rows, key, prev).key
        /\ anchor' = IF visual' THEN Clamp(from, rows) ELSE 0
        /\ tagged' = tags \cap DOMAIN listed'
    BY <1>1 DEF Refresh, LiveTags
  <1>6. /\ cursor' \in Nat
        /\ rows # <<>> => cursor' \in DOMAIN rows /\ rows[cursor'] = cursorKey'
    BY <1>3, <1>5, AnchorPlaces
  <1>7. Clamp(from, rows) \in Nat /\ (rows # <<>> => Clamp(from, rows) \in DOMAIN rows)
    BY <1>3, Clamped
  <1>8. QED
    BY <1>4, <1>5, <1>6, <1>7

\* What an action takes are jobs of the list; with tags, the tagged ones.
LEMMA SelectionListed ==
    ASSUME JInv, view = "jobs"
    PROVE  /\ Selection \in Seq(DOMAIN listed)
           /\ tagged # {} => {Selection[i] : i \in DOMAIN Selection} = tagged
  <1>1. CASE tagged # {}
    <2> DEFINE s == AllJobsIn(tagged)
    <2>1. tagged \subseteq DOMAIN listed /\ copies \in Nat /\ copies > 0
      BY <1>1 DEF JInv, PlacesSound
    <2>2. tagged \in SUBSET Nat /\ IsFiniteSet(tagged) /\ DOMAIN listed \cap tagged = tagged
      BY <2>1, ListedRows, FS_Subset
    <2>3. Lists(s, tagged)
      BY <2>2, SortedLists DEF AllJobsIn
    <2> HIDE DEF s
    <2>4. s \in Seq(tagged) /\ \A j \in tagged : \E k \in DOMAIN s : s[k] = j
      BY <2>3 DEF Lists
    <2> DEFINE r == Repeated(s, copies)
    <2>5. r \in Seq(tagged)
      BY <2>1, <2>4, RepeatedNames
    <2>6. \A k \in DOMAIN s : \E i \in DOMAIN r : r[i] = s[k]
      BY <2>1, <2>4, RepeatedNames
    <2>7. Selection = r
      BY <1>1 DEF Selection, s
    <2> HIDE DEF r
    <2>8. {r[i] : i \in DOMAIN r} = tagged
      <3>1. \A i \in DOMAIN r : r[i] \in tagged
        BY <2>5
      <3>2. \A j \in tagged : \E i \in DOMAIN r : r[i] = j
        BY <2>4, <2>6
      <3>3. QED
        BY <3>1, <3>2
    <2>9. r \in Seq(DOMAIN listed)
      BY <2>1, <2>5
    <2>10. QED
      BY <2>7, <2>8, <2>9
  <1>2. CASE tagged = {}
    <2>1. Rows \in Seq(DOMAIN listed)
      BY ListedRows
    <2>2. ASSUME Rows # <<>>, visual PROVE Between(Rows, anchor, cursor) \in Seq(DOMAIN listed)
      <3>1. cursor \in DOMAIN Rows /\ anchor \in DOMAIN Rows
        BY <2>2 DEF JInv, PlacesSound
      <3>2. QED
        BY <2>1, <3>1, BetweenRows
    <2>3. ASSUME Rows # <<>> PROVE <<Rows[cursor]>> \in Seq(DOMAIN listed)
      <3>1. cursor \in DOMAIN Rows
        BY <2>3 DEF JInv, PlacesSound
      <3>2. Rows[cursor] \in DOMAIN listed
        BY <2>1, <3>1
      <3>3. QED
        BY <3>2
    <2>4. <<>> \in Seq(DOMAIN listed)
      OBVIOUS
    <2>5. QED
      BY <1>2, <2>2, <2>3, <2>4 DEF Selection
  <1>3. QED
    BY <1>1, <1>2

-----------------------------------------------------------------------------
(* The daemon, polls and views. *)

LEMMA JInit == Init => JInv
  <1> SUFFICES ASSUME Init PROVE JInv
    OBVIOUS
  <1>1. PICK states \in Begin : /\ jobs = [j \in DOMAIN states |-> [session |-> Default, state |-> states[j]]]
                                /\ nextID = Cardinality(DOMAIN states)
    BY DEF Init
  <1>0. handed = 0 /\ nodes = 0 /\ poll.nodes = 0
    BY DEF Init, NoPoll
  <1>2. PICK n \in 0..MaxJobs : states \in [0..(n - 1) -> JobState]
    BY JobsTableAssumption
  <1>3. n \in Nat /\ DOMAIN states = 0..(n - 1)
    BY <1>2, RegistryAssumption
  <1>4. Cardinality(0..(n - 1)) = n
    <2>1. 0 \in Int /\ n - 1 \in Int
      BY <1>3
    <2>2. Cardinality(0..(n - 1)) = IF 0 > n - 1 THEN 0 ELSE n - 1 - 0 + 1
      BY <2>1, FS_Interval
    <2>3. (IF 0 > n - 1 THEN 0 ELSE n - 1 - 0 + 1) = n
      BY <1>3
    <2>4. QED
      BY <2>2, <2>3
  <1>5. nextID = n /\ DOMAIN jobs = 0..(n - 1)
    BY <1>1, <1>3, <1>4
  <1>6. Shaped
    BY <1>1 DEF Shaped
  <1>7. listed = [j \in {} |-> "queued"] /\ poll.jobs = [j \in {} |-> "queued"]
    BY DEF Init, NoPoll
  <1>8. IDsKnown
    <2>1. IsFiniteSet(groups) /\ Default \in groups
      BY JobsTableAssumption DEF Init
    <2>2. QED
      BY <1>0, <1>3, <1>5, <2>1 DEF IDsKnown
  <1>9. ListSound(listed, nodes) /\ ListSound(poll.jobs, poll.nodes)
    BY <1>0, <1>7 DEF OverIs, ListSound
  <1>10. BatchSound
    BY DEF Init, BatchSound, Idle
  <1>11. Rows = <<>>
    <2>1. Lists(Rows, {})
      <3>1. DOMAIN listed = {}
        BY <1>7
      <3>2. QED
        BY <3>1, RowsList, FS_EmptySet DEF Rows
    <2>2. QED
      BY <2>1 DEF Lists
  <1>12. PlacesSound
    BY <1>7, <1>11 DEF Init, PlacesSound
  <1>13. QED
    BY <1>6, <1>8, <1>9, <1>10, <1>12 DEF JInv

LEMMA JElsewhere == ASSUME JInv, Elsewhere PROVE JInv'
  <1>1. Moved
    BY MovedElsewhere
  <1>2. UNCHANGED <<view, listed, nodes, copies, filter, sortMode, sortRev, cursor, cursorKey, visual, anchor,
                    tagged, confirm, batch, poll>>
    BY DEF Elsewhere, tui, table
  <1>3. PlacesSound'
    BY <1>2, PlacesStay
  <1>4. QED
    BY <1>1, <1>2, <1>3, OnlyPlaces

LEMMA JPoll == ASSUME JInv, Poll PROVE JInv'
  <1>1. Moved
    BY MovedByNone DEF Poll
  <1>2. UNCHANGED <<view, listed, nodes, copies, filter, sortMode, sortRev, cursor, cursorKey, visual, anchor,
                    tagged, confirm, batch>>
    BY DEF Poll, table
  <1>3. /\ DOMAIN poll'.jobs = DOMAIN jobs /\ \A j \in DOMAIN jobs : poll'.jobs[j] = jobs[j].state
        /\ poll'.nodes = Cardinality(groups)
    BY DEF Poll
  <1>4. jobs' = jobs /\ nextID' = nextID /\ handed' = handed
    BY DEF Poll, registry
  <1>5. ListSound(poll.jobs, poll.nodes)'
    <2>1. OverIs(poll.jobs)'
      BY <1>3, <1>4 DEF OverIs
    <2>2. DOMAIN poll'.jobs \subseteq 0..(Issued' - 1)
      <3>1. nextID \in Nat /\ Issued \in Nat /\ nextID <= Issued /\ Issued' = Issued
        BY <1>4, IssuedIsNat DEF JInv, IDsKnown, Issued
      <3>2. DOMAIN jobs \subseteq 0..(nextID - 1)
        BY DEF JInv, IDsKnown
      <3>3. QED
        BY <1>3, <3>1, <3>2
    <2>3. Cardinality(groups) \in Nat /\ Cardinality(groups) > 0
      <3>1. IsFiniteSet(groups) /\ groups # {}
        BY DEF JInv, IDsKnown
      <3>2. Cardinality(groups) \in Nat /\ Cardinality(groups) # 0
        BY <3>1, FS_CardinalityType, FS_EmptySet
      <3>3. QED
        BY <3>2
    <2>4. QED
      BY <1>3, <2>1, <2>2, <2>3 DEF ListSound
  <1>6. PlacesSound'
    BY <1>2, PlacesStay
  <1>7. BatchSound'
    BY <1>1, <1>2, BatchStays
  <1>8. UNCHANGED <<listed, nodes>>
    BY <1>2
  <1>9. QED
    BY <1>1, <1>5, <1>6, <1>7, <1>8, AllSound

LEMMA JDeliver == ASSUME JInv, Deliver PROVE JInv'
  <1>1. Moved
    BY MovedByNone DEF Deliver
  <1>2. /\ listed' = poll.jobs /\ nodes' = poll.nodes /\ poll' = NoPoll
        /\ UNCHANGED <<view, filter, sortMode, sortRev, visual, confirm, batch>>
        /\ jobs' = jobs /\ nextID' = nextID /\ handed' = handed
    BY DEF Deliver, registry
  <1>3. ListSound(listed, nodes)'
    <2>1. ListSound(poll.jobs, poll.nodes) /\ Issued' = Issued
      BY <1>2 DEF JInv, Issued
    <2>2. QED
      BY <1>2, <2>1 DEF ListSound, OverIs
  <1>4. ListSound(poll.jobs, poll.nodes)'
    BY <1>2 DEF ListSound, OverIs, NoPoll
  <1>5. DOMAIN listed' \subseteq Nat /\ IsFiniteSet(DOMAIN listed')
    <2>1. Issued \in Nat
      BY IssuedIsNat DEF JInv
    <2>2. DOMAIN poll.jobs \subseteq 0..(Issued - 1)
      BY DEF JInv, ListSound
    <2>3. QED
      BY <1>2, <2>1, <2>2, KnownAreFinite
  <1>6. PlacesSound'
    <2>1. CASE view = "jobs"
      <3>1. copies' = 1 /\ Refresh(cursorKey, cursor, tagged, anchor)
        BY <2>1 DEF Deliver
      <3>2. cursor \in Nat /\ anchor \in Nat
        BY DEF JInv, PlacesSound
      <3>3. /\ cursor' \in Nat /\ anchor' \in Nat
            /\ tagged' \subseteq DOMAIN listed'
            /\ Rows' # <<>> => /\ cursor' \in DOMAIN Rows' /\ Rows'[cursor'] = cursorKey'
                               /\ visual' => anchor' \in DOMAIN Rows'
        BY <1>5, <3>1, <3>2, Refreshed
      <3>4. QED
        BY <3>1, <3>3 DEF PlacesSound
    <2>2. CASE view # "jobs"
      BY <1>2, <2>2 DEF Deliver, JInv, PlacesSound
    <2>3. QED
      BY <2>1, <2>2
  <1>7. BatchSound'
    BY <1>1, <1>2, BatchStays
  <1>8. QED
    BY <1>1, <1>3, <1>4, <1>6, <1>7, AllSound

LEMMA JOpenJobsView == ASSUME JInv, OpenJobsView PROVE JInv'
  <1>1. Moved
    BY MovedByNone DEF OpenJobsView
  <1>2. UNCHANGED <<listed, nodes, poll, batch>> /\ confirm' = <<>> /\ view' = "jobs"
    BY DEF OpenJobsView
  <1>3. copies' \in Nat /\ (DOMAIN listed' # {} => copies' > 0)
    BY <1>2 DEF OpenJobsView, JInv, ListSound
  <1>4. DOMAIN listed' \subseteq Nat /\ IsFiniteSet(DOMAIN listed')
    BY <1>2, ListedRows
  <1>5. Refresh(None, 0, {}, 0)
    BY DEF OpenJobsView
  <1>6. /\ cursor' \in Nat /\ anchor' \in Nat
        /\ tagged' \subseteq DOMAIN listed'
        /\ Rows' # <<>> => /\ cursor' \in DOMAIN Rows' /\ Rows'[cursor'] = cursorKey'
                           /\ visual' => anchor' \in DOMAIN Rows'
    BY <1>4, <1>5, Refreshed
  <1>7. PlacesSound'
    BY <1>3, <1>6 DEF PlacesSound
  <1>8. BatchSound'
    <2>1. jobs' = jobs /\ handed' = handed /\ Issued' = Issued
      BY DEF OpenJobsView, registry, Issued
    <2>2. QED
      BY <1>2, <2>1 DEF JInv, BatchSound
  <1>9. UNCHANGED <<listed, nodes>> /\ UNCHANGED poll
    BY <1>2
  <1>10. QED
    BY <1>1, <1>7, <1>8, <1>9, AllSound

-----------------------------------------------------------------------------
(* Keys. *)

LEMMA JGoto == ASSUME JInv, Goto PROVE JInv'
  <1>1. Moved
    BY MovedByNone DEF Goto
  <1>2. UNCHANGED <<view, listed, nodes, copies, filter, sortMode, sortRev, visual, anchor, tagged, confirm, batch, poll>>
    BY DEF Goto
  <1>3. Rows' = Rows
    BY <1>2 DEF Rows
  <1>4. PICK i \in DOMAIN Rows : cursor' = i /\ cursorKey' = Rows[i]
    BY DEF Goto
  <1>5. i \in Nat
    BY ListedRows
  <1>6. PlacesSound'
    BY <1>2, <1>3, <1>4, <1>5 DEF JInv, PlacesSound
  <1>7. QED
    BY <1>1, <1>2, <1>6, OnlyPlaces

LEMMA JSpace == ASSUME JInv, Space PROVE JInv'
  <1>1. Moved
    BY MovedByNone DEF Space
  <1>2. UNCHANGED <<view, listed, nodes, copies, filter, sortMode, sortRev, visual, anchor, confirm, batch, poll>>
    BY DEF Space
  <1>3. Rows' = Rows
    BY <1>2 DEF Rows
  <1>4. view = "jobs" /\ Rows # <<>> /\ Rows \in Seq(DOMAIN listed)
    BY ListedRows DEF Space, InTable
  <1>5. cursor \in DOMAIN Rows /\ cursor + 1 \in Nat /\ tagged \subseteq DOMAIN listed
    BY <1>4 DEF JInv, PlacesSound
  <1>6. tagged' \subseteq DOMAIN listed
    <2>1. Rows[cursor] \in DOMAIN listed
      BY <1>4, <1>5
    <2>2. QED
      BY <1>5, <2>1 DEF Space
  <1>7. cursor' \in Nat /\ cursor' \in DOMAIN Rows /\ cursorKey' = Rows[cursor']
    <2>1. cursor' = Clamp(cursor + 1, Rows) /\ cursorKey' = Rows[cursor']
      BY DEF Space
    <2>2. QED
      BY <1>4, <1>5, <2>1, Clamped
  <1>8. PlacesSound'
    BY <1>2, <1>3, <1>6, <1>7 DEF JInv, PlacesSound
  <1>9. QED
    BY <1>1, <1>2, <1>8, OnlyPlaces

LEMMA JVisual == ASSUME JInv, Visual PROVE JInv'
  <1>1. Moved
    BY MovedByNone DEF Visual
  <1>2. UNCHANGED <<view, listed, nodes, copies, filter, sortMode, sortRev, cursor, cursorKey, tagged, confirm, batch, poll>>
    BY DEF Visual
  <1>3. Rows' = Rows
    BY <1>2 DEF Rows
  <1>4. \/ visual' = FALSE /\ anchor' = 0
        \/ Rows # <<>> /\ anchor' = cursor
    BY DEF Visual
  <1>5. PlacesSound'
    BY <1>2, <1>3, <1>4 DEF JInv, PlacesSound
  <1>6. QED
    BY <1>1, <1>2, <1>5, OnlyPlaces

LEMMA JEscape == ASSUME JInv, Escape PROVE JInv'
  <1>1. Moved
    BY MovedByNone DEF Escape
  <1>2. UNCHANGED <<listed, nodes, filter, confirm, batch, poll>> /\ visual' = FALSE /\ anchor' = 0
    BY DEF Escape
  <1>3. tagged' \subseteq tagged
    BY DEF Escape
  <1>4. PlacesSound'
    <2>1. CASE UNCHANGED <<view, copies, sortMode, sortRev, cursor, cursorKey>>
      <3>1. Rows' = Rows
        BY <1>2, <2>1 DEF Rows
      <3>2. QED
        BY <1>2, <1>3, <2>1, <3>1 DEF JInv, PlacesSound
    <2>2. CASE view' = "split" /\ copies' = 0 /\ cursor' = 0
      BY <1>2, <2>2 DEF PlacesSound
    <2>3. QED
      BY <2>1, <2>2 DEF Escape
  <1>5. QED
    BY <1>1, <1>2, <1>4, OnlyPlaces

LEMMA JArrange == ASSUME JInv, Arrange PROVE JInv'
  <1>1. Moved
    BY MovedByNone DEF Arrange
  <1>2. UNCHANGED <<view, listed, nodes, copies, visual, confirm, batch, poll>> /\ view = "jobs"
    BY DEF Arrange, InTable
  <1>3. DOMAIN listed' \subseteq Nat /\ IsFiniteSet(DOMAIN listed')
    BY <1>2, ListedRows
  <1>4. Refresh(cursorKey, cursor, tagged, anchor) /\ cursor \in Nat /\ anchor \in Nat
    BY DEF Arrange, JInv, PlacesSound
  <1>5. /\ cursor' \in Nat /\ anchor' \in Nat
        /\ tagged' \subseteq DOMAIN listed'
        /\ Rows' # <<>> => /\ cursor' \in DOMAIN Rows' /\ Rows'[cursor'] = cursorKey'
                           /\ visual' => anchor' \in DOMAIN Rows'
    BY <1>3, <1>4, Refreshed
  <1>6. PlacesSound'
    BY <1>2, <1>5 DEF JInv, PlacesSound
  <1>7. QED
    BY <1>1, <1>2, <1>6, OnlyPlaces

-----------------------------------------------------------------------------
(* Actions on the selection. *)

\* An action may begin with any IDs, unasked only with those of finished jobs.
LEMMA BatchBegins ==
    ASSUME JInv, Moved, NEW op, NEW asked, NEW ids, ids \in Seq(Nat), ids # <<>>,
           batch' = [op |-> op, asked |-> asked, ids |-> ids], confirm' \in Seq(Nat),
           op = "remove" /\ ~asked =>
              \A i \in DOMAIN ids : ids[i] \in DOMAIN listed /\ listed[ids[i]] = "finished"
    PROVE  BatchSound'
  <1>1. batch'.op = op /\ batch'.asked = asked /\ batch'.ids = ids
    OBVIOUS
  <1>2. batch' = [op |-> batch'.op, asked |-> batch'.asked, ids |-> batch'.ids]
    OBVIOUS
  <1>3. ASSUME op = "remove", ~asked, NEW i \in DOMAIN ids
        PROVE  /\ ids[i] \in 0..(Issued' - 1)
               /\ ids[i] >= handed' /\ ids[i] \in DOMAIN jobs' => jobs'[ids[i]].state = "finished"
    <2>1. PICK j : j = ids[i]
      OBVIOUS
    <2>2. j \in DOMAIN listed /\ listed[j] = "finished"
      BY <1>3, <2>1
    <2>3. j \in 0..(Issued - 1) /\ (j >= handed /\ j \in DOMAIN jobs => jobs[j].state = "finished")
      <3>1. j \in 0..(Issued - 1)
        BY <2>2 DEF JInv, ListSound
      <3>2. j \in Nat /\ handed \in Nat /\ (j >= handed => handed <= j)
        BY <3>1 DEF JInv, IDsKnown
      <3>3. QED
        BY <2>2, <3>1, <3>2 DEF JInv, ListSound, OverIs
    <2>4. QED
      BY <2>1, <2>3, StaysOverAlone
  <1>4. QED
    BY <1>1, <1>2, <1>3 DEF BatchSound

\* The table after an action: nothing is selected, and all else is as it was.
LEMMA Deselected ==
    ASSUME JInv, Deselect,
           UNCHANGED <<view, listed, copies, filter, sortMode, sortRev, cursor, cursorKey>>
    PROVE  PlacesSound'
  <1>1. Rows' = Rows
    BY DEF Rows
  <1>2. QED
    BY <1>1 DEF Deselect, JInv, PlacesSound

LEMMA JAct == ASSUME JInv, Act PROVE JInv'
  <1>1. Moved
    BY MovedByNone DEF Act
  <1>2. UNCHANGED <<view, listed, copies, filter, sortMode, sortRev, cursor, cursorKey>>
    BY DEF Act
  <1>3. UNCHANGED <<listed, nodes>> /\ UNCHANGED poll /\ confirm' = confirm
    BY DEF Act
  <1>4. PICK op \in {"kill", "rerun"} : Send(op, TRUE, Selection)
    BY DEF Act
  <1>5. view = "jobs" /\ Selection # <<>>
    BY DEF Act, InTable
  <1>6. Selection \in Seq(Nat)
    BY <1>5, SelectionListed, ListedRows
  <1>7. PICK ids : ids = Selection
    OBVIOUS
  <1>8. batch' = batch \/ batch' = [op |-> op, asked |-> TRUE, ids |-> ids]
    BY <1>4, <1>7 DEF Send
  <1>9. confirm' \in Seq(Nat)
    BY <1>3 DEF JInv, BatchSound
  <1>10. BatchSound'
    <2>1. CASE batch' = batch
      BY <1>1, <1>3, <2>1, BatchStays
    <2>2. CASE batch' = [op |-> op, asked |-> TRUE, ids |-> ids]
      BY <1>1, <1>5, <1>6, <1>7, <1>9, <2>2, BatchBegins
    <2>3. QED
      BY <1>8, <2>1, <2>2
  <1>11. PlacesSound'
    BY <1>2, Deselected DEF Act
  <1>12. QED
    BY <1>1, <1>3, <1>10, <1>11, AllSound

LEMMA JDelete == ASSUME JInv, Delete PROVE JInv'
  <1>1. Moved
    BY MovedByNone DEF Delete
  <1>2. UNCHANGED <<view, listed, copies, filter, sortMode, sortRev, cursor, cursorKey>>
    BY DEF Delete
  <1>3. UNCHANGED <<listed, nodes>> /\ UNCHANGED poll
    BY DEF Delete
  <1>4. PICK ids : ids = Selection
    OBVIOUS
  <1>5. view = "jobs" /\ ids # <<>>
    BY <1>4 DEF Delete, InTable
  <1>6. ids \in Seq(DOMAIN listed)
    BY <1>4, <1>5, SelectionListed
  <1>7. ids \in Seq(Nat)
    BY <1>6, ListedRows
  <1>8. BatchSound'
    <2>1. CASE Finished(Selection)
      <3>1. /\ batch' = batch \/ batch' = [op |-> "remove", asked |-> FALSE, ids |-> ids]
            /\ confirm' = confirm
        BY <1>4, <2>1 DEF Delete, Send
      <3>2. \A i \in DOMAIN ids : ids[i] \in DOMAIN listed /\ listed[ids[i]] = "finished"
        BY <1>4, <1>6, <2>1 DEF Finished
      <3>3. confirm' \in Seq(Nat)
        BY <3>1 DEF JInv, BatchSound
      <3>4. CASE batch' = batch
        BY <1>1, <3>1, <3>4, BatchStays
      <3>5. CASE batch' = [op |-> "remove", asked |-> FALSE, ids |-> ids]
        BY <1>1, <1>5, <1>7, <3>2, <3>3, <3>5, BatchBegins
      <3>6. QED
        BY <3>1, <3>4, <3>5
    <2>2. CASE ~Finished(Selection)
      <3>1. confirm' = ids /\ batch' = batch /\ jobs' = jobs /\ handed' = handed /\ Issued' = Issued
        BY <1>4, <2>2 DEF Delete, registry, Issued
      <3>2. QED
        BY <1>7, <3>1 DEF JInv, BatchSound
    <2>3. QED
      BY <2>1, <2>2
  <1>9. PlacesSound'
    BY <1>2, Deselected DEF Delete
  <1>10. QED
    BY <1>1, <1>3, <1>8, <1>9, AllSound

LEMMA JAnswer == ASSUME JInv, Answer PROVE JInv'
  <1>1. Moved
    BY MovedByNone DEF Answer
  <1>2. UNCHANGED <<view, listed, copies, filter, sortMode, sortRev, cursor, cursorKey, visual, anchor, tagged>>
    BY DEF Answer
  <1>3. UNCHANGED <<listed, nodes>> /\ UNCHANGED poll /\ confirm' = <<>>
    BY DEF Answer
  <1>4. BatchSound'
    <2>1. CASE batch = Idle /\ batch' = [op |-> "remove", asked |-> TRUE, ids |-> confirm]
      <3>1. PICK ids : ids = confirm
        OBVIOUS
      <3>2. batch' = [op |-> "remove", asked |-> TRUE, ids |-> ids]
        BY <2>1, <3>1
      <3>3. ids \in Seq(Nat) /\ ids # <<>> /\ confirm' \in Seq(Nat)
        BY <1>3, <3>1 DEF Answer, JInv, BatchSound
      <3>4. QED
        BY <1>1, <3>2, <3>3, BatchBegins
    <2>2. CASE UNCHANGED batch
      <3>1. jobs' = jobs /\ handed' = handed /\ Issued' = Issued
        BY DEF Answer, registry, Issued
      <3>2. QED
        BY <1>3, <2>2, <3>1 DEF JInv, BatchSound
    <2>3. QED
      BY <2>1, <2>2 DEF Answer, Send
  <1>5. PlacesSound'
    BY <1>2, PlacesStay
  <1>6. QED
    BY <1>1, <1>3, <1>4, <1>5, AllSound

\* What is left of the IDs were among them before.
LEMMA JBatchStep == ASSUME JInv, BatchStep PROVE JInv'
  <1>1. Moved
    BY MovedByBatch
  <1>2. UNCHANGED <<view, listed, copies, filter, sortMode, sortRev, cursor, cursorKey, visual, anchor, tagged>>
    BY DEF BatchStep, table
  <1>3. UNCHANGED <<listed, nodes>> /\ UNCHANGED poll /\ confirm' = confirm
    BY DEF BatchStep, table
  <1>4. PICK op, asked, ids : op = batch.op /\ asked = batch.asked /\ ids = batch.ids
    OBVIOUS
  <1>5. batch = [op |-> op, asked |-> asked, ids |-> ids] /\ ids \in Seq(Nat) /\ ids # <<>>
    BY <1>4 DEF JInv, BatchSound, BatchStep
  <1>6. BatchSound'
    <2>1. confirm' \in Seq(Nat)
      BY <1>3 DEF JInv, BatchSound
    <2>2. CASE Len(ids) = 1
      <3>1. batch' = Idle
        BY <1>4, <2>2 DEF BatchStep, RestOf
      <3>2. QED
        BY <2>1, <3>1 DEF BatchSound, Idle
    <2>3. CASE Len(ids) # 1
      <3>1. batch' = [op |-> op, asked |-> asked, ids |-> Tail(ids)]
        <4>1. PICK t : t = Tail(ids)
          OBVIOUS
        <4>2. [[op |-> op, asked |-> asked, ids |-> ids] EXCEPT !.ids = t]
                = [op |-> op, asked |-> asked, ids |-> t]
          OBVIOUS
        <4>3. batch' = [batch EXCEPT !.ids = t]
          BY <1>4, <2>3, <4>1 DEF BatchStep, RestOf
        <4>4. QED
          BY <1>5, <4>1, <4>2, <4>3
      <3>2. Tail(ids) \in Seq(Nat) /\ Tail(ids) # <<>>
        <4>1. Len(ids) \in Nat /\ Len(ids) # 0
          BY <1>5
        <4>2. Tail(ids) \in Seq(Nat) /\ Len(Tail(ids)) = Len(ids) - 1
          BY <1>5, HeadTailProperties
        <4>3. QED
          BY <2>3, <4>1, <4>2
      <3>3. ASSUME op = "remove", ~asked, NEW i \in DOMAIN Tail(ids)
            PROVE  /\ Tail(ids)[i] \in 0..(Issued' - 1)
                   /\ Tail(ids)[i] >= handed' /\ Tail(ids)[i] \in DOMAIN jobs'
                         => jobs'[Tail(ids)[i]].state = "finished"
        <4>1. i + 1 \in DOMAIN ids /\ Tail(ids)[i] = ids[i + 1]
          BY <1>5, <3>2, HeadTailProperties
        <4>2. PICK j : j = ids[i + 1]
          OBVIOUS
        <4>3. j \in 0..(Issued - 1) /\ (j >= handed /\ j \in DOMAIN jobs => jobs[j].state = "finished")
          BY <1>4, <3>3, <4>1, <4>2 DEF JInv, BatchSound
        <4>4. QED
          BY <1>1, <4>1, <4>2, <4>3, StaysOverAlone
      <3>4. batch'.op = op /\ batch'.asked = asked /\ batch'.ids = Tail(ids)
        BY <3>1
      <3>5. QED
        BY <2>1, <3>1, <3>2, <3>3, <3>4 DEF BatchSound
    <2>4. QED
      BY <2>2, <2>3
  <1>7. PlacesSound'
    BY <1>2, PlacesStay
  <1>8. QED
    BY <1>1, <1>3, <1>6, <1>7, AllSound

LEMMA JBatchFails == ASSUME JInv, BatchFails PROVE JInv'
  <1>1. Moved
    BY MovedByNone DEF BatchFails
  <1>2. UNCHANGED <<view, listed, copies, filter, sortMode, sortRev, cursor, cursorKey, visual, anchor, tagged>>
    BY DEF BatchFails, table
  <1>3. UNCHANGED <<listed, nodes>> /\ UNCHANGED poll /\ confirm' = confirm /\ batch' = Idle
    BY DEF BatchFails, table
  <1>4. BatchSound'
    BY <1>3 DEF JInv, BatchSound, Idle
  <1>5. PlacesSound'
    BY <1>2, PlacesStay
  <1>6. QED
    BY <1>1, <1>3, <1>4, <1>5, AllSound

LEMMA JStutter == ASSUME JInv, UNCHANGED vars PROVE JInv'
  <1>1. UNCHANGED <<registry, handed>> /\ UNCHANGED <<view, listed, nodes, copies, filter, sortMode, sortRev, cursor, cursorKey,
                                         visual, anchor, tagged, poll, batch, confirm>>
    BY DEF vars, tui, table
  <1>2. Moved
    BY <1>1, MovedByNone
  <1>3. PlacesSound'
    BY <1>1, PlacesStay
  <1>4. QED
    BY <1>1, <1>2, <1>3, OnlyPlaces

LEMMA JStep == ASSUME JInv, [Next]_vars PROVE JInv'
  BY JElsewhere, JPoll, JDeliver, JOpenJobsView, JGoto, JSpace, JVisual, JEscape, JArrange,
     JAct, JDelete, JAnswer, JBatchStep, JBatchFails, JStutter DEF Next

-----------------------------------------------------------------------------
(* The theorems. *)

\* JInv is inductive.
THEOREM Invariance == Spec => []JInv
  BY JInit, JStep, PTL DEF Spec

\* Every tag names a job of the list and the cursor is on the row whose job it
\* remembers, however many jobs there are, whatever the filter and the order,
\* and whenever polls come (jobs.go:253-300, jobs_keys.go:426-427).
THEOREM TableIsSound == Spec => []SelectionSound
  <1>1. JInv => SelectionSound
    BY DEF JInv, PlacesSound, SelectionSound
  <1>2. QED
    BY <1>1, Invariance, PTL

\* What is removed without a prompt is finished or gone when the daemon is
\* asked, though the list it was chosen from may be any number of changes old,
\* as long as no reset has freed its ID: a finished job stays finished, and its
\* ID names no other (actionAllFinished, jobs_keys.go:463-478).
THEOREM NothingUnaskedIsLost == Spec => []UnaskedIsOver
  <1>1. JInv => UnaskedIsOver
    BY DEF JInv, BatchSound, UnaskedIsOver
  <1>2. QED
    BY <1>1, Invariance, PTL

\* With tags an action takes the tagged jobs, all of them and no other, in
\* whatever rows they are or are not; a prompt is about those, and a yes to it
\* sends them and nothing else (jobsActionIDs, jobs_keys.go:423-436).
THEOREM TagsAreTaken == Spec => TagsDecide
  <1> DEFINE Sent == batch = Idle /\ batch' # Idle
             P == /\ Sent /\ confirm = <<>> /\ tagged # {} => Names(batch'.ids) = tagged
                  /\ confirm = <<>> /\ confirm' # <<>> /\ tagged # {} => Names(confirm') = tagged
                  /\ Sent /\ confirm # <<>>
                       => batch' = [op |-> "remove", asked |-> TRUE, ids |-> confirm]
  <1>1. ASSUME JInv, Next, Sent, confirm = <<>>, tagged # {} PROVE Names(batch'.ids) = tagged
    <2>1. Act \/ Delete
      BY <1>1 DEF Next, Elsewhere, Poll, Deliver, OpenJobsView, Goto, Space, Visual, Escape, Arrange,
                  Answer, BatchStep, BatchFails, tui
    <2>2. batch'.ids = Selection /\ view = "jobs"
      BY <1>1, <2>1 DEF Act, Delete, Send, InTable
    <2>3. QED
      BY <1>1, <2>2, SelectionListed DEF Names
  <1>2. ASSUME JInv, Next, confirm = <<>>, confirm' # <<>>, tagged # {} PROVE Names(confirm') = tagged
    <2>1. Delete
      BY <1>2 DEF Next, Elsewhere, Poll, Deliver, OpenJobsView, Goto, Space, Visual, Escape, Arrange,
                  Act, Answer, BatchStep, BatchFails, tui, table
    <2>2. confirm' = Selection /\ view = "jobs"
      BY <1>2, <2>1 DEF Delete, InTable
    <2>3. QED
      BY <1>2, <2>2, SelectionListed DEF Names
  <1>3. ASSUME Next, Sent, confirm # <<>>
        PROVE  batch' = [op |-> "remove", asked |-> TRUE, ids |-> confirm]
    <2>1. Answer
      BY <1>3 DEF Next, Elsewhere, Poll, Deliver, OpenJobsView, Goto, Space, Visual, Escape, Arrange,
                  Act, Delete, InTable, BatchStep, BatchFails, tui
    <2>2. QED
      BY <1>3, <2>1 DEF Answer, Send
  <1>4. JInv /\ [Next]_vars => [P]_vars
    BY <1>1, <1>2, <1>3
  <1>5. QED
    BY <1>4, Invariance, PTL DEF Spec, TagsDecide

\* A refresh takes the cursor off its job only when the row is gone
\* (anchorMgmtCursor, jobs.go:261-263).
THEOREM CursorStays == Spec => CursorFollows
  <1>1. ASSUME Next, listed' # listed, view = "jobs",
               SeqExt!Contains(RowsOf(listed', filter', sortMode', sortRev'), cursorKey)
        PROVE  cursorKey' = cursorKey
    <2>1. Deliver
      BY <1>1 DEF Next, Elsewhere, Poll, OpenJobsView, Goto, Space, Visual, Escape, Arrange,
                  Act, Delete, Answer, BatchStep, BatchFails, tui
    <2>2. Refresh(cursorKey, cursor, tagged, anchor)
      BY <1>1, <2>1 DEF Deliver
    <2>3. QED
      BY <1>1, <2>2 DEF Refresh, Anchor
  <1>2. [Next]_vars =>
          [listed' # listed /\ view = "jobs"
             /\ SeqExt!Contains(RowsOf(listed', filter', sortMode', sortRev'), cursorKey)
             => cursorKey' = cursorKey]_vars
    BY <1>1
  <1>3. QED
    BY <1>2, PTL DEF Spec, CursorFollows

=============================================================================
