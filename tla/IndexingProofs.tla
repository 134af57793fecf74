--------------------------- MODULE IndexingProofs --------------------------
(***************************************************************************)
(* Proofs about the initial scan of a table, for every token ring, every   *)
(* set of rows, every concurrency and every number of failures: a scan     *)
(* that is reported as done has sent every row it could read through the   *)
(* pipeline, and the lengths of its ranges add up to all tokens.  And      *)
(* about the routing of requests, for every table, set of indexes and      *)
(* requests: one is refused only when no index could have answered it.     *)
(* And about the full-text index, for every sequence of row changes and    *)
(* every query: what was finished is found and counted.  And about the     *)
(* bytes and vectors of a table, for every size of their parts: they are   *)
(* read back as a store of rows.                                           *)
(***************************************************************************)
EXTENDS FullScan, Requests, FtsIndex, Storage, FiniteSetTheorems, InductionLemmas, TLAPS

-----------------------------------------------------------------------------
(* Ranges                                                                   *)

\* The tokens that a range of a ring contains.
TokensOf(r, i) == FullscanRanges(r)[i][1] .. FullscanRanges(r)[i][2]

\* The beginning of a range.
First(r, i) == IF i = 1 THEN TOKEN_MIN ELSE r[i - 1]

\* The ring has the lowest token itself: the range before it is all tokens.
Repeated(r, i) == i <= Len(r) /\ r[i] = TOKEN_MIN

Tokens == TOKEN_MIN .. TOKEN_MAX

\* The ranges begin in the order of the ring.
LEMMA Begins ==
    ASSUME NEW r \in Rings
    PROVE  /\ Len(r) \in Nat /\ DOMAIN r = 1..Len(r)
           /\ \A i \in 1..(Len(r) + 1) : First(r, i) \in Tokens
           /\ \A i, j \in 1..(Len(r) + 1) : i <= j => First(r, i) <= First(r, j)
<1>1. /\ r \in Seq(Tokens) /\ TOKEN_MAX \in Nat
      /\ \A i, j \in DOMAIN r : i <= j => r[i] <= r[j]
  BY FullScanAssumption DEF Tokens, TOKEN_MIN
<1>2. Len(r) \in Nat /\ DOMAIN r = 1..Len(r) /\ \A i \in 1..Len(r) : r[i] \in Tokens
  BY <1>1
<1>3. ASSUME NEW i \in 1..(Len(r) + 1) PROVE First(r, i) \in Tokens
  <2>1. CASE i = 1
    BY <1>1, <2>1 DEF First, Tokens, TOKEN_MIN
  <2>2. CASE i # 1
    <3>1. i - 1 \in 1..Len(r)
      BY <1>2, <2>2
    <3> QED
      BY <1>2, <2>2, <3>1 DEF First
  <2> QED
    BY <2>1, <2>2
<1>4. ASSUME NEW i \in 1..(Len(r) + 1), NEW j \in 1..(Len(r) + 1), i <= j
      PROVE  First(r, i) <= First(r, j)
  <2>1. CASE i = 1
    <3>1. First(r, i) = TOKEN_MIN
      BY <2>1 DEF First
    <3> QED
      BY <1>1, <1>3, <3>1 DEF Tokens, TOKEN_MIN
  <2>2. CASE i # 1
    <3>1. i - 1 \in 1..Len(r) /\ j - 1 \in 1..Len(r) /\ i - 1 <= j - 1 /\ j # 1
      BY <1>2, <1>4, <2>2
    <3> QED
      BY <1>1, <1>2, <2>2, <3>1 DEF First
  <2> QED
    BY <2>1, <2>2
<1> QED
  BY <1>2, <1>3, <1>4

\* A range ends before the next begins; the last one, and one before the lowest
\* token, end with the highest token (Token::new of the token below the lowest).
LEMMA Ends ==
    ASSUME NEW r \in Rings
    PROVE  /\ Len(FullscanRanges(r)) = Len(r) + 1
           /\ \A i \in 1..(Len(r) + 1) :
                 /\ FullscanRanges(r)[i][1] = First(r, i)
                 /\ FullscanRanges(r)[i][2] =
                       IF i > Len(r) \/ Repeated(r, i) THEN TOKEN_MAX ELSE First(r, i + 1) - 1
<1> DEFINE tokens == <<TOKEN_MIN>> \o r
           N == Len(r) + 1
<1>1. /\ r \in Seq(Tokens) /\ TOKEN_MAX \in Nat /\ TOKEN_MIN \in Tokens
  BY FullScanAssumption DEF Tokens, TOKEN_MIN
<1>2. /\ Len(r) \in Nat /\ Len(tokens) = N /\ DOMAIN tokens = 1..N
      /\ \A i \in 1..N : tokens[i] = First(r, i)
  BY <1>1 DEF First
<1> HIDE DEF tokens
<1>3. /\ DOMAIN FullscanRanges(r) = 1..N
      /\ \A i \in 1..N : FullscanRanges(r)[i] = RangeOf(tokens[i], tokens[(i % N) + 1])
  BY <1>2 DEF FullscanRanges, tokens
<1>4. Len(FullscanRanges(r)) = N
  <2> DEFINE F(i) == RangeOf(tokens[i], tokens[(i % N) + 1])
  <2>1. FullscanRanges(r) = [i \in 1..N |-> F(i)]
    BY <1>2 DEF FullscanRanges, tokens
  <2> HIDE DEF F
  <2> QED
    BY <1>2, <2>1
<1>5. ASSUME NEW i \in 1..N
      PROVE  /\ FullscanRanges(r)[i][1] = First(r, i)
             /\ FullscanRanges(r)[i][2] =
                   IF i > Len(r) \/ Repeated(r, i) THEN TOKEN_MAX ELSE First(r, i + 1) - 1
  <2>1. CASE i > Len(r)
    <3>1. i = N /\ i % N = 0 /\ 1 \in 1..N
      BY <1>2, <2>1
    <3>2. FullscanRanges(r)[i] = RangeOf(First(r, i), TOKEN_MIN)
      BY <1>2, <1>3, <3>1 DEF First
    <3>3. First(r, i) \in Tokens
      BY Begins
    <3> QED
      BY <1>1, <2>1, <3>2, <3>3 DEF RangeOf, TokenNew, Tokens, TOKEN_MIN
  <2>2. CASE i <= Len(r)
    <3>1. i % N = i /\ i + 1 \in 1..N /\ i + 1 # 1 /\ (i + 1) - 1 = i
      BY <1>2, <2>2
    <3>2. FullscanRanges(r)[i] = RangeOf(First(r, i), First(r, i + 1))
      BY <1>2, <1>3, <3>1
    <3>3. First(r, i) \in Tokens /\ First(r, i + 1) \in Tokens /\ First(r, i) <= First(r, i + 1)
      BY <3>1, <1>2, Begins
    <3>4. Repeated(r, i) <=> First(r, i + 1) = TOKEN_MIN
      BY <2>2, <3>1 DEF Repeated, First
    <3>5. ~(i > Len(r))
      BY <1>2, <2>2
    <3>6. /\ FullscanRanges(r)[i][1] = First(r, i)
          /\ FullscanRanges(r)[i][2] = TokenNew(First(r, i + 1) - 1)
      BY <3>2, <3>3 DEF RangeOf, Tokens, TOKEN_MIN
    <3>7. CASE Repeated(r, i)
      BY <1>1, <3>4, <3>5, <3>6, <3>7 DEF TokenNew, TOKEN_MIN
    <3>8. CASE ~Repeated(r, i)
      BY <1>1, <3>3, <3>4, <3>5, <3>6, <3>8 DEF TokenNew, Tokens, TOKEN_MIN
    <3> QED
      BY <3>7, <3>8
  <2> QED
    BY <1>2, <2>1, <2>2
<1> QED
  BY <1>4, <1>5

\* The length of a range is the number of its tokens.
LEMMA Lengths ==
    ASSUME NEW r \in Rings, NEW i \in 1..(Len(r) + 1)
    PROVE  /\ FullscanRanges(r)[i][1] \in Int /\ FullscanRanges(r)[i][2] \in Int
           /\ TokensOf(r, i) \subseteq Tokens /\ IsFiniteSet(TokensOf(r, i))
           /\ RangeLength(FullscanRanges(r)[i]) = Cardinality(TokensOf(r, i))
<1> DEFINE first == FullscanRanges(r)[i][1]
           last == FullscanRanges(r)[i][2]
<1>1. TOKEN_MAX \in Nat /\ Len(r) \in Nat /\ First(r, i) \in Tokens
  BY FullScanAssumption, Begins
<1>2. first = First(r, i)
  BY Ends
<1>3. last \in Int /\ last <= TOKEN_MAX /\ first <= last + 1
  <2>1. CASE i > Len(r) \/ Repeated(r, i)
    <3>1. last = TOKEN_MAX
      BY <2>1, Ends
    <3> QED
      BY <1>1, <1>2, <3>1 DEF Tokens, TOKEN_MIN
  <2>2. CASE ~(i > Len(r) \/ Repeated(r, i))
    <3>1. last = First(r, i + 1) - 1
      BY <2>2, Ends
    <3>2. i + 1 \in 1..(Len(r) + 1) /\ i <= i + 1
      BY <1>1, <2>2
    <3>3. First(r, i + 1) \in Tokens /\ First(r, i) <= First(r, i + 1)
      BY <3>2, Begins
    <3> QED
      BY <1>1, <1>2, <3>1, <3>3 DEF Tokens, TOKEN_MIN
  <2> QED
    BY <2>1, <2>2
<1>4. first \in Int /\ TOKEN_MIN <= first
  BY <1>1, <1>2 DEF Tokens, TOKEN_MIN
<1>5. TokensOf(r, i) = first..last
  BY DEF TokensOf
<1>6. RangeLength(FullscanRanges(r)[i]) =
          LET d == last - (first - 1) IN IF d < 0 THEN -d ELSE d
  BY DEF RangeLength
<1>0. FullscanRanges(r)[i][1] \in Int /\ FullscanRanges(r)[i][2] \in Int
  BY <1>3, <1>4
<1> HIDE DEF first, last
<1>7. RangeLength(FullscanRanges(r)[i]) = last - first + 1
  BY <1>3, <1>4, <1>6
<1>8. /\ IsFiniteSet(first..last)
      /\ Cardinality(first..last) = IF first > last THEN 0 ELSE last - first + 1
  BY <1>3, <1>4, FS_Interval
<1>9. Cardinality(first..last) = last - first + 1
  BY <1>3, <1>4, <1>8
<1>10. first..last \subseteq Tokens
  BY <1>1, <1>3, <1>4 DEF Tokens, TOKEN_MIN
<1> QED
  BY <1>0, <1>5, <1>7, <1>8, <1>9, <1>10

\* The range before the lowest token is all tokens.
LEMMA RepeatedIsAll ==
    ASSUME NEW r \in Rings, NEW i \in 1..(Len(r) + 1), Repeated(r, i)
    PROVE  TokensOf(r, i) = Tokens
<1>1. TOKEN_MAX \in Nat /\ Len(r) \in Nat
  BY FullScanAssumption, Begins
<1>2. i + 1 \in 1..(Len(r) + 1) /\ i <= i + 1 /\ First(r, i + 1) = TOKEN_MIN
  BY <1>1 DEF Repeated, First
<1>3. First(r, i) \in Tokens /\ First(r, i) <= TOKEN_MIN
  BY <1>2, Begins
<1>4. First(r, i) = TOKEN_MIN
  BY <1>1, <1>3 DEF Tokens, TOKEN_MIN
<1> QED
  BY <1>4, Ends DEF TokensOf, Tokens

\* The other ranges have no token in common.
LEMMA RangesApart ==
    ASSUME NEW r \in Rings, NEW i \in 1..(Len(r) + 1), NEW j \in 1..(Len(r) + 1),
           i # j, ~Repeated(r, i), ~Repeated(r, j)
    PROVE  TokensOf(r, i) \cap TokensOf(r, j) = {}
<1>1. TOKEN_MAX \in Nat /\ Len(r) \in Nat
  BY FullScanAssumption, Begins
<1>2. ASSUME NEW a \in 1..(Len(r) + 1), NEW b \in 1..(Len(r) + 1), a < b, ~Repeated(r, a)
      PROVE  TokensOf(r, a) \cap TokensOf(r, b) = {}
  <2>1. a + 1 \in 1..(Len(r) + 1) /\ a + 1 <= b /\ ~(a > Len(r))
    BY <1>1, <1>2
  <2>2. /\ First(r, a) \in Tokens /\ First(r, a + 1) \in Tokens /\ First(r, b) \in Tokens
        /\ First(r, a + 1) <= First(r, b)
    BY <2>1, Begins
  <2>3. FullscanRanges(r)[a][2] = First(r, a + 1) - 1 /\ FullscanRanges(r)[b][1] = First(r, b)
    BY <1>2, <2>1, Ends
  <2>4. ASSUME NEW t \in TokensOf(r, a), t \in TokensOf(r, b) PROVE FALSE
    <3>1. t \in Int /\ t <= First(r, a + 1) - 1 /\ First(r, b) <= t
      BY <2>3, <2>4, Lengths DEF TokensOf, Tokens
    <3> QED
      BY <1>1, <2>2, <3>1 DEF Tokens, TOKEN_MIN
  <2> QED
    BY <2>4
<1> QED
  BY <1>1, <1>2

\* Every token is in one of them.
LEMMA RangesCover ==
    ASSUME NEW r \in Rings, NEW t \in Tokens
    PROVE  \E i \in 1..(Len(r) + 1) : ~Repeated(r, i) /\ t \in TokensOf(r, i)
<1> DEFINE N == Len(r) + 1
           T == {i \in 1..N : First(r, i) <= t}
<1>1. TOKEN_MAX \in Nat /\ Len(r) \in Nat /\ TOKEN_MIN <= t /\ t <= TOKEN_MAX /\ t \in Int
  BY FullScanAssumption, Begins DEF Tokens, TOKEN_MIN
<1>2. N \in Nat /\ T \subseteq 0..N /\ 1 \in T
  BY <1>1 DEF First
<1> HIDE DEF T
<1>3. PICK i \in T : \A j \in T : i >= j
  BY <1>2, LargestNat
<1>4. i \in 1..N /\ First(r, i) <= t
  BY DEF T
<1>5. CASE i > Len(r)
  <2>1. FullscanRanges(r)[i][1] = First(r, i) /\ FullscanRanges(r)[i][2] = TOKEN_MAX
    BY <1>4, <1>5, Ends
  <2>2. ~Repeated(r, i) /\ First(r, i) \in Tokens
    BY <1>1, <1>4, <1>5, Begins DEF Repeated
  <2> QED
    BY <1>1, <1>4, <2>1, <2>2 DEF TokensOf, Tokens, TOKEN_MIN
<1>6. CASE ~(i > Len(r))
  <2>1. i + 1 \in 1..N /\ ~(i >= i + 1)
    BY <1>1, <1>4, <1>6
  <2>2. ~(First(r, i + 1) <= t) /\ First(r, i + 1) \in Tokens /\ First(r, i) \in Tokens
    BY <1>3, <1>4, <2>1, Begins DEF T
  <2>3. ~Repeated(r, i)
    BY <1>1, <1>4, <2>2 DEF Repeated, First
  <2>4. FullscanRanges(r)[i][1] = First(r, i) /\ FullscanRanges(r)[i][2] = First(r, i + 1) - 1
    BY <1>4, <1>6, <2>3, Ends
  <2> QED
    BY <1>1, <1>4, <2>2, <2>3, <2>4 DEF TokensOf, Tokens, TOKEN_MIN
<1> QED
  BY <1>5, <1>6

-----------------------------------------------------------------------------
(* The scan                                                                 *)

RangeTypes ==
    [state : {"sending", "draining", "done"}, rows : SUBSET Rows, guards : SUBSET Rows]

ScanTypes ==
    /\ ring \in Rings
    /\ ranges \in Seq(RangeTypes) /\ nextRange = Len(ranges) + 1
    /\ nextRange <= Len(ring) + 2
    /\ completed \in Nat /\ indexed \subseteq Rows /\ lost \subseteq Rows

RowsOf(i) == {r \in Rows : r.token \in TokensOf(ring, i)}

\* A row of a range that was opened is still to be sent, with the pipeline,
\* indexed or lost; a range that drains has none to send, one that is done none
\* with the pipeline.
RowsKept ==
    \A i \in DOMAIN ranges :
        /\ RowsOf(i) \subseteq ranges[i].rows \cup ranges[i].guards \cup indexed \cup lost
        /\ ranges[i].state # "sending" => ranges[i].rows = {}
        /\ ranges[i].state = "done" => ranges[i].guards = {}

DoneRanges == {i \in DOMAIN ranges : ranges[i].state = "done"}
Scanned == UNION {TokensOf(ring, i) : i \in DoneRanges}

\* Unless a range is all tokens a second time, completed_scan_length is the
\* number of the tokens that were scanned, and has not wrapped around.
LengthsCounted ==
    (\A i \in DoneRanges : ~Repeated(ring, i)) => completed = Cardinality(Scanned)

FinishedAll ==
    scan = "finished" => nextRange > Len(ring) + 1 /\ DoneRanges = DOMAIN ranges

ScanInv == ScanTypes /\ RowsKept /\ LengthsCounted /\ FinishedAll

\* The ranges that were opened are ranges of the ring.
LEMMA Opened ==
    ASSUME ScanTypes
    PROVE  /\ DOMAIN ranges \subseteq 1..(Len(ring) + 1) /\ DOMAIN ranges = 1..Len(ranges)
           /\ Len(ring) \in Nat /\ Len(ranges) \in Nat
           /\ \A i \in DOMAIN ranges : ranges[i] \in RangeTypes
BY Begins DEF ScanTypes

\* What was scanned are tokens, finitely many.
LEMMA ScannedTokens ==
    ASSUME ScanTypes
    PROVE  /\ Scanned \subseteq Tokens /\ IsFiniteSet(Scanned) /\ IsFiniteSet(Tokens)
           /\ Cardinality(Tokens) = Modulus - 1
           /\ Cardinality(Scanned) \in Nat /\ Cardinality(Scanned) <= Modulus - 1
           /\ Cardinality(Scanned) = Modulus - 1 => Scanned = Tokens
<1>1. TOKEN_MAX \in Nat
  BY FullScanAssumption
<1>2. \A i \in DoneRanges : TokensOf(ring, i) \subseteq Tokens
  BY Opened, Lengths DEF DoneRanges, ScanTypes
<1>3. Scanned \subseteq Tokens
  BY <1>2 DEF Scanned
<1>4. IsFiniteSet(Tokens) /\ Cardinality(Tokens) = Modulus - 1
  <2>1. TOKEN_MIN \in Int /\ ~(TOKEN_MIN > TOKEN_MAX)
    BY <1>1 DEF TOKEN_MIN
  <2>2. IsFiniteSet(Tokens) /\ Cardinality(Tokens) = TOKEN_MAX - TOKEN_MIN + 1
    BY <1>1, <2>1, FS_Interval DEF Tokens
  <2> QED
    BY <1>1, <2>2 DEF TOKEN_MIN, Modulus
<1>5. /\ IsFiniteSet(Scanned) /\ Cardinality(Scanned) <= Cardinality(Tokens)
      /\ Cardinality(Tokens) = Cardinality(Scanned) => Tokens = Scanned
  BY <1>3, <1>4, FS_Subset
<1>6. Cardinality(Scanned) \in Nat
  BY <1>5, FS_CardinalityType
<1> QED
  BY <1>3, <1>4, <1>5, <1>6

\* At the start no range is open.
LEMMA ScanInitInv == ScanInit => ScanInv
<1> SUFFICES ASSUME ScanInit PROVE ScanInv
  OBVIOUS
<1> USE DEF ScanInit
<1>1. ScanTypes
  BY Begins DEF ScanTypes
<1>2. DOMAIN ranges = {} /\ DoneRanges = {}
  BY DEF DoneRanges
<1>3. Scanned = {}
  BY <1>2 DEF Scanned
<1> QED
  BY <1>1, <1>2, <1>3, FS_EmptySet DEF ScanInv, RowsKept, LengthsCounted, FinishedAll

\* A step that changes no range and neither loses an indexed row nor changes the
\* count keeps the invariant.
LEMMA RangesRest ==
    ASSUME ScanInv, UNCHANGED <<ring, nextRange, ranges, indexed, lost, completed>>,
           scan' = "finished" => nextRange > Len(ring) + 1 /\ DoneRanges = DOMAIN ranges
    PROVE  ScanInv'
<1>1. ScanTypes'
  BY DEF ScanInv, ScanTypes
<1>2. DoneRanges' = DoneRanges
  BY DEF DoneRanges
<1>3. Scanned' = Scanned
  BY <1>2 DEF Scanned
<1>4. RowsKept'
  BY DEF ScanInv, RowsKept, RowsOf
<1> QED
  BY <1>1, <1>2, <1>3, <1>4 DEF ScanInv, LengthsCounted, FinishedAll

\* Neither does a step that changes one range, which is not done before and
\* after, and keeps track of its rows.
LEMMA RangeChanges ==
    ASSUME ScanInv, NEW i \in DOMAIN ranges, NEW new \in RangeTypes,
           ranges' = [ranges EXCEPT ![i] = new],
           new.state # "done", ranges[i].state # "done", new.state # "sending" => new.rows = {},
           ranges[i].rows \cup ranges[i].guards \cup indexed \cup lost
               \subseteq new.rows \cup new.guards \cup indexed' \cup lost',
           indexed \subseteq indexed', lost \subseteq lost',
           indexed' \subseteq Rows, lost' \subseteq Rows,
           UNCHANGED <<ring, nextRange, completed, scan>>
    PROVE  ScanInv'
<1>1. /\ ranges' \in Seq(RangeTypes) /\ Len(ranges') = Len(ranges) /\ DOMAIN ranges' = DOMAIN ranges
      /\ ranges'[i] = new /\ \A j \in DOMAIN ranges : j # i => ranges'[j] = ranges[j]
  BY DEF ScanInv, ScanTypes
<1>2. ScanTypes'
  BY <1>1 DEF ScanInv, ScanTypes
<1>3. DoneRanges' = DoneRanges
  BY <1>1 DEF DoneRanges
<1>4. Scanned' = Scanned
  BY <1>3 DEF Scanned
<1>5. RowsKept'
  <2> SUFFICES ASSUME NEW j \in DOMAIN ranges
               PROVE  /\ RowsOf(j) \subseteq
                             ranges'[j].rows \cup ranges'[j].guards \cup indexed' \cup lost'
                      /\ ranges'[j].state # "sending" => ranges'[j].rows = {}
                      /\ ranges'[j].state = "done" => ranges'[j].guards = {}
    BY <1>1 DEF RowsKept, RowsOf
  <2>1. CASE j = i
    BY <1>1, <2>1 DEF ScanInv, RowsKept
  <2>2. CASE j # i
    BY <1>1, <2>2 DEF ScanInv, RowsKept
  <2> QED
    BY <2>1, <2>2
<1> QED
  BY <1>1, <1>2, <1>3, <1>4, <1>5 DEF ScanInv, LengthsCounted, FinishedAll

\* A range is opened with all the rows that have its tokens.
LEMMA OpenRangeInv ==
    ASSUME ScanInv, OpenRange
    PROVE  ScanInv'
<1> DEFINE N == Len(ring) + 1
           n == Len(ranges) + 1
           range == FullscanRanges(ring)[nextRange]
           new == [state |-> "sending", guards |-> {},
                   rows |-> {r \in Rows : r.token >= range[1] /\ r.token <= range[2]}]
<1>1. /\ ring \in Rings /\ ranges \in Seq(RangeTypes) /\ nextRange = n /\ completed \in Nat
      /\ Len(ring) \in Nat /\ Len(ranges) \in Nat
  BY Opened DEF ScanInv, ScanTypes
<1>2. /\ ranges' = Append(ranges, new) /\ nextRange' = nextRange + 1
      /\ nextRange <= Len(FullscanRanges(ring)) /\ scan = "scanning"
      /\ UNCHANGED <<ring, indexed, lost, completed, scan>>
  BY DEF OpenRange
<1>3. new \in RangeTypes
  BY DEF RangeTypes
<1>4. n \in 1..N
  BY <1>1, <1>2, Ends
<1>5. new.state = "sending" /\ RowsOf(n) \subseteq new.rows
  <2>1. TokensOf(ring, n) = range[1]..range[2]
    BY <1>1 DEF TokensOf
  <2> QED
    BY <1>1, <1>4, <2>1, Lengths DEF RowsOf
<1> HIDE DEF new
<1>6. /\ ranges' \in Seq(RangeTypes) /\ Len(ranges') = n /\ DOMAIN ranges' = DOMAIN ranges \cup {n}
      /\ n \notin DOMAIN ranges
      /\ ranges'[n] = new /\ \A j \in DOMAIN ranges : ranges'[j] = ranges[j]
  BY <1>1, <1>2, <1>3
<1>7. ScanTypes'
  BY <1>1, <1>2, <1>4, <1>6 DEF ScanInv, ScanTypes
<1>8. DoneRanges' = DoneRanges
  BY <1>5, <1>6 DEF DoneRanges
<1>9. Scanned' = Scanned
  BY <1>2, <1>8 DEF Scanned
<1>10. RowsKept'
  <2> SUFFICES ASSUME NEW j \in DOMAIN ranges'
               PROVE  /\ RowsOf(j) \subseteq
                             ranges'[j].rows \cup ranges'[j].guards \cup indexed \cup lost
                      /\ ranges'[j].state # "sending" => ranges'[j].rows = {}
                      /\ ranges'[j].state = "done" => ranges'[j].guards = {}
    BY <1>2 DEF RowsKept, RowsOf
  <2>1. CASE j = n
    BY <1>5, <1>6, <2>1
  <2>2. CASE j \in DOMAIN ranges
    BY <1>6, <2>2 DEF ScanInv, RowsKept
  <2> QED
    BY <1>6, <2>1, <2>2
<1> QED
  BY <1>2, <1>7, <1>8, <1>9, <1>10 DEF ScanInv, LengthsCounted, FinishedAll

\* A range that is complete adds the number of its tokens, none of which was
\* counted before.
LEMMA CompleteRangeInv ==
    ASSUME ScanInv, NEW i \in DOMAIN ranges, CompleteRange(i)
    PROVE  ScanInv'
<1> DEFINE new == [ranges[i] EXCEPT !.state = "done"]
           T == TokensOf(ring, i)
<1>1. /\ ring \in Rings /\ ranges \in Seq(RangeTypes) /\ completed \in Nat /\ TOKEN_MAX \in Nat
      /\ i \in 1..(Len(ring) + 1) /\ ranges[i] \in RangeTypes
  BY FullScanAssumption, Opened DEF ScanInv, ScanTypes
<1>2. /\ ranges' = [ranges EXCEPT ![i] = new] /\ scan = "scanning"
      /\ completed' = (completed + Cardinality(T)) % Modulus
      /\ UNCHANGED <<ring, nextRange, indexed, lost, scan>>
      /\ ranges[i].state = "draining" /\ ranges[i].guards = {}
  BY <1>1, Lengths DEF CompleteRange, Acknowledged
<1>3. new \in RangeTypes /\ new.state = "done" /\ new.guards = {} /\ new.rows = ranges[i].rows
  BY <1>1, <1>2 DEF RangeTypes
<1> HIDE DEF new
<1>4. /\ ranges' \in Seq(RangeTypes) /\ Len(ranges') = Len(ranges) /\ DOMAIN ranges' = DOMAIN ranges
      /\ ranges'[i] = new /\ \A j \in DOMAIN ranges : j # i => ranges'[j] = ranges[j]
  BY <1>1, <1>2, <1>3
<1>5. IsFiniteSet(T) /\ Cardinality(T) \in Nat /\ T \subseteq Tokens
  BY <1>1, Lengths, FS_CardinalityType
<1>6. ScanTypes'
  <2>1. Modulus \in Nat \ {0} /\ completed + Cardinality(T) \in Nat
    BY <1>1, <1>5 DEF Modulus
  <2>2. completed' \in Nat
    BY <1>2, <2>1
  <2> QED
    BY <1>2, <1>4, <2>2 DEF ScanInv, ScanTypes
<1>7. DoneRanges' = DoneRanges \cup {i} /\ i \notin DoneRanges
  BY <1>2, <1>3, <1>4 DEF DoneRanges
<1>8. Scanned' = Scanned \cup T
  BY <1>2, <1>7 DEF Scanned
<1>9. RowsKept'
  <2> SUFFICES ASSUME NEW j \in DOMAIN ranges
               PROVE  /\ RowsOf(j) \subseteq
                             ranges'[j].rows \cup ranges'[j].guards \cup indexed \cup lost
                      /\ ranges'[j].state # "sending" => ranges'[j].rows = {}
                      /\ ranges'[j].state = "done" => ranges'[j].guards = {}
    BY <1>2, <1>4 DEF RowsKept, RowsOf
  <2>1. CASE j = i
    BY <1>2, <1>3, <1>4, <2>1 DEF ScanInv, RowsKept
  <2>2. CASE j # i
    BY <1>4, <2>2 DEF ScanInv, RowsKept
  <2> QED
    BY <2>1, <2>2
<1>10. LengthsCounted'
  <2> SUFFICES ASSUME \A j \in DoneRanges \cup {i} : ~Repeated(ring, j)
               PROVE  completed' = Cardinality(Scanned \cup T)
    BY <1>2, <1>7, <1>8 DEF LengthsCounted
  <2>1. completed = Cardinality(Scanned)
    BY DEF ScanInv, LengthsCounted
  <2>2. Scanned \cap T = {}
    <3>1. ASSUME NEW j \in DoneRanges PROVE TokensOf(ring, j) \cap T = {}
      <4>1. j \in 1..(Len(ring) + 1) /\ j # i
        BY <1>7, Opened DEF ScanInv, DoneRanges
      <4> QED
        BY <1>1, <4>1, RangesApart
    <3> QED
      BY <3>1 DEF Scanned
  <2>3. IsFiniteSet(Scanned) /\ Cardinality(Scanned) \in Nat
    BY ScannedTokens DEF ScanInv
  <2>4. Cardinality(Scanned \cup T) = Cardinality(Scanned) + Cardinality(T)
    <3>1. Cardinality(Scanned \cup T) =
              Cardinality(Scanned) + Cardinality(T) - Cardinality(Scanned \cap T)
      BY <1>5, <2>3, FS_Union
    <3>2. Cardinality(Scanned \cap T) = 0
      BY <2>2, FS_EmptySet
    <3> QED
      BY <1>5, <2>3, <3>1, <3>2
  <2>5. Cardinality(Scanned') <= Modulus - 1
    <3>1. (ScanTypes => Cardinality(Scanned) <= Modulus - 1)'
      BY ScannedTokens, PTL
    <3> QED
      BY <1>6, <3>1
  <2>6. completed + Cardinality(T) \in Nat /\ completed + Cardinality(T) <= Modulus - 1
    BY <1>1, <1>5, <1>8, <2>1, <2>4, <2>5
  <2>7. Modulus \in Nat
    BY <1>1 DEF Modulus
  <2>8. (completed + Cardinality(T)) % Modulus = completed + Cardinality(T)
    BY <2>6, <2>7
  <2> QED
    BY <1>2, <2>1, <2>4, <2>8
<1> QED
  BY <1>2, <1>6, <1>9, <1>10 DEF ScanInv, FinishedAll

\* One step per action.
LEMMA ScanNextInv ==
    ASSUME ScanInv, [ScanNext]_scanVars
    PROVE  ScanInv'
<1>0. CASE UNCHANGED scanVars
  BY <1>0, RangesRest DEF scanVars, ScanInv, FinishedAll
<1>1. CASE OpenRange
  BY <1>1, OpenRangeInv
<1>2. CASE FailScan \/ CancelFullScan
  BY <1>2, RangesRest DEF FailScan, CancelFullScan
<1>3. CASE LoseSession \/ GetSession
  BY <1>3, RangesRest DEF LoseSession, GetSession, ScanInv, FinishedAll
<1>4. CASE FinishFullScan
  <2>1. Len(FullscanRanges(ring)) = Len(ring) + 1
    BY Ends DEF ScanInv, ScanTypes
  <2> QED
    BY <1>4, <2>1, RangesRest DEF FinishFullScan, DoneRanges
<1>5. ASSUME NEW i \in DOMAIN ranges, NEW r \in Rows, SendRow(i, r)
      PROVE  ScanInv'
  <2> DEFINE sent == [ranges[i] EXCEPT !.rows = @ \ {r}, !.guards = @ \cup {r}]
             dropped == [ranges[i] EXCEPT !.rows = @ \ {r}]
  <2>1. ranges[i] \in RangeTypes /\ ranges[i].state = "sending"
    BY <1>5, Opened DEF SendRow, ScanInv, RowsKept
  <2>0. indexed \subseteq Rows /\ lost \subseteq Rows
    BY DEF ScanInv, ScanTypes
  <2>2. /\ sent \in RangeTypes /\ sent.state = "sending"
        /\ sent.rows = ranges[i].rows \ {r} /\ sent.guards = ranges[i].guards \cup {r}
    BY <2>1 DEF RangeTypes
  <2>3. /\ dropped \in RangeTypes /\ dropped.state = "sending"
        /\ dropped.rows = ranges[i].rows \ {r} /\ dropped.guards = ranges[i].guards
    BY <2>1 DEF RangeTypes
  <2>4. \/ ranges' = [ranges EXCEPT ![i] = sent] /\ lost' = lost
        \/ ranges' = [ranges EXCEPT ![i] = dropped] /\ lost' = lost \cup {r}
    BY <1>5, <2>1 DEF SendRow, RangeTypes
  <2>5. UNCHANGED <<ring, nextRange, indexed, completed, scan>>
    BY <1>5 DEF SendRow
  <2> HIDE DEF sent, dropped
  <2>6. CASE ranges' = [ranges EXCEPT ![i] = sent] /\ lost' = lost
    BY <2>0, <2>1, <2>2, <2>5, <2>6, RangeChanges
  <2>7. CASE ranges' = [ranges EXCEPT ![i] = dropped] /\ lost' = lost \cup {r}
    BY <2>0, <2>1, <2>3, <2>5, <2>7, RangeChanges
  <2> QED
    BY <2>4, <2>6, <2>7
<1>6. ASSUME NEW i \in DOMAIN ranges, NEW r \in Rows, DropGuard(i, r)
      PROVE  ScanInv'
  <2> DEFINE new == [ranges[i] EXCEPT !.guards = @ \ {r}]
  <2>1. /\ ranges[i] \in RangeTypes /\ ranges[i].state # "done"
        /\ ranges[i].state # "sending" => ranges[i].rows = {}
    BY <1>6, Opened DEF DropGuard, ScanInv, RowsKept
  <2>0. indexed \subseteq Rows /\ lost \subseteq Rows
    BY DEF ScanInv, ScanTypes
  <2>2. /\ new \in RangeTypes /\ new.state = ranges[i].state
        /\ new.rows = ranges[i].rows /\ new.guards = ranges[i].guards \ {r}
    BY <2>1 DEF RangeTypes
  <2>3. /\ ranges' = [ranges EXCEPT ![i] = new] /\ indexed' = indexed \cup {r}
        /\ UNCHANGED <<ring, nextRange, lost, completed, scan>>
    BY <1>6 DEF DropGuard
  <2> HIDE DEF new
  <2> QED
    BY <2>0, <2>1, <2>2, <2>3, RangeChanges
<1>7. ASSUME NEW i \in DOMAIN ranges, EndRange(i)
      PROVE  ScanInv'
  <2> DEFINE new == [ranges[i] EXCEPT !.state = "draining"]
  <2>1. ranges[i] \in RangeTypes /\ ranges[i].state = "sending" /\ ranges[i].rows = {}
    BY <1>7, Opened DEF EndRange, ScanInv
  <2>0. indexed \subseteq Rows /\ lost \subseteq Rows
    BY DEF ScanInv, ScanTypes
  <2>2. /\ new \in RangeTypes /\ new.state = "draining"
        /\ new.rows = {} /\ new.guards = ranges[i].guards
    BY <2>1 DEF RangeTypes
  <2>3. /\ ranges' = [ranges EXCEPT ![i] = new]
        /\ UNCHANGED <<ring, nextRange, indexed, lost, completed, scan>>
    BY <1>7 DEF EndRange
  <2> HIDE DEF new
  <2> QED
    BY <2>0, <2>1, <2>2, <2>3, RangeChanges
<1>8. ASSUME NEW i \in DOMAIN ranges, StreamError(i)
      PROVE  ScanInv'
  <2> DEFINE new == [ranges[i] EXCEPT !.rows = {}]
  <2>1. ranges[i] \in RangeTypes /\ ranges[i].state = "sending"
    BY <1>8, Opened DEF StreamError, ScanInv, RowsKept
  <2>0. indexed \subseteq Rows /\ lost \subseteq Rows /\ ranges[i].rows \subseteq Rows
    BY <2>1 DEF ScanInv, ScanTypes, RangeTypes
  <2>2. /\ new \in RangeTypes /\ new.state = "sending"
        /\ new.rows = {} /\ new.guards = ranges[i].guards
    BY <2>1 DEF RangeTypes
  <2>3. /\ ranges' = [ranges EXCEPT ![i] = new] /\ lost' = lost \cup ranges[i].rows
        /\ UNCHANGED <<ring, nextRange, indexed, completed, scan>>
    BY <1>8 DEF StreamError
  <2> HIDE DEF new
  <2> QED
    BY <2>0, <2>1, <2>2, <2>3, RangeChanges
<1> QED
  BY <1>0, <1>1, <1>2, <1>3, <1>4, <1>5, <1>6, <1>7, <1>8, CompleteRangeInv
     DEF ScanNext, RangeStep

\* The rows of a range that is done were indexed, or could not be read.
LEMMA DoneIndexed ==
    ASSUME ScanInv
    PROVE  DoneMeansIndexed
<1>1. /\ ScanTypes /\ ring \in Rings /\ indexed \subseteq Rows /\ lost \subseteq Rows
      /\ \A r \in Rows : r.token \in Tokens
  BY FullScanAssumption DEF ScanInv, ScanTypes, Tokens, TOKEN_MIN
<1>2. ASSUME NEW i \in DoneRanges PROVE RowsOf(i) \subseteq indexed \cup lost
  BY DEF ScanInv, RowsKept, DoneRanges
<1>3. ASSUME Scanned = Tokens PROVE Rows = indexed \cup lost
  <2> SUFFICES ASSUME NEW r \in Rows PROVE r \in indexed \cup lost
    BY <1>1
  <2>1. PICK i \in DoneRanges : r.token \in TokensOf(ring, i)
    BY <1>1, <1>3 DEF Scanned
  <2> QED
    BY <1>2, <2>1 DEF RowsOf
<1>4. ASSUME scan = "finished" PROVE Scanned = Tokens
  <2> SUFFICES ASSUME NEW t \in Tokens PROVE t \in Scanned
    BY <1>1, ScannedTokens
  <2>1. PICK i \in 1..(Len(ring) + 1) : t \in TokensOf(ring, i)
    BY <1>1, RangesCover
  <2>2. i \in DoneRanges
    BY <1>1, <1>4, Opened DEF ScanInv, ScanTypes, FinishedAll
  <2> QED
    BY <2>1, <2>2 DEF Scanned
<1>5. ASSUME Progress(completed) = "Done" PROVE Rows = indexed \cup lost
  <2>1. CASE \A i \in DoneRanges : ~Repeated(ring, i)
    <3>1. Cardinality(Scanned) = Modulus - 1
      BY <1>5, <2>1 DEF ScanInv, LengthsCounted, Progress
    <3> QED
      BY <1>1, <1>3, <3>1, ScannedTokens
  <2>2. CASE \E i \in DoneRanges : Repeated(ring, i)
    <3>1. PICK i \in DoneRanges : Repeated(ring, i)
      BY <2>2
    <3>2. TokensOf(ring, i) = Tokens
      BY <1>1, <3>1, Opened, RepeatedIsAll DEF DoneRanges
    <3> QED
      BY <1>1, <1>2, <3>2 DEF RowsOf
  <2> QED
    BY <2>1, <2>2
<1>6. ASSUME scan = "finished", TOKEN_MIN \notin ToSet(ring) PROVE Progress(completed) = "Done"
  <2>1. \A i \in DoneRanges : ~Repeated(ring, i)
    <3>1. ASSUME NEW i \in DoneRanges, Repeated(ring, i) PROVE FALSE
      <4>1. i \in DOMAIN ring /\ ring[i] = TOKEN_MIN
        BY <1>1, <3>1, Begins, Opened DEF Repeated, DoneRanges
      <4> QED
        BY <1>6, <4>1 DEF ToSet
    <3> QED
      BY <3>1
  <2> QED
    BY <1>1, <1>4, <1>6, <2>1, ScannedTokens DEF ScanInv, LengthsCounted, Progress
<1> QED
  BY <1>3, <1>4, <1>5, <1>6 DEF DoneMeansIndexed

\* A scan that reports its end, or 100%, has sent every row of the table that
\* could be read through the pipeline and has waited for it, for every token
\* ring, any number of ranges at a time and any failures; and a scan that
\* reports its end reports 100%, unless the lowest token is on the ring
\* (fullscan_ranges, scan_ranges, range_length, Progress::from).
THEOREM ScannedMeansIndexed == ScanSpec => []DoneMeansIndexed
BY ScanInitInv, ScanNextInv, DoneIndexed, PTL DEF ScanSpec

-----------------------------------------------------------------------------
(* Lists                                                                    *)

\* What a sequence lists when an element is appended.
LEMMA AppendedSet ==
    ASSUME NEW S, NEW s \in Seq(S), NEW k \in S
    PROVE  Append(s, k) \in Seq(S) /\ ToSet(Append(s, k)) = ToSet(s) \cup {k}
<1> DEFINE A == Append(s, k)
<1>1. /\ A \in Seq(S) /\ DOMAIN A = DOMAIN s \cup {Len(s) + 1} /\ A[Len(s) + 1] = k
      /\ \A i \in DOMAIN s : A[i] = s[i]
  OBVIOUS
<1> HIDE DEF A
<1>2. ToSet(A) = ToSet(s) \cup {k}
  BY <1>1 DEF ToSet
<1> QED
  BY <1>1, <1>2 DEF A

\* Vec::retain drops the key and keeps the others.
LEMMA RetainedKeys ==
    ASSUME NEW S, NEW s \in Seq(S), NEW k
    PROVE  Retained(s, k) \in Seq(S) /\ ToSet(Retained(s, k)) = ToSet(s) \ {k}
<1> DEFINE N == Len(s)
           step == [n \in 1..N |-> [t \in Seq(S) |-> IF s[n] = k THEN t ELSE Append(t, s[n])]]
           Fix(F) == F = [n \in 0..N |-> IF n = 0 THEN <<>>
                                         ELSE IF s[n] = k THEN F[n - 1] ELSE Append(F[n - 1], s[n])]
           F == CHOOSE f : Fix(f)
<1>1. N \in Nat /\ DOMAIN s = 1..N /\ <<>> \in Seq(S) /\ \A n \in 1..N : s[n] \in S
  OBVIOUS
<1> HIDE DEF N
<1>2. step \in [1..N -> [Seq(S) -> Seq(S)]]
  BY <1>1
<1>3. \A n \in 1..N : \A t \in Seq(S) : step[n][t] = IF s[n] = k THEN t ELSE Append(t, s[n])
  OBVIOUS
<1> HIDE DEF step
<1>4. PICK G \in [0..N -> Seq(S)] : G[0] = <<>> /\ \A n \in 1..N : G[n] = step[n][G[n - 1]]
  <2> DEFINE L == Seq(S)
             a == <<>>
  <2>1. N \in Nat /\ a \in L /\ step \in [1..N -> [L -> L]]
    BY <1>1, <1>2
  <2>2. Iterations(N, L, a, step) # {}
    <3> HIDE DEF L, a
    <3> QED
      BY <2>1, IterationsExist
  <2>3. PICK G : G \in Iterations(N, L, a, step)
    BY <2>2
  <2> QED
    BY <2>3 DEF Iterations
<1>5. \A n \in 1..N : n - 1 \in 0..N /\ n \in 0..N /\ n # 0
  BY <1>1
<1>6. Fix(G)
  <2>1. \A n \in 1..N : G[n] = IF s[n] = k THEN G[n - 1] ELSE Append(G[n - 1], s[n])
    BY <1>3, <1>4, <1>5
  <2>2. \A n \in 0..N : n = 0 \/ n \in 1..N
    BY <1>1
  <2>3. \A n \in 0..N : G[n] = IF n = 0 THEN <<>>
                               ELSE IF s[n] = k THEN G[n - 1] ELSE Append(G[n - 1], s[n])
    BY <1>4, <2>1, <2>2
  <2>4. G = [n \in 0..N |-> G[n]]
    OBVIOUS
  <2> QED
    BY <2>3, <2>4
<1>7. Retained(s, k) = F[N]
  BY DEF Retained, N
<1>8. Fix(F)
  <2> HIDE DEF Fix
  <2> QED
    BY <1>6, Zenon
<1> HIDE DEF F
<1>9. F[0] = <<>> /\ \A n \in 1..N : F[n] = IF s[n] = k THEN F[n - 1] ELSE Append(F[n - 1], s[n])
  <2>1. 0 \in 0..N
    BY <1>1
  <2>2. \A n \in 0..N : F[n] = IF n = 0 THEN <<>>
                               ELSE IF s[n] = k THEN F[n - 1] ELSE Append(F[n - 1], s[n])
    BY <1>8
  <2> HIDE DEF Fix
  <2> QED
    BY <1>5, <2>1, <2>2
<1> HIDE DEF Fix
<1> DEFINE T == {n \in 0..N : F[n] \in Seq(S) /\ ToSet(F[n]) = {s[i] : i \in 1..n} \ {k}}
<1>10. 0 \in T
  <2>1. ToSet(<<>>) = {} /\ 0 \in 0..N /\ 1..0 = {}
    BY <1>1 DEF ToSet
  <2> QED
    BY <1>1, <1>9, <2>1
<1>11. ASSUME NEW n \in 0..(N - 1), n \in T PROVE n + 1 \in T
  <2>1. n + 1 \in 1..N /\ (n + 1) - 1 = n /\ n + 1 \in 0..N
    BY <1>1
  <2>2. F[n + 1] = IF s[n + 1] = k THEN F[n] ELSE Append(F[n], s[n + 1])
    BY <1>9, <2>1
  <2>3. {s[i] : i \in 1..(n + 1)} = {s[i] : i \in 1..n} \cup {s[n + 1]}
    BY <2>1
  <2>4. F[n] \in Seq(S) /\ s[n + 1] \in S
    BY <1>1, <1>11, <2>1
  <2>5. ToSet(Append(F[n], s[n + 1])) = ToSet(F[n]) \cup {s[n + 1]} /\ Append(F[n], s[n + 1]) \in Seq(S)
    BY <2>4, AppendedSet
  <2> QED
    BY <1>11, <2>1, <2>2, <2>3, <2>4, <2>5
<1>12. N \in T
  <2>1. \A m \in 0..(N - 1) : m \in T => m + 1 \in T
    BY <1>11
  <2> HIDE DEF T
  <2>2. \A m \in 0..N : m \in T
    BY <1>1, <1>10, <2>1, UpTo
  <2> QED
    BY <1>1, <2>2
<1>13. ToSet(s) = {s[i] : i \in 1..N}
  BY <1>1 DEF ToSet
<1> QED
  BY <1>7, <1>12, <1>13

\* The sequences of a sequence, one after the other.
LEMMA FlattenedSequences ==
    ASSUME NEW S, NEW ss \in Seq(Seq(S))
    PROVE  FlattenSeq(ss) \in Seq(S)
<1> DEFINE N == Len(ss)
           L == Seq(S)
           empty == <<>>
           step == [n \in 1..N |-> [t \in L |-> IF n = 1 THEN ss[n] ELSE t \o ss[n]]]
           Fix(F) == F = [i \in 1..N |-> IF i = 1 THEN ss[i] ELSE F[i - 1] \o ss[i]]
           F == CHOOSE f : Fix(f)
<1>1. N \in Nat /\ DOMAIN ss = 1..N /\ empty \in L /\ \A n \in 1..N : ss[n] \in L
  OBVIOUS
<1>2. CASE N = 0
  <2>1. FlattenSeq(ss) = ss /\ ss = <<>>
    BY <1>2 DEF FlattenSeq
  <2> QED
    BY <2>1
<1>3. CASE N # 0
  <2>1. FlattenSeq(ss) = F[N]
    BY <1>3 DEF FlattenSeq
  <2> HIDE DEF N, empty
  <2>2. /\ \A n \in 1..N : n - 1 \in 0..N /\ n \in 0..N /\ (n # 1 => n - 1 \in 1..N)
        /\ N \in 1..N /\ 0 \in 0..N
    BY <1>1, <1>3
  <2>3. \A x, y \in L : x \o y \in L
    OBVIOUS
  <2> HIDE DEF L
  <2>4. step \in [1..N -> [L -> L]]
    BY <1>1, <2>3
  <2>5. \A n \in 1..N : \A t \in L : step[n][t] = IF n = 1 THEN ss[n] ELSE t \o ss[n]
    OBVIOUS
  <2> HIDE DEF step
  <2>6. PICK G : G \in Iterations(N, L, empty, step)
    <3>1. Iterations(N, L, empty, step) # {}
      BY <1>1, <2>4, IterationsExist
    <3> QED
      BY <3>1
  <2> DEFINE H == [i \in 1..N |-> G[i]]
  <2>7. Fix(H)
    <3>1. G \in [0..N -> L] /\ \A n \in 1..N : G[n] = step[n][G[n - 1]]
      BY <2>6 DEF Iterations
    <3>2. \A n \in 1..N : G[n] = IF n = 1 THEN ss[n] ELSE G[n - 1] \o ss[n]
      BY <2>2, <2>5, <3>1
    <3>3. \A n \in 1..N : H[n] = G[n] /\ (n # 1 => H[n - 1] = G[n - 1])
      BY <2>2
    <3>4. H = [i \in 1..N |-> H[i]]
      OBVIOUS
    <3> HIDE DEF H
    <3>5. \A n \in 1..N : H[n] = IF n = 1 THEN ss[n] ELSE H[n - 1] \o ss[n]
      BY <3>2, <3>3
    <3> QED
      BY <3>4, <3>5
  <2>8. Fix(F)
    <3> HIDE DEF Fix, H
    <3> QED
      BY <2>7, Zenon
  <2> HIDE DEF F
  <2>9. \A n \in 1..N : F[n] = IF n = 1 THEN ss[n] ELSE F[n - 1] \o ss[n]
    BY <2>8
  <2> HIDE DEF Fix
  <2> DEFINE T == {n \in 0..N : n # 0 => F[n] \in L}
  <2>10. 0 \in T
    BY <2>2
  <2>11. ASSUME NEW n \in 0..(N - 1), n \in T PROVE n + 1 \in T
    <3>1. n + 1 \in 1..N /\ (n + 1) - 1 = n /\ n + 1 \in 0..N /\ (n = 0 <=> n + 1 = 1)
      BY <1>1
    <3>2. F[n + 1] = IF n = 0 THEN ss[n + 1] ELSE F[n] \o ss[n + 1]
      BY <2>9, <3>1
    <3>3. F[n + 1] \in L
      BY <1>1, <2>3, <2>11, <3>1, <3>2
    <3> QED
      BY <3>1, <3>3
  <2>12. N \in T
    <3>1. \A m \in 0..(N - 1) : m \in T => m + 1 \in T
      BY <2>11
    <3> HIDE DEF T
    <3>2. \A m \in 0..N : m \in T
      BY <1>1, <2>10, <3>1, UpTo
    <3> QED
      BY <2>2, <3>2
  <2> QED
    BY <1>3, <2>1, <2>12 DEF L
<1> QED
  BY <1>2, <1>3

\* Among finitely many there is one with the smallest score and, of those,
\* the latest version.
LEMMA BestExists ==
    ASSUME NEW S, IsFiniteSet(S), S # {}, NEW s \in [S -> Int], NEW v \in [S -> Int]
    PROVE  \E b \in S : \A j \in S : s[b] < s[j] \/ (s[b] = s[j] /\ v[b] >= v[j])
<1> DEFINE B(b, j) == s[b] < s[j] \/ (s[b] = s[j] /\ v[b] >= v[j])
           T == {P \in SUBSET S : P = {} \/ \E b \in P : \A j \in P : B(b, j)}
<1>1. \A i, j, k \in S : /\ B(i, i) /\ (B(i, j) \/ B(j, i))
                         /\ B(i, j) /\ B(j, k) => B(i, k)
  OBVIOUS
<1> HIDE DEF B
<1>2. ASSUME NEW P \in SUBSET S, NEW x \in S \ P, P \in T
      PROVE  P \cup {x} \in T
  <2>1. CASE P = {}
    BY <1>1, <2>1
  <2>2. CASE P # {}
    <3>1. PICK b \in P : \A j \in P : B(b, j)
      BY <1>2, <2>2
    <3>2. CASE B(b, x)
      BY <3>1, <3>2
    <3>3. CASE B(x, b)
      <4>1. \A j \in P : B(x, j)
        BY <1>1, <3>1, <3>3
      <4> QED
        BY <1>1, <4>1
    <3> QED
      BY <1>1, <3>2, <3>3
  <2> QED
    BY <2>1, <2>2
<1>3. S \in T
  <2>1. {} \in T /\ \A P \in SUBSET S : \A x \in S \ P : P \in T => P \cup {x} \in T
    BY <1>2
  <2> HIDE DEF T
  <2>2. \A P \in SUBSET S : P \in T
    BY <2>1, SubsetsUpTo
  <2> QED
    BY <2>2
<1> QED
  BY <1>3 DEF B

\* The columns a partition key is given by are no more than the key has.
LEMMA ColumnsCovered ==
    ASSUME NEW S, NEW eq \in Seq(S), NEW R, NEW key \in Seq(R),
           \A c \in ToSet(eq) : /\ c \in ToSet(key)
                                /\ Cardinality({i \in DOMAIN eq : eq[i] = c}) = 1
    PROVE  Len(eq) <= Len(key)
<1>1. /\ Len(eq) \in Nat /\ Len(key) \in Nat
      /\ DOMAIN eq = 1..Len(eq) /\ DOMAIN key = 1..Len(key)
  OBVIOUS
<1>2. \A i \in DOMAIN eq : \E j \in DOMAIN key : key[j] = eq[i]
  BY DEF ToSet
<1> DEFINE g == [i \in DOMAIN eq |-> CHOOSE j \in DOMAIN key : key[j] = eq[i]]
<1>3. \A i \in DOMAIN eq : g[i] \in DOMAIN key /\ key[g[i]] = eq[i]
  BY <1>2
<1> HIDE DEF g
<1>4. \A i, j \in DOMAIN eq : eq[i] = eq[j] => i = j
  <2> SUFFICES ASSUME NEW i \in DOMAIN eq, NEW j \in DOMAIN eq, eq[i] = eq[j]
               PROVE  i = j
    OBVIOUS
  <2> DEFINE D == {n \in DOMAIN eq : eq[n] = eq[i]}
  <2>1. Cardinality(D) = 1
    BY DEF ToSet
  <2>2. IsFiniteSet(D)
    <3>1. IsFiniteSet(1..Len(eq))
      BY <1>1, FS_Interval
    <3>2. D \subseteq 1..Len(eq)
      BY <1>1
    <3> QED
      BY <3>1, <3>2, FS_Subset
  <2>3. i \in D /\ j \in D
    OBVIOUS
  <2> HIDE DEF D
  <2>4. \E x : D = {x}
    BY <2>1, <2>2, FS_Singleton
  <2> QED
    BY <2>3, <2>4
<1>5. g \in Injection(1..Len(eq), 1..Len(key))
  <2>1. g \in [1..Len(eq) -> 1..Len(key)]
    BY <1>1, <1>3 DEF g
  <2>2. \A i, j \in 1..Len(eq) : g[i] = g[j] => i = j
    BY <1>1, <1>3, <1>4
  <2> QED
    BY <2>1, <2>2 DEF Injection, IsInjective
<1>6. /\ IsFiniteSet(1..Len(key)) /\ Cardinality(1..Len(key)) = Len(key)
      /\ Cardinality(1..Len(eq)) = Len(eq)
  <2>1. ASSUME NEW n \in Nat PROVE IsFiniteSet(1..n) /\ Cardinality(1..n) = n
    BY FS_Interval
  <2> QED
    BY <1>1, <2>1
<1>7. Cardinality(1..Len(eq)) <= Cardinality(1..Len(key))
  BY <1>5, <1>6, FS_Injection
<1> QED
  BY <1>6, <1>7

-----------------------------------------------------------------------------
(* The routing of requests.  A group lists its vector indexes and nothing   *)
(* else, so best_index looks at every index a request may be routed to; the *)
(* best one exists as they are finitely many.                               *)

EntryFields == {"meta", "index", "filtering", "columns", "status", "progress"}
VsKeys(es, g) == {k \in DOMAIN es : es[k].meta.kind = "vs" /\ es[k].meta.group = g}
Names == {d.key : d \in world.definitions}

\* What the description of an index says of its version and its partition.
Described(e) ==
    /\ e = [f \in EntryFields |-> e[f]]
    /\ e.meta.version \in Int /\ IsSequence(e.index.partition)

EntriesInv ==
    /\ entries = [k \in DOMAIN entries |-> entries[k]]
    /\ IsFiniteSet(DOMAIN entries)
    /\ \A k \in DOMAIN entries : Described(entries[k])
GroupsInv ==
    /\ routing \in [DOMAIN routing -> Seq(Names)]
    /\ \A k \in DOMAIN entries :
          entries[k].meta.kind = "vs" => entries[k].meta.group \in DOMAIN routing
    /\ \A g \in DOMAIN routing : ToSet(routing[g]) = VsKeys(entries, g)
RequestsInv == world \in Worlds /\ EntriesInv /\ GroupsInv

\* One field of an entry changes.
LEMMA FieldChanged ==
    ASSUME NEW e, e = [f \in EntryFields |-> e[f]], NEW x,
           NEW f \in EntryFields \ {"meta", "index"}
    PROVE  /\ [e EXCEPT ![f] = x] = [g \in EntryFields |-> [e EXCEPT ![f] = x][g]]
           /\ [e EXCEPT ![f] = x].meta = e.meta /\ [e EXCEPT ![f] = x].index = e.index
<1>1. DOMAIN e = EntryFields /\ "meta" \in EntryFields /\ "index" \in EntryFields
  BY DEF EntryFields
<1> DEFINE u == [e EXCEPT ![f] = x]
<1>2. DOMAIN u = EntryFields /\ \A g \in EntryFields \ {f} : u[g] = e[g]
  BY <1>1
<1>3. u = [g \in DOMAIN u |-> u[g]]
  BY <1>1
<1> HIDE DEF u
<1>4. u = [g \in EntryFields |-> u[g]] /\ u.meta = e.meta /\ u.index = e.index
  BY <1>1, <1>2, <1>3
<1> QED
  BY <1>4 DEF u

\* An index that is built is described.
LEMMA NewEntryDescribed ==
    ASSUME world \in Worlds, NEW d \in world.definitions, Buildable(d)
    PROVE  Described(NewEntry(d)) /\ NewEntry(d).meta.key = d.key
<1> DEFINE def == d.definition
           listed == GetIndex(world.table, def)
           version == GetIndexVersion(def)
           m == Describe(d).meta
<1>1. Describe(d) # Failed /\ Describe(d) # Skipped
  BY DEF Buildable
<1>2. /\ def.target.form \notin {"absent", "plain"} => IsSequence(def.target.pk)
      /\ def.options # <<>> => \A o \in DOMAIN def.options[1] : def.options[1][o].n \in Int
  BY WorldsAssumption
<1>3. /\ listed # <<>> /\ version # <<>>
      /\ \E options : m = IndexMetadata(listed[1], version[1], options)
  <2>1. listed # <<>> /\ version # <<>>
    BY <1>1 DEF Describe, DescribeIndex
  <2>2. CASE listed[1].kind = "vs"
    BY <1>1, <2>1, <2>2 DEF Describe, DescribeIndex, BuildVsIndexKind, Kind, Failed, Skipped
  <2>3. CASE listed[1].kind = "fts"
    BY <1>1, <2>1, <2>3 DEF Describe, DescribeIndex, BuildFtsIndexKind, Kind, Failed, Skipped
  <2>4. CASE listed[1].kind = "pattern"
    BY <1>1, <2>1, <2>4 DEF Describe, DescribeIndex, BuildPatternIndexKind, Kind, Failed, Skipped
  <2>5. listed[1].kind \in {"vs", "fts", "pattern"}
    BY <2>1 DEF GetIndex, DbIndexKindFromOptions, Skip
  <2> QED
    BY <2>1, <2>2, <2>3, <2>4, <2>5
<1>4. version[1] \in Int
  BY <1>2, <1>3 DEF GetIndexVersion, NilVersion
<1>5. IsSequence(listed[1].partition)
  <2> DEFINE kind == DbIndexKindFromOptions(def.class)
             t == def.target
             o == FromTargetOption(world.table, t, kind, def.alternator)
  <2>1. o # <<>> /\ listed[1].partition = o[1].pk /\ t.form # "absent"
    BY <1>3 DEF GetIndex
  <2>2. IsSequence(<<>>)
    BY DEF IsSequence
  <2>3. CASE t.form = "plain"
    BY <2>1, <2>2, <2>3 DEF FromTargetOption
  <2>4. CASE t.form # "plain"
    <3>1. o = ParseTargetOption(world.table, t)
      BY <2>1, <2>4 DEF FromTargetOption
    <3>2. IsSequence(t.pk)
      BY <1>2, <2>1, <2>4
    <3>3. o[1].pk \in {<<>>, t.pk}
      BY <2>1, <3>1 DEF ParseTargetOption, ConvertLegacyTargetOption
    <3> QED
      BY <2>1, <2>2, <3>2, <3>3
  <2> QED
    BY <2>3, <2>4
<1>6. m.version \in Int /\ IsSequence(m.partition)
  BY <1>3, <1>4, <1>5 DEF IndexMetadata
<1> DEFINE e == NewTextEntry(d)
<1>7. e = [f \in EntryFields |-> e[f]] /\ e.meta.version = m.version /\ e.index = m /\ e.meta.key = d.key
  BY DEF NewTextEntry, EntryFields
<1> HIDE DEF e, m
<1>8. Described(e)
  BY <1>6, <1>7 DEF Described
<1>9. CASE NewEntry(d) = e
  BY <1>7, <1>8, <1>9
<1>10. CASE NewEntry(d) = NewVsEntry(d)
  <2>1. PICK a, b : NewEntry(d) = [e EXCEPT !.filtering = a, !.columns = b]
    BY <1>10 DEF NewVsEntry, e
  <2> DEFINE u == [e EXCEPT !.filtering = a]
             w == [u EXCEPT !.columns = b]
  <2>2. {"filtering", "columns"} \subseteq EntryFields \ {"meta", "index"}
    BY DEF EntryFields
  <2>3. u = [f \in EntryFields |-> u[f]] /\ u.meta = e.meta /\ u.index = e.index
    BY <1>7, <2>2, FieldChanged
  <2>4. w = [f \in EntryFields |-> w[f]] /\ w.meta = u.meta /\ w.index = u.index
    <3> HIDE DEF u
    <3> QED
      BY <2>2, <2>3, FieldChanged
  <2>5. NewEntry(d) = w
    BY <2>1
  <2> HIDE DEF u, w
  <2> QED
    BY <1>6, <1>7, <2>3, <2>4, <2>5 DEF Described
<1> QED
  BY <1>9, <1>10 DEF NewEntry, e


\* The engine adds an entry.
LEMMA RequestsAdd ==
    ASSUME RequestsInv, NEW d \in world.definitions, AddIndex(d)
    PROVE  RequestsInv'
<1> DEFINE e == NewEntry(d)
           k == d.key
           g == e.meta.group
<1>1. /\ world \in Worlds /\ world' = world /\ k \notin DOMAIN entries /\ Buildable(d)
      /\ Insert(e)
  BY DEF AddIndex, ContainsKey, RequestsInv
<1>2. Described(e) /\ e.meta.key = k /\ k \in Names
  BY <1>1, NewEntryDescribed DEF Names
<1> HIDE DEF e, k
<1>3. /\ entries' = [j \in DOMAIN entries \cup {k} |-> IF j = k THEN e ELSE entries[j]]
      /\ DOMAIN entries' = DOMAIN entries \cup {k} /\ entries'[k] = e
      /\ \A j \in DOMAIN entries : entries'[j] = entries[j]
  BY <1>1, <1>2 DEF Insert, With
<1>4. EntriesInv'
  <2>1. IsFiniteSet(DOMAIN entries \cup {k})
    BY FS_AddElement DEF RequestsInv, EntriesInv
  <2>2. entries' = [j \in DOMAIN entries' |-> entries'[j]]
    BY <1>3
  <2>3. \A j \in DOMAIN entries' : Described(entries'[j])
    BY <1>2, <1>3 DEF RequestsInv, EntriesInv
  <2> QED
    BY <1>3, <2>1, <2>2, <2>3 DEF EntriesInv, Described
<1>5. \A h : VsKeys(entries', h) = IF e.meta.kind = "vs" /\ h = g THEN VsKeys(entries, h) \cup {k}
                                   ELSE VsKeys(entries, h)
  BY <1>1, <1>3 DEF VsKeys
<1>6. Names' = Names
  BY <1>1 DEF Names
<1>7. GroupsInv'
  <2>0. GroupsInv
    BY DEF RequestsInv
  <2>1. CASE e.meta.kind # "vs"
    <3>1. routing' = routing
      BY <1>1, <2>1 DEF Insert
    <3> QED
      BY <1>3, <1>5, <1>6, <2>0, <2>1, <3>1 DEF GroupsInv
  <2>2. CASE e.meta.kind = "vs" /\ g \in DOMAIN routing
    <3>1. routing' = [routing EXCEPT ![g] = Append(@, k)]
      BY <1>1, <1>2, <2>2 DEF Insert
    <3>2. routing[g] \in Seq(Names) /\ ToSet(routing[g]) = VsKeys(entries, g)
      BY <2>0, <2>2 DEF GroupsInv
    <3>3. /\ Append(routing[g], k) \in Seq(Names)
          /\ ToSet(Append(routing[g], k)) = ToSet(routing[g]) \cup {k}
      BY <1>2, <3>2, AppendedSet
    <3>4. /\ DOMAIN routing' = DOMAIN routing /\ routing'[g] = Append(routing[g], k)
          /\ \A h \in DOMAIN routing \ {g} : routing'[h] = routing[h]
          /\ routing' \in [DOMAIN routing -> Seq(Names)]
      BY <2>0, <2>2, <3>1, <3>3 DEF GroupsInv
    <3> HIDE DEF g
    <3>5. \A h \in DOMAIN routing' : ToSet(routing'[h]) = VsKeys(entries', h)
      BY <1>5, <2>0, <2>2, <3>2, <3>3, <3>4 DEF GroupsInv
    <3>6. \A j \in DOMAIN entries' :
             entries'[j].meta.kind = "vs" => entries'[j].meta.group \in DOMAIN routing'
      BY <1>3, <2>0, <2>2, <3>4 DEF GroupsInv, g
    <3> QED
      BY <1>6, <3>4, <3>5, <3>6 DEF GroupsInv
  <2>3. CASE e.meta.kind = "vs" /\ g \notin DOMAIN routing
    <3>1. routing' = With(routing, g, <<k>>)
      BY <1>1, <1>2, <2>3 DEF Insert
    <3>2. VsKeys(entries, g) = {}
      BY <2>0, <2>3 DEF VsKeys, GroupsInv
    <3>3. <<k>> \in Seq(Names) /\ ToSet(<<k>>) = {k}
      BY <1>2 DEF ToSet
    <3>4. /\ DOMAIN routing' = DOMAIN routing \cup {g} /\ routing'[g] = <<k>>
          /\ \A h \in DOMAIN routing : routing'[h] = routing[h]
          /\ routing' \in [DOMAIN routing \cup {g} -> Seq(Names)]
      BY <2>0, <2>3, <3>1, <3>3 DEF GroupsInv, With
    <3> HIDE DEF g
    <3>5. \A h \in DOMAIN routing' : ToSet(routing'[h]) = VsKeys(entries', h)
      BY <1>5, <2>0, <2>3, <3>2, <3>3, <3>4 DEF GroupsInv
    <3>6. \A j \in DOMAIN entries' :
             entries'[j].meta.kind = "vs" => entries'[j].meta.group \in DOMAIN routing'
      BY <1>3, <2>0, <3>4 DEF GroupsInv, g
    <3> QED
      BY <1>6, <3>4, <3>5, <3>6 DEF GroupsInv
  <2> QED
    BY <2>1, <2>2, <2>3
<1> QED
  BY <1>1, <1>4, <1>7 DEF RequestsInv

\* The engine drops an entry.
LEMMA RequestsDrop ==
    ASSUME RequestsInv, NEW k, DropIndex(k)
    PROVE  RequestsInv'
<1> DEFINE g == entries[k].meta.group
           left == Retained(routing[g], k)
<1>0. GroupsInv /\ EntriesInv
  BY DEF RequestsInv
<1>1. /\ world \in Worlds /\ world' = world /\ k \in DOMAIN entries
      /\ entries' = [j \in DOMAIN entries \ {k} |-> entries[j]]
      /\ DOMAIN entries' = DOMAIN entries \ {k}
      /\ \A j \in DOMAIN entries' : entries'[j] = entries[j]
      /\ routing' = RoutingWithout(k)
  BY DEF DropIndex, RemoveKey, ContainsKey, Without, RequestsInv
<1>2. EntriesInv'
  <2>1. IsFiniteSet(DOMAIN entries \ {k})
    BY <1>0, FS_Subset DEF EntriesInv
  <2>2. \A j \in DOMAIN entries' : Described(entries'[j])
    BY <1>0, <1>1 DEF EntriesInv
  <2> QED
    BY <1>1, <2>1, <2>2 DEF EntriesInv, Described
<1>3. \A h : VsKeys(entries', h) =
               IF entries[k].meta.kind = "vs" /\ h = g THEN VsKeys(entries, h) \ {k}
               ELSE VsKeys(entries, h)
  BY <1>1 DEF VsKeys
<1>4. Names' = Names
  BY <1>1 DEF Names
<1>5. GroupsInv'
  <2>1. CASE entries[k].meta.kind # "vs"
    <3>1. routing' = routing
      BY <1>1, <2>1 DEF RoutingWithout
    <3> QED
      BY <1>0, <1>1, <1>3, <1>4, <2>1, <3>1 DEF GroupsInv
  <2>2. CASE entries[k].meta.kind = "vs"
    <3>1. /\ g \in DOMAIN routing /\ routing[g] \in Seq(Names)
          /\ ToSet(routing[g]) = VsKeys(entries, g)
      BY <1>0, <1>1, <2>2 DEF GroupsInv
    <3>2. left \in Seq(Names) /\ ToSet(left) = ToSet(routing[g]) \ {k}
      BY <3>1, RetainedKeys
    <3>3. left = <<>> => ToSet(left) = {}
      BY DEF ToSet
    <3>4. routing' = IF left = <<>> THEN Without(routing, g) ELSE [routing EXCEPT ![g] = left]
      BY <1>1, <2>2 DEF RoutingWithout
    <3> HIDE DEF left
    <3>5. CASE left = <<>>
      <4>1. /\ DOMAIN routing' = DOMAIN routing \ {g}
            /\ \A h \in DOMAIN routing' : routing'[h] = routing[h]
            /\ routing' \in [DOMAIN routing' -> Seq(Names)]
        BY <1>0, <3>4, <3>5 DEF Without, GroupsInv
      <4>2. VsKeys(entries', g) = {}
        BY <1>3, <2>2, <3>1, <3>2, <3>3, <3>5
      <4>3. \A h \in DOMAIN routing' : ToSet(routing'[h]) = VsKeys(entries', h)
        BY <1>0, <1>3, <4>1 DEF GroupsInv
      <4>4. ASSUME NEW j \in DOMAIN entries', entries'[j].meta.kind = "vs"
            PROVE  entries'[j].meta.group \in DOMAIN routing'
        <5>1. entries'[j].meta.group # g
          BY <4>2, <4>4 DEF VsKeys
        <5> QED
          BY <1>0, <1>1, <4>1, <4>4, <5>1 DEF GroupsInv
      <4> QED
        BY <1>4, <4>1, <4>3, <4>4 DEF GroupsInv
    <3>6. CASE left # <<>>
      <4>1. /\ DOMAIN routing' = DOMAIN routing /\ routing'[g] = left
            /\ \A h \in DOMAIN routing \ {g} : routing'[h] = routing[h]
            /\ routing' \in [DOMAIN routing -> Seq(Names)]
        BY <1>0, <3>1, <3>2, <3>4, <3>6 DEF GroupsInv
      <4> HIDE DEF g
      <4>2. \A h \in DOMAIN routing' : ToSet(routing'[h]) = VsKeys(entries', h)
        BY <1>0, <1>3, <2>2, <3>1, <3>2, <4>1 DEF GroupsInv
      <4>3. \A j \in DOMAIN entries' :
               entries'[j].meta.kind = "vs" => entries'[j].meta.group \in DOMAIN routing'
        BY <1>0, <1>1, <4>1 DEF GroupsInv
      <4> QED
        BY <1>4, <4>1, <4>2, <4>3 DEF GroupsInv
    <3> QED
      BY <3>5, <3>6
  <2> QED
    BY <2>1, <2>2
<1> QED
  BY <1>1, <1>2, <1>5 DEF RequestsInv

\* The engine changes the status or the progress of an entry.
LEMMA RequestsChange ==
    ASSUME RequestsInv, NEW k \in DOMAIN entries, NEW f \in {"status", "progress"}, NEW x,
           entries' = [entries EXCEPT ![k] = [@ EXCEPT ![f] = x]],
           UNCHANGED <<routing, world>>
    PROVE  RequestsInv'
<1> DEFINE u == [entries[k] EXCEPT ![f] = x]
<1>1. GroupsInv /\ EntriesInv /\ world \in Worlds
  BY DEF RequestsInv
<1>2. /\ u = [g \in EntryFields |-> u[g]]
      /\ u.meta = entries[k].meta /\ u.index = entries[k].index
  <2>1. f \in EntryFields \ {"meta", "index"}
    BY DEF EntryFields
  <2>2. entries[k] = [g \in EntryFields |-> entries[k][g]]
    BY <1>1 DEF EntriesInv, Described
  <2> QED
    BY <2>1, <2>2, FieldChanged
<1>3. /\ DOMAIN entries' = DOMAIN entries /\ entries'[k] = u
      /\ \A j \in DOMAIN entries \ {k} : entries'[j] = entries[j]
      /\ entries' = [j \in DOMAIN entries' |-> entries'[j]]
  BY <1>1 DEF EntriesInv
<1> HIDE DEF u
<1>4. \A j \in DOMAIN entries : entries'[j].meta = entries[j].meta
  BY <1>2, <1>3
<1>5. \A j \in DOMAIN entries : Described(entries'[j])
  BY <1>1, <1>2, <1>3 DEF EntriesInv, Described
<1>6. \A h : VsKeys(entries', h) = VsKeys(entries, h)
  BY <1>3, <1>4 DEF VsKeys
<1>7. EntriesInv'
  BY <1>1, <1>3, <1>5 DEF EntriesInv, Described
<1>8. Names' = Names
  BY DEF Names
<1>9. GroupsInv'
  BY <1>1, <1>3, <1>4, <1>6, <1>8 DEF GroupsInv
<1> QED
  BY <1>1, <1>7, <1>9 DEF RequestsInv


\* The engine alone changes the entries and the groups.
LEMMA RequestsKept ==
    ASSUME RequestsInv, [RequestsNext]_requestVars
    PROVE  RequestsInv'
<1>1. CASE UNCHANGED <<entries, routing, world>>
  BY <1>1 DEF RequestsInv, EntriesInv, GroupsInv, Described, VsKeys, Names
<1>2. CASE EngineNext
  <2>1. ASSUME NEW d \in world.definitions, AddIndex(d) PROVE RequestsInv'
    BY <2>1, RequestsAdd
  <2>2. ASSUME NEW k \in DOMAIN entries, DropIndex(k) PROVE RequestsInv'
    BY <2>2, RequestsDrop
  <2>3. ASSUME NEW k \in DOMAIN entries, NEW s, SetStatus(k, s), world' = world PROVE RequestsInv'
    <3>1. /\ entries' = [entries EXCEPT ![k] = [@ EXCEPT !["status"] = s]]
          /\ UNCHANGED <<routing, world>>
      BY <2>3 DEF SetStatus
    <3> QED
      BY <3>1, RequestsChange
  <2>4. ASSUME NEW k \in DOMAIN entries, ScanDone(k) PROVE RequestsInv'
    <3>1. /\ entries' = [entries EXCEPT ![k] = [@ EXCEPT !["progress"] = "done"]]
          /\ UNCHANGED <<routing, world>>
      BY <2>4 DEF ScanDone
    <3> QED
      BY <3>1, RequestsChange
  <2> QED
    BY <1>2, <2>1, <2>2, <2>3, <2>4 DEF EngineNext, Scanning, Serve
<1>3. CASE HttpNext
  <2>1. UNCHANGED <<entries, routing, world>>
    BY <1>3 DEF HttpNext, PostAnn, PostText, GetIndexInfo, GetIndexes, NotReadyReason, GetStatus,
                AnnAnswers, Bm25Answers, HighlightAnswers, LikeAnswers, Counted, NextRequest
  <2> QED
    BY <1>1, <2>1
<1> QED
  BY <1>1, <1>2, <1>3 DEF RequestsNext, requestVars

LEMMA RequestsStart == RequestsInit => RequestsInv
<1> SUFFICES ASSUME RequestsInit PROVE RequestsInv
  OBVIOUS
<1>1. entries = << >> /\ routing = << >> /\ world \in Worlds
  BY DEF RequestsInit, IndexesInit
<1>2. DOMAIN << >> = {} /\ << >> = [k \in {} |-> << >>[k]] /\ << >> \in [{} -> Seq(Names)]
  OBVIOUS
<1>3. IsFiniteSet({})
  BY FS_EmptySet
<1> QED
  BY <1>1, <1>2, <1>3 DEF RequestsInv, EntriesInv, GroupsInv

-----------------------------------------------------------------------------
(* A request is refused.                                                    *)

\* The restricted columns are sequences.
LEMMA RestrictedColumns ==
    ASSUME world \in Worlds, NEW r \in world.requests, NEW ops
    PROVE  IsSequence(ColumnsOf(r.restrictions, ops))
<1> DEFINE res == r.restrictions
           S == UNION {ToSet(res[i].lhs) : i \in DOMAIN res}
           ss == [i \in DOMAIN res |-> IF res[i].op \in ops THEN res[i].lhs ELSE <<>>]
           f == ColumnsOf(res, ops)
<1>1. IsSequence(res) /\ \A i \in DOMAIN res : IsSequence(res[i].lhs)
  BY WorldsAssumption
<1>2. \A i \in DOMAIN res : res[i].lhs \in Seq(S) /\ <<>> \in Seq(S)
  <2>1. ASSUME NEW i \in DOMAIN res PROVE res[i].lhs \in Seq(S)
    <3>1. res[i].lhs \in Seq(ToSet(res[i].lhs)) /\ ToSet(res[i].lhs) \subseteq S
      BY <1>1 DEF IsSequence
    <3> HIDE DEF S
    <3> QED
      BY <3>1
  <2> QED
    BY <2>1
<1> HIDE DEF S
<1>3. ss \in Seq(Seq(S))
  <2> DEFINE L == Seq(S)
  <2>1. DOMAIN res = 1..Len(res) /\ Len(res) \in Nat
    BY <1>1 DEF IsSequence
  <2>2. \A i \in DOMAIN res : ss[i] \in L
    BY <1>2
  <2>3. ss = [i \in 1..Len(res) |-> ss[i]]
    BY <2>1
  <2> HIDE DEF ss, L
  <2>4. ss \in Seq(L)
    BY <2>1, <2>2, <2>3
  <2> QED
    BY <2>4 DEF L
<1> HIDE DEF ss
<1>4. f \in Seq(S)
  <2>1. f = FlattenSeq(ss)
    BY DEF ColumnsOf, ss
  <2> HIDE DEF f
  <2> QED
    BY <1>3, <2>1, FlattenedSequences
<1> HIDE DEF f
<1>5. f \in Seq(ToSet(f))
  BY <1>4 DEF ToSet
<1> QED
  BY <1>5 DEF IsSequence, f

\* best_index scores an index that can answer, and no other.
LEMMA ScoredIfAble ==
    ASSUME RequestsInv, NEW r \in world.requests, NEW k \in DOMAIN entries,
           entries[k].meta.kind = "vs", entries[k].status = "Serving"
    PROVE  LET score == ScoreIndex(entries[k], RestrictionColumns(r))
           IN  /\ score # <<>> <=> Able(k, r)
               /\ score # <<>> => score[1] \in Int
               /\ Covering(k, r) => score[1] <= 0
<1> DEFINE cols == RestrictionColumns(r)
           eq == cols.equality
           range == cols.range
           key == entries[k].index.partition
<1>1. IsSequence(eq) /\ IsSequence(range) /\ IsSequence(key)
  BY RestrictedColumns DEF RestrictionColumns, RequestsInv, EntriesInv, Described
<1>2. cols = [equality |-> eq, range |-> range]
  BY DEF RestrictionColumns
<1> HIDE DEF cols, eq, range, key
<1>3. ToSet(eq \o range) = ToSet(eq) \cup ToSet(range)
  <2> DEFINE S == ToSet(eq) \cup ToSet(range)
             both == eq \o range
  <2>1. eq \in Seq(S) /\ range \in Seq(S)
    BY <1>1 DEF IsSequence
  <2>2. /\ DOMAIN eq = 1..Len(eq) /\ DOMAIN range = 1..Len(range)
        /\ Len(eq) \in Nat /\ Len(range) \in Nat
        /\ DOMAIN both = 1..(Len(eq) + Len(range))
        /\ \A i \in 1..Len(eq) : both[i] = eq[i]
        /\ \A i \in 1..Len(range) : both[Len(eq) + i] = range[i]
    BY <2>1
  <2> HIDE DEF both
  <2>3. \A i \in DOMAIN eq : i \in DOMAIN both
    BY <2>2
  <2>4. \A i \in DOMAIN range : Len(eq) + i \in DOMAIN both
    BY <2>2
  <2>5. \A i \in DOMAIN both : \/ i \in DOMAIN eq
                               \/ \E j \in DOMAIN range : i = Len(eq) + j
    <3> TAKE i \in DOMAIN both
    <3>1. CASE i > Len(eq)
      <4>1. i - Len(eq) \in 1..Len(range) /\ i = Len(eq) + (i - Len(eq))
        BY <2>2, <3>1
      <4> QED
        BY <2>2, <4>1
    <3> QED
      BY <2>2, <3>1
  <2>6. ToSet(both) = ToSet(eq) \cup ToSet(range)
    BY <2>2, <2>3, <2>4, <2>5 DEF ToSet
  <2> QED
    BY <2>6 DEF both
<1>4. Len(eq) \in Nat /\ Len(range) \in Nat /\ Len(key) \in Nat
  BY <1>1 DEF IsSequence
<1> DEFINE score == ScoreIndex(entries[k], cols)
<1>5. score = IF \/ ~(ToSet(eq \o range) \subseteq entries[k].filtering)
                 \/ ~(ToSet(key) \subseteq ToSet(eq))
              THEN <<>> ELSE <<Len(eq) - Len(key) + Len(range)>>
  BY <1>2 DEF ScoreIndex, key
<1>6. Able(k, r) <=> /\ ToSet(eq) \cup ToSet(range) \subseteq entries[k].filtering
                     /\ ToSet(key) \subseteq ToSet(eq)
  BY DEF Able, eq, range, key, cols
<1>7. score # <<>> <=> Able(k, r)
  BY <1>3, <1>5, <1>6
<1>8. score # <<>> => score[1] = Len(eq) - Len(key) + Len(range)
  BY <1>5
<1>9. ASSUME Covering(k, r) PROVE score[1] <= 0
  <2>1. /\ Able(k, r) /\ range = <<>>
        /\ \A c \in ToSet(eq) : /\ c \in ToSet(key)
                                /\ Cardinality({i \in DOMAIN eq : eq[i] = c}) = 1
    BY <1>9 DEF Covering, eq, range, key, cols
  <2>2. Len(eq) <= Len(key)
    BY <1>1, <2>1, ColumnsCovered DEF IsSequence
  <2>3. Len(range) = 0
    BY <2>1
  <2> QED
    BY <1>4, <1>7, <1>8, <2>1, <2>2, <2>3
<1>10. score # <<>> => score[1] \in Int
  BY <1>4, <1>8
<1> QED
  BY <1>7, <1>9, <1>10 DEF cols


\* Only the search of a nearest neighbour answers one.
LEMMA AnnIsPosted ==
    ASSUME [RequestsNext]_requestVars, http.phase = "idle", http'.phase # "idle",
           NEW r, r = http'.request, r.op = "ann"
    PROVE  r \in world.requests /\ PostAnn(r)
<1>1. ASSUME NEW q, PostText(q) PROVE FALSE
  <2>1. http'.request = q
    BY <1>1 DEF PostText, Answer, NotReady, Searching
  <2> QED
    BY <1>1, <2>1 DEF PostText
<1>2. ASSUME NEW q, GetIndexInfo(q) PROVE FALSE
  <2>1. http'.request = q
    BY <1>2 DEF GetIndexInfo, Answer
  <2> QED
    BY <1>2, <2>1 DEF GetIndexInfo
<1>3. ASSUME NEW q, GetIndexes(q) PROVE FALSE
  BY <1>3 DEF GetIndexes
<1>4. ASSUME NEW q, NEW node, GetStatus(q, node) PROVE FALSE
  BY <1>4 DEF GetStatus, Answer
<1>5. ASSUME NEW q, PostAnn(q) PROVE r = q
  <2>1. http'.request = q
    BY <1>5 DEF PostAnn, Routed, Answer, NotReady, Searching, BestIndex
  <2> QED
    BY <2>1
<1>6. ASSUME EngineNext PROVE http' = http
  BY <1>6 DEF EngineNext, AddIndex, Scanning, ScanDone, Serve, DropIndex
<1> QED
  BY <1>1, <1>2, <1>3, <1>4, <1>5, <1>6
     DEF RequestsNext, HttpNext, requestVars, NotReadyReason, AnnAnswers, Bm25Answers,
         HighlightAnswers, LikeAnswers, Counted, NextRequest

\* best_index finds the best of the indexes of the group that can answer.
LEMMA BestOfGroup ==
    ASSUME RequestsInv, NEW r \in world.requests, r.key \in DOMAIN entries,
           entries[r.key].meta.kind = "vs",
           NEW k \in DOMAIN entries, entries[k].meta.group = entries[r.key].meta.group, Able(k, r)
    PROVE  LET best == BestIndex(r.key, RestrictionColumns(r), TRUE)
           IN  /\ best.state = "Serving"
               /\ Covering(k, r) => ~(best.needsFiltering > 0)
<1> DEFINE cols == RestrictionColumns(r)
           g == entries[r.key].meta.group
           serving == {j \in ToSet(routing[g]) : entries[j].status = "Serving"}
           able == {j \in serving : ScoreIndex(entries[j], cols) # <<>>}
           score(j) == ScoreIndex(entries[j], cols)[1]
           Best(b) == b \in able /\ \A j \in able : Better(entries[b], score(b), entries[j], score(j))
           best == CHOOSE b \in able : \A j \in able : Better(entries[b], score(b), entries[j], score(j))
<1>1. g \in DOMAIN routing /\ ToSet(routing[g]) = VsKeys(entries, g)
  BY DEF RequestsInv, GroupsInv
<1>2. \A j \in serving : j \in DOMAIN entries /\ entries[j].meta.kind = "vs" /\ entries[j].status = "Serving"
  BY <1>1 DEF VsKeys
<1>3. k \in able
  <2>1. k \in serving
    BY <1>1 DEF Able, VsKeys
  <2>2. ScoreIndex(entries[k], cols) # <<>>
    BY <1>2, <2>1, ScoredIfAble
  <2> QED
    BY <2>1, <2>2
<1>4. \A j \in able : score(j) \in Int /\ entries[j].meta.version \in Int
  <2> SUFFICES ASSUME NEW j \in able PROVE score(j) \in Int /\ entries[j].meta.version \in Int
    OBVIOUS
  <2>1. j \in DOMAIN entries /\ entries[j].meta.kind = "vs" /\ entries[j].status = "Serving"
    BY <1>2
  <2>2. score(j) \in Int
    BY <2>1, ScoredIfAble
  <2>3. entries[j].meta.version \in Int
    BY <2>1 DEF RequestsInv, EntriesInv, Described
  <2> QED
    BY <2>2, <2>3
<1>5. Covering(k, r) => score(k) <= 0
  <2>1. k \in serving
    BY <1>3
  <2> QED
    BY <1>2, <2>1, ScoredIfAble
<1>6. IsFiniteSet(able)
  <2>1. able \subseteq DOMAIN entries /\ IsFiniteSet(DOMAIN entries)
    BY <1>2 DEF RequestsInv, EntriesInv
  <2> HIDE DEF able
  <2> QED
    BY <2>1, FS_Subset
<1>7. BestIndex(r.key, cols, TRUE) = [state |-> "Serving", key |-> best, needsFiltering |-> score(best)]
  BY <1>3 DEF BestIndex
<1> HIDE DEF serving, able, cols, g
<1>8. \E b : Best(b)
  <2> DEFINE s == [j \in able |-> score(j)]
             v == [j \in able |-> entries[j].meta.version]
  <2>1. s \in [able -> Int] /\ v \in [able -> Int] /\ able # {}
    BY <1>3, <1>4
  <2>2. \E b \in able : \A j \in able : s[b] < s[j] \/ (s[b] = s[j] /\ v[b] >= v[j])
    <3> HIDE DEF s, v
    <3> QED
      BY <1>6, <2>1, BestExists
  <2>3. PICK b \in able : \A j \in able : s[b] < s[j] \/ (s[b] = s[j] /\ v[b] >= v[j])
    BY <2>2
  <2>4. \A j \in able : Better(entries[b], score(b), entries[j], score(j))
    BY <2>3 DEF Better
  <2> QED
    BY <2>4
<1>9. Best(best)
  <2>1. \E b \in able : \A j \in able : Better(entries[b], score(b), entries[j], score(j))
    BY <1>8
  <2> QED
    BY <2>1, Zenon
<1>10. ASSUME Covering(k, r) PROVE ~(score(best) > 0)
  <2> DEFINE x == score(best)
             y == score(k)
             vx == entries[best].meta.version
             vy == entries[k].meta.version
  <2>1. best \in able /\ Better(entries[best], x, entries[k], y)
    BY <1>3, <1>9
  <2>2. x \in Int /\ y \in Int /\ y <= 0
    BY <1>3, <1>4, <1>5, <1>10, <2>1
  <2>3. x < y \/ (x = y /\ vx >= vy)
    BY <2>1 DEF Better
  <2> HIDE DEF x, y
  <2>4. ~(x > 0)
    BY <2>2, <2>3
  <2> QED
    BY <2>4 DEF x
<1> DEFINE found == BestIndex(r.key, cols, TRUE)
           needed == score(best)
<1>11. found = [state |-> "Serving", key |-> best, needsFiltering |-> needed]
  BY <1>7
<1>12. Covering(k, r) => ~(needed > 0)
  BY <1>10
<1> HIDE DEF needed, best, found
<1>13. found.state = "Serving" /\ (Covering(k, r) => ~(found.needsFiltering > 0))
  BY <1>11, <1>12
<1> QED
  BY <1>13 DEF cols, found

(* A routed request is refused for the want of a serving or a global        *)
(* index, or for filtering, only when no index over the same column could   *)
(* have answered it: for every table, set of indexes and requests, and      *)
(* whatever the engine adds, serves and drops (best_index of indexes.rs).   *)
THEOREM RefusalsJustified == RequestsSpec => RefusedOnlyIfNoneServes
<1> DEFINE group(r) == {k \in DOMAIN entries : entries[k].meta.group = entries[r.key].meta.group}
           Posted(r) ==
               /\ http.phase = "idle" /\ http'.phase # "idle"
               /\ r = http'.request /\ r.op = "ann" /\ r.routing /\ r.key \in DOMAIN entries
               /\ entries[r.key].meta.kind = "vs" /\ ~InsecureTls(r)
           Justified(r) ==
               /\ (\E k \in group(r) : Able(k, r)) =>
                     \/ http'.phase = "searching"
                     \/ http'.phase = "answered" /\ http'.why \in {"filtering", "filter"}
               /\ (\E k \in group(r) : Covering(k, r)) =>
                     ~(http'.phase = "answered" /\ http'.why = "filtering")
<1>1. ASSUME RequestsInv, [RequestsNext]_requestVars, NEW r \in world.requests, Posted(r)
      PROVE  Justified(r)
  <2> DEFINE best == BestIndex(r.key, RestrictionColumns(r), r.routing)
  <2>1. PostAnn(r)
    BY <1>1, AnnIsPosted
  <2>2. BestIndex(r.key, RestrictionColumns(r), r.routing) = BestIndex(r.key, RestrictionColumns(r), TRUE)
    BY <1>1 DEF BestIndex
  <2>3. ASSUME NEW k \in group(r), Able(k, r)
        PROVE  best.state = "Serving" /\ (Covering(k, r) => ~(best.needsFiltering > 0))
    <3>1. k \in DOMAIN entries /\ entries[k].meta.group = entries[r.key].meta.group
      BY <2>3
    <3> QED
      BY <1>1, <2>2, <2>3, <3>1, BestOfGroup
  <2> HIDE DEF best
  <2>4. best.state = "Serving" => http' = Routed(r, best)
    BY <1>1, <2>1 DEF PostAnn, best
  <2>5. ASSUME best.state = "Serving"
        PROVE  /\ \/ http'.phase = "searching"
                  \/ http'.phase = "answered" /\ http'.why \in {"filtering", "filter"}
               /\ ~(best.needsFiltering > 0) =>
                     ~(http'.phase = "answered" /\ http'.why = "filtering")
    BY <2>4, <2>5 DEF Routed, Answer, Searching
  <2>6. \A k : Covering(k, r) => Able(k, r)
    BY DEF Covering
  <2> QED
    BY <2>3, <2>5, <2>6
<1>2. RequestsInv /\ [RequestsNext]_requestVars =>
         [\A r \in world.requests : Posted(r) => Justified(r)]_requestVars
  BY <1>1
<1>3. RequestsInit => RequestsInv
  BY RequestsStart
<1>4. RequestsInv /\ [RequestsNext]_requestVars => RequestsInv'
  BY RequestsKept
<1> QED
  BY <1>2, <1>3, <1>4, PTL DEF RequestsSpec, RefusedOnlyIfNoneServes

-----------------------------------------------------------------------------
(* The full-text index                                                      *)

\* Where an operation on a document is.
Has(ops, op, d) == \E o \in ToSet(ops) : o.op = op /\ o.id = d
Carried(op, d) == \E t \in tasks : t.at = op /\ t.op.id = d
Comes(d) == \E i \in DOMAIN rows : Has(rows[i], "add", d)
OnTheWay(op, d) == Has(ftsInbox, op, d) \/ Carried(op, d) \/ Has(uncommitted, op, d)

\* Neither the reload that is under way nor the last one drops a guard of
\* this commit.
Outlasts(s) == s > reloadState.opstamp /\ (reloader.pc = "guards" => s > reloader.opstamp)
Guarded(d) ==
    \/ \E t \in tasks : t.at = "hand" /\ Outlasts(t.opstamp) /\ \E g \in t.guards : g.id = d
    \/ \E u \in reloadState.unsearchable : Outlasts(u[1]) /\ u[2].id = d
Kept(d) ==
    \/ OnTheWay("add", d)
    \/ d \in index.docs /\ (d \in served \/ Guarded(d))

FtsTasks == [at : {"add", "remove", "commit", "hand", "search", "rank"},
             op : FtsOperation \cup {NoOp}, opstamp : Nat, guards : SUBSET FtsOperation,
             docs : SUBSET Nat, must : SUBSET Nat]
FtsTypes ==
    /\ rows \in Seq(Seq(FtsOperation)) /\ NoneComesBack(rows)
    /\ live \in SUBSET Nat /\ known \in BOOLEAN /\ ftsUp \in BOOLEAN /\ created \in BOOLEAN
    /\ ftsInbox \in Seq(FtsOperation) /\ uncommitted \in Seq(FtsOperation)
    /\ tasks \in SUBSET FtsTasks
    /\ \A t \in tasks :
         /\ t.at \in {"add", "remove"} => t.op \in FtsOperation /\ t.op.op = t.at
         /\ IsFiniteSet(t.docs)
    /\ index \in [opstamp : Nat, docs : SUBSET Nat] /\ IsFiniteSet(index.docs)
    /\ served \in SUBSET Nat /\ IsFiniteSet(served)
    /\ reloadState \in [unsearchable : SUBSET (Nat \X FtsOperation), opstamp : Nat, failed : BOOLEAN]
    /\ reloader \in [pc : {"idle", "reader", "guards"}, opstamp : Nat]
    /\ reloadState.opstamp <= index.opstamp /\ reloader.opstamp <= index.opstamp

\* An index that is gone has no rows, and one that has no state no documents.
Lives ==
    /\ ~known => live = {} /\ rows = <<>>
    /\ known => ftsUp
    /\ known /\ ~created => tasks = {} /\ uncommitted = <<>> /\ index.docs = {}

\* A removal on its way is final.
RemovalsFinal == \A d \in Nat : OnTheWay("remove", d) => d \notin live /\ ~Comes(d)

\* A document of a row is under a guard unless it can be searched.
DocumentsKept == \A d \in live \ ftsLost : Kept(d)

\* What a search was promised it has found, or will find.
SearchesKept ==
    \A t \in tasks : \A d \in t.must :
        /\ d \in live \/ ~Comes(d)
        /\ d \in live /\ t.at = "search" => d \in served /\ d \in index.docs
        /\ d \in live /\ t.at = "rank" => d \in t.docs

FtsInvariant == FtsTypes /\ Lives /\ RemovalsFinal /\ DocumentsKept /\ SearchesKept

LEMMA OperationsIn ==
    ASSUME NEW s \in Seq(FtsOperation), NEW t \in Seq(FtsOperation), NEW op, NEW d
    PROVE  /\ ~Has(<<>>, op, d)
           /\ Has(s \o t, op, d) <=> Has(s, op, d) \/ Has(t, op, d)
<1> DEFINE In(q) == \E i \in 1..Len(q) : q[i].op = op /\ q[i].id = d
<1>1. ASSUME NEW q \in Seq(FtsOperation) PROVE Has(q, op, d) <=> In(q)
  BY DEF Has, ToSet
<1>2. /\ <<>> \in Seq(FtsOperation) /\ s \o t \in Seq(FtsOperation)
  OBVIOUS
<1>3. ~In(<<>>)
  OBVIOUS
<1>4. In(s \o t) <=> In(s) \/ In(t)
  <2>1. /\ Len(s) \in Nat /\ Len(t) \in Nat /\ Len(s \o t) = Len(s) + Len(t)
        /\ \A i \in 1..Len(s) : (s \o t)[i] = s[i]
        /\ \A i \in 1..Len(t) : (s \o t)[Len(s) + i] = t[i]
    OBVIOUS
  <2>2. ASSUME In(s \o t) PROVE In(s) \/ In(t)
    <3>1. PICK i \in 1..Len(s \o t) : (s \o t)[i].op = op /\ (s \o t)[i].id = d
      BY <2>2
    <3>2. CASE i \in 1..Len(s)
      BY <2>1, <3>1, <3>2
    <3>3. CASE i \notin 1..Len(s)
      <4>1. i - Len(s) \in 1..Len(t) /\ Len(s) + (i - Len(s)) = i
        BY <2>1, <3>3
      <4>2. (s \o t)[i] = t[i - Len(s)]
        BY <2>1, <4>1
      <4> QED
        BY <3>1, <4>1, <4>2
    <3> QED
      BY <3>2, <3>3
  <2>3. ASSUME In(s) PROVE In(s \o t)
    <3>1. PICK i \in 1..Len(s) : s[i].op = op /\ s[i].id = d
      BY <2>3
    <3>2. i \in 1..Len(s \o t) /\ (s \o t)[i] = s[i]
      BY <2>1
    <3> QED
      BY <3>1, <3>2
  <2>4. ASSUME In(t) PROVE In(s \o t)
    <3>1. PICK i \in 1..Len(t) : t[i].op = op /\ t[i].id = d
      BY <2>4
    <3>2. Len(s) + i \in 1..Len(s \o t) /\ (s \o t)[Len(s) + i] = t[i]
      BY <2>1
    <3> QED
      BY <3>1, <3>2
  <2> QED
    BY <2>2, <2>3, <2>4
<1> HIDE DEF In
<1> QED
  BY <1>1, <1>2, <1>3, <1>4

LEMMA OperationAppended ==
    ASSUME NEW s \in Seq(FtsOperation), NEW o \in FtsOperation, NEW op, NEW d
    PROVE  Has(Append(s, o), op, d) <=> Has(s, op, d) \/ (o.op = op /\ o.id = d)
<1> DEFINE one == <<o>>
           longer == s \o one
<1>1. Append(s, o) = longer /\ one \in Seq(FtsOperation)
  OBVIOUS
<1>2. Has(one, op, d) <=> o.op = op /\ o.id = d
  BY DEF Has, ToSet
<1> HIDE DEF one
<1>3. Has(longer, op, d) <=> Has(s, op, d) \/ Has(one, op, d)
  BY <1>1, OperationsIn
<1> HIDE DEF longer
<1> QED
  BY <1>1, <1>2, <1>3

LEMMA OperationAhead ==
    ASSUME NEW s \in Seq(FtsOperation), s # <<>>, NEW op, NEW d
    PROVE  Has(s, op, d) <=> (Head(s).op = op /\ Head(s).id = d) \/ Has(Tail(s), op, d)
<1>1. /\ Head(s) \in FtsOperation /\ Tail(s) \in Seq(FtsOperation)
      /\ <<Head(s)>> \in Seq(FtsOperation) /\ s = <<Head(s)>> \o Tail(s)
      /\ <<>> \in Seq(FtsOperation) /\ <<Head(s)>> = Append(<<>>, Head(s))
  OBVIOUS
<1> DEFINE h == Head(s)
           r == Tail(s)
<1> HIDE DEF h, r
<1>2. /\ h \in FtsOperation /\ r \in Seq(FtsOperation)
      /\ <<h>> \in Seq(FtsOperation) /\ s = <<h>> \o r
      /\ <<>> \in Seq(FtsOperation) /\ <<h>> = Append(<<>>, h)
  BY <1>1 DEF h, r
<1>3. Has(<<h>>, op, d) <=> h.op = op /\ h.id = d
  <2>1. /\ ~Has(<<>>, op, d)
        /\ Has(Append(<<>>, h), op, d) <=> Has(<<>>, op, d) \/ (h.op = op /\ h.id = d)
    BY <1>2, OperationsIn, OperationAppended
  <2> QED
    BY <1>2, <2>1
<1>4. Has(<<h>> \o r, op, d) <=> Has(<<h>>, op, d) \/ Has(r, op, d)
  BY <1>2, OperationsIn
<1>5. Has(s, op, d) <=> (h.op = op /\ h.id = d) \/ Has(r, op, d)
  BY <1>2, <1>3, <1>4
<1> QED
  BY <1>5 DEF h, r

\* What is committed keeps a document that nothing removes, and has it when it
\* was added.
LEMMA CommitKeeps ==
    ASSUME NEW docs, NEW ops \in Seq(FtsOperation), NEW d, ~Has(ops, "remove", d),
           d \in docs \/ Has(ops, "add", d)
    PROVE  d \in DocsAfter(docs, ops)
<1>1. Len(ops) \in Nat /\ DOMAIN ops = 1..Len(ops) /\ \A i \in 1..Len(ops) : ops[i] \in FtsOperation
  OBVIOUS
<1>2. \A i \in DOMAIN ops : ops[i].id = d => ops[i].op = "add"
  <2>1. \A i \in DOMAIN ops : ops[i].op \in {"add", "remove"}
    BY <1>1 DEF FtsOperation
  <2> QED
    BY <2>1 DEF Has, ToSet
<1> DEFINE T == {i \in 1..Len(ops) : ops[i].id = d}
<1>3. CASE T = {}
  <2>1. \A i \in DOMAIN ops : ops[i].id # d
    BY <1>1, <1>3
  <2>2. d \in docs
    BY <2>1 DEF Has, ToSet
  <2> QED
    BY <2>1, <2>2 DEF DocsAfter
<1>4. CASE T # {}
  <2>1. PICK k \in T : \A j \in T : k >= j
    <3>1. T \subseteq 0..Len(ops)
      OBVIOUS
    <3> HIDE DEF T
    <3> QED
      BY <1>1, <1>4, <3>1, LargestNat
  <2>2. k \in DOMAIN ops /\ ops[k].id = d /\ ops[k].op = "add"
    BY <1>1, <1>2
  <2>3. \A j \in k + 1..Len(ops) : ops[j].id # d
    BY <1>1, <2>1
  <2> QED
    BY <2>2, <2>3 DEF DocsAfter
<1> QED
  BY <1>3, <1>4

LEMMA CommitTypes ==
    ASSUME NEW docs \in SUBSET Nat, IsFiniteSet(docs), NEW ops \in Seq(FtsOperation)
    PROVE  DocsAfter(docs, ops) \in SUBSET Nat /\ IsFiniteSet(DocsAfter(docs, ops))
<1>1. Len(ops) \in Nat /\ DOMAIN ops = 1..Len(ops) /\ \A i \in 1..Len(ops) : ops[i].id \in Nat
  <2>1. \A i \in 1..Len(ops) : ops[i] \in FtsOperation
    OBVIOUS
  <2> QED
    BY <2>1 DEF FtsOperation
<1> DEFINE f == [i \in 1..Len(ops) |-> ops[i].id]
           named == {f[i] : i \in 1..Len(ops)}
<1>2. IsFiniteSet(named)
  <2>1. IsFiniteSet(1..Len(ops))
    <3>1. 1 \in Int /\ Len(ops) \in Int
      BY <1>1
    <3> QED
      BY <3>1, FS_Interval
  <2>2. f \in Surjection(1..Len(ops), named)
    BY DEF Surjection
  <2> HIDE DEF named
  <2> QED
    BY <2>1, <2>2, FS_Surjection
<1>3. DocsAfter(docs, ops) \subseteq docs \cup named /\ named \subseteq Nat
  BY <1>1 DEF DocsAfter
<1>4. IsFiniteSet(docs \cup named)
  BY <1>2, FS_Union
<1> QED
  BY <1>3, <1>4, FS_Subset

-----------------------------------------------------------------------------
LEMMA TaskTypes ==
    ASSUME NEW at \in {"add", "remove", "commit", "hand", "search", "rank"},
           NEW op \in FtsOperation \cup {NoOp}
    PROVE  /\ Task(at, op) \in FtsTasks /\ Task(at, op).at = at /\ Task(at, op).op = op
           /\ Task(at, op).guards = {} /\ Task(at, op).docs = {} /\ Task(at, op).must = {}
  BY DEF Task, FtsTasks

\* Without rows the index owes nothing to anybody.
LEMMA NothingOwed ==
    ASSUME live = {}, rows = <<>>
    PROVE  RemovalsFinal /\ DocumentsKept /\ SearchesKept
  BY DEF RemovalsFinal, DocumentsKept, SearchesKept, Comes

LEMMA FtsInvariantAtInit == FtsInit => FtsInvariant
<1> SUFFICES ASSUME FtsInit PROVE FtsInvariant
  OBVIOUS
<1>1. PICK script \in FtsScripts : rows = script.rows /\ events = script.events
  BY DEF FtsInit
<1>2. rows \in Seq(Seq(FtsOperation)) /\ NoneComesBack(rows)
  BY <1>1, FtsAssumption
<1>3. /\ live = {} /\ known = TRUE /\ ftsInbox = <<>> /\ ftsUp = TRUE /\ created = FALSE
      /\ tasks = {} /\ uncommitted = <<>> /\ index = [opstamp |-> 0, docs |-> {}] /\ served = {}
      /\ reloadState = [unsearchable |-> {}, opstamp |-> 0, failed |-> FALSE]
      /\ reloader = [pc |-> "idle", opstamp |-> 0]
  BY DEF FtsInit, NewIndexState
<1>4. FtsTypes
  <2>1. IsFiniteSet({})
    BY FS_EmptySet
  <2>2. /\ live \in SUBSET Nat /\ tasks \in SUBSET FtsTasks /\ served \in SUBSET Nat
        /\ ftsInbox \in Seq(FtsOperation) /\ uncommitted \in Seq(FtsOperation)
        /\ index \in [opstamp : Nat, docs : SUBSET Nat]
        /\ reloader \in [pc : {"idle", "reader", "guards"}, opstamp : Nat]
    BY <1>3
  <2>3. {} \in SUBSET (Nat \X FtsOperation)
    OBVIOUS
  <2>4. reloadState \in [unsearchable : SUBSET (Nat \X FtsOperation), opstamp : Nat, failed : BOOLEAN]
    BY <1>3, <2>3
  <2>5. /\ \A t \in tasks : /\ t.at \in {"add", "remove"} => t.op \in FtsOperation /\ t.op.op = t.at
                            /\ IsFiniteSet(t.docs)
        /\ IsFiniteSet(index.docs) /\ IsFiniteSet(served)
        /\ known \in BOOLEAN /\ ftsUp \in BOOLEAN /\ created \in BOOLEAN
        /\ reloadState.opstamp <= index.opstamp /\ reloader.opstamp <= index.opstamp
    <3>1. /\ index.docs = {} /\ index.opstamp = 0
          /\ reloadState.opstamp = 0 /\ reloader.opstamp = 0
      BY <1>3
    <3>2. 0 <= 0
      OBVIOUS
    <3> HIDE DEF NoOp
    <3> QED
      BY <1>3, <2>1, <3>1, <3>2
  <2> QED
    BY <1>2, <2>2, <2>4, <2>5 DEF FtsTypes
<1>5. Lives
  BY <1>3 DEF Lives
<1>6. \A d : ~Has(<<>>, "remove", d)
  BY DEF Has, ToSet
<1>7. RemovalsFinal /\ DocumentsKept /\ SearchesKept
  BY <1>3, <1>6 DEF RemovalsFinal, DocumentsKept, SearchesKept, OnTheWay, Carried
<1> QED
  BY <1>4, <1>5, <1>7 DEF FtsInvariant

-----------------------------------------------------------------------------
(* The table                                                                *)

LEMMA RowChangeKeeps ==
    ASSUME FtsInvariant, FtsRowChange
    PROVE  FtsInvariant'
<1> USE DEF FtsInvariant
<1> DEFINE ops == Head(rows)
<1>1. /\ rows \in Seq(Seq(FtsOperation)) /\ rows # <<>> /\ NoneComesBack(rows)
      /\ ftsInbox \in Seq(FtsOperation) /\ known
  BY DEF FtsTypes, FtsRowChange
<1>2. /\ ops \in Seq(FtsOperation) /\ Tail(rows) \in Seq(Seq(FtsOperation))
      /\ Len(rows) \in Nat /\ Len(rows) > 0 /\ Len(Tail(rows)) = Len(rows) - 1
      /\ rows[1] = ops /\ 1 \in DOMAIN rows
      /\ DOMAIN rows = 1..Len(rows) /\ DOMAIN Tail(rows) = 1..(Len(rows) - 1)
      /\ \A i \in 1..(Len(rows) - 1) : Tail(rows)[i] = rows[i + 1]
  BY <1>1
<1>3. /\ rows' = Tail(rows) /\ ftsInbox' = ftsInbox \o ops
      /\ UNCHANGED <<known, ftsUp, created, tasks, uncommitted, index, served, reloadState,
                     reloader, ftsLost>>
  BY DEF FtsRowChange, writerSide, readerSide
<1>4. \A d : d \in live' <=> (d \in live /\ ~Has(ops, "remove", d)) \/ Has(ops, "add", d)
  <2>1. live' = (live \ {o.id : o \in {p \in ToSet(ops) : p.op = "remove"}})
                     \union {o.id : o \in {p \in ToSet(ops) : p.op = "add"}}
    BY DEF FtsRowChange
  <2> QED
    BY <2>1 DEF Has
<1> HIDE DEF ops
<1>5. \A d : Comes(d) <=> Has(ops, "add", d) \/ Comes(d)'
  <2>1. \A d : Comes(d)' <=> \E i \in 1..(Len(rows) - 1) : Has(rows[i + 1], "add", d)
    BY <1>2, <1>3 DEF Comes, Has
  <2>2. ASSUME NEW d, Comes(d) PROVE Has(ops, "add", d) \/ Comes(d)'
    <3>1. PICK i \in 1..Len(rows) : Has(rows[i], "add", d)
      BY <1>2, <2>2 DEF Comes
    <3>2. CASE i = 1
      BY <1>2, <3>1, <3>2
    <3>3. CASE i # 1
      <4>1. i - 1 \in 1..(Len(rows) - 1) /\ (i - 1) + 1 = i
        BY <1>2, <3>3
      <4> QED
        BY <2>1, <3>1, <4>1
    <3> QED
      BY <3>2, <3>3
  <2>3. ASSUME NEW d, Comes(d)' PROVE Comes(d)
    <3>1. PICK i \in 1..(Len(rows) - 1) : Has(rows[i + 1], "add", d)
      BY <2>1, <2>3
    <3>2. i + 1 \in DOMAIN rows
      BY <1>2
    <3> QED
      BY <3>1, <3>2 DEF Comes
  <2>4. ASSUME NEW d, Has(ops, "add", d) PROVE Comes(d)
    BY <1>2, <2>4 DEF Comes
  <2> QED
    BY <2>2, <2>3, <2>4
<1>6. /\ NoneComesBack(Tail(rows))
      /\ \A d : Has(ops, "remove", d) => ~Comes(d)
  <2>1. NoneComesBack(Tail(rows))
    <3>1. ASSUME NEW i \in DOMAIN Tail(rows), NEW j \in DOMAIN Tail(rows),
                 NEW p \in ToSet(Tail(rows)[i]), NEW q \in ToSet(Tail(rows)[j]),
                 p.op = "add" /\ q.op = "remove" /\ p.id = q.id
          PROVE  i < j
      <4>1. i + 1 \in DOMAIN rows /\ j + 1 \in DOMAIN rows /\ i \in Nat /\ j \in Nat
        BY <1>2
      <4>2. p \in ToSet(rows[i + 1]) /\ q \in ToSet(rows[j + 1])
        BY <1>2
      <4>3. i + 1 < j + 1
        BY <1>1, <3>1, <4>1, <4>2 DEF NoneComesBack
      <4> QED
        BY <4>1, <4>3
    <3> QED
      BY <3>1 DEF NoneComesBack
  <2>2. ASSUME NEW d, Has(ops, "remove", d), Comes(d) PROVE FALSE
    <3>1. PICK i \in DOMAIN rows : Has(rows[i], "add", d)
      BY <2>2 DEF Comes
    <3>2. PICK p \in ToSet(rows[i]) : p.op = "add" /\ p.id = d
      BY <3>1 DEF Has
    <3>3. PICK q \in ToSet(rows[1]) : q.op = "remove" /\ q.id = d
      BY <1>2, <2>2 DEF Has
    <3>4. i < 1
      BY <1>1, <1>2, <3>2, <3>3 DEF NoneComesBack
    <3> QED
      BY <1>2, <3>4
  <2> QED
    BY <2>1, <2>2
<1>7. /\ \A op, d : OnTheWay(op, d)' <=> OnTheWay(op, d) \/ Has(ops, op, d)
      /\ \A d : Guarded(d)' <=> Guarded(d)
  <2>1. \A op, d : Has(ftsInbox \o ops, op, d) <=> Has(ftsInbox, op, d) \/ Has(ops, op, d)
    <3> SUFFICES ASSUME NEW op, NEW d
                 PROVE Has(ftsInbox \o ops, op, d) <=> Has(ftsInbox, op, d) \/ Has(ops, op, d)
      OBVIOUS
    <3> QED
      BY <1>1, <1>2, OperationsIn
  <2>2. \A op, d : Carried(op, d)' <=> Carried(op, d)
    BY <1>3 DEF Carried
  <2>3. \A op, d : OnTheWay(op, d)' <=>
                       Has(ftsInbox \o ops, op, d) \/ Carried(op, d) \/ Has(uncommitted, op, d)
    BY <1>3, <2>2 DEF OnTheWay
  <2>4. \A op, d : OnTheWay(op, d)' <=> OnTheWay(op, d) \/ Has(ops, op, d)
    BY <2>1, <2>3 DEF OnTheWay
  <2>5. \A d : Guarded(d)' <=> Guarded(d)
    BY <1>3 DEF Guarded, Outlasts
  <2> QED
    BY <2>4, <2>5
<1>8. FtsTypes'
  <2>1. live' \in SUBSET Nat
    <3>1. \A d : Has(ops, "add", d) => d \in Nat
      <4>1. \A o \in ToSet(ops) : o \in FtsOperation
        BY <1>2 DEF ToSet
      <4> QED
        BY <4>1 DEF Has, FtsOperation
    <3>2. live \in SUBSET Nat
      BY DEF FtsTypes
    <3> QED
      BY <1>4, <3>1, <3>2
  <2>2. ftsInbox' \in Seq(FtsOperation)
    BY <1>1, <1>2, <1>3
  <2> QED
    BY <1>2, <1>3, <1>6, <2>1, <2>2 DEF FtsTypes
<1>9. Lives'
  BY <1>1, <1>3 DEF Lives
<1>10. RemovalsFinal'
  BY <1>4, <1>5, <1>6, <1>7 DEF RemovalsFinal
<1>11. DocumentsKept'
  BY <1>3, <1>4, <1>7 DEF DocumentsKept, Kept
<1>12. SearchesKept'
  <2> SUFFICES ASSUME NEW t \in tasks, NEW d \in t.must
               PROVE  /\ d \in live' \/ ~Comes(d)'
                      /\ d \in live' /\ t.at = "search" => d \in served /\ d \in index.docs
                      /\ d \in live' /\ t.at = "rank" => d \in t.docs
    BY <1>3 DEF SearchesKept
  <2>1. /\ d \in live \/ ~Comes(d)
        /\ d \in live /\ t.at = "search" => d \in served /\ d \in index.docs
        /\ d \in live /\ t.at = "rank" => d \in t.docs
    BY DEF SearchesKept
  <2> QED
    BY <1>4, <1>5, <1>6, <2>1
<1> QED
  BY <1>8, <1>9, <1>10, <1>11, <1>12

LEMMA DropIndexKeeps ==
    ASSUME FtsInvariant, FtsDropIndex
    PROVE  FtsInvariant'
<1>1. /\ known' = FALSE /\ rows' = <<>> /\ live' = {}
      /\ UNCHANGED <<ftsInbox, ftsUp, created, tasks, uncommitted, index, served, reloadState,
                     reloader, ftsLost>>
  BY DEF FtsDropIndex, writerSide, readerSide
<1>2. FtsTypes'
  <2>1. rows' \in Seq(Seq(FtsOperation)) /\ NoneComesBack(rows)'
    BY <1>1 DEF NoneComesBack
  <2> QED
    BY <1>1, <2>1 DEF FtsInvariant, FtsTypes
<1>3. Lives'
  BY <1>1 DEF FtsInvariant, Lives
<1>4. RemovalsFinal' /\ DocumentsKept' /\ SearchesKept'
  BY <1>1 DEF RemovalsFinal, DocumentsKept, SearchesKept, Comes
<1> QED
  BY <1>2, <1>3, <1>4 DEF FtsInvariant

-----------------------------------------------------------------------------
(* The actor                                                                *)

\* What a message becomes: nothing, or the closure that applies it.
LEMMA ReceiveDoes ==
    ASSUME FtsInvariant, FtsReceive, NEW o, o = Head(ftsInbox)
    PROVE  /\ o \in FtsOperation /\ ftsInbox \in Seq(FtsOperation) /\ ftsInbox # <<>>
           /\ ftsInbox' = Tail(ftsInbox) /\ ftsInbox' \in Seq(FtsOperation)
           /\ UNCHANGED <<rows, live, known, ftsUp, uncommitted, index, served, reloadState, reloader>>
           /\ ftsLost \subseteq ftsLost' /\ created' \in BOOLEAN
           /\ tasks' = tasks \/ tasks' = tasks \cup {Task(o.op, o)}
           /\ known /\ ~created' => ~created /\ tasks' = tasks
           /\ known /\ o.op = "add" => o.id \in ftsLost' \/ tasks' = tasks \cup {Task(o.op, o)}
<1>1. /\ ftsInbox \in Seq(FtsOperation) /\ ftsInbox # <<>> /\ created \in BOOLEAN
      /\ ftsInbox' = Tail(ftsInbox)
      /\ UNCHANGED <<rows, live, known, ftsUp, uncommitted, index, served, reloadState, reloader>>
  BY DEF FtsInvariant, FtsTypes, FtsReceive, tableSide, writerSide, readerSide
<1>2. o \in FtsOperation /\ ftsInbox' \in Seq(FtsOperation)
  BY <1>1
<1>3. \/ GetOrCreateState(o, FALSE) /\ UNCHANGED tasks
      \/ GetOrCreateState(o, TRUE) /\ CanAllocateMemory(o, FALSE) /\ UNCHANGED tasks
      \/ /\ GetOrCreateState(o, TRUE) /\ CanAllocateMemory(o, TRUE)
         /\ tasks' = tasks \union {Task(o.op, o)}
  BY DEF FtsReceive
<1>4. CASE GetOrCreateState(o, FALSE) /\ UNCHANGED tasks
  BY <1>1, <1>2, <1>4 DEF GetOrCreateState, Lose
<1>5. CASE GetOrCreateState(o, TRUE) /\ CanAllocateMemory(o, FALSE) /\ UNCHANGED tasks
  BY <1>1, <1>2, <1>5 DEF GetOrCreateState, CanAllocateMemory, Lose
<1>6. CASE /\ GetOrCreateState(o, TRUE) /\ CanAllocateMemory(o, TRUE)
           /\ tasks' = tasks \union {Task(o.op, o)}
  BY <1>1, <1>2, <1>6 DEF GetOrCreateState, CanAllocateMemory
<1> QED
  BY <1>3, <1>4, <1>5, <1>6

LEMMA ReceiveKeeps ==
    ASSUME FtsInvariant, FtsReceive
    PROVE  FtsInvariant'
<1> PICK o : o = Head(ftsInbox)
  OBVIOUS
<1> DEFINE new == Task(o.op, o)
<1>1. /\ o \in FtsOperation /\ ftsInbox \in Seq(FtsOperation) /\ ftsInbox # <<>>
      /\ ftsInbox' = Tail(ftsInbox) /\ ftsInbox' \in Seq(FtsOperation)
      /\ UNCHANGED <<rows, live, known, ftsUp, uncommitted, index, served, reloadState, reloader>>
      /\ ftsLost \subseteq ftsLost' /\ created' \in BOOLEAN
      /\ tasks' = tasks \/ tasks' = tasks \cup {new}
      /\ known /\ ~created' => ~created /\ tasks' = tasks
      /\ known /\ o.op = "add" => o.id \in ftsLost' \/ tasks' = tasks \cup {new}
  BY ReceiveDoes
<1>2. o.op \in {"add", "remove"} /\ o.id \in Nat
  BY <1>1 DEF FtsOperation
<1>3. /\ new \in FtsTasks /\ new.at = o.op /\ new.op = o /\ new.guards = {} /\ new.docs = {}
      /\ new.must = {}
  BY <1>1, <1>2, TaskTypes
<1> HIDE DEF new
<1>4. \A op, d : Has(ftsInbox, op, d) <=> (o.op = op /\ o.id = d) \/ Has(ftsInbox', op, d)
  BY <1>1, OperationAhead
<1>5. \A op, d : /\ Carried(op, d) => Carried(op, d)'
                 /\ Carried(op, d)' => Carried(op, d) \/ (o.op = op /\ o.id = d)
  BY <1>1, <1>3 DEF Carried
<1>6. \A op, d : OnTheWay(op, d)' <=>
                     Has(ftsInbox', op, d) \/ Carried(op, d)' \/ Has(uncommitted, op, d)
  BY <1>1 DEF OnTheWay
<1>7. \A d : Guarded(d) => Guarded(d)'
  BY <1>1 DEF Guarded, Outlasts
<1>8. FtsTypes'
  <2>1. IsFiniteSet({})
    BY FS_EmptySet
  <2>2. /\ tasks' \in SUBSET FtsTasks
        /\ \A t \in tasks' :
             /\ t.at \in {"add", "remove"} => t.op \in FtsOperation /\ t.op.op = t.at
             /\ IsFiniteSet(t.docs)
    BY <1>1, <1>3, <2>1 DEF FtsInvariant, FtsTypes
  <2> QED
    BY <1>1, <2>2 DEF FtsInvariant, FtsTypes
<1>9. Lives'
  BY <1>1 DEF FtsInvariant, Lives
<1>10. RemovalsFinal'
  <2>1. \A d : OnTheWay("remove", d)' => OnTheWay("remove", d)
    BY <1>4, <1>5, <1>6 DEF OnTheWay
  <2>2. \A d : Comes(d)' <=> Comes(d)
    BY <1>1 DEF Comes
  <2> QED
    BY <1>1, <2>1, <2>2 DEF FtsInvariant, RemovalsFinal
<1>11. DocumentsKept'
  <2> SUFFICES ASSUME NEW d \in live \ ftsLost', known PROVE Kept(d)'
    BY <1>1 DEF FtsInvariant, Lives, DocumentsKept
  <2>1. Kept(d)
    BY <1>1 DEF FtsInvariant, DocumentsKept
  <2>2. CASE OnTheWay("add", d)
    <3>1. CASE o.op = "add" /\ o.id = d
      <4>1. new \in tasks'
        BY <1>1, <3>1
      <4>2. Carried("add", d)'
        BY <1>3, <3>1, <4>1 DEF Carried
      <4> QED
        BY <1>6, <4>2 DEF Kept
    <3>2. CASE ~(o.op = "add" /\ o.id = d)
      BY <1>4, <1>5, <1>6, <2>2, <3>2 DEF Kept, OnTheWay
    <3> QED
      BY <3>1, <3>2
  <2>3. CASE d \in index.docs /\ (d \in served \/ Guarded(d))
    BY <1>1, <1>7, <2>3 DEF Kept
  <2> QED
    BY <2>1, <2>2, <2>3 DEF Kept
<1>12. SearchesKept'
  <2>1. \A d : Comes(d)' <=> Comes(d)
    BY <1>1 DEF Comes
  <2> QED
    BY <1>1, <1>3, <2>1 DEF FtsInvariant, SearchesKept
<1> QED
  BY <1>8, <1>9, <1>10, <1>11, <1>12 DEF FtsInvariant

LEMMA FinishKeeps ==
    ASSUME FtsInvariant, FtsFinish
    PROVE  FtsInvariant'
<1>1. /\ ~known /\ ftsUp' = FALSE
      /\ UNCHANGED <<rows, live, known, ftsInbox, created, tasks, uncommitted, index, served,
                     reloadState, reloader, ftsLost>>
  BY DEF FtsFinish, tableSide, writerSide, readerSide
<1>2. FtsTypes' /\ Lives'
  BY <1>1 DEF FtsInvariant, FtsTypes, Lives
<1>3. live' = {} /\ rows' = <<>>
  BY <1>1 DEF FtsInvariant, Lives
<1>4. RemovalsFinal' /\ DocumentsKept' /\ SearchesKept'
  BY <1>3 DEF RemovalsFinal, DocumentsKept, SearchesKept, Comes
<1> QED
  BY <1>2, <1>4 DEF FtsInvariant

LEMMA FreeKeeps ==
    ASSUME FtsInvariant, FtsFree
    PROVE  FtsInvariant'
<1>1. /\ ~ftsUp /\ created' = FALSE /\ uncommitted' = <<>>
      /\ reloadState' = [reloadState EXCEPT !.unsearchable = {}]
      /\ UNCHANGED <<rows, live, known, ftsInbox, ftsUp, tasks, index, served, reloader, ftsLost>>
  BY DEF FtsFree, tableSide
<1>2. ~known /\ live' = {} /\ rows' = <<>>
  BY <1>1 DEF FtsInvariant, Lives
<1>3. /\ reloadState' \in [unsearchable : SUBSET (Nat \X FtsOperation), opstamp : Nat,
                           failed : BOOLEAN]
      /\ reloadState'.opstamp = reloadState.opstamp
  <2>1. {} \in SUBSET (Nat \X FtsOperation)
    OBVIOUS
  <2>2. reloadState \in [unsearchable : SUBSET (Nat \X FtsOperation), opstamp : Nat,
                         failed : BOOLEAN]
    BY DEF FtsInvariant, FtsTypes
  <2> QED
    BY <1>1, <2>1, <2>2
<1>4. uncommitted' \in Seq(FtsOperation) /\ created' \in BOOLEAN
  <2>1. <<>> \in Seq(FtsOperation)
    OBVIOUS
  <2> QED
    BY <1>1, <2>1
<1>5. FtsTypes'
  BY <1>1, <1>3, <1>4 DEF FtsInvariant, FtsTypes
<1>6. Lives'
  BY <1>1, <1>2 DEF FtsInvariant, Lives
<1>7. RemovalsFinal' /\ DocumentsKept' /\ SearchesKept'
  BY <1>2 DEF RemovalsFinal, DocumentsKept, SearchesKept, Comes
<1> QED
  BY <1>5, <1>6, <1>7 DEF FtsInvariant

\* A closure that applies nothing, owes nothing to a search and holds no guard
\* comes.
LEMMA ClosureKeeps ==
    ASSUME FtsInvariant, NEW new \in FtsTasks, new.at \notin {"add", "remove", "hand"},
           IsFiniteSet(new.docs), new.must = {}, created, tasks' = tasks \cup {new},
           UNCHANGED <<rows, live, known, ftsInbox, ftsUp, created, uncommitted, index, served,
                       reloadState, reloader, ftsLost>>
    PROVE  FtsInvariant'
<1>1. /\ tasks' \in SUBSET FtsTasks
      /\ \A t \in tasks' :
             /\ t.at \in {"add", "remove"} => t.op \in FtsOperation /\ t.op.op = t.at
             /\ IsFiniteSet(t.docs)
  BY DEF FtsInvariant, FtsTypes
<1>2. FtsTypes'
  BY <1>1 DEF FtsInvariant, FtsTypes
<1>3. Lives'
  BY DEF FtsInvariant, Lives
<1>4. \A op, d : op \in {"add", "remove"} => (OnTheWay(op, d)' <=> OnTheWay(op, d))
  BY DEF OnTheWay, Carried
<1>5. \A d : Guarded(d) => Guarded(d)'
  BY DEF Guarded, Outlasts
<1>6. \A d : Comes(d)' <=> Comes(d)
  BY DEF Comes
<1>7. RemovalsFinal'
  BY <1>4, <1>6 DEF FtsInvariant, RemovalsFinal
<1>8. DocumentsKept'
  BY <1>4, <1>5 DEF FtsInvariant, DocumentsKept, Kept
<1>9. SearchesKept'
  BY <1>6 DEF FtsInvariant, SearchesKept
<1> QED
  BY <1>2, <1>3, <1>7, <1>8, <1>9 DEF FtsInvariant

\* None of the state is touched.
LEMMA RestKeeps ==
    ASSUME FtsInvariant,
           UNCHANGED <<rows, live, known, ftsInbox, ftsUp, created, tasks, uncommitted, index, served,
                       reloadState, reloader, ftsLost>>
    PROVE  FtsInvariant'
  BY DEF FtsInvariant, FtsTypes, Lives, RemovalsFinal, DocumentsKept, SearchesKept, Kept, OnTheWay,
         Carried, Comes, Guarded, Outlasts

LEMMA TickKeeps ==
    ASSUME FtsInvariant, FtsTick
    PROVE  FtsInvariant'
<1>1. /\ created
      /\ UNCHANGED <<rows, live, known, ftsInbox, ftsUp, created, uncommitted, index, served,
                     reloadState, reloader, ftsLost>>
      /\ tasks' = tasks \/ tasks' = tasks \cup {Task("commit", NoOp)}
  BY DEF FtsTick, tableSide, writerSide
<1>2. /\ Task("commit", NoOp) \in FtsTasks /\ Task("commit", NoOp).at = "commit"
      /\ Task("commit", NoOp).docs = {} /\ Task("commit", NoOp).must = {}
  BY TaskTypes
<1>3. CASE tasks' = tasks
  BY <1>1, <1>3, RestKeeps
<1>4. CASE tasks' = tasks \cup {Task("commit", NoOp)}
  <2>1. IsFiniteSet({})
    BY FS_EmptySet
  <2> QED
    BY <1>1, <1>2, <1>4, <2>1, ClosureKeeps
<1> QED
  BY <1>1, <1>3, <1>4

-----------------------------------------------------------------------------
(* The worker threads                                                       *)

LEMMA ApplyKeeps ==
    ASSUME FtsInvariant, NEW t \in tasks, FtsApply(t)
    PROVE  FtsInvariant'
<1> PICK o : o = t.op
  OBVIOUS
<1> DEFINE next == Task("commit", o)
<1>1. /\ t.at \in {"add", "remove"} /\ o \in FtsOperation /\ o.op = t.at /\ o.id \in Nat
      /\ uncommitted \in Seq(FtsOperation) /\ tasks \in SUBSET FtsTasks
  <2>1. t.at \in {"add", "remove"}
    BY DEF FtsApply
  <2>2. o \in FtsOperation /\ o.op = t.at
    BY <2>1 DEF FtsInvariant, FtsTypes
  <2> QED
    BY <2>1, <2>2 DEF FtsOperation, FtsInvariant, FtsTypes
<1>2. /\ next \in FtsTasks /\ next.at = "commit" /\ next.guards = {} /\ next.docs = {}
      /\ next.must = {}
  BY <1>1, TaskTypes
<1>3. /\ UNCHANGED <<rows, live, known, ftsInbox, ftsUp, created, index, served, reloadState,
                     reloader>>
      /\ ftsLost \subseteq ftsLost'
      /\ \/ uncommitted' = Append(uncommitted, o) /\ ftsLost' = ftsLost
         \/ t.at = "add" /\ o.id \in ftsLost' /\ uncommitted' = uncommitted
  BY DEF FtsApply, Lose, tableSide, readerSide
<1>4. tasks' = tasks \ {t} \/ tasks' = (tasks \ {t}) \cup {next}
  BY DEF FtsApply
<1> HIDE DEF next
<1>5. uncommitted' \in Seq(FtsOperation)
  BY <1>1, <1>3
<1>6. \A op, d : Has(Append(uncommitted, o), op, d) <=>
                     Has(uncommitted, op, d) \/ (o.op = op /\ o.id = d)
  BY <1>1, OperationAppended
<1>7. \A op, d : Has(uncommitted', op, d) =>
                     Has(uncommitted, op, d) \/ (o.op = op /\ o.id = d)
  BY <1>3, <1>6
<1>8. \A op, d : op \in {"add", "remove"} =>
          /\ Carried(op, d)' => Carried(op, d)
          /\ Carried(op, d) => Carried(op, d)' \/ (o.op = op /\ o.id = d)
  BY <1>1, <1>2, <1>4 DEF Carried
<1>9. \A op, d : OnTheWay(op, d)' <=>
                     Has(ftsInbox, op, d) \/ Carried(op, d)' \/ Has(uncommitted', op, d)
  BY <1>3 DEF OnTheWay
<1>10. \A d : Guarded(d) => Guarded(d)'
  BY <1>1, <1>3, <1>4 DEF Guarded, Outlasts
<1>11. \A d : Comes(d)' <=> Comes(d)
  BY <1>3 DEF Comes
<1>12. FtsTypes'
  <2>1. IsFiniteSet({})
    BY FS_EmptySet
  <2>2. /\ tasks' \in SUBSET FtsTasks
        /\ \A u \in tasks' :
             /\ u.at \in {"add", "remove"} => u.op \in FtsOperation /\ u.op.op = u.at
             /\ IsFiniteSet(u.docs)
    BY <1>2, <1>4, <2>1 DEF FtsInvariant, FtsTypes
  <2> QED
    BY <1>3, <1>5, <2>2 DEF FtsInvariant, FtsTypes
<1>13. Lives'
  BY <1>3 DEF FtsInvariant, Lives
<1>14. RemovalsFinal'
  <2>1. \A d : OnTheWay("remove", d)' => OnTheWay("remove", d)
    <3> SUFFICES ASSUME NEW d, OnTheWay("remove", d)' PROVE OnTheWay("remove", d)
      OBVIOUS
    <3>1. CASE o.op = "remove" /\ o.id = d
      BY <1>1, <3>1 DEF OnTheWay, Carried
    <3>2. CASE ~(o.op = "remove" /\ o.id = d)
      BY <1>7, <1>8, <1>9, <3>2 DEF OnTheWay
    <3> QED
      BY <3>1, <3>2
  <2> QED
    BY <1>3, <1>11, <2>1 DEF FtsInvariant, RemovalsFinal
<1>15. DocumentsKept'
  <2> SUFFICES ASSUME NEW d \in live \ ftsLost' PROVE Kept(d)'
    BY <1>3 DEF DocumentsKept
  <2>1. Kept(d)
    BY <1>3 DEF FtsInvariant, DocumentsKept
  <2>2. CASE OnTheWay("add", d)
    <3>1. CASE o.op = "add" /\ o.id = d
      <4>1. uncommitted' = Append(uncommitted, o)
        BY <1>3, <3>1
      <4>2. Has(uncommitted', "add", d)
        BY <1>6, <3>1, <4>1
      <4> QED
        BY <1>9, <4>2 DEF Kept
    <3>2. CASE ~(o.op = "add" /\ o.id = d)
      <4>1. Has(uncommitted, "add", d) => Has(uncommitted', "add", d)
        BY <1>3, <1>6
      <4> QED
        BY <1>8, <1>9, <2>2, <3>2, <4>1 DEF Kept, OnTheWay
    <3> QED
      BY <3>1, <3>2
  <2>3. CASE d \in index.docs /\ (d \in served \/ Guarded(d))
    BY <1>3, <1>10, <2>3 DEF Kept
  <2> QED
    BY <2>1, <2>2, <2>3 DEF Kept
<1>16. SearchesKept'
  BY <1>2, <1>3, <1>4, <1>11 DEF FtsInvariant, SearchesKept
<1> QED
  BY <1>12, <1>13, <1>14, <1>15, <1>16 DEF FtsInvariant

LEMMA CommitStepKeeps ==
    ASSUME FtsInvariant, NEW t \in tasks, FtsCommit(t)
    PROVE  FtsInvariant'
<1>1. /\ t.at = "commit" /\ tasks \in SUBSET FtsTasks /\ t \in FtsTasks
      /\ UNCHANGED <<rows, live, known, ftsInbox, ftsUp, created, served, reloadState, reloader,
                     ftsLost>>
  BY DEF FtsCommit, tableSide, FtsInvariant, FtsTypes
<1>2. \A d : Comes(d)' <=> Comes(d)
  BY <1>1 DEF Comes
<1>3. CASE tasks' = tasks \ {t} /\ UNCHANGED <<index, uncommitted>>
  <2>1. \A op, d : op \in {"add", "remove"} => (OnTheWay(op, d)' <=> OnTheWay(op, d))
    BY <1>1, <1>3 DEF OnTheWay, Carried
  <2>2. \A d : Guarded(d) => Guarded(d)'
    BY <1>1, <1>3 DEF Guarded, Outlasts
  <2>3. FtsTypes' /\ Lives'
    BY <1>1, <1>3 DEF FtsInvariant, FtsTypes, Lives
  <2>4. RemovalsFinal'
    BY <1>1, <1>2, <2>1 DEF FtsInvariant, RemovalsFinal
  <2>5. DocumentsKept'
    BY <1>1, <1>3, <2>1, <2>2 DEF FtsInvariant, DocumentsKept, Kept
  <2>6. SearchesKept'
    BY <1>1, <1>2, <1>3 DEF FtsInvariant, SearchesKept
  <2> QED
    BY <2>3, <2>4, <2>5, <2>6 DEF FtsInvariant
<1>4. CASE ~(tasks' = tasks \ {t} /\ UNCHANGED <<index, uncommitted>>)
  <2> DEFINE stamp == index.opstamp + 1
             docs == DocsAfter(index.docs, uncommitted)
             hand == [Task("hand", t.op) EXCEPT !.opstamp = stamp, !.guards = ToSet(uncommitted)]
  <2>1. /\ index' = [opstamp |-> stamp, docs |-> docs]
        /\ tasks' = (tasks \ {t}) \cup {hand} /\ uncommitted' = <<>>
    BY <1>4 DEF FtsCommit
  <2>2. /\ uncommitted \in Seq(FtsOperation) /\ index.opstamp \in Nat /\ index.docs \in SUBSET Nat
        /\ IsFiniteSet(index.docs) /\ reloadState.opstamp \in Nat /\ reloader.opstamp \in Nat
        /\ reloadState.opstamp <= index.opstamp /\ reloader.opstamp <= index.opstamp
    BY DEF FtsInvariant, FtsTypes
  <2>3. docs \in SUBSET Nat /\ IsFiniteSet(docs)
    BY <2>2, CommitTypes
  <2>4. \A d : ~Has(uncommitted, "remove", d) =>
                   (d \in index.docs \/ Has(uncommitted, "add", d) => d \in docs)
    BY <2>2, CommitKeeps
  <2>5. stamp \in Nat /\ stamp > reloadState.opstamp /\ stamp > reloader.opstamp
    BY <2>2
  <2>6. /\ hand \in FtsTasks /\ hand.at = "hand" /\ hand.docs = {} /\ hand.must = {}
        /\ hand.opstamp = stamp /\ hand.guards = ToSet(uncommitted)
    <3>1. ToSet(uncommitted) \subseteq FtsOperation
      BY <2>2 DEF ToSet
    <3>2. t.op \in FtsOperation \cup {NoOp}
      BY <1>1 DEF FtsTasks
    <3> HIDE DEF stamp
    <3> QED
      BY <2>5, <3>1, <3>2 DEF Task, FtsTasks
  <2> HIDE DEF docs, hand
  <2>7. index'.docs = docs /\ index'.opstamp = stamp
    BY <2>1
  <2>8. stamp >= index.opstamp
    BY <2>2
  <2>9. index' \in [opstamp : Nat, docs : SUBSET Nat]
    BY <2>1, <2>3, <2>5
  <2>10. Outlasts(stamp)
    BY <2>5 DEF Outlasts
  <2> HIDE DEF stamp
  <2>11. /\ \A op, d : op \in {"add", "remove"} => (Carried(op, d)' <=> Carried(op, d))
         /\ \A op, d : ~Has(uncommitted', op, d)
    BY <1>1, <2>1, <2>6 DEF Carried, Has, ToSet
  <2>12. \A op, d : op \in {"add", "remove"} =>
             (OnTheWay(op, d)' <=> Has(ftsInbox, op, d) \/ Carried(op, d))
    BY <1>1, <2>11 DEF OnTheWay
  <2>13. \A s : Outlasts(s)' <=> Outlasts(s)
    BY <1>1 DEF Outlasts
  <2>14. \A d : Guarded(d) => Guarded(d)'
    BY <1>1, <2>1, <2>13 DEF Guarded
  <2>15. \A d : Has(uncommitted, "add", d) => Guarded(d)'
    <3>1. ASSUME NEW d, Has(uncommitted, "add", d) PROVE Guarded(d)'
      <4>1. PICK g \in hand.guards : g.id = d
        BY <2>6, <3>1 DEF Has
      <4>2. PICK u \in tasks' : u = hand
        BY <2>1
      <4>3. Outlasts(u.opstamp)
        BY <2>6, <2>10, <4>2
      <4>4. u.at = "hand" /\ g \in u.guards /\ Outlasts(u.opstamp)'
        BY <2>6, <2>13, <4>1, <4>2, <4>3
      <4> QED
        BY <4>1, <4>4 DEF Guarded
    <3> QED
      BY <3>1
  <2>16. \A d \in live : d \in index.docs \/ Has(uncommitted, "add", d) => d \in docs
    <3>1. \A d \in live : ~Has(uncommitted, "remove", d)
      <4>1. \A d \in live : d \in Nat
        BY DEF FtsInvariant, FtsTypes
      <4> QED
        BY <4>1 DEF FtsInvariant, RemovalsFinal, OnTheWay
    <3> QED
      BY <2>4, <3>1
  <2>17. FtsTypes'
    <3>1. IsFiniteSet({})
      BY FS_EmptySet
    <3>2. /\ tasks' \in SUBSET FtsTasks
          /\ \A u \in tasks' :
               /\ u.at \in {"add", "remove"} => u.op \in FtsOperation /\ u.op.op = u.at
               /\ IsFiniteSet(u.docs)
      BY <1>1, <2>1, <2>6, <3>1 DEF FtsInvariant, FtsTypes
    <3>3. reloadState'.opstamp <= index'.opstamp /\ reloader'.opstamp <= index'.opstamp
      BY <1>1, <2>2, <2>5, <2>7
    <3>4. uncommitted' \in Seq(FtsOperation)
      <4>1. <<>> \in Seq(FtsOperation)
        OBVIOUS
      <4> QED
        BY <2>1, <4>1
    <3> QED
      BY <1>1, <2>3, <2>7, <2>9, <3>2, <3>3, <3>4 DEF FtsInvariant, FtsTypes
  <2>18. Lives'
    BY <1>1 DEF FtsInvariant, Lives
  <2>19. RemovalsFinal'
    BY <1>1, <1>2, <2>12 DEF FtsInvariant, RemovalsFinal, OnTheWay
  <2>20. DocumentsKept'
    <3> SUFFICES ASSUME NEW d \in live \ ftsLost PROVE Kept(d)'
      BY <1>1 DEF DocumentsKept
    <3>1. Kept(d)
      BY DEF FtsInvariant, DocumentsKept
    <3>2. CASE Has(ftsInbox, "add", d) \/ Carried("add", d)
      BY <2>12, <3>2 DEF Kept
    <3>3. CASE Has(uncommitted, "add", d)
      BY <2>7, <2>15, <2>16, <3>3 DEF Kept
    <3>4. CASE d \in index.docs /\ (d \in served \/ Guarded(d))
      BY <1>1, <2>7, <2>14, <2>16, <3>4 DEF Kept
    <3> QED
      BY <3>1, <3>2, <3>3, <3>4 DEF Kept, OnTheWay
  <2>21. SearchesKept'
    <3> SUFFICES ASSUME NEW u \in tasks', NEW d \in u.must
                 PROVE  /\ d \in live \/ ~Comes(d)
                        /\ d \in live /\ u.at = "search" => d \in served /\ d \in docs
                        /\ d \in live /\ u.at = "rank" => d \in u.docs
      BY <1>1, <1>2, <2>7 DEF SearchesKept
    <3>1. u \in tasks
      BY <2>1, <2>6
    <3> QED
      BY <2>16, <3>1 DEF FtsInvariant, SearchesKept
  <2> QED
    BY <2>17, <2>18, <2>19, <2>20, <2>21 DEF FtsInvariant
<1> QED
  BY <1>3, <1>4

LEMMA HandOverKeeps ==
    ASSUME FtsInvariant, NEW t \in tasks, FtsHandOver(t)
    PROVE  FtsInvariant'
<1>1. /\ t.at = "hand" /\ tasks' = tasks \ {t} /\ t \in FtsTasks
      /\ reloadState \in [unsearchable : SUBSET (Nat \X FtsOperation), opstamp : Nat,
                          failed : BOOLEAN]
      /\ UNCHANGED <<rows, live, known, ftsInbox, ftsUp, created, uncommitted, index, served,
                     reloader, ftsLost>>
  BY DEF FtsHandOver, tableSide, writerSide, FtsInvariant, FtsTypes
<1> DEFINE held == {<<t.opstamp, g>> : g \in t.guards}
<1>2. reloadState' = IF KeepGuards(t)
        THEN [reloadState EXCEPT !.unsearchable = reloadState.unsearchable \cup held]
        ELSE reloadState
  BY DEF FtsHandOver
<1>3. held \subseteq Nat \X FtsOperation
  BY <1>1 DEF FtsTasks
<1>4. /\ reloadState' \in [unsearchable : SUBSET (Nat \X FtsOperation), opstamp : Nat,
                           failed : BOOLEAN]
      /\ reloadState'.opstamp = reloadState.opstamp
      /\ reloadState.unsearchable \subseteq reloadState'.unsearchable
      /\ KeepGuards(t) => held \subseteq reloadState'.unsearchable
  <2> HIDE DEF held
  <2>1. CASE KeepGuards(t)
    <3>1. reloadState.unsearchable \cup held \in SUBSET (Nat \X FtsOperation)
      BY <1>1, <1>3
    <3> QED
      BY <1>1, <1>2, <2>1, <3>1
  <2>2. CASE ~KeepGuards(t)
    BY <1>1, <1>2, <2>2
  <2> QED
    BY <2>1, <2>2
<1>5. \A op, d : op \in {"add", "remove"} => (OnTheWay(op, d)' <=> OnTheWay(op, d))
  BY <1>1 DEF OnTheWay, Carried
<1>6. \A s : Outlasts(s)' <=> Outlasts(s)
  BY <1>1, <1>4 DEF Outlasts
<1>7. \A d : Guarded(d) => Guarded(d)'
  <2> SUFFICES ASSUME NEW d, Guarded(d) PROVE Guarded(d)'
    OBVIOUS
  <2>1. CASE t.at = "hand" /\ Outlasts(t.opstamp) /\ \E g \in t.guards : g.id = d
    <3>1. PICK g \in t.guards : g.id = d
      BY <2>1
    <3>2. KeepGuards(t)
      BY <2>1 DEF KeepGuards, Outlasts
    <3>3. <<t.opstamp, g>> \in reloadState'.unsearchable
      BY <1>4, <3>2
    <3>4. Outlasts(<<t.opstamp, g>>[1])' /\ <<t.opstamp, g>>[2].id = d
      BY <1>6, <2>1, <3>1
    <3> QED
      BY <3>3, <3>4 DEF Guarded
  <2>2. CASE \E u \in tasks \ {t} :
                 u.at = "hand" /\ Outlasts(u.opstamp) /\ \E g \in u.guards : g.id = d
    BY <1>1, <1>6, <2>2 DEF Guarded
  <2>3. CASE \E u \in reloadState.unsearchable : Outlasts(u[1]) /\ u[2].id = d
    BY <1>4, <1>6, <2>3 DEF Guarded
  <2> QED
    BY <2>1, <2>2, <2>3 DEF Guarded
<1>8. \A d : Comes(d)' <=> Comes(d)
  BY <1>1 DEF Comes
<1>9. FtsTypes'
  BY <1>1, <1>4 DEF FtsInvariant, FtsTypes
<1>10. Lives'
  BY <1>1 DEF FtsInvariant, Lives
<1>11. RemovalsFinal'
  BY <1>1, <1>5, <1>8 DEF FtsInvariant, RemovalsFinal
<1>12. DocumentsKept'
  BY <1>1, <1>5, <1>7 DEF FtsInvariant, DocumentsKept, Kept
<1>13. SearchesKept'
  BY <1>1, <1>8 DEF FtsInvariant, SearchesKept
<1> QED
  BY <1>9, <1>10, <1>11, <1>12, <1>13 DEF FtsInvariant

-----------------------------------------------------------------------------
(* Reloads                                                                  *)

LEMMA ReloadKeeps ==
    ASSUME FtsInvariant, FtsReload
    PROVE  FtsInvariant'
<1> DEFINE States == [unsearchable : SUBSET (Nat \X FtsOperation), opstamp : Nat, failed : BOOLEAN]
           Reloaders == [pc : {"idle", "reader", "guards"}, opstamp : Nat]
<1>1. /\ UNCHANGED <<rows, live, known, ftsInbox, ftsUp, created, tasks, uncommitted, index, ftsLost>>
      /\ ReloadMetas \/ ReloadReader \/ ReloadGuards
  BY DEF FtsReload, tableSide, writerSide
<1>2. /\ reloadState \in States /\ reloader \in Reloaders
      /\ index.opstamp \in Nat /\ index.docs \in SUBSET Nat /\ IsFiniteSet(index.docs)
      /\ served \in SUBSET Nat /\ IsFiniteSet(served)
      /\ reloadState.opstamp <= index.opstamp /\ reloader.opstamp <= index.opstamp
  BY DEF FtsInvariant, FtsTypes
\* What of the reload's state a step may change.
<1>3. /\ reloadState' \in States /\ reloader' \in Reloaders
      /\ reloadState'.opstamp <= index.opstamp /\ reloader'.opstamp <= index.opstamp
      /\ served' = served \/ served' = index.docs
      /\ served' = index.docs \/ \A d : Guarded(d) => Guarded(d)'
  <2>1. CASE ReloadMetas
    <3>1. /\ served' = served /\ reloader.pc = "idle"
          /\ \/ reloader' = [pc |-> "reader", opstamp |-> index.opstamp] /\ reloadState' = reloadState
             \/ reloadState' = [reloadState EXCEPT !.failed = TRUE] /\ reloader' = reloader
      BY <2>1 DEF ReloadMetas
    <3>2. /\ reloadState' \in States /\ reloader' \in Reloaders
          /\ reloadState'.opstamp = reloadState.opstamp
          /\ reloadState'.unsearchable = reloadState.unsearchable
          /\ reloader'.opstamp \in {index.opstamp, reloader.opstamp} /\ reloader'.pc # "guards"
      <4>1. CASE /\ reloader' = [pc |-> "reader", opstamp |-> index.opstamp]
                 /\ reloadState' = reloadState
        BY <1>2, <4>1
      <4>2. CASE reloadState' = [reloadState EXCEPT !.failed = TRUE] /\ reloader' = reloader
        BY <1>2, <3>1, <4>2
      <4> QED
        BY <3>1, <4>1, <4>2
    <3>3. \A s : Outlasts(s) => Outlasts(s)'
      BY <3>2 DEF Outlasts
    <3>4. \A d : Guarded(d) => Guarded(d)'
      BY <1>1, <3>2, <3>3 DEF Guarded
    <3> QED
      BY <1>2, <3>1, <3>2, <3>4
  <2>2. CASE ReloadReader
    <3>1. /\ served' = served \/ served' = index.docs
          /\ \/ /\ reloader' = [reloader EXCEPT !.pc = "guards"] /\ reloadState' = reloadState
                /\ served' = index.docs
             \/ /\ reloadState' = [reloadState EXCEPT !.failed = TRUE]
                /\ reloader' = [reloader EXCEPT !.pc = "idle"]
      BY <2>2 DEF ReloadReader
    <3>2. /\ reloadState' \in States /\ reloader' \in Reloaders
          /\ reloadState'.opstamp = reloadState.opstamp
          /\ reloadState'.unsearchable = reloadState.unsearchable
          /\ reloader'.opstamp = reloader.opstamp
          /\ served' = index.docs \/ reloader'.pc # "guards"
      <4>1. CASE /\ reloader' = [reloader EXCEPT !.pc = "guards"] /\ reloadState' = reloadState
                 /\ served' = index.docs
        BY <1>2, <4>1
      <4>2. CASE /\ reloadState' = [reloadState EXCEPT !.failed = TRUE]
                 /\ reloader' = [reloader EXCEPT !.pc = "idle"]
        BY <1>2, <4>2
      <4> QED
        BY <3>1, <4>1, <4>2
    <3>3. served' = index.docs \/ \A s : Outlasts(s) => Outlasts(s)'
      BY <3>2 DEF Outlasts
    <3>4. served' = index.docs \/ \A d : Guarded(d) => Guarded(d)'
      BY <1>1, <3>2, <3>3 DEF Guarded
    <3> QED
      BY <1>2, <3>1, <3>2, <3>4
  <2>3. CASE ReloadGuards
    <3> DEFINE left == {g \in reloadState.unsearchable : g[1] > reloader.opstamp}
    <3>1. /\ served' = served /\ reloader.pc = "guards"
          /\ reloader' = [reloader EXCEPT !.pc = "idle"]
          /\ reloadState' = [unsearchable |-> left, opstamp |-> reloader.opstamp, failed |-> FALSE]
      BY <2>3 DEF ReloadGuards, ReloadedAt
    <3>2. left \in SUBSET (Nat \X FtsOperation)
      BY <1>2
    <3>3. \A g \in reloadState.unsearchable : Outlasts(g[1]) => g \in left
      BY <3>1 DEF Outlasts
    <3> HIDE DEF left
    <3>4. /\ reloadState' \in States /\ reloader' \in Reloaders
          /\ reloadState'.opstamp = reloader.opstamp /\ reloadState'.unsearchable = left
          /\ reloader'.opstamp = reloader.opstamp /\ reloader'.pc = "idle"
      BY <1>2, <3>1, <3>2
    <3>5. \A s : Outlasts(s) => Outlasts(s)'
      BY <3>1, <3>4 DEF Outlasts
    <3>6. \A d : Guarded(d) => Guarded(d)'
      BY <1>1, <3>3, <3>4, <3>5 DEF Guarded
    <3> QED
      BY <1>2, <3>1, <3>4, <3>6
  <2> QED
    BY <1>1, <2>1, <2>2, <2>3
<1> HIDE DEF States, Reloaders
<1>4. /\ \A op, d : OnTheWay(op, d)' <=> OnTheWay(op, d)
      /\ \A d : Comes(d)' <=> Comes(d)
  BY <1>1 DEF OnTheWay, Carried, Comes
<1>5. FtsTypes'
  <2>1. served' \in SUBSET Nat /\ IsFiniteSet(served')
    BY <1>2, <1>3
  <2> QED
    BY <1>1, <1>3, <2>1 DEF FtsInvariant, FtsTypes, States, Reloaders
<1>6. Lives'
  BY <1>1 DEF FtsInvariant, Lives
<1>7. RemovalsFinal'
  BY <1>1, <1>4 DEF FtsInvariant, RemovalsFinal
<1>8. DocumentsKept'
  <2> SUFFICES ASSUME NEW d \in live \ ftsLost PROVE Kept(d)'
    BY <1>1 DEF DocumentsKept
  <2>1. Kept(d)
    BY DEF FtsInvariant, DocumentsKept
  <2>2. CASE OnTheWay("add", d)
    BY <1>4, <2>2 DEF Kept
  <2>3. CASE d \in index.docs /\ (d \in served \/ Guarded(d))
    BY <1>1, <1>3, <2>3 DEF Kept
  <2> QED
    BY <2>1, <2>2, <2>3 DEF Kept
<1>9. SearchesKept'
  BY <1>1, <1>3, <1>4 DEF FtsInvariant, SearchesKept
<1> QED
  BY <1>5, <1>6, <1>7, <1>8, <1>9 DEF FtsInvariant

-----------------------------------------------------------------------------
(* Searches                                                                 *)

\* Nothing that a search waits for is still under a guard.
LEMMA PromisedServed ==
    ASSUME FtsInvariant, NEW d \in Promised
    PROVE  d \in live /\ d \in served /\ d \in index.docs
<1>1. d \in live \ ftsLost /\ \A g \in GuardsHeld : g.id # d
  BY DEF Promised
<1>2. Kept(d)
  BY <1>1 DEF FtsInvariant, DocumentsKept
<1> DEFINE closures == {t.op : t \in {u \in tasks : u.at \in {"add", "remove"}}}
           committed == UNION {t.guards : t \in tasks}
           waiting == {g[2] : g \in reloadState.unsearchable}
<1>3. /\ \A t \in tasks : t.at = "add" => t.op \in closures
      /\ \A t \in tasks : \A g \in t.guards : g \in committed
      /\ \A u \in reloadState.unsearchable : u[2] \in waiting
  OBVIOUS
<1>4. GuardsHeld = ToSet(ftsInbox) \cup closures \cup committed \cup ToSet(uncommitted) \cup waiting
  BY DEF GuardsHeld
<1> HIDE DEF closures, committed, waiting
<1>5. ~OnTheWay("add", d)
  BY <1>1, <1>3, <1>4 DEF OnTheWay, Has, Carried
<1>6. ~Guarded(d)
  BY <1>1, <1>3, <1>4 DEF Guarded
<1> QED
  BY <1>1, <1>2, <1>5, <1>6 DEF Kept

LEMMA RequestKeeps ==
    ASSUME FtsInvariant, FtsRequest
    PROVE  FtsInvariant'
<1>1. /\ UNCHANGED <<rows, live, known, ftsInbox, ftsUp, created, uncommitted, index, served,
                     reloadState, reloader, ftsLost>>
      /\ tasks' = IF ~GetState THEN tasks
                  ELSE tasks \union {[Task("search", NoOp) EXCEPT !.must = Promised]}
  BY DEF FtsRequest, tableSide, writerSide, readerSide
<1>2. CASE ~GetState
  BY <1>1, <1>2, RestKeeps
<1>3. CASE GetState
  <2> DEFINE new == [Task("search", NoOp) EXCEPT !.must = Promised]
  <2>1. tasks' = tasks \cup {new} /\ created
    BY <1>1, <1>3 DEF GetState
  <2>2. Promised \in SUBSET Nat
    BY DEF Promised, FtsInvariant, FtsTypes
  <2>3. /\ new \in FtsTasks /\ new.at = "search" /\ new.docs = {} /\ new.must = Promised
    <3> HIDE DEF NoOp, Promised
    <3> QED
      BY <2>2 DEF Task, FtsTasks
  <2> HIDE DEF new
  <2>4. /\ tasks' \in SUBSET FtsTasks
        /\ \A t \in tasks' :
               /\ t.at \in {"add", "remove"} => t.op \in FtsOperation /\ t.op.op = t.at
               /\ IsFiniteSet(t.docs)
    <3>1. IsFiniteSet({})
      BY FS_EmptySet
    <3> QED
      BY <2>1, <2>3, <3>1 DEF FtsInvariant, FtsTypes
  <2>5. FtsTypes'
    BY <1>1, <2>4 DEF FtsInvariant, FtsTypes
  <2>6. Lives'
    BY <1>1, <2>1 DEF FtsInvariant, Lives
  <2>7. \A op, d : op \in {"add", "remove"} => (OnTheWay(op, d)' <=> OnTheWay(op, d))
    BY <1>1, <2>1, <2>3 DEF OnTheWay, Carried
  <2>8. \A d : Guarded(d) => Guarded(d)'
    BY <1>1, <2>1 DEF Guarded, Outlasts
  <2>9. \A d : Comes(d)' <=> Comes(d)
    BY <1>1 DEF Comes
  <2>10. RemovalsFinal'
    BY <1>1, <2>7, <2>9 DEF FtsInvariant, RemovalsFinal
  <2>11. DocumentsKept'
    BY <1>1, <2>7, <2>8 DEF FtsInvariant, DocumentsKept, Kept
  <2>12. SearchesKept'
    <3>1. \A d \in new.must : d \in live /\ d \in served /\ d \in index.docs
      BY <2>3, PromisedServed
    <3> QED
      BY <1>1, <2>1, <2>3, <2>9, <3>1 DEF FtsInvariant, SearchesKept
  <2> QED
    BY <2>5, <2>6, <2>10, <2>11, <2>12 DEF FtsInvariant
<1> QED
  BY <1>2, <1>3

LEMMA SearchKeeps ==
    ASSUME FtsInvariant, NEW t \in tasks, FtsSearch(t) \/ FtsAnswer(t)
    PROVE  FtsInvariant'
<1> DEFINE found == [t EXCEPT !.at = "rank", !.docs = served]
<1>1. /\ t.at \in {"search", "rank"} /\ t \in FtsTasks
      /\ UNCHANGED <<rows, live, known, ftsInbox, ftsUp, created, uncommitted, index, served,
                     reloadState, reloader, ftsLost>>
      /\ tasks' = tasks \ {t} \/ (t.at = "search" /\ tasks' = (tasks \ {t}) \cup {found})
  BY DEF FtsSearch, FtsAnswer, tableSide, writerSide, readerSide, FtsInvariant, FtsTypes
<1>2. served \in SUBSET Nat /\ IsFiniteSet(served)
  BY DEF FtsInvariant, FtsTypes
<1>3. found \in FtsTasks /\ found.at = "rank" /\ found.docs = served /\ found.must = t.must
  BY <1>1, <1>2 DEF FtsTasks
<1> HIDE DEF found
<1>4. /\ tasks' \in SUBSET FtsTasks
      /\ \A u \in tasks' :
             /\ u.at \in {"add", "remove"} => u.op \in FtsOperation /\ u.op.op = u.at
             /\ IsFiniteSet(u.docs)
  BY <1>1, <1>2, <1>3 DEF FtsInvariant, FtsTypes
<1>5. FtsTypes'
  BY <1>1, <1>4 DEF FtsInvariant, FtsTypes
<1>6. Lives'
  BY <1>1 DEF FtsInvariant, Lives
<1>7. \A op, d : op \in {"add", "remove"} => (OnTheWay(op, d)' <=> OnTheWay(op, d))
  BY <1>1, <1>3 DEF OnTheWay, Carried
<1>8. \A d : Guarded(d) => Guarded(d)'
  BY <1>1 DEF Guarded, Outlasts
<1>9. \A d : Comes(d)' <=> Comes(d)
  BY <1>1 DEF Comes
<1>10. RemovalsFinal'
  BY <1>1, <1>7, <1>9 DEF FtsInvariant, RemovalsFinal
<1>11. DocumentsKept'
  BY <1>1, <1>7, <1>8 DEF FtsInvariant, DocumentsKept, Kept
<1>12. SearchesKept'
  BY <1>1, <1>3, <1>9 DEF FtsInvariant, SearchesKept
<1> QED
  BY <1>5, <1>6, <1>10, <1>11, <1>12 DEF FtsInvariant

-----------------------------------------------------------------------------
LEMMA FtsStepKeeps == FtsInvariant /\ [FtsNext]_ftsVars => FtsInvariant'
<1> SUFFICES ASSUME FtsInvariant, [FtsNext]_ftsVars PROVE FtsInvariant'
  OBVIOUS
<1>1. CASE FtsNext
  <2>1. ASSUME NEW t \in tasks,
               \/ FtsApply(t) \/ FtsCommit(t) \/ FtsHandOver(t) \/ FtsSearch(t) \/ FtsAnswer(t)
        PROVE  FtsInvariant'
    BY <2>1, ApplyKeeps, CommitStepKeeps, HandOverKeeps, SearchKeeps
  <2>2. CASE Closure
    BY <2>1, <2>2 DEF Closure
  <2> QED
    BY <1>1, <2>2, RowChangeKeeps, DropIndexKeeps, ReceiveKeeps, FinishKeeps, FreeKeeps, TickKeeps,
       ReloadKeeps, RequestKeeps DEF FtsNext
<1>2. CASE UNCHANGED ftsVars
  BY <1>2, RestKeeps DEF ftsVars
<1> QED
  BY <1>1, <1>2

LEMMA FtsInvariantSearches == FtsInvariant => SearchFindsFinished
<1> SUFFICES ASSUME FtsInvariant, NEW t \in tasks, t.at = "rank",
                    NEW answer \in SearchAnswers(t, Cardinality(t.docs))
             PROVE  t.must \intersect live \subseteq answer
  BY DEF SearchFindsFinished
<1>1. IsFiniteSet(t.docs)
  BY DEF FtsInvariant, FtsTypes
<1>2. Cardinality(t.docs) \in Nat
  BY <1>1, FS_CardinalityType
<1>3. PICK top \in SUBSET t.docs : answer = top \intersect live /\ Cardinality(top) = Cardinality(t.docs)
  BY <1>2 DEF SearchAnswers
<1>4. top = t.docs
  BY <1>1, <1>3, FS_Subset
<1>5. \A d \in t.must : d \in live => d \in t.docs
  BY DEF FtsInvariant, SearchesKept
<1> QED
  BY <1>3, <1>4, <1>5

LEMMA FtsInvariantCounts == FtsInvariant => CountsFinished
<1> SUFFICES ASSUME FtsInvariant, known, GuardsHeld = {}, ftsLost = {}
             PROVE  FtsCountAnswer >= Cardinality(live)
  BY DEF CountsFinished
<1>1. live \subseteq served /\ live \subseteq index.docs
  <2>1. Promised = live
    BY DEF Promised
  <2> QED
    BY <2>1, PromisedServed
<1>2. IsFiniteSet(served)
  BY DEF FtsInvariant, FtsTypes
<1>3. /\ IsFiniteSet(live) /\ Cardinality(live) <= Cardinality(served)
  BY <1>1, <1>2, FS_Subset
<1>4. Cardinality(live) \in Nat /\ Cardinality(served) \in Nat
  BY <1>2, <1>3, FS_CardinalityType
<1>5. CASE created
  BY <1>3, <1>4, <1>5 DEF FtsCountAnswer, GetState
<1>6. CASE ~created
  <2>1. live = {}
    BY <1>1, <1>6 DEF FtsInvariant, Lives
  <2>2. Cardinality(live) = 0
    BY <2>1, FS_EmptySet
  <2> QED
    BY <1>6, <2>2 DEF FtsCountAnswer, GetState
<1> QED
  BY <1>5, <1>6

-----------------------------------------------------------------------------
(* Recursion over the nodes of a query                                      *)

\* A node of a query: its kind, its term, and clauses that come before.
LEMMA NodesOf ==
    ASSUME NEW q, IsQuery(q)
    PROVE  /\ Len(q) \in Nat /\ Len(q) \in 1..Len(q) /\ DOMAIN q = 1..Len(q)
           /\ \A n \in 1..Len(q) :
                /\ q[n] = [kind |-> q[n].kind, term |-> q[n].term, clauses |-> q[n].clauses]
                /\ q[n].kind \in {"bool", "term", "boost"} /\ q[n].term # "error"
                /\ \A c \in q[n].clauses : c[2] \in 1..(n - 1) /\ c[2] \in 1..Len(q)
<1>1. Len(q) \in Nat /\ Len(q) \in 1..Len(q) /\ DOMAIN q = 1..Len(q)
  BY DEF IsQuery
<1>2. ASSUME NEW n \in 1..Len(q)
      PROVE  /\ q[n] = [kind |-> q[n].kind, term |-> q[n].term, clauses |-> q[n].clauses]
             /\ q[n].kind \in {"bool", "term", "boost"} /\ q[n].term # "error"
             /\ q[n].clauses \subseteq Occurs \X (1..n - 1)
  BY <1>1 DEF IsQuery
<1>3. ASSUME NEW n \in 1..Len(q), NEW c \in q[n].clauses
      PROVE  c[2] \in 1..(n - 1) /\ c[2] \in 1..Len(q)
  <2>1. c \in Occurs \X (1..n - 1)
    BY <1>2
  <2>2. c[2] \in 1..(n - 1)
    BY <2>1
  <2> QED
    BY <1>1, <2>2
<1> QED
  BY <1>1, <1>2, <1>3

NodesBefore(r, N) ==
    \A n \in 1..N : \A c \in r[n].clauses : c[2] \in 1..(n - 1) /\ c[2] \in 1..N
TermsAt(r, n, terms) ==
    IF r[n].kind = "bool" THEN UNION {terms[c[2]] : c \in r[n].clauses} ELSE {r[n].term}

LEMMA TermsOfNodes ==
    ASSUME NEW N \in Nat, NEW r, DOMAIN r = 1..N, NodesBefore(r, N)
    PROVE  \A n \in 1..N : QueryTerms(r)[n] = TermsAt(r, n, QueryTerms(r))
<1> DEFINE V == SUBSET {r[n].term : n \in 1..N}
           S == [1..N -> V]
           At(F, n) == TermsAt(r, n, F)
           def == [n \in 1..N |-> [F \in S |-> At(F, n)]]
           Fix(F) == F = [n \in DOMAIN r |-> At(F, n)]
           G == CHOOSE F : Fix(F)
<1> USE DEF NodesBefore, TermsAt
<1>1. \A n \in 1..N : \A F \in S : At(F, n) \in V
  <2> SUFFICES ASSUME NEW n \in 1..N, NEW F \in S PROVE At(F, n) \in V
    OBVIOUS
  <2>1. \A c \in r[n].clauses : F[c[2]] \in V
    OBVIOUS
  <2>2. UNION {F[c[2]] : c \in r[n].clauses} \in V
    BY <2>1
  <2>3. {r[n].term} \in V
    OBVIOUS
  <2> HIDE DEF V
  <2> QED
    BY <2>2, <2>3
<1>2. \A n \in 1..N : \A F, H \in S : (\A k \in 1..(n - 1) : F[k] = H[k]) => At(F, n) = At(H, n)
  <2> SUFFICES ASSUME NEW n \in 1..N, NEW F \in S, NEW H \in S, \A k \in 1..(n - 1) : F[k] = H[k]
               PROVE  At(F, n) = At(H, n)
    OBVIOUS
  <2>1. \A c \in r[n].clauses : F[c[2]] = H[c[2]]
    OBVIOUS
  <2>2. {F[c[2]] : c \in r[n].clauses} = {H[c[2]] : c \in r[n].clauses}
    BY <2>1
  <2> QED
    BY <2>2
<1> HIDE DEF At, NodesBefore, TermsAt
<1>3. \E F : Fix(F)
  <2>1. {} \in V
    OBVIOUS
  <2>2. def \in [1..N -> [S -> V]] /\ \A n \in 1..N : \A F \in S : def[n][F] = At(F, n)
    BY <1>1
  <2> HIDE DEF def, V
  <2>3. \A n \in 1..N : \A F, H \in S :
            (\A k \in 1..(n - 1) : F[k] = H[k]) => def[n][F] = def[n][H]
    <3> HIDE DEF S
    <3> QED
      BY <1>2, <2>2
  <2>4. PICK F : F \in Recursive(N, V, def)
    <3>1. N \in Nat /\ def \in [1..N -> [[1..N -> V] -> V]]
      BY <2>2
    <3>2. \A n \in 1..N : \A F, H \in [1..N -> V] :
              (\A k \in 1..(n - 1) : F[k] = H[k]) => def[n][F] = def[n][H]
      BY <2>3
    <3>3. Recursive(N, V, def) # {}
      BY <2>1, <3>1, <3>2, RecursionExists
    <3> QED
      BY <3>3
  <2>5. F \in S /\ \A n \in 1..N : F[n] = At(F, n)
    BY <2>2, <2>4 DEF Recursive
  <2>6. Fix(F)
    BY <2>5
  <2> QED
    BY <2>6
<1>4. QueryTerms(r) = G
  BY DEF QueryTerms, At, TermsAt
<1>5. Fix(G)
  <2> HIDE DEF Fix
  <2> QED
    BY <1>3, Zenon
<1> HIDE DEF G
<1>6. \A n \in 1..N : G[n] = At(G, n)
  BY <1>5
<1> QED
  BY <1>4, <1>6 DEF At

LEMMA PositiveOfNodes ==
    ASSUME NEW q, IsQuery(q)
    PROVE  \A n \in 1..Len(q) : PositiveTerms(q)[n] =
               CASE q[n].kind = "boost" -> {"error"}
                 [] q[n].kind = "term"  -> {q[n].term}
                 [] OTHER -> UNION {PositiveTerms(q)[c[2]] : c \in {d \in q[n].clauses : d[1] # "must_not"}}
<1> DEFINE N == Len(q)
           V == SUBSET ({q[n].term : n \in 1..N} \cup {"error"})
           S == [1..N -> V]
           At(F, n) == CASE q[n].kind = "boost" -> {"error"}
                         [] q[n].kind = "term"  -> {q[n].term}
                         [] OTHER -> UNION {F[c[2]] : c \in {d \in q[n].clauses : d[1] # "must_not"}}
           def == [n \in 1..N |-> [F \in S |-> At(F, n)]]
           Fix(F) == F = [n \in DOMAIN q |-> At(F, n)]
           G == CHOOSE F : Fix(F)
<1>1. /\ N \in Nat /\ DOMAIN q = 1..N
      /\ \A n \in 1..N : \A c \in q[n].clauses : c[2] \in 1..(n - 1) /\ c[2] \in 1..N
  BY NodesOf
<1> HIDE DEF N
<1>2. \A n \in 1..N : \A F \in S : At(F, n) \in V
  <2> SUFFICES ASSUME NEW n \in 1..N, NEW F \in S PROVE At(F, n) \in V
    OBVIOUS
  <2>1. \A c \in {d \in q[n].clauses : d[1] # "must_not"} : F[c[2]] \in V
    BY <1>1
  <2>2. UNION {F[c[2]] : c \in {d \in q[n].clauses : d[1] # "must_not"}} \in V
    BY <2>1
  <2>3. {q[n].term} \in V /\ {"error"} \in V
    OBVIOUS
  <2> HIDE DEF V
  <2> QED
    BY <2>2, <2>3
<1>3. \A n \in 1..N : \A F, H \in S : (\A k \in 1..(n - 1) : F[k] = H[k]) => At(F, n) = At(H, n)
  <2> SUFFICES ASSUME NEW n \in 1..N, NEW F \in S, NEW H \in S, \A k \in 1..(n - 1) : F[k] = H[k]
               PROVE  At(F, n) = At(H, n)
    OBVIOUS
  <2>1. \A c \in {d \in q[n].clauses : d[1] # "must_not"} : F[c[2]] = H[c[2]]
    BY <1>1
  <2>2. {F[c[2]] : c \in {d \in q[n].clauses : d[1] # "must_not"}} =
        {H[c[2]] : c \in {d \in q[n].clauses : d[1] # "must_not"}}
    BY <2>1
  <2> QED
    BY <2>2
<1> HIDE DEF At
<1>4. \E F : Fix(F)
  <2>1. {} \in V
    OBVIOUS
  <2>2. def \in [1..N -> [S -> V]] /\ \A n \in 1..N : \A F \in S : def[n][F] = At(F, n)
    BY <1>2
  <2> HIDE DEF def, V
  <2>3. \A n \in 1..N : \A F, H \in S :
            (\A k \in 1..(n - 1) : F[k] = H[k]) => def[n][F] = def[n][H]
    <3> HIDE DEF S
    <3> QED
      BY <1>3, <2>2
  <2>4. PICK F : F \in Recursive(N, V, def)
    <3>1. N \in Nat /\ def \in [1..N -> [[1..N -> V] -> V]]
      BY <1>1, <2>2
    <3>2. \A n \in 1..N : \A F, H \in [1..N -> V] :
              (\A k \in 1..(n - 1) : F[k] = H[k]) => def[n][F] = def[n][H]
      BY <2>3
    <3>3. Recursive(N, V, def) # {}
      BY <2>1, <3>1, <3>2, RecursionExists
    <3> QED
      BY <3>3
  <2>5. F \in S /\ \A n \in 1..N : F[n] = At(F, n)
    BY <2>2, <2>4 DEF Recursive
  <2>6. Fix(F)
    BY <1>1, <2>5
  <2> QED
    BY <2>6
<1>5. PositiveTerms(q) = G
  BY DEF PositiveTerms, At
<1>6. Fix(G)
  <2> HIDE DEF Fix
  <2> QED
    BY <1>4, Zenon
<1> HIDE DEF G
<1>7. \A n \in 1..N : G[n] = At(G, n)
  BY <1>1, <1>6
<1> QED
  BY <1>5, <1>7 DEF At, N

LEMMA StrippedNodes ==
    ASSUME NEW q, IsQuery(q)
    PROVE  /\ DOMAIN strip_negated_clauses(q) = 1..Len(q)
           /\ \A n \in 1..Len(q) : strip_negated_clauses(q)[n] =
                CASE q[n].kind = "boost" -> QueryError
                  [] q[n].kind = "term"  -> q[n]
                  [] OTHER ->
                       LET kept == {c \in q[n].clauses : c[1] # "must_not"}
                       IN IF \E c \in kept : strip_negated_clauses(q)[c[2]] = QueryError
                          THEN QueryError ELSE [q[n] EXCEPT !.clauses = kept]
<1> DEFINE N == Len(q)
           Left(n) == {c \in q[n].clauses : c[1] # "must_not"}
           V == {QueryError} \cup {q[n] : n \in 1..N} \cup
                {[q[n] EXCEPT !.clauses = Left(n)] : n \in 1..N}
           S == [1..N -> V]
           At(F, n) == CASE q[n].kind = "boost" -> QueryError
                         [] q[n].kind = "term"  -> q[n]
                         [] OTHER ->
                              LET kept == {c \in q[n].clauses : c[1] # "must_not"}
                              IN IF \E c \in kept : F[c[2]] = QueryError
                                 THEN QueryError ELSE [q[n] EXCEPT !.clauses = kept]
           def == [n \in 1..N |-> [F \in S |-> At(F, n)]]
           Fix(F) == F = [n \in DOMAIN q |-> At(F, n)]
           G == CHOOSE F : Fix(F)
<1>1. /\ N \in Nat /\ DOMAIN q = 1..N
      /\ \A n \in 1..N : \A c \in q[n].clauses : c[2] \in 1..(n - 1) /\ c[2] \in 1..N
  BY NodesOf
<1> HIDE DEF N
<1>2. \A n \in 1..N : \A F \in S : At(F, n) \in V
  <2> SUFFICES ASSUME NEW n \in 1..N, NEW F \in S PROVE At(F, n) \in V
    OBVIOUS
  <2>1. [q[n] EXCEPT !.clauses = Left(n)] \in V /\ q[n] \in V /\ QueryError \in V
    OBVIOUS
  <2> HIDE DEF V
  <2>2. At(F, n) \in {QueryError, q[n], [q[n] EXCEPT !.clauses = Left(n)]}
    OBVIOUS
  <2> QED
    BY <2>1, <2>2
<1>3. \A n \in 1..N : \A F, H \in S : (\A k \in 1..(n - 1) : F[k] = H[k]) => At(F, n) = At(H, n)
  <2> SUFFICES ASSUME NEW n \in 1..N, NEW F \in S, NEW H \in S, \A k \in 1..(n - 1) : F[k] = H[k]
               PROVE  At(F, n) = At(H, n)
    OBVIOUS
  <2>1. \A c \in Left(n) : F[c[2]] = H[c[2]]
    BY <1>1
  <2>2. (\E c \in Left(n) : F[c[2]] = QueryError) <=> (\E c \in Left(n) : H[c[2]] = QueryError)
    BY <2>1
  <2> QED
    BY <2>2
<1> HIDE DEF At
<1>4. \E F : Fix(F)
  <2>1. QueryError \in V
    OBVIOUS
  <2>2. def \in [1..N -> [S -> V]] /\ \A n \in 1..N : \A F \in S : def[n][F] = At(F, n)
    <3> HIDE DEF V
    <3> QED
      BY <1>2
  <2> HIDE DEF def, V
  <2>3. \A n \in 1..N : \A F, H \in S :
            (\A k \in 1..(n - 1) : F[k] = H[k]) => def[n][F] = def[n][H]
    <3> HIDE DEF S
    <3> QED
      BY <1>3, <2>2
  <2>4. PICK F : F \in Recursive(N, V, def)
    <3>1. N \in Nat /\ def \in [1..N -> [[1..N -> V] -> V]]
      BY <1>1, <2>2
    <3>2. \A n \in 1..N : \A F, H \in [1..N -> V] :
              (\A k \in 1..(n - 1) : F[k] = H[k]) => def[n][F] = def[n][H]
      BY <2>3
    <3>3. Recursive(N, V, def) # {}
      BY <2>1, <3>1, <3>2, RecursionExists
    <3> QED
      BY <3>3
  <2>5. F \in S /\ \A n \in 1..N : F[n] = At(F, n)
    BY <2>2, <2>4 DEF Recursive
  <2>6. Fix(F)
    BY <1>1, <2>5
  <2> QED
    BY <2>6
<1>5. strip_negated_clauses(q) = G
  BY DEF strip_negated_clauses, At
<1>6. Fix(G)
  <2> HIDE DEF Fix
  <2> QED
    BY <1>4, Zenon
<1> HIDE DEF G
<1>7. DOMAIN G = 1..N /\ \A n \in 1..N : G[n] = At(G, n)
  BY <1>1, <1>6
<1> QED
  BY <1>5, <1>7 DEF At, N

\* A highlight refuses a node exactly when a boost is among its positive
\* clauses, and else shows their terms.
LEMMA HighlightOfQuery ==
    ASSUME NEW q, IsQuery(q)
    PROVE  LET positive == PositiveTerms(q)[Len(q)]
           IN  HighlightAnswer(q) = IF "error" \in positive THEN {"error"} ELSE positive
<1> PICK N : N = Len(q)
  OBVIOUS
<1> PICK s : s = strip_negated_clauses(q)
  OBVIOUS
<1> DEFINE p == PositiveTerms(q)
           Left(n) == {c \in q[n].clauses : c[1] # "must_not"}
<1>1. /\ N \in Nat /\ N \in 1..N
      /\ \A n \in 1..N :
           /\ q[n] = [kind |-> q[n].kind, term |-> q[n].term, clauses |-> q[n].clauses]
           /\ q[n].kind \in {"bool", "term", "boost"} /\ q[n].term # "error"
           /\ \A c \in q[n].clauses : c[2] \in 1..(n - 1) /\ c[2] \in 1..N
  BY NodesOf
<1>2. \A n \in 1..N : p[n] = CASE q[n].kind = "boost" -> {"error"}
                               [] q[n].kind = "term"  -> {q[n].term}
                               [] OTHER -> UNION {p[c[2]] : c \in Left(n)}
  BY PositiveOfNodes
<1>3. /\ DOMAIN s = 1..N
      /\ \A n \in 1..N : s[n] = CASE q[n].kind = "boost" -> QueryError
                                  [] q[n].kind = "term"  -> q[n]
                                  [] OTHER -> IF \E c \in Left(n) : s[c[2]] = QueryError
                                              THEN QueryError ELSE [q[n] EXCEPT !.clauses = Left(n)]
  BY StrippedNodes
<1>4. \A n \in 1..N :
        /\ q[n].kind = "boost" => s[n] = QueryError
        /\ q[n].kind = "term" => s[n] = q[n] /\ s[n] # QueryError
        /\ q[n].kind = "bool" =>
             \/ s[n] = QueryError /\ \E c \in Left(n) : s[c[2]] = QueryError
             \/ /\ s[n].kind = "bool" /\ s[n].clauses = Left(n) /\ s[n] # QueryError
                /\ ~\E c \in Left(n) : s[c[2]] = QueryError
  <2> SUFFICES ASSUME NEW n \in 1..N
               PROVE  /\ q[n].kind = "boost" => s[n] = QueryError
                      /\ q[n].kind = "term" => s[n] = q[n] /\ s[n] # QueryError
                      /\ q[n].kind = "bool" =>
                           \/ s[n] = QueryError /\ \E c \in Left(n) : s[c[2]] = QueryError
                           \/ /\ s[n].kind = "bool" /\ s[n].clauses = Left(n) /\ s[n] # QueryError
                              /\ ~\E c \in Left(n) : s[c[2]] = QueryError
    OBVIOUS
  <2>1. QueryError.kind = "error"
    BY DEF QueryError
  <2>2. CASE q[n].kind = "boost"
    BY <1>3, <2>2
  <2>3. CASE q[n].kind = "term"
    BY <1>3, <2>1, <2>3
  <2>4. CASE q[n].kind = "bool"
    <3> DEFINE left == [q[n] EXCEPT !.clauses = Left(n)]
    <3>1. left.kind = "bool" /\ left.clauses = Left(n)
      BY <1>1, <2>4
    <3>2. s[n] = IF \E c \in Left(n) : s[c[2]] = QueryError THEN QueryError ELSE left
      BY <1>3, <2>4
    <3> HIDE DEF left, Left
    <3> QED
      BY <2>1, <2>4, <3>1, <3>2
  <2> QED
    BY <1>1, <2>2, <2>3, <2>4
<1>5. \A n \in 1..N : \A c \in s[n].clauses : c[2] \in 1..(n - 1) /\ c[2] \in 1..N
  <2> SUFFICES ASSUME NEW n \in 1..N, NEW c \in s[n].clauses
               PROVE  c[2] \in 1..(n - 1) /\ c[2] \in 1..N
    OBVIOUS
  <2>1. s[n] # QueryError
    BY DEF QueryError
  <2>2. c \in q[n].clauses
    BY <1>1, <1>4, <2>1
  <2> QED
    BY <1>1, <2>2
<1> DEFINE t == QueryTerms(s)
<1>6. \A n \in 1..N : t[n] = IF s[n].kind = "bool" THEN UNION {t[c[2]] : c \in s[n].clauses}
                             ELSE {s[n].term}
  <2>1. N \in Nat /\ DOMAIN s = 1..N
    BY <1>1, <1>3
  <2>2. NodesBefore(s, N)
    BY <1>5 DEF NodesBefore
  <2>3. \A n \in 1..N : t[n] = TermsAt(s, n, t)
    BY <2>1, <2>2, TermsOfNodes
  <2> HIDE DEF t
  <2> QED
    BY <2>3 DEF TermsAt
<1> HIDE DEF p, t
<1> DEFINE Agree(n) == /\ s[n] = QueryError <=> "error" \in p[n]
                       /\ s[n] # QueryError => t[n] = p[n]
           T == {m \in 0..N : \A k \in 1..m : Agree(k)}
<1>7. ASSUME NEW n \in 1..N, \A k \in 1..(n - 1) : Agree(k) PROVE Agree(n)
  <2>1. CASE q[n].kind = "boost"
    BY <1>2, <1>4, <2>1
  <2>2. CASE q[n].kind = "term"
    <3>1. p[n] = {q[n].term} /\ s[n] = q[n] /\ s[n] # QueryError
      BY <1>2, <1>4, <2>2
    <3>2. t[n] = {q[n].term}
      BY <1>6, <2>2, <3>1
    <3> QED
      BY <1>1, <3>1, <3>2
  <2>3. CASE q[n].kind = "bool"
    <3>1. p[n] = UNION {p[c[2]] : c \in Left(n)}
      BY <1>2, <2>3
    <3>2. \A c \in Left(n) : Agree(c[2])
      BY <1>1, <1>7
    <3>3. CASE s[n] = QueryError
      <4>1. \E c \in Left(n) : s[c[2]] = QueryError
        BY <1>4, <2>3, <3>3
      <4> HIDE DEF Left
      <4> QED
        BY <3>1, <3>2, <3>3, <4>1
    <3>4. CASE s[n] # QueryError
      <4>1. /\ s[n].kind = "bool" /\ s[n].clauses = Left(n)
            /\ \A c \in Left(n) : s[c[2]] # QueryError
        BY <1>4, <2>3, <3>4
      <4>2. t[n] = UNION {t[c[2]] : c \in Left(n)}
        BY <1>6, <4>1
      <4> HIDE DEF Left
      <4>3. \A c \in Left(n) : t[c[2]] = p[c[2]] /\ "error" \notin p[c[2]]
        BY <3>2, <4>1
      <4>4. {t[c[2]] : c \in Left(n)} = {p[c[2]] : c \in Left(n)}
        BY <4>3
      <4> QED
        BY <3>1, <3>4, <4>2, <4>3, <4>4
    <3> QED
      BY <3>3, <3>4
  <2> QED
    BY <1>1, <2>1, <2>2, <2>3
<1> HIDE DEF Agree
<1>8. \A m \in 0..N : m \in T
  <2>1. 0 \in T
    BY <1>1
  <2>2. ASSUME NEW m \in 0..(N - 1), m \in T PROVE m + 1 \in T
    <3>1. m + 1 \in 1..N /\ m + 1 \in 0..N /\ (m + 1) - 1 = m
      BY <1>1
    <3>2. \A k \in 1..m : Agree(k)
      BY <2>2
    <3>3. Agree(m + 1)
      BY <1>7, <3>1, <3>2
    <3>4. \A k \in 1..(m + 1) : k = m + 1 \/ k \in 1..m
      BY <3>1
    <3> QED
      BY <3>1, <3>2, <3>3, <3>4
  <2>3. \A m \in 0..(N - 1) : m \in T => m + 1 \in T
    BY <2>2
  <2> HIDE DEF T
  <2> QED
    BY <1>1, <2>1, <2>3, UpTo
<1>9. Agree(N)
  <2>1. N \in 0..N /\ N \in 1..N
    BY <1>1
  <2>2. N \in T
    BY <1>8, <2>1
  <2> QED
    BY <2>1, <2>2
<1>10. HighlightAnswer(q) = IF s[N] = QueryError THEN {"error"} ELSE t[N]
  BY DEF HighlightAnswer, t
<1>11. HighlightAnswer(q) = IF "error" \in p[N] THEN {"error"} ELSE p[N]
  BY <1>9, <1>10 DEF Agree
<1> QED
  BY <1>11 DEF p

LEMMA HighlightsAlways == HighlightsPositive
<1>1. \A q \in FtsQueries : IsQuery(q)
  BY FtsAssumption
<1> QED
  BY <1>1, HighlightOfQuery DEF HighlightsPositive

-----------------------------------------------------------------------------
(* Analyzers                                                                *)

\* The tokens of a text, after each of its words.
LEMMA FilterSteps ==
    ASSUME NEW language, NEW text \in Seq(Words)
    PROVE  \E F : /\ F[0] = <<>> /\ StopWordFilter(language, text) = F[Len(text)]
                  /\ \A i \in 1..Len(text) : F[i] = IF IsStopWord(language, text[i]) THEN F[i - 1]
                                                    ELSE Append(F[i - 1], text[i])
<1> DEFINE N == Len(text)
           L == Seq(Words)
           a == <<>>
           step == [i \in 1..N |-> [s \in L |-> IF IsStopWord(language, text[i]) THEN s
                                                ELSE Append(s, text[i])]]
           Fix(F) == F = [i \in 0..N |->
                            IF i = 0 THEN <<>>
                            ELSE IF IsStopWord(language, text[i]) THEN F[i - 1]
                                 ELSE Append(F[i - 1], text[i])]
           G == CHOOSE F : Fix(F)
<1>1. N \in Nat /\ a \in L /\ \A i \in 1..N : text[i] \in Words
  OBVIOUS
<1>2. step \in [1..N -> [L -> L]]
  <2>1. \A s \in L : \A i \in 1..N : Append(s, text[i]) \in L
    OBVIOUS
  <2> HIDE DEF L, N
  <2> QED
    BY <2>1
<1> HIDE DEF N
<1>3. \A i \in 1..N : \A s \in L : step[i][s] = IF IsStopWord(language, text[i]) THEN s
                                                 ELSE Append(s, text[i])
  OBVIOUS
<1> HIDE DEF step
<1>4. PICK F \in [0..N -> L] : F[0] = a /\ \A i \in 1..N : F[i] = step[i][F[i - 1]]
  <2>1. Iterations(N, L, a, step) # {}
    <3> HIDE DEF L, a
    <3> QED
      BY <1>1, <1>2, IterationsExist
  <2> QED
    BY <2>1 DEF Iterations
<1>5. \A i \in 1..N : i - 1 \in 0..N /\ i \in 0..N /\ i # 0
  BY <1>1
<1>6. Fix(F)
  <2>1. \A i \in 1..N : F[i] = IF IsStopWord(language, text[i]) THEN F[i - 1]
                               ELSE Append(F[i - 1], text[i])
    BY <1>3, <1>4, <1>5
  <2>2. \A i \in 0..N : i = 0 \/ i \in 1..N
    BY <1>1
  <2>3. \A i \in 0..N : F[i] = IF i = 0 THEN <<>>
                               ELSE IF IsStopWord(language, text[i]) THEN F[i - 1]
                                    ELSE Append(F[i - 1], text[i])
    BY <1>4, <2>1, <2>2
  <2>4. F = [i \in 0..N |-> F[i]]
    BY <1>4
  <2> QED
    BY <2>3, <2>4
<1>7. StopWordFilter(language, text) = G[N]
  BY DEF StopWordFilter, N
<1>8. Fix(G)
  <2> HIDE DEF Fix
  <2> QED
    BY <1>6, Zenon
<1> HIDE DEF G
<1>9. G[0] = <<>> /\ \A i \in 1..N : G[i] = IF IsStopWord(language, text[i]) THEN G[i - 1]
                                            ELSE Append(G[i - 1], text[i])
  <2>1. 0 \in 0..N
    BY <1>1
  <2>2. \A i \in 0..N : G[i] = IF i = 0 THEN <<>>
                               ELSE IF IsStopWord(language, text[i]) THEN G[i - 1]
                                    ELSE Append(G[i - 1], text[i])
    BY <1>8
  <2> HIDE DEF Fix
  <2> QED
    BY <1>5, <2>1, <2>2
<1> QED
  BY <1>7, <1>9 DEF N

\* The tokens of one word and of two.
LEMMA FilterFew ==
    ASSUME NEW language, NEW v \in Words, NEW w \in Words
    PROVE  /\ StopWordFilter(language, <<v>>) = IF IsStopWord(language, v) THEN <<>> ELSE <<v>>
           /\ StopWordFilter(language, <<v, w>>) \in Seq(Words)
           /\ Len(StopWordFilter(language, <<v, w>>)) > 1 =>
                ~IsStopWord(language, v) /\ ~IsStopWord(language, w)
<1>1. StopWordFilter(language, <<v>>) = IF IsStopWord(language, v) THEN <<>> ELSE <<v>>
  <2> DEFINE text == <<v>>
  <2>1. text \in Seq(Words) /\ Len(text) = 1 /\ text[1] = v
    OBVIOUS
  <2> HIDE DEF text
  <2>2. PICK F : /\ F[0] = <<>> /\ StopWordFilter(language, text) = F[Len(text)]
                 /\ \A i \in 1..Len(text) : F[i] = IF IsStopWord(language, text[i]) THEN F[i - 1]
                                                   ELSE Append(F[i - 1], text[i])
    BY <2>1, FilterSteps
  <2>3. F[1] = IF IsStopWord(language, v) THEN F[0] ELSE Append(F[0], v)
    <3>1. 1 \in 1..Len(text) /\ 1 - 1 = 0
      BY <2>1
    <3> QED
      BY <2>1, <2>2, <3>1
  <2>4. Append(<<>>, v) = <<v>>
    OBVIOUS
  <2>5. StopWordFilter(language, text) = IF IsStopWord(language, v) THEN <<>> ELSE <<v>>
    BY <2>1, <2>2, <2>3, <2>4
  <2> QED
    BY <2>5 DEF text
<1>2. /\ StopWordFilter(language, <<v, w>>) \in Seq(Words)
      /\ Len(StopWordFilter(language, <<v, w>>)) > 1 =>
           ~IsStopWord(language, v) /\ ~IsStopWord(language, w)
  <2> DEFINE text == <<v, w>>
  <2>1. text \in Seq(Words) /\ Len(text) = 2 /\ text[1] = v /\ text[2] = w
    OBVIOUS
  <2> HIDE DEF text
  <2>2. PICK F : /\ F[0] = <<>> /\ StopWordFilter(language, text) = F[Len(text)]
                 /\ \A i \in 1..Len(text) : F[i] = IF IsStopWord(language, text[i]) THEN F[i - 1]
                                                   ELSE Append(F[i - 1], text[i])
    BY <2>1, FilterSteps
  <2>3. /\ F[1] = IF IsStopWord(language, v) THEN F[0] ELSE Append(F[0], v)
        /\ F[2] = IF IsStopWord(language, w) THEN F[1] ELSE Append(F[1], w)
    <3>1. 1 \in 1..Len(text) /\ 1 - 1 = 0 /\ 2 \in 1..Len(text) /\ 2 - 1 = 1
      BY <2>1
    <3> QED
      BY <2>1, <2>2, <3>1
  <2>4. /\ Append(<<>>, v) \in Seq(Words) /\ Len(Append(<<>>, v)) = 1
        /\ <<>> \in Seq(Words) /\ Len(<<>>) = 0
        /\ \A s \in Seq(Words) : Append(s, w) \in Seq(Words) /\ Len(Append(s, w)) = Len(s) + 1
    OBVIOUS
  <2>5. F[1] \in Seq(Words) /\ (Len(F[1]) = IF IsStopWord(language, v) THEN 0 ELSE 1)
    BY <2>2, <2>3, <2>4
  <2>6. F[2] \in Seq(Words) /\ (Len(F[2]) = IF IsStopWord(language, w) THEN Len(F[1]) ELSE Len(F[1]) + 1)
    BY <2>3, <2>4, <2>5
  <2>7. F[2] = StopWordFilter(language, text)
    BY <2>1, <2>2
  <2>8. Len(F[2]) > 1 => ~IsStopWord(language, v) /\ ~IsStopWord(language, w)
    BY <2>5, <2>6
  <2>9. /\ StopWordFilter(language, text) \in Seq(Words)
        /\ Len(StopWordFilter(language, text)) > 1 =>
             ~IsStopWord(language, v) /\ ~IsStopWord(language, w)
    BY <2>6, <2>7, <2>8
  <2> QED
    BY <2>9 DEF text
<1> QED
  BY <1>1, <1>2

\* A function over one index, or two, is a tuple.
LEMMA OneTuple ==
    ASSUME NEW f, f = [i \in 1..1 |-> f[i]]
    PROVE  f = <<f[1]>>
<1>1. \A i \in 1..1 : i = 1
  OBVIOUS
<1> QED
  BY <1>1

LEMMA TwoTuple ==
    ASSUME NEW f, f = [i \in 1..2 |-> f[i]]
    PROVE  f = <<f[1], f[2]>>
<1>1. \A i \in 1..2 : i = 1 \/ i = 2
  OBVIOUS
<1> QED
  BY <1>1

Lowered(w) == [stem |-> w.stem, ending |-> w.ending, upper |-> FALSE, mark |-> FALSE]
Stemmed(w) == [stem |-> w.stem, ending |-> "", upper |-> FALSE, mark |-> FALSE]

LEMMA WordsLowered ==
    ASSUME NEW w \in Words, NEW v \in Words
    PROVE  /\ Lowered(w) \in Words /\ Stemmed(w) \in Words
           /\ LowerCaser(SimpleTokenizer(<<w>>)) = <<Lowered(w)>>
           /\ LowerCaser(SimpleTokenizer(<<w, v>>)) = <<Lowered(w), Lowered(v)>>
           /\ Stemmer(<<Lowered(w)>>) = <<Stemmed(w)>>
           /\ Lowered(w) = Lowered(v) <=> w.stem = v.stem /\ w.ending = v.ending
<1>1. /\ w = [stem |-> w.stem, ending |-> w.ending, upper |-> w.upper, mark |-> w.mark]
      /\ v = [stem |-> v.stem, ending |-> v.ending, upper |-> v.upper, mark |-> v.mark]
      /\ w.stem \in Stems /\ w.ending \in {"", "s"}
  BY DEF Words
<1>2. /\ \A u \in Words : [[u EXCEPT !.mark = FALSE] EXCEPT !.upper = FALSE] = Lowered(u)
      /\ [Lowered(w) EXCEPT !.ending = ""] = Stemmed(w)
  <2>1. ASSUME NEW u \in Words
        PROVE  [[u EXCEPT !.mark = FALSE] EXCEPT !.upper = FALSE] = Lowered(u)
    <3> DEFINE r == [u EXCEPT !.mark = FALSE]
    <3>1. r \in Words /\ r.stem = u.stem /\ r.ending = u.ending /\ r.mark = FALSE
      BY DEF Words
    <3> HIDE DEF r
    <3> DEFINE s == [r EXCEPT !.upper = FALSE]
    <3>2. s \in Words /\ s.stem = u.stem /\ s.ending = u.ending /\ s.mark = FALSE /\ s.upper = FALSE
      BY <3>1 DEF Words
    <3> HIDE DEF s
    <3>3. s = [stem |-> s.stem, ending |-> s.ending, upper |-> s.upper, mark |-> s.mark]
      BY <3>2 DEF Words
    <3>4. s = Lowered(u)
      BY <3>2, <3>3 DEF Lowered
    <3> QED
      BY <3>4 DEF r, s
  <2>2. [Lowered(w) EXCEPT !.ending = ""] = Stemmed(w)
    <3> DEFINE r == Lowered(w)
    <3>1. r \in Words /\ r.stem = w.stem /\ r.mark = FALSE /\ r.upper = FALSE
      BY <1>1 DEF Lowered, Words
    <3> HIDE DEF r
    <3> DEFINE s == [r EXCEPT !.ending = ""]
    <3>2. s \in Words /\ s.stem = w.stem /\ s.ending = "" /\ s.mark = FALSE /\ s.upper = FALSE
      BY <3>1 DEF Words
    <3> HIDE DEF s
    <3>3. s = [stem |-> s.stem, ending |-> s.ending, upper |-> s.upper, mark |-> s.mark]
      BY <3>2 DEF Words
    <3>4. s = Stemmed(w)
      BY <3>2, <3>3 DEF Stemmed
    <3> QED
      BY <3>4 DEF r, s
  <2> QED
    BY <2>1, <2>2
<1>3. Lowered(w) \in Words /\ Stemmed(w) \in Words
  BY <1>1 DEF Lowered, Stemmed, Words
<1>4. Lowered(w) = Lowered(v) <=> w.stem = v.stem /\ w.ending = v.ending
  BY DEF Lowered
<1>5. LowerCaser(SimpleTokenizer(<<w>>)) = <<Lowered(w)>>
  <2> DEFINE f == LowerCaser(SimpleTokenizer(<<w>>))
  <2>1. DOMAIN <<w>> = 1..1 /\ <<w>>[1] = w /\ 1 \in 1..1
    OBVIOUS
  <2>2. f = [i \in 1..1 |-> f[i]] /\ f[1] = [[w EXCEPT !.mark = FALSE] EXCEPT !.upper = FALSE]
    BY <2>1 DEF LowerCaser, SimpleTokenizer
  <2> HIDE DEF f
  <2>3. f = <<f[1]>>
    BY <2>2, OneTuple
  <2>4. f[1] = Lowered(w)
    BY <1>2, <2>2
  <2> QED
    BY <2>3, <2>4 DEF f
<1>6. LowerCaser(SimpleTokenizer(<<w, v>>)) = <<Lowered(w), Lowered(v)>>
  <2> DEFINE f == LowerCaser(SimpleTokenizer(<<w, v>>))
  <2>1. /\ DOMAIN <<w, v>> = 1..2 /\ <<w, v>>[1] = w /\ <<w, v>>[2] = v
        /\ 1 \in 1..2 /\ 2 \in 1..2
    OBVIOUS
  <2>2. /\ f = [i \in 1..2 |-> f[i]]
        /\ f[1] = [[w EXCEPT !.mark = FALSE] EXCEPT !.upper = FALSE]
        /\ f[2] = [[v EXCEPT !.mark = FALSE] EXCEPT !.upper = FALSE]
    BY <2>1 DEF LowerCaser, SimpleTokenizer
  <2> HIDE DEF f
  <2>3. f = <<f[1], f[2]>>
    BY <2>2, TwoTuple
  <2>4. f[1] = Lowered(w) /\ f[2] = Lowered(v)
    BY <1>2, <2>2
  <2> QED
    BY <2>3, <2>4 DEF f
<1>7. Stemmer(<<Lowered(w)>>) = <<Stemmed(w)>>
  <2> DEFINE f == Stemmer(<<Lowered(w)>>)
  <2>1. /\ DOMAIN <<Lowered(w)>> = 1..1 /\ <<Lowered(w)>>[1] = Lowered(w) /\ 1 \in 1..1
    OBVIOUS
  <2>2. f = [i \in 1..1 |-> f[i]] /\ f[1] = [Lowered(w) EXCEPT !.ending = ""]
    BY <2>1 DEF Stemmer
  <2> HIDE DEF f
  <2>3. f = <<f[1]>>
    BY <2>2, OneTuple
  <2>4. f[1] = Stemmed(w)
    BY <1>2, <2>2
  <2> QED
    BY <2>3, <2>4 DEF f
<1> QED
  BY <1>3, <1>4, <1>5, <1>6, <1>7

\* The tokens of one word.
LEMMA TokensOfWord ==
    ASSUME NEW w \in Words, NEW language \in Languages
    PROVE  /\ BuildTokenPipeline("whitespace", <<w>>) = <<w>>
           /\ BuildTokenPipeline("simple", <<w>>) = <<Lowered(w)>>
           /\ BuildTokenPipeline("standard", <<w>>) =
                IF IsStopWord("english", Lowered(w)) THEN <<>> ELSE <<Lowered(w)>>
           /\ BuildTokenPipeline(language, <<w>>) =
                IF IsStopWord(language, Lowered(w)) THEN <<>> ELSE <<Stemmed(w)>>
<1>1. /\ Lowered(w) \in Words /\ LowerCaser(SimpleTokenizer(<<w>>)) = <<Lowered(w)>>
      /\ Stemmer(<<Lowered(w)>>) = <<Stemmed(w)>>
  BY WordsLowered
<1>2. /\ StopWordFilter("english", <<Lowered(w)>>) =
           IF IsStopWord("english", Lowered(w)) THEN <<>> ELSE <<Lowered(w)>>
      /\ StopWordFilter(language, <<Lowered(w)>>) =
           IF IsStopWord(language, Lowered(w)) THEN <<>> ELSE <<Lowered(w)>>
  BY <1>1, FilterFew
<1>3. Stemmer(<<>>) = <<>>
  BY DEF Stemmer
<1>4. language \notin {"whitespace", "simple", "standard"}
  BY DEF Languages
<1>5. BuildTokenPipeline(language, <<w>>) = Stemmer(StopWordFilter(language, <<Lowered(w)>>))
  BY <1>1, <1>4 DEF BuildTokenPipeline
<1>6. BuildTokenPipeline("standard", <<w>>) = StopWordFilter("english", <<Lowered(w)>>)
  BY <1>1 DEF BuildTokenPipeline
<1>7. BuildTokenPipeline("simple", <<w>>) = <<Lowered(w)>> /\ BuildTokenPipeline("whitespace", <<w>>) = <<w>>
  BY <1>1 DEF BuildTokenPipeline
<1> QED
  BY <1>1, <1>2, <1>3, <1>5, <1>6, <1>7

LEMMA AnalyzersAlways == AnalyzersRight
<1> DEFINE Stop(language, w) == IsStopWord(language, Lowered(w))
           Same(v, w) == v.stem = w.stem /\ v.ending = w.ending
<1>1. ASSUME NEW v \in Words, NEW w \in Words, NEW language \in Languages
      PROVE  /\ Finds("whitespace", v, w) <=> v = w
             /\ Finds("simple", v, w) <=> Same(v, w)
             /\ Finds("standard", v, w) <=> ~Stop("english", v) /\ ~Stop("english", w) /\ Same(v, w)
             /\ Finds(language, v, w) <=> ~Stop(language, v) /\ ~Stop(language, w) /\ v.stem = w.stem
  <2>1. \A a, b : <<a>> # <<>> /\ (<<a>> = <<b>> <=> a = b)
    OBVIOUS
  <2>2. Lowered(w) = Lowered(v) <=> Same(v, w)
    BY DEF Lowered
  <2>3. Stemmed(w) = Stemmed(v) <=> v.stem = w.stem
    BY DEF Stemmed
  <2> HIDE DEF Stop, Same
  <2>4. \A u \in {v, w} :
          /\ BuildTokenPipeline("whitespace", <<u>>) = <<u>>
          /\ BuildTokenPipeline("simple", <<u>>) = <<Lowered(u)>>
          /\ BuildTokenPipeline("standard", <<u>>) =
               IF Stop("english", u) THEN <<>> ELSE <<Lowered(u)>>
          /\ BuildTokenPipeline(language, <<u>>) =
               IF Stop(language, u) THEN <<>> ELSE <<Stemmed(u)>>
    BY TokensOfWord DEF Stop
  <2>5. \A analyzer : Finds(analyzer, v, w) <=>
          /\ BuildTokenPipeline(analyzer, <<w>>) # <<>>
          /\ BuildTokenPipeline(analyzer, <<w>>) = BuildTokenPipeline(analyzer, <<v>>)
    BY DEF Finds
  <2>6. /\ Finds("whitespace", v, w) <=> v = w
        /\ Finds("simple", v, w) <=> Same(v, w)
    BY <2>1, <2>2, <2>4, <2>5
  <2>7. Finds("standard", v, w) <=> ~Stop("english", v) /\ ~Stop("english", w) /\ Same(v, w)
    BY <2>1, <2>2, <2>4, <2>5
  <2>8. Finds(language, v, w) <=> ~Stop(language, v) /\ ~Stop(language, w) /\ v.stem = w.stem
    BY <2>1, <2>3, <2>4, <2>5
  <2> QED
    BY <2>6, <2>7, <2>8
<1>2. \A w \in Words : \A language : Stop(language, w) <=> w.stem \in StopWords(language) /\ w.ending = ""
  BY DEF IsStopWord, Lowered
<1>3. "english" \in Languages
  BY DEF Languages
<1> HIDE DEF Stop
<1>4. ASSUME NEW doc \in Words, NEW query \in Words
      PROVE  /\ Finds("whitespace", doc, query) => doc = query /\ Finds("simple", doc, query)
             /\ Finds("standard", doc, query) =>
                  Finds("simple", doc, query) /\ Finds("english", doc, query)
  BY <1>1, <1>3
<1>5. ASSUME NEW doc \in Words, NEW query \in Words, NEW language \in Languages
      PROVE  LET stop == doc.stem \in StopWords(language) /\ doc.ending = ""
             IN /\ Finds("simple", doc, query) /\ ~stop => Finds(language, doc, query)
                /\ stop => ~Finds(language, doc, query)
  <2>1. Same(doc, query) => (Stop(language, doc) <=> Stop(language, query))
    BY <1>2
  <2> QED
    BY <1>1, <1>2, <2>1
<1>6. ASSUME NEW analyzer \in Languages \cup {"standard"}, NEW first \in Words, NEW second \in Words,
             MakeQuery(analyzer, FALSE, [phrase |-> TRUE, text |-> <<first, second>>]) = "error"
      PROVE  \A w \in {first, second} : Finds(analyzer, w, w)
  <2> DEFINE lower == <<Lowered(first), Lowered(second)>>
             tokens == BuildTokenPipeline(analyzer, <<first, second>>)
  <2>1. Len(tokens) > 1
    BY <1>6 DEF MakeQuery
  <2>2. /\ LowerCaser(SimpleTokenizer(<<first, second>>)) = lower
        /\ Lowered(first) \in Words /\ Lowered(second) \in Words
    BY WordsLowered
  <2> HIDE DEF lower
  <2>3. CASE analyzer = "standard"
    <3>1. tokens = StopWordFilter("english", lower)
      BY <2>2, <2>3 DEF BuildTokenPipeline
    <3>2. ~Stop("english", first) /\ ~Stop("english", second)
      BY <2>1, <2>2, <3>1, FilterFew DEF Stop, lower
    <3> QED
      BY <1>1, <1>3, <2>3, <3>2
  <2>4. CASE analyzer \in Languages
    <3>1. analyzer \notin {"whitespace", "simple", "standard"}
      BY <2>4 DEF Languages
    <3> DEFINE kept == StopWordFilter(analyzer, lower)
    <3>2. tokens = Stemmer(kept)
      BY <2>2, <3>1 DEF BuildTokenPipeline
    <3>3. kept \in Seq(Words) /\ (Len(kept) > 1 => ~Stop(analyzer, first) /\ ~Stop(analyzer, second))
      BY <2>2, FilterFew DEF Stop, lower
    <3> HIDE DEF kept, tokens
    <3>4. Len(tokens) = Len(kept)
      <4>1. Len(kept) \in Nat /\ DOMAIN kept = 1..Len(kept)
        BY <3>3
      <4>2. tokens = [i \in 1..Len(kept) |-> [kept[i] EXCEPT !.ending = ""]]
        BY <3>2, <4>1 DEF Stemmer
      <4>3. \A i \in 1..Len(kept) : [kept[i] EXCEPT !.ending = ""] \in Words
        <5>1. \A i \in 1..Len(kept) : kept[i] \in Words
          BY <3>3
        <5> QED
          BY <5>1 DEF Words
      <4>4. tokens \in Seq(Words) /\ DOMAIN tokens = 1..Len(kept)
        <5>1. DOMAIN tokens = 1..Len(kept) /\ tokens = [i \in 1..Len(kept) |-> tokens[i]]
          BY <4>2
        <5>2. \A i \in 1..Len(kept) : tokens[i] \in Words
          BY <4>2, <4>3
        <5>3. tokens \in [1..Len(kept) -> Words]
          BY <5>1, <5>2
        <5> QED
          BY <4>1, <5>1, <5>3
      <4>5. DOMAIN tokens = 1..Len(tokens) /\ Len(tokens) \in Nat
        BY <4>4
      <4> QED
        BY <4>1, <4>4, <4>5
    <3>5. ~Stop(analyzer, first) /\ ~Stop(analyzer, second)
      BY <2>1, <3>3, <3>4
    <3> QED
      BY <1>1, <2>4, <3>5
  <2> QED
    BY <2>3, <2>4
<1> QED
  BY <1>4, <1>5, <1>6 DEF AnalyzersRight

-----------------------------------------------------------------------------
\* Whatever the table sends, and however commits, reloads, failures and requests
\* interleave: a search finds every document that was promised to it, a count has
\* every row when no guard is held, a highlight marks the positive terms of its
\* query, and an analyzer finds what those that do less find (FtsIndex).
THEOREM FullTextAnswers == FtsInit /\ [][FtsNext]_ftsVars => []FtsAnswersRight
<1>1. FtsInvariant => FtsAnswersRight
  BY FtsInvariantSearches, FtsInvariantCounts, HighlightsAlways, AnalyzersAlways DEF FtsAnswersRight
<1> QED
  BY <1>1, FtsInvariantAtInit, FtsStepKeeps, PTL

-----------------------------------------------------------------------------
(* Bytes                                                                    *)

ByteValues == 0..(BYTE - 1)

LEMMA ByteSizes ==
    /\ BYTE \in Nat /\ BYTE >= 2 /\ Targets \in Nat /\ Targets >= 1
    /\ IncrementSize \in Nat /\ IncrementSize >= 1
    /\ EPOCH_SIZE \in Nat /\ EPOCH_SIZE >= 1
    /\ TIMESTAMPED_SIZE \in Nat /\ TIMESTAMPED_SIZE >= 1
    /\ INDEX_SIZE \in Nat /\ INDEX_SIZE >= 1
<1>1. EPOCH_SIZE \in Nat \ {0} /\ TIMESTAMPED_SIZE \in Nat \ {0} /\ INDEX_SIZE \in Nat \ {0}
  BY StorageAssumption
<1> QED
  BY <1>1, StorageAssumption

LEMMA Halves ==
    ASSUME NEW n \in Nat, NEW d \in Nat \ {0}
    PROVE  /\ n \div d \in Nat /\ n % d \in 0..(d - 1)
           /\ n = d * (n \div d) + (n % d)
  OBVIOUS

LEMMA LowestByte ==
    ASSUME NEW x \in Nat
    PROVE  /\ x \div BYTE \in Nat /\ x % BYTE \in Nat /\ x % BYTE \in ByteValues
           /\ BYTE * (x \div BYTE) \in Nat /\ x = BYTE * (x \div BYTE) + (x % BYTE)
<1> DEFINE y == x \div BYTE
           m == x % BYTE
<1>1. BYTE \in Nat \ {0}
  BY ByteSizes
<1>2. y \in Nat /\ m \in 0..(BYTE - 1) /\ x = BYTE * y + m
  BY <1>1, Halves
<1> HIDE DEF y, m
<1>3. BYTE * y \in Nat /\ m \in Nat
  BY <1>1, <1>2
<1> QED
  BY <1>2, <1>3 DEF y, m, ByteValues

\* What is written as digits comes apart the same way.
LEMMA Digits ==
    ASSUME NEW a \in Nat, NEW d \in Nat \ {0}, NEW b \in 0..(d - 1)
    PROVE  (a * d + b) \div d = a /\ (a * d + b) % d = b
<1> DEFINE n == a * d + b
           q == n \div d
           m == n % d
<1>1. a * d \in Nat /\ n \in Nat
  OBVIOUS
<1>2. q \in Nat /\ m \in 0..(d - 1) /\ n = d * q + m
  BY <1>1, Halves
<1>3. n = d * a + b
  BY <1>1
<1> HIDE DEF n, q, m
<1>4. ASSUME q < a PROVE FALSE
  <2>1. q + 1 <= a
    BY <1>2, <1>4
  <2>2. d * (q + 1) <= d * a
    BY <1>2, <2>1
  <2>3. d * (q + 1) = d * q + d /\ d * q \in Nat /\ d * a \in Nat
    BY <1>2
  <2> QED
    BY <1>2, <1>3, <2>2, <2>3
<1>5. ASSUME q > a PROVE FALSE
  <2>1. a + 1 <= q
    BY <1>2, <1>5
  <2>2. d * (a + 1) <= d * q
    BY <1>2, <2>1
  <2>3. d * (a + 1) = d * a + d /\ d * q \in Nat /\ d * a \in Nat
    BY <1>2
  <2> QED
    BY <1>2, <1>3, <2>2, <2>3
<1>6. q = a
  <2>1. q \in Nat
    BY <1>2
  <2>2. q < a \/ q > a \/ q = a
    BY <2>1
  <2> QED
    BY <1>4, <1>5, <2>2
<1>7. m = b
  <2>1. d * q = d * a /\ d * a \in Nat
    BY <1>6
  <2> QED
    BY <1>2, <1>3, <2>1
<1> QED
  BY <1>6, <1>7 DEF n, q, m

\* The function that Power is defined by exists, and so do those of the digits.
LEMMA PowerSteps ==
    ASSUME NEW N \in Nat
    PROVE  \E p \in [0..N -> Nat] : /\ p[0] = 1 /\ \A i \in 1..N : p[i] = BYTE * p[i - 1]
                                    /\ p[N] = Power(N)
<1> DEFINE step == [i \in 1..N |-> [x \in Nat |-> BYTE * x]]
<1>1. step \in [1..N -> [Nat -> Nat]]
  BY ByteSizes
<1>2. PICK p \in [0..N -> Nat] : p[0] = 1 /\ \A i \in 1..N : p[i] = step[i][p[i - 1]]
  <2>1. Iterations(N, Nat, 1, step) # {}
    <3> HIDE DEF step
    <3> QED
      BY <1>1, IterationsExist
  <2> QED
    BY <2>1 DEF Iterations
<1>3. \A i \in 1..N : p[i] = BYTE * p[i - 1]
  <2>1. \A i \in 1..N : i - 1 \in 0..N
    OBVIOUS
  <2> QED
    BY <1>2, <2>1
<1> DEFINE Fix(f) == f = [i \in 0..N |-> IF i = 0 THEN 1 ELSE BYTE * f[i - 1]]
           f == CHOOSE f : Fix(f)
<1>4. Fix(p)
  <2>1. \A i \in 0..N : i # 0 => i \in 1..N
    OBVIOUS
  <2> QED
    BY <1>2, <1>3, <2>1
<1>5. Fix(f)
  <2> HIDE DEF Fix
  <2> QED
    BY <1>4
<1>6. Power(N) = f[N]
  BY DEF Power
<1> HIDE DEF f
<1>7. DOMAIN f = 0..N /\ f[0] = 1 /\ \A i \in 1..N : f[i] = BYTE * f[i - 1]
  <2>1. 0 \in 0..N /\ \A i \in 1..N : i \in 0..N /\ i # 0
    OBVIOUS
  <2> QED
    BY <1>5, <2>1
<1> DEFINE T == {i \in 0..N : f[i] = p[i]}
<1>8. 0 \in T
  BY <1>2, <1>7
<1>9. \A i \in 0..(N - 1) : i \in T => i + 1 \in T
  <2>1. \A i \in 0..(N - 1) : i + 1 \in 1..N /\ i + 1 \in 0..N /\ (i + 1) - 1 = i
    OBVIOUS
  <2> QED
    BY <1>3, <1>7, <2>1
<1>10. f[N] = p[N]
  <2> HIDE DEF T
  <2>1. \A i \in 0..N : i \in T
    BY <1>8, <1>9, UpTo
  <2>2. N \in 0..N
    OBVIOUS
  <2> QED
    BY <2>1, <2>2 DEF T
<1> QED
  BY <1>2, <1>3, <1>6, <1>10

LEMMA PowerTypes ==
    ASSUME NEW N \in Nat
    PROVE  Power(N) \in Nat /\ Power(N) >= 1 /\ (N >= 1 => Power(N) >= 2)
<1>1. PICK p \in [0..N -> Nat] : /\ p[0] = 1 /\ \A i \in 1..N : p[i] = BYTE * p[i - 1]
                                 /\ p[N] = Power(N)
  BY PowerSteps
<1> DEFINE T == {i \in 0..N : p[i] >= 1}
<1>2. 0 \in T
  BY <1>1
<1>3. ASSUME NEW i \in 0..(N - 1), i \in T PROVE i + 1 \in T /\ p[i + 1] >= 2
  <2>1. i + 1 \in 1..N /\ i + 1 \in 0..N /\ (i + 1) - 1 = i /\ i \in 0..N
    OBVIOUS
  <2>2. p[i + 1] = BYTE * p[i] /\ p[i] \in Nat /\ p[i] >= 1
    BY <1>1, <1>3, <2>1
  <2>3. BYTE * p[i] >= BYTE
    BY <2>2, ByteSizes
  <2>4. p[i + 1] >= 2
    BY <2>2, <2>3, ByteSizes
  <2> QED
    BY <2>1, <2>4
<1>4. \A i \in 0..N : i \in T
  <2>1. \A i \in 0..(N - 1) : i \in T => i + 1 \in T
    BY <1>3
  <2> HIDE DEF T
  <2> QED
    BY <1>2, <2>1, UpTo
<1>5. N \in 0..N /\ (N >= 1 => N - 1 \in 0..(N - 1) /\ N - 1 \in 0..N /\ (N - 1) + 1 = N)
  OBVIOUS
<1>6. N >= 1 => p[N] >= 2
  <2> SUFFICES ASSUME N >= 1 PROVE p[N] >= 2
    OBVIOUS
  <2>1. N - 1 \in T
    BY <1>4, <1>5
  <2> HIDE DEF T
  <2>2. p[(N - 1) + 1] >= 2
    BY <1>3, <1>5, <2>1
  <2> QED
    BY <1>5, <2>2
<1> QED
  BY <1>1, <1>4, <1>5, <1>6

LEMMA Rests ==
    ASSUME NEW n \in Nat, NEW N \in Nat
    PROVE  \E rest \in [0..N -> Nat] :
              /\ rest[0] = n /\ \A i \in 1..N : rest[i] = rest[i - 1] \div BYTE
              /\ ToNeBytes(n, N) = [i \in 1..N |-> rest[i - 1] % BYTE]
<1> DEFINE step == [i \in 1..N |-> [x \in Nat |-> x \div BYTE]]
<1>1. step \in [1..N -> [Nat -> Nat]]
  <2>1. \A x \in Nat : x \div BYTE \in Nat
    BY ByteSizes
  <2> QED
    BY <2>1
<1>2. PICK p \in [0..N -> Nat] : p[0] = n /\ \A i \in 1..N : p[i] = step[i][p[i - 1]]
  <2>1. Iterations(N, Nat, n, step) # {}
    <3> HIDE DEF step
    <3> QED
      BY <1>1, IterationsExist
  <2> QED
    BY <2>1 DEF Iterations
<1>3. \A i \in 1..N : p[i] = p[i - 1] \div BYTE
  <2>1. \A i \in 1..N : i - 1 \in 0..N
    OBVIOUS
  <2> QED
    BY <1>2, <2>1
<1> DEFINE Fix(f) == f = [i \in 0..N |-> IF i = 0 THEN n ELSE f[i - 1] \div BYTE]
           f == CHOOSE f : Fix(f)
<1>4. Fix(p)
  <2>1. \A i \in 0..N : i # 0 => i \in 1..N
    OBVIOUS
  <2> QED
    BY <1>2, <1>3, <2>1
<1>5. Fix(f)
  <2> HIDE DEF Fix
  <2> QED
    BY <1>4
<1>6. ToNeBytes(n, N) = [i \in 1..N |-> f[i - 1] % BYTE]
  BY DEF ToNeBytes
<1> HIDE DEF f
<1>7. DOMAIN f = 0..N /\ f[0] = n /\ \A i \in 1..N : f[i] = f[i - 1] \div BYTE
  <2>1. 0 \in 0..N /\ \A i \in 1..N : i \in 0..N /\ i # 0
    OBVIOUS
  <2> QED
    BY <1>5, <2>1
<1> DEFINE T == {i \in 0..N : f[i] = p[i]}
<1>8. 0 \in T
  BY <1>2, <1>7
<1>9. \A i \in 0..(N - 1) : i \in T => i + 1 \in T
  <2>1. \A i \in 0..(N - 1) : i + 1 \in 1..N /\ i + 1 \in 0..N /\ (i + 1) - 1 = i
    OBVIOUS
  <2> QED
    BY <1>3, <1>7, <2>1
<1>10. \A i \in 1..N : f[i - 1] = p[i - 1]
  <2> HIDE DEF T
  <2>1. \A i \in 0..N : i \in T
    BY <1>8, <1>9, UpTo
  <2>2. \A i \in 1..N : i - 1 \in 0..N
    OBVIOUS
  <2> QED
    BY <2>1, <2>2 DEF T
<1>11. ToNeBytes(n, N) = [i \in 1..N |-> p[i - 1] % BYTE]
  BY <1>6, <1>10
<1> QED
  BY <1>2, <1>3, <1>11

LEMMA LastDigits ==
    ASSUME NEW s \in Seq(ByteValues)
    PROVE  \E last \in [0..Len(s) -> Nat] :
              /\ last[0] = 0 /\ last[Len(s)] = FromNeBytes(s)
              /\ \A i \in 1..Len(s) : last[i] = s[Len(s) - i + 1] + BYTE * last[i - 1]
<1> DEFINE N == Len(s)
           step == [i \in 1..N |-> [x \in Nat |-> s[N - i + 1] + BYTE * x]]
<1>1. N \in Nat /\ \A i \in 1..N : s[N - i + 1] \in Nat
  <2>1. N \in Nat /\ \A i \in 1..N : s[i] \in ByteValues
    OBVIOUS
  <2>2. \A x \in ByteValues : x \in Nat
    BY ByteSizes DEF ByteValues
  <2>3. \A i \in 1..N : N - i + 1 \in 1..N
    BY <2>1
  <2> HIDE DEF N
  <2> QED
    BY <2>1, <2>2, <2>3
<1> HIDE DEF N
<1>2. step \in [1..N -> [Nat -> Nat]]
  <2>1. ASSUME NEW i \in 1..N, NEW x \in Nat PROVE s[N - i + 1] + BYTE * x \in Nat
    <3>1. s[N - i + 1] \in Nat /\ BYTE * x \in Nat
      BY <1>1, ByteSizes
    <3> QED
      BY <3>1
  <2> QED
    BY <2>1
<1>3. PICK p \in [0..N -> Nat] : p[0] = 0 /\ \A i \in 1..N : p[i] = step[i][p[i - 1]]
  <2>1. Iterations(N, Nat, 0, step) # {}
    <3> HIDE DEF step
    <3> QED
      BY <1>1, <1>2, IterationsExist
  <2> QED
    BY <2>1 DEF Iterations
<1>4. \A i \in 1..N : p[i] = s[N - i + 1] + BYTE * p[i - 1]
  <2>1. \A i \in 1..N : i - 1 \in 0..N
    BY <1>1
  <2> QED
    BY <1>3, <2>1
<1> DEFINE Fix(f) == f = [i \in 0..N |-> IF i = 0 THEN 0 ELSE s[N - i + 1] + BYTE * f[i - 1]]
           f == CHOOSE f : Fix(f)
<1>5. Fix(p)
  <2>1. \A i \in 0..N : i # 0 => i \in 1..N
    BY <1>1
  <2> QED
    BY <1>3, <1>4, <2>1
<1>6. Fix(f)
  <2> HIDE DEF Fix
  <2> QED
    BY <1>5
<1>7. FromNeBytes(s) = f[N]
  BY DEF FromNeBytes, N
<1> HIDE DEF f
<1>8. DOMAIN f = 0..N /\ f[0] = 0 /\ \A i \in 1..N : f[i] = s[N - i + 1] + BYTE * f[i - 1]
  <2>1. 0 \in 0..N /\ \A i \in 1..N : i \in 0..N /\ i # 0
    BY <1>1
  <2> QED
    BY <1>6, <2>1
<1> DEFINE T == {i \in 0..N : f[i] = p[i]}
<1>9. 0 \in T
  BY <1>1, <1>3, <1>8
<1>10. \A i \in 0..(N - 1) : i \in T => i + 1 \in T
  <2>1. \A i \in 0..(N - 1) : i + 1 \in 1..N /\ i + 1 \in 0..N /\ (i + 1) - 1 = i
    BY <1>1
  <2>2. ASSUME NEW i \in 0..(N - 1), i \in T PROVE i + 1 \in T
    <3>1. f[i + 1] = s[N - (i + 1) + 1] + BYTE * f[i] /\ p[i + 1] = s[N - (i + 1) + 1] + BYTE * p[i]
      BY <1>4, <1>8, <2>1
    <3> QED
      BY <2>1, <2>2, <3>1
  <2> QED
    BY <2>2
<1>11. f[N] = p[N]
  <2> HIDE DEF T
  <2>1. \A i \in 0..N : i \in T
    BY <1>1, <1>9, <1>10, UpTo
  <2>2. N \in 0..N
    BY <1>1
  <2> QED
    BY <2>1, <2>2 DEF T
<1> QED
  BY <1>3, <1>4, <1>7, <1>11 DEF N

\* A number that has so many digits is what its bytes say, and bytes say no more.
LEMMA BytesBack ==
    ASSUME NEW N \in Nat, NEW n \in Nat, n < Power(N)
    PROVE  /\ ToNeBytes(n, N) \in [1..N -> ByteValues] /\ ToNeBytes(n, N) \in Seq(ByteValues)
           /\ Len(ToNeBytes(n, N)) = N
           /\ FromNeBytes(ToNeBytes(n, N)) = n
<1> DEFINE s == ToNeBytes(n, N)
<1>1. PICK rest \in [0..N -> Nat] :
          /\ rest[0] = n /\ \A i \in 1..N : rest[i] = rest[i - 1] \div BYTE
          /\ s = [i \in 1..N |-> rest[i - 1] % BYTE]
  BY Rests
<1> HIDE DEF s
<1>2. s \in [1..N -> ByteValues]
  <2>1. ASSUME NEW i \in 1..N PROVE rest[i - 1] % BYTE \in ByteValues
    <3>1. i - 1 \in 0..N
      OBVIOUS
    <3>2. rest[i - 1] \in Nat
      BY <3>1
    <3> QED
      BY <3>2, ByteSizes DEF ByteValues
  <2> QED
    BY <1>1, <2>1
<1>3. s \in Seq(ByteValues) /\ Len(s) = N
  BY <1>2
<1>4. PICK p \in [0..N -> Nat] : /\ p[0] = 1 /\ \A i \in 1..N : p[i] = BYTE * p[i - 1]
                                 /\ p[N] = Power(N)
  BY PowerSteps
\* Every rest has as many digits as are left.
<1> DEFINE T == {i \in 0..N : rest[i] < p[N - i]}
<1>5. \A i \in 0..N : i \in T
  <2>1. 0 \in T
    <3>1. N - 0 = N /\ 0 \in 0..N
      OBVIOUS
    <3> QED
      BY <1>1, <1>4, <3>1
  <2>2. ASSUME NEW i \in 0..(N - 1), i \in T PROVE i + 1 \in T
    <3>1. /\ i + 1 \in 1..N /\ i + 1 \in 0..N /\ (i + 1) - 1 = i /\ i \in 0..N
          /\ N - i \in 1..N /\ (N - i) - 1 = N - (i + 1) /\ N - (i + 1) \in 0..N
      OBVIOUS
    <3> DEFINE x == rest[i]
               q == p[N - (i + 1)]
    <3>2. x \in Nat /\ q \in Nat /\ x < BYTE * q /\ rest[i + 1] = x \div BYTE
      BY <1>1, <1>4, <2>2, <3>1
    <3> HIDE DEF x, q
    <3>3. x \div BYTE \in Nat /\ x % BYTE \in Nat /\ x = BYTE * (x \div BYTE) + (x % BYTE)
      BY <3>2, LowestByte
    <3>4. x \div BYTE < q
      <4> DEFINE y == x \div BYTE
      <4>1. y \in Nat /\ BYTE * y <= x
        <5>1. BYTE * y \in Nat
          BY <3>2, LowestByte
        <5> QED
          BY <3>2, <3>3, <5>1
      <4> HIDE DEF y
      <4>2. SUFFICES ASSUME q <= y PROVE FALSE
        BY <3>2, <4>1 DEF y
      <4>3. BYTE * q <= BYTE * y
        BY <3>2, <4>1, <4>2, ByteSizes
      <4>4. BYTE * q \in Nat /\ BYTE * y \in Nat
        BY <3>2, <4>1, ByteSizes
      <4> QED
        BY <3>2, <4>1, <4>3, <4>4
    <3> QED
      BY <3>1, <3>2, <3>4 DEF q
  <2>3. \A i \in 0..(N - 1) : i \in T => i + 1 \in T
    BY <2>2
  <2> HIDE DEF T
  <2> QED
    BY <2>1, <2>3, UpTo
<1>6. rest[N] = 0
  <2>1. N \in 0..N /\ N - N = 0
    OBVIOUS
  <2>2. rest[N] < p[0]
    BY <1>5, <2>1
  <2>3. rest[N] \in Nat
    BY <2>1
  <2> QED
    BY <1>4, <2>2, <2>3
<1>7. PICK last \in [0..N -> Nat] :
          /\ last[0] = 0 /\ last[N] = FromNeBytes(s)
          /\ \A i \in 1..N : last[i] = s[N - i + 1] + BYTE * last[i - 1]
  BY <1>3, LastDigits
<1> DEFINE U == {i \in 0..N : last[i] = rest[N - i]}
<1>8. \A i \in 0..N : i \in U
  <2>1. 0 \in U
    <3>1. N - 0 = N /\ 0 \in 0..N
      OBVIOUS
    <3> QED
      BY <1>6, <1>7, <3>1
  <2>2. ASSUME NEW i \in 0..(N - 1), i \in U PROVE i + 1 \in U
    <3>1. /\ i + 1 \in 1..N /\ i + 1 \in 0..N /\ (i + 1) - 1 = i /\ i \in 0..N
          /\ N - i \in 1..N /\ (N - i) - 1 = N - (i + 1) /\ N - (i + 1) \in 0..N
          /\ N - (i + 1) + 1 = N - i
      OBVIOUS
    <3> DEFINE x == rest[N - (i + 1)]
    <3>2. x \in Nat /\ rest[N - i] = x \div BYTE /\ s[N - i] = x % BYTE
      BY <1>1, <3>1
    <3>3. last[i + 1] = s[N - i] + BYTE * last[i]
      BY <1>7, <3>1
    <3>4. last[i] = rest[N - i]
      BY <2>2
    <3> HIDE DEF x
    <3>5. x = BYTE * (x \div BYTE) + (x % BYTE) /\ x % BYTE \in Nat /\ x \div BYTE \in Nat
      BY <3>2, LowestByte
    <3>6. last[i + 1] = x
      <4>1. BYTE * (x \div BYTE) \in Nat
        BY <3>2, LowestByte
      <4> QED
        BY <3>2, <3>3, <3>4, <3>5, <4>1
    <3> QED
      BY <3>1, <3>6 DEF x
  <2>3. \A i \in 0..(N - 1) : i \in U => i + 1 \in U
    BY <2>2
  <2> HIDE DEF U
  <2> QED
    BY <2>1, <2>3, UpTo
<1>9. last[N] = n
  <2>1. N \in 0..N /\ N - N = 0
    OBVIOUS
  <2> QED
    BY <1>1, <1>8, <2>1
<1> QED
  BY <1>2, <1>3, <1>7, <1>9 DEF s

\* Bytes say less than their power.
LEMMA BytesBounded ==
    ASSUME NEW s \in Seq(ByteValues)
    PROVE  FromNeBytes(s) \in 0..(Power(Len(s)) - 1)
<1> DEFINE N == Len(s)
<1>1. N \in Nat /\ \A i \in 1..N : s[i] \in ByteValues
  OBVIOUS
<1>2. PICK last \in [0..N -> Nat] :
          /\ last[0] = 0 /\ last[N] = FromNeBytes(s)
          /\ \A i \in 1..N : last[i] = s[N - i + 1] + BYTE * last[i - 1]
  BY LastDigits
<1> HIDE DEF N
<1>3. PICK p \in [0..N -> Nat] : /\ p[0] = 1 /\ \A i \in 1..N : p[i] = BYTE * p[i - 1]
                                 /\ p[N] = Power(N)
  BY <1>1, PowerSteps
<1> DEFINE T == {i \in 0..N : last[i] <= p[i] - 1}
<1>4. 0 \in T
  BY <1>1, <1>2, <1>3
<1>5. ASSUME NEW i \in 0..(N - 1), i \in T PROVE i + 1 \in T
  <2>1. /\ i + 1 \in 1..N /\ i + 1 \in 0..N /\ (i + 1) - 1 = i /\ i \in 0..N
        /\ N - (i + 1) + 1 \in 1..N
    BY <1>1
  <2> DEFINE d == s[N - (i + 1) + 1]
             x == last[i]
             q == p[i]
  <2>2. d \in ByteValues /\ x \in Nat /\ q \in Nat /\ x <= q - 1
    BY <1>1, <1>5, <2>1
  <2>3. last[i + 1] = d + BYTE * x /\ p[i + 1] = BYTE * q
    BY <1>2, <1>3, <2>1
  <2> HIDE DEF d, x, q
  <2>4. d \in Nat /\ d <= BYTE - 1
    BY <2>2, ByteSizes DEF ByteValues
  <2>5. BYTE * x + BYTE <= BYTE * q /\ BYTE * x \in Nat /\ BYTE * q \in Nat
    <3>1. x + 1 <= q
      BY <2>2
    <3>2. BYTE * (x + 1) <= BYTE * q
      BY <2>2, <3>1, ByteSizes
    <3>3. BYTE * (x + 1) = BYTE * x + BYTE
      BY <2>2, ByteSizes
    <3>4. BYTE * x \in Nat /\ BYTE * q \in Nat
      BY <2>2, ByteSizes
    <3> QED
      BY <3>2, <3>3, <3>4
  <2>6. last[i + 1] <= p[i + 1] - 1
    BY <2>3, <2>4, <2>5, ByteSizes
  <2> QED
    BY <2>1, <2>6
<1>6. last[N] <= p[N] - 1 /\ last[N] \in Nat
  <2>1. \A i \in 0..(N - 1) : i \in T => i + 1 \in T
    BY <1>5
  <2> HIDE DEF T
  <2>2. \A i \in 0..N : i \in T
    BY <1>1, <1>4, <2>1, UpTo
  <2>3. N \in 0..N
    BY <1>1
  <2> QED
    BY <2>2, <2>3 DEF T
<1>7. Power(N) \in Nat
  BY <1>1, PowerTypes
<1>8. FromNeBytes(s) \in 0..(Power(N) - 1)
  BY <1>2, <1>3, <1>6, <1>7
<1> QED
  BY <1>8 DEF N

Stamps == [ts : StampTimes, valid : BOOLEAN]

\* A timestamp and its flag are read back from their bytes: the time stays below
\* the flag (Timestamped<()>).
LEMMA StampBack ==
    ASSUME NEW x \in Stamps
    PROVE  /\ EncodeTimestamped(x) \in Seq(ByteValues)
           /\ Len(EncodeTimestamped(x)) = TIMESTAMPED_SIZE
           /\ DecodeTimestamped(EncodeTimestamped(x)) = x
<1> DEFINE p == Power(TIMESTAMPED_SIZE)
           d == DELETED_FLAG
           n == IF x.valid THEN x.ts ELSE x.ts + d
<1>1. p \in Nat /\ p >= 2
  BY PowerTypes, ByteSizes
<1>2. d = p \div 2
  BY DEF DELETED_FLAG
<1> HIDE DEF p, d
<1>3. d \in Nat \ {0} /\ 2 * d <= p
  BY <1>1, <1>2
<1>4. x.ts \in 0..(d - 1) /\ x.valid \in BOOLEAN /\ x = [ts |-> x.ts, valid |-> x.valid]
  BY DEF Stamps, StampTimes, d
<1>5. n \in Nat /\ n < p /\ (n < d) = x.valid
  <2>1. CASE x.valid = TRUE
    <3>1. n = x.ts
      BY <2>1
    <3> HIDE DEF n
    <3>2. n \in Nat /\ n < p /\ n < d
      BY <1>1, <1>3, <1>4, <3>1
    <3> QED
      BY <2>1, <3>2
  <2>2. CASE x.valid = FALSE
    <3>1. n = x.ts + d
      BY <2>2
    <3> HIDE DEF n
    <3>2. n \in Nat /\ n < p /\ ~(n < d)
      BY <1>1, <1>3, <1>4, <3>1
    <3>3. (n < d) = FALSE
      BY <3>2
    <3> QED
      BY <2>2, <3>2, <3>3
  <2> QED
    BY <1>4, <2>1, <2>2
<1>6. n % d = x.ts
  <2>1. CASE x.valid
    <3>1. (0 * d + x.ts) % d = x.ts
      BY <1>3, <1>4, Digits
    <3>2. 0 * d + x.ts = x.ts
      BY <1>3, <1>4
    <3> QED
      BY <2>1, <3>1, <3>2
  <2>2. CASE ~ x.valid
    <3>1. (1 * d + x.ts) % d = x.ts
      BY <1>3, <1>4, Digits
    <3>2. 1 * d + x.ts = x.ts + d
      BY <1>3, <1>4
    <3> QED
      BY <2>2, <3>1, <3>2
  <2> QED
    BY <2>1, <2>2
<1>7. EncodeTimestamped(x) = ToNeBytes(n, TIMESTAMPED_SIZE)
  BY DEF EncodeTimestamped, d
<1> HIDE DEF n
<1>8. /\ ToNeBytes(n, TIMESTAMPED_SIZE) \in Seq(ByteValues)
      /\ Len(ToNeBytes(n, TIMESTAMPED_SIZE)) = TIMESTAMPED_SIZE
      /\ FromNeBytes(ToNeBytes(n, TIMESTAMPED_SIZE)) = n
  BY <1>5, ByteSizes, BytesBack DEF p
<1>9. DecodeTimestamped(EncodeTimestamped(x)) = [ts |-> n % d, valid |-> n < d]
  BY <1>7, <1>8 DEF DecodeTimestamped, d
<1>10. DecodeTimestamped(EncodeTimestamped(x)) = x
  BY <1>4, <1>5, <1>6, <1>9
<1> QED
  BY <1>7, <1>8, <1>10

-----------------------------------------------------------------------------
(* Parts of a sequence                                                      *)

Part(s, lo, size) == SubSeq(s, lo + 1, lo + size)

LEMMA PartIs ==
    ASSUME NEW s \in Seq(ByteValues), NEW lo \in Nat, NEW size \in Nat, lo + size <= Len(s)
    PROVE  /\ Part(s, lo, size) \in Seq(ByteValues) /\ Len(Part(s, lo, size)) = size
           /\ Part(s, lo, size) = [j \in 1..size |-> s[lo + j]]
<1>1. Part(s, lo, size) = [j \in 1..size |-> s[lo + j]]
  <2>1. lo + size - (lo + 1) + 1 = size
    OBVIOUS
  <2>2. \A j \in 1..size : lo + 1 + j - 1 = lo + j
    OBVIOUS
  <2> QED
    BY <2>1, <2>2 DEF Part
<1>2. \A j \in 1..size : s[lo + j] \in ByteValues
  <2>1. \A j \in 1..size : lo + j \in 1..Len(s)
    OBVIOUS
  <2>2. \A k \in 1..Len(s) : s[k] \in ByteValues
    OBVIOUS
  <2> QED
    BY <2>1, <2>2
<1> QED
  BY <1>1, <1>2

LEMMA OverwriteIs ==
    ASSUME NEW s \in Seq(ByteValues), NEW part \in Seq(ByteValues), NEW offset \in Nat
    PROVE  /\ Overwrite(s, offset, part) \in Seq(ByteValues)
           /\ Len(Overwrite(s, offset, part)) = Len(s)
           /\ \A i \in 1..Len(s) :
                 Overwrite(s, offset, part)[i] =
                    IF i - offset \in 1..Len(part) THEN part[i - offset] ELSE s[i]
<1> DEFINE o == [i \in 1..Len(s) |->
                    IF i - offset \in 1..Len(part) THEN part[i - offset] ELSE s[i]]
<1>1. Overwrite(s, offset, part) = o
  BY DEF Overwrite
<1>2. Len(s) \in Nat /\ \A i \in 1..Len(s) : s[i] \in ByteValues
  OBVIOUS
<1>3. \A i \in 1..Len(part) : part[i] \in ByteValues
  OBVIOUS
<1>4. o \in [1..Len(s) -> ByteValues]
  BY <1>2, <1>3
<1> HIDE DEF o
<1>5. o \in Seq(ByteValues) /\ Len(o) = Len(s)
  BY <1>2, <1>4
<1> QED
  BY <1>1, <1>5 DEF o

\* What was written is read back; what lies before or after is untouched.
LEMMA OverwriteThere ==
    ASSUME NEW s \in Seq(ByteValues), NEW part \in Seq(ByteValues), NEW offset \in Nat,
           offset + Len(part) <= Len(s)
    PROVE  Part(Overwrite(s, offset, part), offset, Len(part)) = part
<1> DEFINE o == Overwrite(s, offset, part)
           N == Len(part)
<1>1. /\ o \in Seq(ByteValues) /\ Len(o) = Len(s) /\ N \in Nat /\ Len(s) \in Nat
      /\ \A i \in 1..Len(s) : o[i] = IF i - offset \in 1..N THEN part[i - offset] ELSE s[i]
  BY OverwriteIs
<1>2. part = [j \in 1..N |-> part[j]]
  OBVIOUS
<1> HIDE DEF o, N
<1>3. Part(o, offset, N) = [j \in 1..N |-> o[offset + j]]
  BY <1>1, PartIs DEF N
<1>4. \A j \in 1..N : o[offset + j] = part[j]
  <2>1. \A j \in 1..N : offset + j \in 1..Len(s) /\ (offset + j) - offset = j
    BY <1>1 DEF N
  <2> QED
    BY <1>1, <2>1
<1>5. Part(o, offset, N) = part
  BY <1>2, <1>3, <1>4
<1> QED
  BY <1>5 DEF o, N

LEMMA OverwriteElsewhere ==
    ASSUME NEW s \in Seq(ByteValues), NEW part \in Seq(ByteValues), NEW offset \in Nat,
           NEW lo \in Nat, NEW size \in Nat, lo + size <= Len(s),
           lo + size <= offset \/ offset + Len(part) <= lo
    PROVE  Part(Overwrite(s, offset, part), lo, size) = Part(s, lo, size)
<1> DEFINE o == Overwrite(s, offset, part)
           N == Len(part)
<1>1. /\ o \in Seq(ByteValues) /\ Len(o) = Len(s) /\ N \in Nat /\ Len(s) \in Nat
      /\ \A i \in 1..Len(s) : o[i] = IF i - offset \in 1..N THEN part[i - offset] ELSE s[i]
  BY OverwriteIs
<1>2. lo + size <= offset \/ offset + N <= lo
  OBVIOUS
<1> HIDE DEF o, N
<1>3. Part(o, lo, size) = [j \in 1..size |-> o[lo + j]]
  BY <1>1, PartIs
<1>4. Part(s, lo, size) = [j \in 1..size |-> s[lo + j]]
  BY PartIs
<1>5. \A j \in 1..size : o[lo + j] = s[lo + j]
  <2>1. \A j \in 1..size : lo + j \in 1..Len(s) /\ (lo + j) - offset \notin 1..N
    BY <1>1, <1>2
  <2> QED
    BY <1>1, <2>1
<1>6. Part(o, lo, size) = Part(s, lo, size)
  BY <1>3, <1>4, <1>5
<1> QED
  BY <1>6 DEF o

\* Pieces of the same size do not overlap.
LEMMA PiecesApart ==
    ASSUME NEW k \in Nat, NEW n \in Nat, NEW size \in Nat, k < n
    PROVE  /\ k * size \in Nat /\ n * size \in Nat
           /\ (k + 1) * size = k * size + size /\ k * size + size <= n * size
<1>1. k * size \in Nat /\ n * size \in Nat /\ (k + 1) * size = k * size + size
  OBVIOUS
<1>2. (k + 1) * size <= n * size
  <2>1. k + 1 <= n
    OBVIOUS
  <2> QED
    BY <2>1
<1> QED
  BY <1>1, <1>2

-----------------------------------------------------------------------------
(* Chunks                                                                   *)

Chunks == {c \in Seq(ByteValues) : Len(c) = ChunkSize}
Slots == 0..(Targets - 1)

\* The timestamps of a chunk lie behind its epoch, one behind the other.
LEMMA ChunkSizes ==
    /\ ChunkSize \in Nat /\ ChunkSize >= 1 /\ EPOCH_SIZE <= ChunkSize
    /\ \A k \in Slots : /\ TimestampOffset(k) \in Nat /\ EPOCH_SIZE <= TimestampOffset(k)
                        /\ TimestampOffset(k) + TIMESTAMPED_SIZE <= ChunkSize
    /\ \A k, n \in Slots : k < n => TimestampOffset(k) + TIMESTAMPED_SIZE <= TimestampOffset(n)
<1>1. ASSUME NEW k \in Nat, NEW n \in Nat, k < n
      PROVE  /\ k * TIMESTAMPED_SIZE \in Nat /\ n * TIMESTAMPED_SIZE \in Nat
             /\ k * TIMESTAMPED_SIZE + TIMESTAMPED_SIZE <= n * TIMESTAMPED_SIZE
  BY <1>1, PiecesApart, ByteSizes
<1>2. Targets \in Nat /\ 0 < Targets /\ \A k \in Slots : k \in Nat /\ k < Targets
  BY ByteSizes DEF Slots
<1>3. Targets * TIMESTAMPED_SIZE \in Nat
  BY <1>1, <1>2
<1>4. ChunkSize = EPOCH_SIZE + Targets * TIMESTAMPED_SIZE
  BY DEF ChunkSize
<1>5. ASSUME NEW k \in Slots
      PROVE  /\ TimestampOffset(k) \in Nat /\ EPOCH_SIZE <= TimestampOffset(k)
             /\ TimestampOffset(k) + TIMESTAMPED_SIZE <= ChunkSize
  <2>1. /\ k * TIMESTAMPED_SIZE \in Nat
        /\ k * TIMESTAMPED_SIZE + TIMESTAMPED_SIZE <= Targets * TIMESTAMPED_SIZE
    BY <1>1, <1>2
  <2>2. TimestampOffset(k) = EPOCH_SIZE + k * TIMESTAMPED_SIZE
    BY DEF TimestampOffset
  <2> QED
    BY <1>3, <1>4, <2>1, <2>2, ByteSizes
<1>6. ASSUME NEW k \in Slots, NEW n \in Slots, k < n
      PROVE  TimestampOffset(k) + TIMESTAMPED_SIZE <= TimestampOffset(n)
  <2>1. /\ k * TIMESTAMPED_SIZE \in Nat /\ n * TIMESTAMPED_SIZE \in Nat
        /\ k * TIMESTAMPED_SIZE + TIMESTAMPED_SIZE <= n * TIMESTAMPED_SIZE
    BY <1>1, <1>2, <1>6
  <2>2. /\ TimestampOffset(k) = EPOCH_SIZE + k * TIMESTAMPED_SIZE
        /\ TimestampOffset(n) = EPOCH_SIZE + n * TIMESTAMPED_SIZE
    BY DEF TimestampOffset
  <2> QED
    BY <2>1, <2>2, ByteSizes
<1>7. ChunkSize \in Nat /\ ChunkSize >= 1 /\ EPOCH_SIZE <= ChunkSize
  BY <1>3, <1>4, ByteSizes
<1> QED
  BY <1>5, <1>6, <1>7

\* The epoch that is set is read back, and the timestamps are as before.
LEMMA SetEpochIs ==
    ASSUME NEW chunk \in Chunks, NEW e \in 0..MaxEpoch
    PROVE  /\ SetEpoch(chunk, e) \in Chunks /\ EpochOf(SetEpoch(chunk, e)) = e
           /\ \A k \in Slots : Stamp(SetEpoch(chunk, e), k) = Stamp(chunk, k)
<1> DEFINE part == ToNeBytes(e, EPOCH_SIZE)
           to == SetEpoch(chunk, e)
<1>1. chunk \in Seq(ByteValues) /\ Len(chunk) = ChunkSize
  BY DEF Chunks
<1>2. part \in Seq(ByteValues) /\ Len(part) = EPOCH_SIZE /\ FromNeBytes(part) = e
  <2>1. e \in Nat /\ e < Power(EPOCH_SIZE)
    BY PowerTypes, ByteSizes DEF MaxEpoch
  <2> QED
    BY <2>1, ByteSizes, BytesBack
<1>3. to = Overwrite(chunk, 0, part)
  BY DEF SetEpoch
<1> HIDE DEF part, to
<1>4. to \in Chunks
  BY <1>1, <1>2, <1>3, OverwriteIs DEF Chunks
<1>5. Part(to, 0, EPOCH_SIZE) = part
  <2>1. 0 + Len(part) <= Len(chunk)
    BY <1>1, <1>2, ChunkSizes, ByteSizes
  <2> QED
    BY <1>1, <1>2, <1>3, <2>1, OverwriteThere
<1>6. EpochOf(to) = e
  <2>1. Part(to, 0, EPOCH_SIZE) = SubSeq(to, 1, EPOCH_SIZE)
    BY ByteSizes DEF Part
  <2> QED
    BY <1>2, <1>5, <2>1 DEF EpochOf
<1>7. ASSUME NEW k \in Slots PROVE Stamp(to, k) = Stamp(chunk, k)
  <2> DEFINE lo == TimestampOffset(k)
  <2>1. lo \in Nat /\ lo + TIMESTAMPED_SIZE <= Len(chunk) /\ 0 + Len(part) <= lo
    BY <1>1, <1>2, ChunkSizes, ByteSizes
  <2> HIDE DEF lo
  <2>2. Part(to, lo, TIMESTAMPED_SIZE) = Part(chunk, lo, TIMESTAMPED_SIZE)
    BY <1>1, <1>2, <1>3, <2>1, ByteSizes, OverwriteElsewhere
  <2> QED
    BY <2>2 DEF Stamp, TimestampAt, Part, lo
<1> QED
  BY <1>4, <1>6, <1>7 DEF to

\* So is a timestamp, and the epoch and the other timestamps are as before.
LEMMA SetTimestampIs ==
    ASSUME NEW chunk \in Chunks, NEW n \in Slots, NEW x \in Stamps
    PROVE  /\ SetTimestampAt(chunk, n, x) \in Chunks
           /\ EpochOf(SetTimestampAt(chunk, n, x)) = EpochOf(chunk)
           /\ \A k \in Slots : Stamp(SetTimestampAt(chunk, n, x), k) =
                                  IF k = n THEN x ELSE Stamp(chunk, k)
<1> DEFINE part == EncodeTimestamped(x)
           at == TimestampOffset(n)
           to == SetTimestampAt(chunk, n, x)
<1>1. chunk \in Seq(ByteValues) /\ Len(chunk) = ChunkSize
  BY DEF Chunks
<1>2. part \in Seq(ByteValues) /\ Len(part) = TIMESTAMPED_SIZE /\ DecodeTimestamped(part) = x
  BY StampBack
<1>3. at \in Nat /\ EPOCH_SIZE <= at /\ at + TIMESTAMPED_SIZE <= ChunkSize
  BY ChunkSizes
<1>4. to = Overwrite(chunk, at, part)
  BY DEF SetTimestampAt
<1> HIDE DEF part, at, to
<1>5. to \in Chunks
  BY <1>1, <1>2, <1>3, <1>4, OverwriteIs DEF Chunks
<1>6. Part(to, at, TIMESTAMPED_SIZE) = part
  <2>1. at + Len(part) <= Len(chunk)
    BY <1>1, <1>2, <1>3
  <2>2. Part(to, at, Len(part)) = part
    BY <1>1, <1>2, <1>3, <1>4, <2>1, OverwriteThere
  <2> QED
    BY <1>2, <2>2
<1>7. EpochOf(to) = EpochOf(chunk)
  <2>1. 0 + EPOCH_SIZE <= Len(chunk) /\ 0 + EPOCH_SIZE <= at /\ 0 \in Nat
    BY <1>1, <1>3, ChunkSizes, ByteSizes
  <2>2. Part(to, 0, EPOCH_SIZE) = Part(chunk, 0, EPOCH_SIZE)
    BY <1>1, <1>2, <1>3, <1>4, <2>1, ByteSizes, OverwriteElsewhere
  <2>3. /\ Part(to, 0, EPOCH_SIZE) = SubSeq(to, 1, EPOCH_SIZE)
        /\ Part(chunk, 0, EPOCH_SIZE) = SubSeq(chunk, 1, EPOCH_SIZE)
    BY ByteSizes DEF Part
  <2> QED
    BY <2>2, <2>3 DEF EpochOf
<1>8. ASSUME NEW k \in Slots PROVE Stamp(to, k) = IF k = n THEN x ELSE Stamp(chunk, k)
  <2>1. k \in Nat /\ k < Targets /\ n \in Nat /\ ~(k >= Targets)
    BY ByteSizes DEF Slots
  <2>2. CASE k = n
    BY <1>2, <1>6, <2>1, <2>2 DEF Stamp, TimestampAt, Part, at
  <2>3. CASE k # n
    <3> DEFINE lo == TimestampOffset(k)
    <3>1. lo \in Nat /\ lo + TIMESTAMPED_SIZE <= Len(chunk)
      BY <1>1, ChunkSizes
    <3>2. lo + TIMESTAMPED_SIZE <= at \/ at + Len(part) <= lo
      <4>1. k < n \/ n < k
        BY <2>1, <2>3
      <4> QED
        BY <1>2, <4>1, ChunkSizes DEF at
    <3> HIDE DEF lo
    <3>3. Part(to, lo, TIMESTAMPED_SIZE) = Part(chunk, lo, TIMESTAMPED_SIZE)
      BY <1>1, <1>2, <1>3, <1>4, <3>1, <3>2, ByteSizes, OverwriteElsewhere
    <3> QED
      BY <2>1, <2>3, <3>3 DEF Stamp, TimestampAt, Part, lo
  <2> QED
    BY <2>2, <2>3
<1> QED
  BY <1>5, <1>7, <1>8 DEF to

\* Each timestamp that is set stays while the ones after it are set.
LEMMA SetTimestampsIs ==
    ASSUME NEW chunk \in Chunks, NEW stamps \in [Slots -> Stamps]
    PROVE  /\ SetTimestamps(chunk, stamps) \in Chunks
           /\ EpochOf(SetTimestamps(chunk, stamps)) = EpochOf(chunk)
           /\ \A k \in Slots : Stamp(SetTimestamps(chunk, stamps), k) = stamps[k]
<1> DEFINE N == Targets
           step == [n \in 1..N |-> [c \in Chunks |-> SetTimestampAt(c, n - 1, stamps[n - 1])]]
<1>1. N \in Nat /\ \A n \in 1..N : n - 1 \in Slots /\ n - 1 \in 0..N
  BY ByteSizes DEF Slots
<1> HIDE DEF N
<1>2. ASSUME NEW n \in 1..N, NEW c \in Chunks
      PROVE  /\ SetTimestampAt(c, n - 1, stamps[n - 1]) \in Chunks
             /\ EpochOf(SetTimestampAt(c, n - 1, stamps[n - 1])) = EpochOf(c)
             /\ \A k \in Slots : Stamp(SetTimestampAt(c, n - 1, stamps[n - 1]), k) =
                                    IF k = n - 1 THEN stamps[n - 1] ELSE Stamp(c, k)
  <2>1. n - 1 \in Slots
    BY <1>1
  <2>2. stamps[n - 1] \in Stamps
    BY <2>1
  <2> QED
    BY <2>1, <2>2, SetTimestampIs
<1>3. step \in [1..N -> [Chunks -> Chunks]]
  BY <1>2
<1>4. PICK p \in [0..N -> Chunks] : p[0] = chunk /\ \A n \in 1..N : p[n] = step[n][p[n - 1]]
  <2>1. Iterations(N, Chunks, chunk, step) # {}
    <3> HIDE DEF step
    <3> QED
      BY <1>1, <1>3, IterationsExist
  <2> QED
    BY <2>1 DEF Iterations
<1>5. \A n \in 1..N : p[n] = SetTimestampAt(p[n - 1], n - 1, stamps[n - 1])
  BY <1>1, <1>4
<1> DEFINE Fix(f) == f = [n \in 0..N |->
                IF n = 0 THEN chunk ELSE SetTimestampAt(f[n - 1], n - 1, stamps[n - 1])]
           f == CHOOSE f : Fix(f)
<1>6. Fix(p)
  <2>1. \A n \in 0..N : n # 0 => n \in 1..N
    BY <1>1
  <2> QED
    BY <1>4, <1>5, <2>1
<1>7. Fix(f)
  <2> HIDE DEF Fix
  <2> QED
    BY <1>6
<1>8. SetTimestamps(chunk, stamps) = f[N]
  BY DEF SetTimestamps, N
<1> HIDE DEF f
<1>9. DOMAIN f = 0..N /\ f[0] = chunk
      /\ \A n \in 1..N : f[n] = SetTimestampAt(f[n - 1], n - 1, stamps[n - 1])
  <2>1. 0 \in 0..N /\ \A n \in 1..N : n \in 0..N /\ n # 0
    BY <1>1
  <2> QED
    BY <1>7, <2>1
<1> DEFINE T == {n \in 0..N : /\ f[n] \in Chunks /\ EpochOf(f[n]) = EpochOf(chunk)
                              /\ \A k \in Slots : k < n => Stamp(f[n], k) = stamps[k]}
<1>10. 0 \in T
  <2>1. \A k \in Slots : ~(k < 0)
    BY <1>1 DEF Slots, N
  <2>2. 0 \in 0..N
    BY <1>1
  <2> QED
    BY <1>9, <2>1, <2>2
<1>11. ASSUME NEW n \in 0..(N - 1), n \in T PROVE n + 1 \in T
  <2>1. n + 1 \in 1..N /\ n + 1 \in 0..N /\ (n + 1) - 1 = n /\ n \in Nat
    BY <1>1
  <2> DEFINE c == f[n]
  <2>2. /\ c \in Chunks /\ EpochOf(c) = EpochOf(chunk)
        /\ \A k \in Slots : k < n => Stamp(c, k) = stamps[k]
    BY <1>11
  <2>3. f[n + 1] = SetTimestampAt(c, n, stamps[n])
    BY <1>9, <2>1
  <2> HIDE DEF c
  <2>4. /\ f[n + 1] \in Chunks /\ EpochOf(f[n + 1]) = EpochOf(c)
        /\ \A k \in Slots : Stamp(f[n + 1], k) = IF k = n THEN stamps[n] ELSE Stamp(c, k)
    BY <1>2, <2>1, <2>2, <2>3
  <2>5. \A k \in Slots : k < n + 1 => k = n \/ k < n
    BY <2>1 DEF Slots
  <2>6. \A k \in Slots : k < n + 1 => Stamp(f[n + 1], k) = stamps[k]
    BY <2>2, <2>4, <2>5
  <2> QED
    BY <2>1, <2>2, <2>4, <2>6
<1>12. N \in T
  <2>1. \A n \in 0..(N - 1) : n \in T => n + 1 \in T
    BY <1>11
  <2> HIDE DEF T
  <2>2. \A n \in 0..N : n \in T
    BY <1>1, <1>10, <2>1, UpTo
  <2>3. N \in 0..N
    BY <1>1
  <2> QED
    BY <2>2, <2>3
<1>13. \A k \in Slots : k < N
  BY <1>1 DEF Slots, N
<1> QED
  BY <1>8, <1>12, <1>13

\* A new chunk.
LEMMA FillDefaultIs ==
    /\ FillDefault \in Chunks /\ EpochOf(FillDefault) = 0
    /\ \A k \in Slots : Stamp(FillDefault, k) = [ts |-> 0, valid |-> FALSE]
<1> DEFINE zeros == [i \in 1..ChunkSize |-> 0]
           stamps == [s \in 0..Targets - 1 |-> [ts |-> 0, valid |-> FALSE]]
<1>1. zeros \in Chunks
  <2>1. 0 \in ByteValues
    BY ByteSizes DEF ByteValues
  <2>2. zeros \in [1..ChunkSize -> ByteValues]
    BY <2>1
  <2> HIDE DEF zeros
  <2> QED
    BY <2>2, ChunkSizes DEF Chunks
<1>2. 0 \in 0..MaxEpoch
  BY PowerTypes, ByteSizes DEF MaxEpoch
<1>3. SetEpoch(zeros, 0) \in Chunks /\ EpochOf(SetEpoch(zeros, 0)) = 0
  <2> HIDE DEF zeros
  <2> QED
    BY <1>1, <1>2, SetEpochIs
<1>4. stamps \in [Slots -> Stamps]
  <2>1. DELETED_FLAG \in Nat /\ DELETED_FLAG >= 1
    BY PowerTypes, ByteSizes DEF DELETED_FLAG
  <2>2. 0 \in StampTimes
    BY <2>1 DEF StampTimes
  <2>3. [ts |-> 0, valid |-> FALSE] \in Stamps
    BY <2>2 DEF Stamps
  <2> QED
    BY <2>3 DEF Slots
<1>5. \A k \in Slots : stamps[k] = [ts |-> 0, valid |-> FALSE]
  BY DEF Slots
<1>6. FillDefault = SetTimestamps(SetEpoch(zeros, 0), stamps)
  BY DEF FillDefault
<1> HIDE DEF zeros, stamps
<1> QED
  BY <1>3, <1>4, <1>5, <1>6, SetTimestampsIs

ChunkAt(bs, n) == SubSeq(bs, n * ChunkSize + 1, (n + 1) * ChunkSize)

LEMMA ChunkAtIs ==
    ASSUME NEW bs \in Seq(ByteValues), NEW L \in Nat, Len(bs) = L * ChunkSize, NEW n \in 0..(L - 1)
    PROVE  /\ n \in Nat /\ n * ChunkSize \in Nat /\ n * ChunkSize + ChunkSize <= Len(bs)
           /\ ChunkAt(bs, n) = Part(bs, n * ChunkSize, ChunkSize) /\ ChunkAt(bs, n) \in Chunks
<1>1. /\ n \in Nat /\ n * ChunkSize \in Nat /\ (n + 1) * ChunkSize = n * ChunkSize + ChunkSize
      /\ n * ChunkSize + ChunkSize <= Len(bs)
  BY PiecesApart, ChunkSizes
<1>2. ChunkAt(bs, n) = Part(bs, n * ChunkSize, ChunkSize)
  BY <1>1 DEF ChunkAt, Part
<1>3. /\ Part(bs, n * ChunkSize, ChunkSize) \in Seq(ByteValues)
      /\ Len(Part(bs, n * ChunkSize, ChunkSize)) = ChunkSize
  BY <1>1, PartIs, ChunkSizes
<1> QED
  BY <1>1, <1>2, <1>3 DEF Chunks

LEMMA ChunkCountIs ==
    ASSUME NEW L \in Nat
    PROVE  (L * ChunkSize) \div ChunkSize = L
<1>1. 0 \in 0..(ChunkSize - 1) /\ ChunkSize \in Nat \ {0}
  BY ChunkSizes
<1>2. (L * ChunkSize + 0) \div ChunkSize = L
  BY <1>1, Digits
<1>3. L * ChunkSize + 0 = L * ChunkSize
  BY ChunkSizes
<1> QED
  BY <1>2, <1>3

\* Writing one chunk leaves the others alone.
LEMMA PutChunkIs ==
    ASSUME NEW bs \in Seq(ByteValues), NEW L \in Nat, Len(bs) = L * ChunkSize, NEW n \in 0..(L - 1),
           NEW chunk \in Chunks
    PROVE  /\ Overwrite(bs, n * ChunkSize, chunk) \in Seq(ByteValues)
           /\ Len(Overwrite(bs, n * ChunkSize, chunk)) = L * ChunkSize
           /\ \A k \in 0..(L - 1) : ChunkAt(Overwrite(bs, n * ChunkSize, chunk), k) =
                                     IF k = n THEN chunk ELSE ChunkAt(bs, k)
<1> DEFINE to == Overwrite(bs, n * ChunkSize, chunk)
           at == n * ChunkSize
<1>1. at \in Nat /\ at + ChunkSize <= Len(bs) /\ n \in Nat
  BY ChunkAtIs
<1>2. chunk \in Seq(ByteValues) /\ Len(chunk) = ChunkSize
  BY DEF Chunks
<1>3. to = Overwrite(bs, at, chunk)
  OBVIOUS
<1> HIDE DEF to, at
<1>4. to \in Seq(ByteValues) /\ Len(to) = L * ChunkSize
  BY <1>1, <1>2, <1>3, OverwriteIs
<1>5. ASSUME NEW k \in 0..(L - 1)
      PROVE  ChunkAt(to, k) = IF k = n THEN chunk ELSE ChunkAt(bs, k)
  <2> DEFINE lo == k * ChunkSize
  <2>1. k \in Nat /\ lo \in Nat /\ lo + ChunkSize <= Len(bs)
        /\ ChunkAt(to, k) = Part(to, lo, ChunkSize) /\ ChunkAt(bs, k) = Part(bs, lo, ChunkSize)
    BY <1>4, ChunkAtIs
  <2>2. CASE k = n
    <3>1. Part(to, at, Len(chunk)) = chunk
      BY <1>1, <1>2, <1>3, OverwriteThere
    <3> QED
      BY <1>2, <2>1, <2>2, <3>1 DEF at
  <2>3. CASE k # n
    <3>1. lo + ChunkSize <= at \/ at + Len(chunk) <= lo
      <4>1. k < n \/ n < k
        BY <1>1, <2>1, <2>3
      <4> QED
        BY <1>1, <1>2, <2>1, <4>1, PiecesApart, ChunkSizes DEF at
    <3> HIDE DEF lo
    <3>2. Part(to, lo, ChunkSize) = Part(bs, lo, ChunkSize)
      BY <1>1, <1>2, <1>3, <2>1, <3>1, ChunkSizes, OverwriteElsewhere
    <3> QED
      BY <2>1, <2>3, <3>2
  <2> QED
    BY <2>2, <2>3
<1> QED
  BY <1>4, <1>5 DEF to

LEMMA InChunk ==
    ASSUME NEW q \in Nat, NEW j \in 1..ChunkSize
    PROVE  (q * ChunkSize + (j - 1)) % ChunkSize = j - 1
<1>1. j - 1 \in 0..(ChunkSize - 1) /\ ChunkSize \in Nat \ {0}
  BY ChunkSizes
<1> QED
  BY <1>1, Digits

\* A chunk over and over, up to a length.
Copies(chunk, size) == [i \in 1..size |-> chunk[((i - 1) % ChunkSize) + 1]]

LEMMA JoinIs ==
    ASSUME NEW S, NEW a \in Seq(S), NEW b \in Seq(S)
    PROVE  /\ a \o b \in Seq(S) /\ Len(a \o b) = Len(a) + Len(b)
           /\ \A i \in 1..(Len(a) + Len(b)) :
                 (a \o b)[i] = IF i <= Len(a) THEN a[i] ELSE b[i - Len(a)]
  OBVIOUS

LEMMA CopiesIs ==
    ASSUME NEW bs \in Seq(ByteValues), NEW chunk \in Chunks, NEW M \in Nat
    PROVE  /\ bs \o Copies(chunk, M) \in Seq(ByteValues)
           /\ Len(bs \o Copies(chunk, M)) = Len(bs) + M
           /\ \A i \in 1..(Len(bs) + M) : (bs \o Copies(chunk, M))[i] =
                 IF i <= Len(bs) THEN bs[i] ELSE chunk[((i - Len(bs) - 1) % ChunkSize) + 1]
<1> DEFINE more == Copies(chunk, M)
<1>1. chunk \in Seq(ByteValues) /\ Len(chunk) = ChunkSize /\ ChunkSize \in Nat \ {0}
  BY ChunkSizes DEF Chunks
<1>2. more \in Seq(ByteValues) /\ Len(more) = M
      /\ \A i \in 1..M : more[i] = chunk[((i - 1) % ChunkSize) + 1]
  <2>1. ASSUME NEW i \in 1..M PROVE chunk[((i - 1) % ChunkSize) + 1] \in ByteValues
    <3>1. i - 1 \in Nat
      OBVIOUS
    <3>2. (i - 1) % ChunkSize \in 0..(ChunkSize - 1)
      BY <1>1, <3>1, Halves
    <3>3. ((i - 1) % ChunkSize) + 1 \in 1..Len(chunk)
      BY <1>1, <3>2
    <3> QED
      BY <1>1, <3>3
  <2>2. more \in [1..M -> ByteValues]
    BY <2>1 DEF Copies
  <2>3. more \in Seq(ByteValues) /\ Len(more) = M
    <3> HIDE DEF more
    <3> QED
      BY <2>2
  <2> QED
    BY <2>3 DEF Copies
<1> HIDE DEF more
<1>3. /\ bs \o more \in Seq(ByteValues) /\ Len(bs \o more) = Len(bs) + Len(more)
      /\ \A i \in 1..(Len(bs) + Len(more)) :
             (bs \o more)[i] = IF i <= Len(bs) THEN bs[i] ELSE more[i - Len(bs)]
  BY <1>2, JoinIs
<1>4. Len(bs) \in Nat
  OBVIOUS
<1>5. ASSUME NEW i \in 1..(Len(bs) + M), ~(i <= Len(bs))
      PROVE  more[i - Len(bs)] = chunk[((i - Len(bs) - 1) % ChunkSize) + 1]
  <2>1. i - Len(bs) \in 1..M
    BY <1>4, <1>5
  <2> QED
    BY <1>2, <2>1
<1> QED
  BY <1>2, <1>3, <1>5 DEF more

Joined(to, bs, chunk) ==
    \A i \in 1..Len(to) :
        to[i] = IF i <= Len(bs) THEN bs[i] ELSE chunk[((i - Len(bs) - 1) % ChunkSize) + 1]

ChunksAre(to, bs, L, m, chunk) ==
    \A k \in 0..(L + m - 1) : ChunkAt(to, k) = IF k < L THEN ChunkAt(bs, k) ELSE chunk

LEMMA ChunksJoined ==
    ASSUME NEW bs \in Seq(ByteValues), NEW L \in Nat, Len(bs) = L * ChunkSize, NEW m \in Nat,
           NEW chunk \in Chunks, NEW to \in Seq(ByteValues), Len(to) = (L + m) * ChunkSize,
           Joined(to, bs, chunk)
    PROVE  ChunksAre(to, bs, L, m, chunk)
<1> DEFINE M == m * ChunkSize
           P == L * ChunkSize
<1>1. chunk \in Seq(ByteValues) /\ Len(chunk) = ChunkSize /\ ChunkSize \in Nat \ {0}
  BY ChunkSizes DEF Chunks
<1>2. M \in Nat /\ P \in Nat /\ Len(bs) = P /\ Len(to) = P + M
  BY <1>1
<1> HIDE DEF M, P
<1>3. \A i \in 1..(P + M) :
          to[i] = IF i <= P THEN bs[i] ELSE chunk[((i - P - 1) % ChunkSize) + 1]
  BY <1>2 DEF Joined
<1>4. ASSUME NEW k \in 0..(L + m - 1)
      PROVE  ChunkAt(to, k) = IF k < L THEN ChunkAt(bs, k) ELSE chunk
  <2> DEFINE lo == k * ChunkSize
  <2>1. L + m \in Nat
    OBVIOUS
  <2>2. k \in Nat /\ lo \in Nat /\ lo + ChunkSize <= P + M
        /\ ChunkAt(to, k) = Part(to, lo, ChunkSize)
    BY <1>2, <2>1, ChunkAtIs
  <2>3. CASE k < L
    <3>1. k \in 0..(L - 1)
      BY <2>2, <2>3
    <3>2. lo + ChunkSize <= P /\ ChunkAt(bs, k) = Part(bs, lo, ChunkSize)
      BY <1>2, <3>1, ChunkAtIs
    <3> HIDE DEF lo
    <3>3. Part(bs, lo, ChunkSize) = [j \in 1..ChunkSize |-> bs[lo + j]]
      <4>1. lo + ChunkSize <= Len(bs) /\ ChunkSize \in Nat /\ lo \in Nat
        BY <1>1, <1>2, <2>2, <3>2
      <4> QED
        BY <4>1, PartIs
    <3>4. Part(to, lo, ChunkSize) = [j \in 1..ChunkSize |-> to[lo + j]]
      <4>1. lo + ChunkSize <= Len(to) /\ ChunkSize \in Nat /\ lo \in Nat
        BY <1>1, <1>2, <2>2
      <4> QED
        BY <4>1, PartIs
    <3>5. \A j \in 1..ChunkSize : lo + j \in 1..(P + M) /\ lo + j <= P
      BY <1>1, <1>2, <2>2, <3>2
    <3>6. \A j \in 1..ChunkSize : to[lo + j] = bs[lo + j]
      BY <1>3, <3>5
    <3> QED
      BY <2>2, <2>3, <3>2, <3>3, <3>4, <3>6
  <2>4. CASE ~(k < L)
    <3> DEFINE q == k - L
               at == q * ChunkSize
    <3>1. q \in Nat /\ at \in Nat /\ lo = P + at
      <4>1. q \in Nat /\ k = L + q
        BY <2>2, <2>4
      <4> HIDE DEF q
      <4> QED
        BY <1>1, <4>1 DEF P
    <3> HIDE DEF lo, q
    <3>2. ASSUME NEW j \in 1..ChunkSize PROVE to[lo + j] = chunk[j]
      <4>1. (at + (j - 1)) % ChunkSize = j - 1
        <5>1. j - 1 \in 0..(ChunkSize - 1)
          BY <1>1
        <5> HIDE DEF at
        <5>2. (q * ChunkSize + (j - 1)) % ChunkSize = j - 1
          BY <3>1, InChunk
        <5> QED
          BY <5>2 DEF at
      <4> HIDE DEF at
      <4>2. lo + j \in 1..(P + M) /\ ~(lo + j <= P) /\ (lo + j) - P - 1 = at + (j - 1)
            /\ (j - 1) + 1 = j
        BY <1>1, <1>2, <2>2, <3>1
      <4> QED
        BY <1>3, <4>1, <4>2
    <3>3. chunk = [j \in 1..ChunkSize |-> chunk[j]]
      BY <1>1
    <3>4. Part(to, lo, ChunkSize) = [j \in 1..ChunkSize |-> to[lo + j]]
      <4>1. lo + ChunkSize <= Len(to) /\ ChunkSize \in Nat /\ lo \in Nat
        BY <1>1, <1>2, <2>2
      <4> QED
        BY <4>1, PartIs
    <3> QED
      BY <2>2, <2>4, <3>2, <3>3, <3>4
  <2> QED
    BY <2>3, <2>4
<1> QED
  BY <1>4 DEF ChunksAre

\* So many chunks more, all alike.
LongerBy(to, bs, L, m, chunk) ==
    /\ to \in Seq(ByteValues) /\ Len(to) = (L + m) * ChunkSize
    /\ ChunksAre(to, bs, L, m, chunk)

LEMMA MoreChunks ==
    ASSUME NEW bs \in Seq(ByteValues), NEW L \in Nat, Len(bs) = L * ChunkSize, NEW m \in Nat,
           NEW chunk \in Chunks
    PROVE  LongerBy(bs \o Copies(chunk, m * ChunkSize), bs, L, m, chunk)
<1> DEFINE M == m * ChunkSize
           o == bs \o Copies(chunk, M)
<1>1. M \in Nat /\ (L + m) * ChunkSize = Len(bs) + M
  BY ChunkSizes
<1> HIDE DEF M
<1>3. /\ o \in Seq(ByteValues) /\ Len(o) = Len(bs) + M
      /\ \A i \in 1..(Len(bs) + M) :
            o[i] = IF i <= Len(bs) THEN bs[i] ELSE chunk[((i - Len(bs) - 1) % ChunkSize) + 1]
  BY <1>1, CopiesIs, Zenon
<1> HIDE DEF o
<1>4. o \in Seq(ByteValues) /\ Len(o) = (L + m) * ChunkSize /\ Joined(o, bs, chunk)
  BY <1>1, <1>3, Zenon DEF Joined
<1>5. ChunksAre(o, bs, L, m, chunk)
  BY <1>4, ChunksJoined
<1>6. LongerBy(o, bs, L, m, chunk)
  BY <1>4, <1>5 DEF LongerBy
<1> QED
  BY <1>6 DEF o, M

-----------------------------------------------------------------------------
(* The rows that the bytes and vectors are read as                          *)

RowAt(bs, cols, ks, n) ==
    [key |-> ks[n + 1], epoch |-> EpochOf(ChunkAt(bs, n)),
     stamps |-> [s \in 0..Targets - 1 |-> Stamp(ChunkAt(bs, n), s)],
     values |-> [c \in CellColumns |-> cols[c][n + 1]]]
StoredRows(bs, cols, ks) == [n \in 0..(Len(ks) - 1) |-> RowAt(bs, cols, ks, n)]

\* As many chunks, and cells in each vector, as rows.
VectorsRight(bs, cols, ks) ==
    /\ ks \in Seq({NoValue, "key"}) /\ Len(ks) <= RESERVED
    /\ bs \in Seq(ByteValues) /\ Len(bs) = Len(ks) * ChunkSize
    /\ DOMAIN cols = {c \in DOMAIN ColumnTypes : ColumnNew(ColumnTypes[c]) # <<>>}
    /\ \A c \in CellColumns : cols[c] \in Seq(Cells) /\ Len(cols[c]) = Len(ks)

StorageInvariant == VectorsRight(bytes, columns, keys)

\* RowsRead, of any bytes and vectors.
ReadOf(bs, cols, ks) ==
    [idx \in 0..(Len(bs) \div ChunkSize) - 1 |->
        LET chunk == IF idx >= Len(bs) \div ChunkSize THEN <<>>
                     ELSE <<SubSeq(bs, idx * ChunkSize + 1, (idx + 1) * ChunkSize)>>
        IN  [key |-> ks[idx + 1], epoch |-> EpochOf(chunk[1]),
             stamps |-> [s \in 0..Targets - 1 |-> Stamp(chunk[1], s)],
             values |-> [c \in CellColumns |->
                [ts |-> cols[c][idx + 1].ts,
                 value |-> CASE ColumnTypes[c] = "key" -> ks[idx + 1]
                             [] Fits(cols[c], idx) -> cols[c][idx + 1].value
                             [] OTHER -> NoValue]]]]

LEMMA ColumnsKept ==
    ASSUME NEW c \in CellColumns
    PROVE  c \in DOMAIN ColumnTypes /\ ColumnTypes[c] # "key" /\ ColumnNew(ColumnTypes[c]) # <<>>
<1>1. c \in DOMAIN ColumnTypes /\ ColumnTypes[c] \in StoredTypes
  BY DEF CellColumns
<1>2. ColumnTypes[c] # "key"
  BY <1>1 DEF StoredTypes
<1>3. ColumnNew(ColumnTypes[c]) = <<ColumnTypes[c]>>
  BY <1>1 DEF ColumnNew
<1> QED
  BY <1>1, <1>2, <1>3

\* What RowsRead finds is the rows.
LEMMA ReadRight ==
    ASSUME NEW bs, NEW cols, NEW ks, VectorsRight(bs, cols, ks)
    PROVE  ReadOf(bs, cols, ks) = StoredRows(bs, cols, ks)
<1> DEFINE L == Len(ks)
<1>1. L \in Nat /\ bs \in Seq(ByteValues) /\ Len(bs) = L * ChunkSize
      /\ \A c \in CellColumns : cols[c] \in Seq(Cells) /\ Len(cols[c]) = L
  BY DEF VectorsRight
<1> HIDE DEF L
<1>2. Len(bs) \div ChunkSize = L
  BY <1>1, ChunkCountIs
<1>3. ASSUME NEW n \in 0..(L - 1), NEW c \in CellColumns
      PROVE  [ts |-> cols[c][n + 1].ts,
              value |-> CASE ColumnTypes[c] = "key" -> ks[n + 1]
                          [] Fits(cols[c], n) -> cols[c][n + 1].value
                          [] OTHER -> NoValue] = cols[c][n + 1]
  <2>1. ColumnTypes[c] # "key"
    BY ColumnsKept
  <2>2. n + 1 \in 1..Len(cols[c]) /\ n < Len(cols[c])
    BY <1>1
  <2>3. cols[c][n + 1] \in Cells
    BY <1>1, <2>2
  <2>4. cols[c][n + 1] = [ts |-> cols[c][n + 1].ts, value |-> cols[c][n + 1].value]
    BY <2>3 DEF Cells
  <2>5. Fits(cols[c], n)
    BY <2>2 DEF Fits
  <2> QED
    BY <2>1, <2>4, <2>5
<1>4. ASSUME NEW n \in 0..(L - 1)
      PROVE  ReadOf(bs, cols, ks)[n] = RowAt(bs, cols, ks, n)
  <2>1. ~(n >= L) /\ n \in 0..(Len(bs) \div ChunkSize) - 1
    BY <1>1, <1>2
  <2>2. [c \in CellColumns |->
            [ts |-> cols[c][n + 1].ts,
             value |-> CASE ColumnTypes[c] = "key" -> ks[n + 1]
                         [] Fits(cols[c], n) -> cols[c][n + 1].value
                         [] OTHER -> NoValue]] = [c \in CellColumns |-> cols[c][n + 1]]
    BY <1>3
  <2> QED
    BY <1>2, <2>1, <2>2 DEF ReadOf, RowAt, ChunkAt
<1>5. DOMAIN ReadOf(bs, cols, ks) = 0..(L - 1)
  BY <1>2 DEF ReadOf
<1>6. StoredRows(bs, cols, ks) = [n \in 0..(L - 1) |-> RowAt(bs, cols, ks, n)]
  BY DEF StoredRows, L
<1>7. ReadOf(bs, cols, ks) = [n \in DOMAIN ReadOf(bs, cols, ks) |-> ReadOf(bs, cols, ks)[n]]
  BY DEF ReadOf
<1> QED
  BY <1>4, <1>5, <1>6, <1>7

LEMMA RowsReadRight ==
    ASSUME StorageInvariant
    PROVE  RowsRead = StoredRows(bytes, columns, keys)
<1>1. RowsRead = ReadOf(bytes, columns, keys)
  BY DEF RowsRead, ReadOf, ChunkCount, GetChunk, ColumnGet
<1> QED
  BY <1>1, ReadRight DEF StorageInvariant

LEMMA RowsReadRightNext ==
    ASSUME StorageInvariant'
    PROVE  RowsRead' = StoredRows(bytes', columns', keys')
<1>1. RowsRead' = ReadOf(bytes', columns', keys')
  BY DEF RowsRead, ReadOf, ChunkCount, GetChunk, ColumnGet
<1> QED
  BY <1>1, ReadRight DEF StorageInvariant

-----------------------------------------------------------------------------
(* Steps                                                                    *)

LEMMA ReservedIs ==
    /\ RESERVED \in Nat /\ RESERVED = Power(INDEX_SIZE) - 1
    /\ Power(INDEX_SIZE) \in Nat \ {0}
<1>1. Power(INDEX_SIZE) \in Nat /\ Power(INDEX_SIZE) >= 1
  BY PowerTypes, ByteSizes
<1> QED
  BY <1>1 DEF RESERVED

\* There are no more rows than ids.
LEMMA NewIdsAre ==
    ASSUME NEW L \in Nat, L = Len(keys), NewIds # {}
    PROVE  Cardinality(NewIds) \in Nat \ {0} /\ L + Cardinality(NewIds) <= RESERVED
<1> DEFINE last == IF L + IncrementSize <= RESERVED THEN L + IncrementSize - 1 ELSE RESERVED - 1
<1>1. RESERVED \in Nat
  BY ReservedIs
<1>2. NewIds = {idx \in L..(L + IncrementSize - 1) : ~(idx > RESERVED - 1)}
  BY DEF NewIds, PrimaryIdTryNew
<1>3. last \in Int /\ last <= RESERVED - 1 /\ NewIds = L..last
  BY <1>1, <1>2, ByteSizes
<1> HIDE DEF last
<1>4. Cardinality(NewIds) = last - L + 1 /\ L <= last
  <2>1. L <= last
    BY <1>3
  <2> QED
    BY <1>3, <2>1, FS_Interval
<1> QED
  BY <1>1, <1>3, <1>4

\* Rows that are reserved are new and leave the others alone (reserve_primary_ids).
LEMMA ReserveRowsStep ==
    ASSUME StorageInvariant, ReserveRows
    PROVE  StorageInvariant' /\ Store!Grow
<1> DEFINE L == Len(keys)
           m == Cardinality(NewIds)
<1>1. /\ L \in Nat /\ keys \in Seq({NoValue, "key"})
      /\ bytes \in Seq(ByteValues) /\ Len(bytes) = L * ChunkSize
      /\ DOMAIN columns = {c \in DOMAIN ColumnTypes : ColumnNew(ColumnTypes[c]) # <<>>}
      /\ \A c \in CellColumns : columns[c] \in Seq(Cells) /\ Len(columns[c]) = L
  BY DEF StorageInvariant, VectorsRight
<1>2. m \in Nat \ {0} /\ L + m <= RESERVED /\ L + m \in Nat
  <2>1. NewIds # {}
    BY DEF ReserveRows
  <2> QED
    BY <1>1, <2>1, NewIdsAre
<1>3. /\ bytes' = ResizeChunks(L + m)
      /\ columns' = [c \in DOMAIN columns |-> ColumnResize(c, L + m)]
      /\ keys' = keys \o [i \in 1..m |-> NoValue]
  BY DEF ReserveRows
<1> HIDE DEF L, m
<1>4. /\ bytes' \in Seq(ByteValues) /\ Len(bytes') = (L + m) * ChunkSize
      /\ ChunksAre(bytes', bytes, L, m, FillDefault)
  <2>1. ChunkCount = L
    BY <1>1, ChunkCountIs DEF ChunkCount
  <2>2. ~(L + m <= L) /\ (L + m) - L = m
    BY <1>1, <1>2
  <2>3. bytes' = bytes \o Copies(FillDefault, m * ChunkSize)
    BY <1>3, <2>1, <2>2 DEF ResizeChunks, Copies
  <2>4. FillDefault \in Chunks /\ m \in Nat
    BY <1>2, FillDefaultIs
  <2>5. L \in Nat /\ bytes \in Seq(ByteValues) /\ Len(bytes) = L * ChunkSize
    BY <1>1
  <2>6. LongerBy(bytes', bytes, L, m, FillDefault)
    BY <2>3, <2>4, <2>5, MoreChunks
  <2> QED
    BY <2>6 DEF LongerBy
<1>5. /\ keys' \in Seq({NoValue, "key"}) /\ Len(keys') = L + m
      /\ \A n \in 0..(L + m - 1) : keys'[n + 1] = IF n < L THEN keys[n + 1] ELSE NoValue
  <2> DEFINE more == [i \in 1..m |-> NoValue]
  <2>1. more \in Seq({NoValue, "key"}) /\ Len(more) = m /\ \A i \in 1..m : more[i] = NoValue
    BY <1>2
  <2> HIDE DEF more
  <2>2. keys' = keys \o more
    BY <1>3 DEF more
  <2>3. /\ keys' \in Seq({NoValue, "key"}) /\ Len(keys') = L + m
        /\ \A i \in 1..(L + m) : keys'[i] = IF i <= L THEN keys[i] ELSE more[i - L]
    <3>1. /\ keys \o more \in Seq({NoValue, "key"}) /\ Len(keys \o more) = Len(keys) + Len(more)
          /\ \A i \in 1..(Len(keys) + Len(more)) :
                (keys \o more)[i] = IF i <= Len(keys) THEN keys[i] ELSE more[i - Len(keys)]
      BY <1>1, <2>1, JoinIs
    <3> QED
      BY <2>1, <2>2, <3>1 DEF L
  <2>4. ASSUME NEW n \in 0..(L + m - 1) PROVE keys'[n + 1] = IF n < L THEN keys[n + 1] ELSE NoValue
    <3>1. n + 1 \in 1..(L + m) /\ (n + 1 <= L <=> n < L) /\ (~(n < L) => (n + 1) - L \in 1..m)
      BY <1>1, <1>2
    <3> QED
      BY <2>1, <2>3, <3>1
  <2> QED
    BY <2>3, <2>4
<1>6. ASSUME NEW c \in CellColumns
      PROVE  /\ columns'[c] \in Seq(Cells) /\ Len(columns'[c]) = L + m
             /\ \A n \in 0..(L + m - 1) : columns'[c][n + 1] =
                    IF n < L THEN columns[c][n + 1] ELSE [ts |-> 0, value |-> NoValue]
  <2> DEFINE new == [ts |-> 0, value |-> NoValue]
             cells == columns[c]
             to == [i \in 1..(L + m) |-> IF Fits(cells, i - 1) THEN cells[i] ELSE new]
  <2>1. c \in DOMAIN columns /\ ColumnTypes[c] # "key"
    BY <1>1, ColumnsKept
  <2>2. columns'[c] = to
    BY <1>3, <2>1 DEF ColumnResize
  <2>3. new \in Cells
    <3>1. DELETED_FLAG \in Nat /\ DELETED_FLAG >= 1
      BY PowerTypes, ByteSizes DEF DELETED_FLAG
    <3>2. 0 \in StampTimes
      BY <3>1 DEF StampTimes
    <3> QED
      BY <3>2 DEF Cells
  <2>4. cells \in Seq(Cells) /\ Len(cells) = L
    BY <1>1
  <2> HIDE DEF new, cells
  <2>5. \A i \in 1..(L + m) : /\ Fits(cells, i - 1) <=> i <= L
                              /\ i <= L => cells[i] \in Cells
    BY <1>1, <1>2, <2>4 DEF Fits
  <2>6. to \in [1..(L + m) -> Cells]
    BY <2>3, <2>5
  <2>7. to \in Seq(Cells) /\ Len(to) = L + m
    <3> HIDE DEF to
    <3> QED
      BY <1>2, <2>6
  <2>8. ASSUME NEW n \in 0..(L + m - 1) PROVE to[n + 1] = IF n < L THEN cells[n + 1] ELSE new
    <3>1. n + 1 \in 1..(L + m) /\ (n + 1 <= L <=> n < L)
      BY <1>1, <1>2
    <3> QED
      BY <2>5, <3>1
  <2> HIDE DEF to
  <2> QED
    BY <2>2, <2>7, <2>8 DEF cells, new
<1>7. DOMAIN columns' = DOMAIN columns
  BY <1>3
<1>8. StorageInvariant'
  BY <1>1, <1>2, <1>4, <1>5, <1>6, <1>7 DEF StorageInvariant, VectorsRight
<1> DEFINE r == StoredRows(bytes, columns, keys)
           to == StoredRows(bytes', columns', keys')
           newRow == [key |-> NoValue, epoch |-> 0,
                      stamps |-> [s \in 0..Targets - 1 |-> [ts |-> 0, valid |-> FALSE]],
                      values |-> [c \in CellColumns |-> [ts |-> 0, value |-> NoValue]]]
<1>9. /\ DOMAIN r = 0..(L - 1) /\ DOMAIN to = 0..(L + m - 1)
      /\ \A n \in 0..(L - 1) : r[n] = RowAt(bytes, columns, keys, n)
      /\ to = [n \in DOMAIN to |-> to[n]]
      /\ \A n \in 0..(L + m - 1) : to[n] = RowAt(bytes', columns', keys', n)
  <2>1. r = [n \in 0..(L - 1) |-> RowAt(bytes, columns, keys, n)]
    BY DEF StoredRows, L
  <2>2. to = [n \in 0..(L + m - 1) |-> RowAt(bytes', columns', keys', n)]
    <3>1. Len(keys') = L + m
      BY <1>5
    <3>2. to = [n \in 0..(Len(keys') - 1) |-> RowAt(bytes', columns', keys', n)]
      BY DEF StoredRows
    <3> QED
      BY <1>1, <1>2, <3>1, <3>2
  <2> HIDE DEF r, to
  <2> QED
    BY <2>1, <2>2
<1> HIDE DEF r, to
<1>10. ASSUME NEW n \in 0..(L + m - 1)
       PROVE  RowAt(bytes', columns', keys', n) = IF n \in 0..(L - 1) THEN r[n] ELSE newRow
  <2>1. ChunkAt(bytes', n) = IF n < L THEN ChunkAt(bytes, n) ELSE FillDefault
    BY <1>4 DEF ChunksAre
  <2>2. CASE n < L
    <3>1. n \in 0..(L - 1)
      BY <1>1, <2>2
    <3>2. ChunkAt(bytes', n) = ChunkAt(bytes, n) /\ keys'[n + 1] = keys[n + 1]
          /\ \A c \in CellColumns : columns'[c][n + 1] = columns[c][n + 1]
      BY <1>5, <1>6, <2>1, <2>2
    <3>3. RowAt(bytes', columns', keys', n) = RowAt(bytes, columns, keys, n)
      BY <3>2 DEF RowAt
    <3> QED
      BY <1>9, <3>1, <3>3
  <2>3. CASE ~(n < L)
    <3>1. n \notin 0..(L - 1)
      BY <1>1, <2>3
    <3>2. ChunkAt(bytes', n) = FillDefault /\ keys'[n + 1] = NoValue
          /\ \A c \in CellColumns : columns'[c][n + 1] = [ts |-> 0, value |-> NoValue]
      BY <1>5, <1>6, <2>1, <2>3
    <3>3. /\ EpochOf(FillDefault) = 0
          /\ \A s \in 0..Targets - 1 : Stamp(FillDefault, s) = [ts |-> 0, valid |-> FALSE]
      BY FillDefaultIs DEF Slots
    <3>4. RowAt(bytes', columns', keys', n) = newRow
      BY <3>2, <3>3 DEF RowAt
    <3> QED
      BY <3>1, <3>4
  <2> QED
    BY <2>2, <2>3
<1>11. /\ DOMAIN r \subseteq DOMAIN to /\ DOMAIN to \in {0..n - 1 : n \in 1..RESERVED}
       /\ to = [n \in DOMAIN to |-> IF n \in DOMAIN r THEN r[n] ELSE newRow]
  <2>1. 0..(L - 1) \subseteq 0..(L + m - 1)
    BY <1>1, <1>2
  <2>3. L + m \in 1..RESERVED
    BY <1>1, <1>2, ReservedIs
  <2>2. 0..(L + m - 1) \in {0..n - 1 : n \in 1..RESERVED}
    <3> DEFINE size == L + m
    <3>1. size \in 1..RESERVED /\ 0..(L + m - 1) = 0..size - 1
      BY <1>1, <1>2, <2>3
    <3> HIDE DEF size
    <3> QED
      BY <3>1
  <2> HIDE DEF newRow
  <2>4. DOMAIN r \subseteq DOMAIN to /\ DOMAIN to \in {0..n - 1 : n \in 1..RESERVED}
    BY <1>9, <2>1, <2>2, Zenon
  <2>5. to = [n \in DOMAIN to |-> IF n \in DOMAIN r THEN r[n] ELSE newRow]
    <3>1. \A n \in DOMAIN to : to[n] = IF n \in DOMAIN r THEN r[n] ELSE newRow
      BY <1>9, <1>10
    <3>2. to = [n \in DOMAIN to |-> to[n]]
      BY <1>9
    <3> HIDE DEF r, to
    <3> QED
      BY <3>1, <3>2
  <2> QED
    BY <2>4, <2>5
<1>12. RowsRead = r /\ RowsRead' = to
  BY <1>8, RowsReadRight, RowsReadRightNext DEF r, to
<1>13. Store!NewRow = newRow
  BY DEF Store!NewRow, NoValue
<1>14. Store!Grow
  <2> HIDE DEF newRow
  <2> QED
    BY <1>11, <1>12, <1>13 DEF Store!Grow
<1> QED
  BY <1>8, <1>14

\* A step that changes one row at most.
LEMMA OneRow ==
    ASSUME NEW bs, NEW cols, NEW ks, NEW bs1, NEW cols1, NEW ks1,
           Len(ks) \in Nat, Len(ks1) = Len(ks), NEW i \in 0..(Len(ks) - 1),
           \A n \in 0..(Len(ks) - 1) : n # i => RowAt(bs1, cols1, ks1, n) = RowAt(bs, cols, ks, n)
    PROVE  /\ i \in DOMAIN StoredRows(bs, cols, ks)
           /\ StoredRows(bs, cols, ks)[i] = RowAt(bs, cols, ks, i)
           /\ StoredRows(bs1, cols1, ks1)[i] = RowAt(bs1, cols1, ks1, i)
           /\ StoredRows(bs1, cols1, ks1) =
                 [StoredRows(bs, cols, ks) EXCEPT ![i] = RowAt(bs1, cols1, ks1, i)]
<1> DEFINE D == 0..(Len(ks) - 1)
           r == StoredRows(bs, cols, ks)
           to == StoredRows(bs1, cols1, ks1)
<1>1. r = [n \in D |-> RowAt(bs, cols, ks, n)]
  BY DEF StoredRows
<1>2. to = [n \in D |-> RowAt(bs1, cols1, ks1, n)]
  BY DEF StoredRows
<1>3. i \in D /\ \A n \in D : n # i => RowAt(bs1, cols1, ks1, n) = RowAt(bs, cols, ks, n)
  OBVIOUS
<1> HIDE DEF D, r, to
<1>4. to = [r EXCEPT ![i] = RowAt(bs1, cols1, ks1, i)]
  BY <1>1, <1>2, <1>3
<1> QED
  BY <1>1, <1>2, <1>3, <1>4 DEF r, to

\* A key names one row that had none (add_primary_key).
LEMMA AddKeyStep ==
    ASSUME StorageInvariant, AddKey
    PROVE  StorageInvariant' /\ \E i \in DOMAIN RowsRead : Store!Name(i)
<1> DEFINE L == Len(keys)
           I == {k \in 1..Len(keys) : keys[k] = NoValue}
           row == CHOOSE x \in I : \A y \in I : x =< y
<1>1. L \in Nat /\ keys \in Seq({NoValue, "key"}) /\ DOMAIN keys = 1..L
  BY DEF StorageInvariant, VectorsRight
<1>2. I # {} /\ I \subseteq Nat
  <2>1. PICK k \in DOMAIN keys : keys[k] = NoValue
    BY DEF AddKey, Range
  <2> QED
    BY <1>1, <2>1
<1>3. row \in I
  <2> HIDE DEF I
  <2>1. \E x \in I : \A y \in I : x =< y
    BY <1>2, SmallestNat
  <2> QED
    BY <2>1
<1>4. keys' = [keys EXCEPT ![row] = "key"] /\ UNCHANGED <<bytes, columns>>
  <2>1. SelectInSeq(keys, LAMBDA k : k = NoValue) = row
    BY <1>2 DEF SelectInSeq, Min
  <2> QED
    BY <2>1 DEF AddKey
<1>5. row \in 1..L /\ keys[row] = NoValue
  BY <1>3
<1> HIDE DEF row, I, L
<1>6. /\ keys' \in Seq({NoValue, "key"}) /\ Len(keys') = L /\ keys'[row] = "key"
      /\ \A k \in 1..L : k # row => keys'[k] = keys[k]
  BY <1>1, <1>4, <1>5
<1>7. StorageInvariant'
  BY <1>4, <1>6 DEF StorageInvariant, VectorsRight, L
<1> DEFINE i == row - 1
           r == StoredRows(bytes, columns, keys)
           to == StoredRows(bytes', columns', keys')
<1>8. i \in 0..(L - 1) /\ i + 1 = row
  BY <1>1, <1>5
<1> HIDE DEF i
<1>9. ASSUME NEW n \in 0..(L - 1)
      PROVE  RowAt(bytes', columns', keys', n) =
                IF n = i THEN [RowAt(bytes, columns, keys, n) EXCEPT !.key = "key"]
                ELSE RowAt(bytes, columns, keys, n)
  <2>1. n + 1 \in 1..L /\ (n + 1 = row <=> n = i)
    BY <1>1, <1>5, <1>8
  <2>2. keys'[n + 1] = IF n = i THEN "key" ELSE keys[n + 1]
    BY <1>6, <2>1
  <2> QED
    BY <1>4, <2>2 DEF RowAt
<1>10. /\ i \in DOMAIN r /\ r[i] = RowAt(bytes, columns, keys, i)
       /\ to[i] = RowAt(bytes', columns', keys', i)
       /\ to = [r EXCEPT ![i] = RowAt(bytes', columns', keys', i)]
  <2>1. PICK bs1, cols1, ks1 : bs1 = bytes' /\ cols1 = columns' /\ ks1 = keys'
    OBVIOUS
  <2>2. \A n \in 0..(Len(keys) - 1) :
            n # i => RowAt(bs1, cols1, ks1, n) = RowAt(bytes, columns, keys, n)
    BY <1>9, <2>1 DEF L
  <2>3. Len(keys) \in Nat /\ Len(ks1) = Len(keys) /\ i \in 0..(Len(keys) - 1)
    BY <1>1, <1>6, <1>8, <2>1 DEF L
  <2> HIDE DEF r, to
  <2> QED
    BY <2>1, <2>2, <2>3, OneRow DEF r, to
<1>11. /\ r[i].key = "none" /\ to[i].key = "key"
       /\ to = [r EXCEPT ![i].key = to[i].key]
  <2>1. r[i].key = "none"
    BY <1>5, <1>8, <1>10 DEF RowAt, NoValue
  <2>2. to[i] = [r[i] EXCEPT !.key = "key"]
    BY <1>8, <1>9, <1>10
  <2>3. to[i].key = "key"
    BY <1>6, <1>8, <1>10 DEF RowAt
  <2> HIDE DEF r, to
  <2> QED
    BY <1>10, <2>1, <2>2, <2>3
<1>12. RowsRead = r /\ RowsRead' = to
  BY <1>7, RowsReadRight, RowsReadRightNext
<1> HIDE DEF r, to
<1>13. Store!Name(i)
  BY <1>11, <1>12 DEF Store!Name
<1> QED
  BY <1>7, <1>10, <1>12, <1>13

\* The id of a row gives back its position and its epoch.
LEMMA IdsRight ==
    ASSUME NEW n \in Nat, n <= RESERVED - 1, NEW e \in Nat
    PROVE  /\ IdIdx(IdNewEpoch(PrimaryIdTryNew(n, 0)[1], e)) = n
           /\ IdEpoch(IdNewEpoch(PrimaryIdTryNew(n, 0)[1], e)) = e
<1> DEFINE P == Power(INDEX_SIZE)
<1>1. P \in Nat \ {0} /\ n \in 0..(P - 1) /\ ~(n > RESERVED - 1)
  BY ReservedIs
<1>2. PrimaryIdTryNew(n, 0)[1] = 0 * P + n
  BY <1>1 DEF PrimaryIdTryNew
<1> HIDE DEF P
<1>3. IdIdx(PrimaryIdTryNew(n, 0)[1]) = n
  BY <1>1, <1>2, Digits DEF IdIdx, P
<1>4. IdNewEpoch(PrimaryIdTryNew(n, 0)[1], e) = n + e * P
  BY <1>3 DEF IdNewEpoch, P
<1>5. n + e * P = e * P + n
  BY <1>1
<1>6. (e * P + n) \div P = e /\ (e * P + n) % P = n
  BY <1>1, Digits
<1> QED
  BY <1>4, <1>5, <1>6 DEF IdIdx, IdEpoch, P

\* A row with another epoch and other timestamps.
Restamped(row, epoch, stamps) == [[row EXCEPT !.epoch = epoch] EXCEPT !.stamps = stamps]

LEMMA TwoFields ==
    ASSUME NEW key, NEW epoch, NEW stamps, NEW values, NEW q, NEW s, NEW a,
           a = [key |-> key, epoch |-> epoch, stamps |-> stamps, values |-> values]
    PROVE  Restamped(a, q, s) = [key |-> key, epoch |-> q, stamps |-> s, values |-> values]
<1>1. PICK b : b = [a EXCEPT !.epoch = q]
  OBVIOUS
<1>2. b = [key |-> key, epoch |-> q, stamps |-> stamps, values |-> values]
  BY <1>1
<1>3. [b EXCEPT !.stamps = s] = [key |-> key, epoch |-> q, stamps |-> s, values |-> values]
  BY <1>2
<1> QED
  BY <1>1, <1>3, Zenon DEF Restamped

\* A row has its next epoch and the timestamps it was given (update_index).
LEMMA RestampRowStep ==
    ASSUME StorageInvariant, NEW row \in DOMAIN keys,
           NEW stamps \in [0..Targets - 1 -> [ts : StampTimes, valid : BOOLEAN]],
           RestampRow(row - 1, stamps)
    PROVE  StorageInvariant' /\ \E i \in DOMAIN RowsRead : Store!Restamp(i)
<1> DEFINE L == Len(keys)
           i == row - 1
           old == ChunkAt(bytes, i)
           e == NextEpoch(EpochOf(old))
           new == SetTimestamps(SetEpoch(old, e), stamps)
<1>1. /\ L \in Nat /\ L <= RESERVED /\ keys \in Seq({NoValue, "key"}) /\ DOMAIN keys = 1..L
      /\ bytes \in Seq(ByteValues) /\ Len(bytes) = L * ChunkSize
  BY DEF StorageInvariant, VectorsRight
<1> HIDE DEF L
<1>2. i \in 0..(L - 1) /\ i \in Nat /\ i <= RESERVED - 1 /\ i < L
  BY <1>1, ReservedIs
<1> HIDE DEF i
<1>3. old \in Chunks
  BY <1>1, <1>2, ChunkAtIs
<1>4. EpochOf(old) \in 0..MaxEpoch /\ MaxEpoch \in Nat
  <2> HIDE DEF old
  <2> DEFINE part == SubSeq(old, 1, EPOCH_SIZE)
  <2>1. old \in Seq(ByteValues) /\ Len(old) = ChunkSize /\ 0 + EPOCH_SIZE <= Len(old)
    BY <1>3, ChunkSizes, ByteSizes DEF Chunks
  <2>2. part = Part(old, 0, EPOCH_SIZE)
    BY ByteSizes DEF Part
  <2>3. part \in Seq(ByteValues) /\ Len(part) = EPOCH_SIZE
    <3>1. 0 \in Nat /\ EPOCH_SIZE \in Nat
      BY ByteSizes
    <3> QED
      BY <2>1, <2>2, <3>1, PartIs
  <2> HIDE DEF part
  <2>4. FromNeBytes(part) \in 0..(Power(EPOCH_SIZE) - 1)
    BY <2>3, BytesBounded
  <2>5. Power(EPOCH_SIZE) \in Nat /\ Power(EPOCH_SIZE) >= 1
    BY ByteSizes, PowerTypes
  <2> QED
    BY <2>4, <2>5 DEF EpochOf, MaxEpoch, part
<1> HIDE DEF old
<1>5. e \in 0..MaxEpoch /\ e \in Nat /\ e = (EpochOf(old) + 1) % (MaxEpoch + 1)
  <2>1. CASE EpochOf(old) = MaxEpoch
    BY <1>4, <2>1 DEF NextEpoch
  <2>2. CASE EpochOf(old) # MaxEpoch
    BY <1>4, <2>2 DEF NextEpoch
  <2> QED
    BY <2>1, <2>2
<1> HIDE DEF e
<1>6. /\ new \in Chunks /\ EpochOf(new) = e
      /\ \A s \in Slots : Stamp(new, s) = stamps[s]
  <2>1. SetEpoch(old, e) \in Chunks /\ EpochOf(SetEpoch(old, e)) = e
    BY <1>3, <1>5, SetEpochIs
  <2>2. stamps \in [Slots -> Stamps]
    BY DEF Slots, Stamps
  <2> QED
    BY <2>1, <2>2, SetTimestampsIs
<1>7. bytes' = Overwrite(bytes, i * ChunkSize, new) /\ UNCHANGED <<columns, keys>>
  <2>1. ChunkCount = L /\ ~(i >= L)
    BY <1>1, <1>2, ChunkCountIs DEF ChunkCount
  <2>2. GetChunk(i)[1] = old
    BY <2>1 DEF GetChunk, ChunkAt, old
  <2> DEFINE id == IdNewEpoch(PrimaryIdTryNew(i, 0)[1], e)
  <2>3. IdIdx(id) = i /\ IdEpoch(id) = e
    BY <1>2, <1>5, IdsRight
  <2>4. bytes' = PutChunk(IdIdx(id), SetTimestamps(SetEpoch(old, IdEpoch(id)), stamps))
        /\ UNCHANGED <<columns, keys>>
    BY <2>2 DEF RestampRow, e, i
  <2> HIDE DEF id
  <2> QED
    BY <2>3, <2>4 DEF PutChunk
<1> HIDE DEF new
<1>8. /\ bytes' \in Seq(ByteValues) /\ Len(bytes') = L * ChunkSize
      /\ \A k \in 0..(L - 1) : ChunkAt(bytes', k) = IF k = i THEN new ELSE ChunkAt(bytes, k)
  <2>1. PICK bs1 : bs1 = Overwrite(bytes, i * ChunkSize, new)
    OBVIOUS
  <2>2. /\ bs1 \in Seq(ByteValues) /\ Len(bs1) = L * ChunkSize
        /\ \A k \in 0..(L - 1) : ChunkAt(bs1, k) = IF k = i THEN new ELSE ChunkAt(bytes, k)
    BY <1>1, <1>2, <1>6, <2>1, PutChunkIs
  <2>3. bytes' = bs1
    BY <1>7, <2>1
  <2> QED
    BY <2>2, <2>3
<1>9. StorageInvariant'
  BY <1>7, <1>8 DEF StorageInvariant, VectorsRight, L
<1> DEFINE r == StoredRows(bytes, columns, keys)
           to == StoredRows(bytes', columns', keys')
<1>10. /\ i \in DOMAIN r /\ r[i] = RowAt(bytes, columns, keys, i)
       /\ to[i] = RowAt(bytes', columns', keys', i)
       /\ to = [r EXCEPT ![i] = RowAt(bytes', columns', keys', i)]
  <2>1. PICK bs1, cols1, ks1 : bs1 = bytes' /\ cols1 = columns' /\ ks1 = keys'
    OBVIOUS
  <2>2. \A n \in 0..(Len(keys) - 1) :
            n # i => RowAt(bs1, cols1, ks1, n) = RowAt(bytes, columns, keys, n)
    BY <1>7, <1>8, <2>1 DEF L, RowAt
  <2>3. Len(keys) \in Nat /\ Len(ks1) = Len(keys) /\ i \in 0..(Len(keys) - 1)
    BY <1>1, <1>2, <1>7, <2>1 DEF L
  <2> HIDE DEF r, to
  <2> QED
    BY <2>1, <2>2, <2>3, OneRow DEF r, to
<1>11. /\ to[i].stamps = stamps
       /\ to[i] = [r[i] EXCEPT !.epoch = (@ + 1) % (MaxEpoch + 1), !.stamps = stamps]
  <2>1. ChunkAt(bytes', i) = new
    BY <1>2, <1>8
  <2>2. EpochOf(ChunkAt(bytes', i)) = (EpochOf(ChunkAt(bytes, i)) + 1) % (MaxEpoch + 1)
    BY <1>5, <1>6, <2>1 DEF old
  <2>3. [s \in 0..Targets - 1 |-> Stamp(ChunkAt(bytes', i), s)] = stamps
    BY <1>6, <2>1 DEF Slots
  <2> DEFINE stamps0 == [s \in 0..Targets - 1 |-> Stamp(ChunkAt(bytes, i), s)]
             values == [c \in CellColumns |-> columns[c][i + 1]]
             e0 == EpochOf(ChunkAt(bytes, i))
  <2>4. RowAt(bytes, columns, keys, i) =
            [key |-> keys[i + 1], epoch |-> e0, stamps |-> stamps0, values |-> values]
    BY DEF RowAt
  <2>5. RowAt(bytes', columns', keys', i) =
            [key |-> keys[i + 1], epoch |-> (e0 + 1) % (MaxEpoch + 1), stamps |-> stamps,
             values |-> values]
    BY <1>7, <2>2, <2>3 DEF RowAt
  <2> HIDE DEF r, to, stamps0, values, e0
  <2>6. PICK q : q = (e0 + 1) % (MaxEpoch + 1)
    OBVIOUS
  <2>7. r[i] = [key |-> keys[i + 1], epoch |-> e0, stamps |-> stamps0, values |-> values]
    BY <1>10, <2>4
  <2>8. to[i] = [key |-> keys[i + 1], epoch |-> q, stamps |-> stamps, values |-> values]
    BY <1>10, <2>5, <2>6, Zenon
  <2>9. to[i] = Restamped(r[i], q, stamps)
    BY <2>7, <2>8, TwoFields
  <2>10. r[i].epoch = e0 /\ to[i].stamps = stamps
    BY <2>7, <2>8
  <2> QED
    BY <2>6, <2>9, <2>10, Zenon DEF Restamped
<1>12. /\ to[i].stamps \in [0..Targets - 1 -> [ts : StampTimes, valid : BOOLEAN]]
       /\ to = [r EXCEPT ![i].epoch = (@ + 1) % (MaxEpoch + 1), ![i].stamps = to[i].stamps]
  <2>1. to = [r EXCEPT ![i] = [r[i] EXCEPT !.epoch = (@ + 1) % (MaxEpoch + 1), !.stamps = stamps]]
    BY <1>10, <1>11
  <2>2. r \in [DOMAIN r -> {r[n] : n \in DOMAIN r}]
    BY DEF StoredRows
  <2> HIDE DEF r, to
  <2> QED
    BY <1>10, <1>11, <2>1, <2>2
<1>13. RowsRead = r /\ RowsRead' = to
  BY <1>9, RowsReadRight, RowsReadRightNext
<1> HIDE DEF r, to
<1>14. Store!Restamp(i)
  BY <1>12, <1>13 DEF Store!Restamp
<1> QED
  BY <1>9, <1>10, <1>13, <1>14

\* A cell is as it was, or newer.
CellWritten(cell, new) == new = cell \/ (new.ts > cell.ts /\ new \in Cells)

LEMMA ColumnUpdated ==
    ASSUME NEW cells \in Seq(Cells), NEW idx \in 0..(Len(cells) - 1), NEW new \in Cells, NEW to,
           ColumnUpdate(cells, idx, new) # <<>>, to = ColumnUpdate(cells, idx, new)[1]
    PROVE  /\ to \in Seq(Cells) /\ Len(to) = Len(cells)
           /\ \A n \in 0..(Len(cells) - 1) :
                 IF n = idx THEN CellWritten(cells[n + 1], to[n + 1]) ELSE to[n + 1] = cells[n + 1]
<1> DEFINE w == IF new.ts > cells[idx + 1].ts THEN new ELSE cells[idx + 1]
<1>1. /\ Len(cells) \in Nat /\ DOMAIN cells = 1..Len(cells) /\ idx + 1 \in 1..Len(cells)
      /\ idx < Len(cells) /\ cells[idx + 1] \in Cells
  OBVIOUS
<1>2. to = [cells EXCEPT ![idx + 1] = w]
  BY <1>1 DEF ColumnUpdate, Fits
<1>3. w \in Cells /\ CellWritten(cells[idx + 1], w)
  BY <1>1 DEF CellWritten
<1> HIDE DEF w
<1>4. to \in Seq(Cells) /\ Len(to) = Len(cells)
  BY <1>1, <1>2, <1>3
<1>5. ASSUME NEW n \in 0..(Len(cells) - 1)
      PROVE  IF n = idx THEN CellWritten(cells[n + 1], to[n + 1]) ELSE to[n + 1] = cells[n + 1]
  <2>1. n + 1 \in 1..Len(cells) /\ (n + 1 = idx + 1 <=> n = idx)
    BY <1>1
  <2>2. to[n + 1] = IF n = idx THEN w ELSE cells[n + 1]
    BY <1>1, <1>2, <2>1
  <2> QED
    BY <1>3, <2>2
<1> QED
  BY <1>4, <1>5

\* The columns that took their values have newer ones (update_columns).
LEMMA WriteRowStep ==
    ASSUME StorageInvariant, NEW row \in DOMAIN keys, NEW names \in Filtering,
           NEW values \in [DOMAIN names -> Cells], WriteRow(row - 1, names, values)
    PROVE  StorageInvariant' /\ \E i \in DOMAIN RowsRead : Store!Write(i)
<1> DEFINE L == Len(keys)
           i == row - 1
           Written(k) == ColumnWrite(names[k], i, values[k])
           done == {k \in DOMAIN names : \A n \in 1..k : Written(n) # <<>>}
<1>1. /\ L \in Nat /\ keys \in Seq({NoValue, "key"}) /\ DOMAIN keys = 1..L
      /\ DOMAIN columns = {c \in DOMAIN ColumnTypes : ColumnNew(ColumnTypes[c]) # <<>>}
      /\ \A c \in CellColumns : columns[c] \in Seq(Cells) /\ Len(columns[c]) = L
  BY DEF StorageInvariant, VectorsRight
<1> HIDE DEF L
<1>2. i \in 0..(L - 1)
  BY <1>1
<1>3. /\ columns' = [c \in DOMAIN columns |->
            IF \E k \in done : names[k] = c
            THEN Written(CHOOSE k \in done : names[k] = c)[1] ELSE columns[c]]
      /\ UNCHANGED <<bytes, keys>>
  BY DEF WriteRow, UpdateColumns, i
<1>4. names \in Seq(DOMAIN ColumnTypes)
  BY StorageAssumption
<1>5. ASSUME NEW k \in done PROVE Written(k) # <<>> /\ values[k] \in Cells
  <2>1. k \in DOMAIN names /\ k \in 1..k
    BY <1>4, <1>5
  <2> QED
    BY <1>5, <2>1
<1> HIDE DEF done, i
<1>6. ASSUME NEW c \in CellColumns
      PROVE  /\ columns'[c] \in Seq(Cells) /\ Len(columns'[c]) = L
             /\ \A n \in 0..(L - 1) :
                   IF n = i THEN CellWritten(columns[c][n + 1], columns'[c][n + 1])
                   ELSE columns'[c][n + 1] = columns[c][n + 1]
  <2>1. c \in DOMAIN columns /\ columns[c] \in Seq(Cells) /\ Len(columns[c]) = L
    BY <1>1, ColumnsKept
  <2>2. CASE \E k \in done : names[k] = c
    <3> DEFINE k == CHOOSE k \in done : names[k] = c
    <3>1. k \in done /\ names[k] = c
      BY <2>2
    <3>2. columns'[c] = Written(k)[1]
      BY <1>3, <2>1, <2>2
    <3> HIDE DEF k
    <3>3. Written(k) # <<>> /\ values[k] \in Cells
      BY <1>5, <3>1
    <3>4. Written(k) = ColumnUpdate(columns[c], i, values[k])
      BY <3>1, <3>3 DEF ColumnWrite, ColumnRemove, ColumnInsert
    <3> HIDE DEF Written
    <3>5. PICK to : to = columns'[c]
      OBVIOUS
    <3>6. PICK cells : cells = columns[c]
      OBVIOUS
    <3>7. /\ to \in Seq(Cells) /\ Len(to) = Len(cells)
          /\ \A n \in 0..(Len(cells) - 1) :
                IF n = i THEN CellWritten(cells[n + 1], to[n + 1]) ELSE to[n + 1] = cells[n + 1]
      <4>1. cells \in Seq(Cells) /\ i \in 0..(Len(cells) - 1) /\ values[k] \in Cells
        BY <1>2, <2>1, <3>3, <3>6
      <4>2. /\ ColumnUpdate(cells, i, values[k]) # <<>>
            /\ to = ColumnUpdate(cells, i, values[k])[1]
        BY <3>2, <3>3, <3>4, <3>5, <3>6
      <4> QED
        BY <4>1, <4>2, ColumnUpdated
    <3> QED
      BY <2>1, <3>5, <3>6, <3>7
  <2>3. CASE ~ \E k \in done : names[k] = c
    <3>1. columns'[c] = columns[c]
      BY <1>3, <2>1, <2>3
    <3> QED
      BY <2>1, <3>1 DEF CellWritten
  <2> QED
    BY <2>2, <2>3
<1>7. StorageInvariant'
  <2>1. DOMAIN columns' = DOMAIN columns
    BY <1>3
  <2>2. \A c \in CellColumns : columns'[c] \in Seq(Cells) /\ Len(columns'[c]) = L
    BY <1>6
  <2>3. bytes' = bytes /\ keys' = keys
    BY <1>3
  <2> QED
    BY <2>1, <2>2, <2>3 DEF StorageInvariant, VectorsRight, L
<1> DEFINE r == StoredRows(bytes, columns, keys)
           to == StoredRows(bytes', columns', keys')
<1>8. bytes' = bytes /\ keys' = keys
  BY <1>3
<1>9. /\ i \in DOMAIN r /\ r[i] = RowAt(bytes, columns, keys, i)
      /\ to[i] = RowAt(bytes', columns', keys', i)
      /\ to = [r EXCEPT ![i] = RowAt(bytes', columns', keys', i)]
  <2>1. PICK bs1, cols1, ks1 : bs1 = bytes' /\ cols1 = columns' /\ ks1 = keys'
    OBVIOUS
  <2>2. \A n \in 0..(Len(keys) - 1) :
            n # i => RowAt(bs1, cols1, ks1, n) = RowAt(bytes, columns, keys, n)
    <3>1. ASSUME NEW n \in 0..(L - 1), n # i
          PROVE  [c \in CellColumns |-> cols1[c][n + 1]] = [c \in CellColumns |-> columns[c][n + 1]]
      BY <1>6, <2>1, <3>1
    <3> QED
      BY <1>8, <2>1, <3>1 DEF RowAt, L
  <2>3. Len(keys) \in Nat /\ Len(ks1) = Len(keys) /\ i \in 0..(Len(keys) - 1)
    BY <1>1, <1>2, <1>8, <2>1 DEF L
  <2> HIDE DEF r, to
  <2> QED
    BY <2>1, <2>2, <2>3, OneRow DEF r, to
<1>10. /\ r[i].values = [c \in CellColumns |-> columns[c][i + 1]]
       /\ to[i].values = [c \in CellColumns |-> columns'[c][i + 1]]
       /\ to[i] = [r[i] EXCEPT !.values = to[i].values]
  <2> DEFINE stamps == [s \in 0..Targets - 1 |-> Stamp(ChunkAt(bytes, i), s)]
             values0 == [c \in CellColumns |-> columns[c][i + 1]]
             values1 == [c \in CellColumns |-> columns'[c][i + 1]]
             e == EpochOf(ChunkAt(bytes, i))
  <2>1. RowAt(bytes, columns, keys, i) =
            [key |-> keys[i + 1], epoch |-> e, stamps |-> stamps, values |-> values0]
    BY DEF RowAt
  <2>2. RowAt(bytes', columns', keys', i) =
            [key |-> keys[i + 1], epoch |-> e, stamps |-> stamps, values |-> values1]
    BY <1>8 DEF RowAt
  <2> HIDE DEF r, to, stamps, values0, values1, e
  <2>3. r[i].values = values0 /\ to[i].values = values1 /\ to[i] = [r[i] EXCEPT !.values = values1]
    BY <1>9, <2>1, <2>2
  <2> QED
    BY <2>3 DEF values0, values1
<1>11. /\ \A c \in CellColumns :
              CellWritten(r[i].values[c], to[i].values[c])
       /\ to[i].values = [c \in CellColumns |-> to[i].values[c]]
       /\ to = [r EXCEPT ![i].values = to[i].values]
  <2>1. to = [r EXCEPT ![i] = [r[i] EXCEPT !.values = to[i].values]]
    BY <1>9, <1>10
  <2>2. ASSUME NEW c \in CellColumns PROVE CellWritten(r[i].values[c], to[i].values[c])
    BY <1>2, <1>6, <1>10
  <2>3. to[i].values = [c \in CellColumns |-> to[i].values[c]]
    BY <1>10
  <2> HIDE DEF r, to
  <2> QED
    BY <2>1, <2>2, <2>3
<1>12. RowsRead = r /\ RowsRead' = to
  BY <1>7, RowsReadRight, RowsReadRightNext
<1> HIDE DEF r, to
<1>13. Store!Write(i)
  <2>1. \A c \in CellColumns :
            to[i].values[c] = r[i].values[c] \/ Store!Newer(r[i].values[c], to[i].values[c])
    BY <1>11 DEF CellWritten, Store!Newer, Cells
  <2>2. to = [r EXCEPT ![i].values = [c \in CellColumns |-> to[i].values[c]]]
    BY <1>11
  <2> QED
    BY <1>12, <2>1, <2>2 DEF Store!Write
<1> QED
  BY <1>7, <1>9, <1>12, <1>13

-----------------------------------------------------------------------------
LEMMA StorageStarts ==
    ASSUME StorageInit
    PROVE  StorageInvariant /\ Store!Init
<1>1. bytes = <<>> /\ keys = <<>>
      /\ columns = [c \in {n \in DOMAIN ColumnTypes : ColumnNew(ColumnTypes[n]) # <<>>} |-> <<>>]
  BY DEF StorageInit
<1>2. \A c \in CellColumns : columns[c] = <<>>
  BY <1>1, ColumnsKept
<1>3. StorageInvariant
  <2>1. 0 <= RESERVED
    BY ReservedIs
  <2>2. 0 = 0 * ChunkSize
    BY ChunkSizes
  <2>3. /\ <<>> \in Seq(ByteValues) /\ <<>> \in Seq({NoValue, "key"})
        /\ <<>> \in Seq(Cells) /\ Len(<<>>) = 0
    OBVIOUS
  <2> QED
    BY <1>1, <1>2, <2>1, <2>2, <2>3 DEF StorageInvariant, VectorsRight
<1>4. RowsRead = << >>
  <2>1. RowsRead = [n \in 0..(Len(keys) - 1) |-> RowAt(bytes, columns, keys, n)]
    BY <1>3, RowsReadRight DEF StoredRows
  <2>2. 0..(Len(keys) - 1) = {}
    BY <1>1
  <2>3. << >> = [n \in {} |-> RowAt(bytes, columns, keys, n)]
    OBVIOUS
  <2> QED
    BY <2>1, <2>2, <2>3
<1> QED
  BY <1>3, <1>4 DEF Store!Init

LEMMA StorageSteps ==
    ASSUME StorageInvariant, [StorageNext]_storageVars
    PROVE  StorageInvariant' /\ [Store!Next]_RowsRead
<1>1. CASE ReserveRows
  BY <1>1, ReserveRowsStep DEF Store!Next
<1>2. CASE AddKey
  BY <1>2, AddKeyStep DEF Store!Next
<1>3. CASE WriteSome
  <2>1. PICK row \in DOMAIN keys :
            \/ \E stamps \in [0..Targets - 1 -> [ts : StampTimes, valid : BOOLEAN]] :
                  RestampRow(row - 1, stamps)
            \/ \E names \in Filtering : \E values \in [DOMAIN names -> Cells] :
                  WriteRow(row - 1, names, values)
    BY <1>3 DEF WriteSome
  <2> QED
    BY <2>1, RestampRowStep, WriteRowStep DEF Store!Next
<1>4. CASE UNCHANGED storageVars
  <2>1. bytes' = bytes /\ columns' = columns /\ keys' = keys
    BY <1>4 DEF storageVars
  <2>2. StorageInvariant'
    BY <2>1 DEF StorageInvariant
  <2>3. RowsRead' = RowsRead
    BY <2>1, <2>2, RowsReadRight, RowsReadRightNext
  <2> QED
    BY <2>2, <2>3
<1> QED
  BY <1>1, <1>2, <1>3, <1>4 DEF StorageNext

\* For every size of a byte, an epoch, a timestamp and an id, every number of
\* timestamps in a chunk, every set of columns and every sequence of writes: what
\* is read back from the bytes and vectors of a table is a store of rows.  A step
\* changes one row, or adds new ones; a row has the timestamps it was given, under
\* its next epoch, and each column its newest value (VecChunks, ChunkTimestamps,
\* ColumnVec, PrimaryId, update_index, update_columns).
THEOREM StorageImplementsRowStore ==
    StorageInit /\ [][StorageNext]_storageVars => ImplementsRowStore
<1>1. StorageInit => StorageInvariant /\ Store!Init
  BY StorageStarts
<1>2. StorageInvariant /\ [StorageNext]_storageVars => StorageInvariant' /\ [Store!Next]_RowsRead
  BY StorageSteps
<1> QED
  BY <1>1, <1>2, PTL DEF ImplementsRowStore, Store!Spec
=============================================================================
