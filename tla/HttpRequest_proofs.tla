----------------------------- MODULE HttpRequest_proofs -----------------------------
(***************************************************************************)
(* That the server stays in step with a client whose requests it reads     *)
(* whole and answers each of them, for any requests and for bytes that     *)
(* break off anywhere; that ranges select the bytes they name, and that no *)
(* path that is served leads out of its directory, for bodies and paths of *)
(* any length.                                                             *)
(*                                                                         *)
(* The invariant, HttpInv, ties the position in the bytes to the request   *)
(* that is read: where each request ends is known from how they are        *)
(* written (Place), so that a step that reads a line, headers or a content *)
(* can be seen to end where the client's does.                             *)
(***************************************************************************)
EXTENDS HttpInput, HttpRequest, FiniteSetTheorems, SequenceTheorems, TLAPS

-----------------------------------------------------------------------------
(* Induction *)

\* A set of natural numbers that has a member has a least one.
LEMMA LeastMember ==
    ASSUME NEW T \in SUBSET Nat, T # {}
    PROVE  \E x \in T : \A y \in T : x <= y
<1> DEFINE R == OpToRel(<, Nat)
<1>1. IsWellFoundedOn(R, Nat)
  BY NatLessThanWellFounded, Zenon
<1>2. \E x \in T : \A y \in T : ~ (<<y, x>> \in R)
  <2> HIDE DEF R
  <2> QED
    BY <1>1, WFMin
<1>3. PICK x \in T : \A y \in T : ~ (<<y, x>> \in R)
  BY <1>2
<1>4. \A y \in T : ~(y < x)
  BY <1>3, Zenon DEF OpToRel
<1> QED
  BY <1>4

\* Induction over the natural numbers, about membership in a set.
LEMMA NatSteps ==
    ASSUME NEW T, 0 \in T, \A n \in Nat : n \in T => n + 1 \in T
    PROVE  \A n \in Nat : n \in T
<1> SUFFICES ASSUME Nat \ T # {} PROVE FALSE
  OBVIOUS
<1>1. PICK x \in Nat \ T : \A y \in Nat \ T : x <= y
  BY LeastMember
<1>2. x - 1 \in Nat /\ x - 1 \in T
  BY <1>1
<1> QED
  BY <1>1, <1>2

-----------------------------------------------------------------------------
(* Ranges *)

\* A size that fits is kept, and one below nothing is the largest.
LEMMA SizeKept == \A n \in Nat : n < SizeLimit => SizeT(n) = n
  BY RangeAssumption DEF SizeT

\* A size below nothing by one is nothing when one is added.
LEMMA SizeWraps == SizeLimit > 0 => SizeT(SizeT(-1) + 1) = 0
<1> SUFFICES ASSUME SizeLimit > 0 PROVE SizeT(SizeT(-1) + 1) = 0
  OBVIOUS
<1>1. SizeT(-1) = SizeLimit - 1
  BY RangeAssumption DEF SizeT
<1> QED
  BY <1>1, RangeAssumption DEF SizeT

\* The length of what lies between two positions.
LEMMA LengthBetween ==
    ASSUME NEW first \in Nat, NEW last \in Nat, first <= last, last + 1 < SizeLimit
    PROVE  SizeT(SizeT(last - first) + 1) = last - first + 1
<1>1. last - first \in Nat /\ last - first < SizeLimit /\ last - first + 1 \in Nat /\ last - first + 1 < SizeLimit
  BY RangeAssumption
<1> QED
  BY <1>1, SizeKept

\* A body of its positions, from 0.
Numbered(len) == [i \in 1 .. len |-> i - 1]

\* A sequence that counts upwards lists what it counts.
LEMMA CountingLists ==
    ASSUME NEW from \in Nat, NEW to \in Nat, from < to,
           NEW s, DOMAIN s = 1 .. to - from, \A i \in 1 .. to - from : s[i] = from + i - 1
    PROVE  Lists(s, from .. to - 1) /\ s[1] = from
<1>1. ASSUME NEW x \in from .. to - 1 PROVE x \in Range(s)
  <2>1. x - from + 1 \in 1 .. to - from /\ from + (x - from + 1) - 1 = x
    OBVIOUS
  <2> QED
    BY <2>1 DEF Range
<1>2. ASSUME NEW x \in Range(s) PROVE x \in from .. to - 1
  <2>1. PICK i \in 1 .. to - from : x = s[i]
    BY DEF Range
  <2> QED
    BY <2>1
<1>3. \A i, j \in DOMAIN s : i < j => s[i] < s[j]
  OBVIOUS
<1>4. s[1] = from
  <2>1. 1 \in 1 .. to - from
    OBVIOUS
  <2> QED
    BY <2>1
<1> QED
  BY <1>1, <1>2, <1>3, <1>4 DEF Lists

\* A stretch of such a body counts.
LEMMA StretchLists ==
    ASSUME NEW len \in Nat, NEW from \in Nat, NEW to \in Nat, from < to, to <= len
    PROVE  LET s == SubSeq(Numbered(len), from + 1, to) IN Lists(s, from .. to - 1) /\ s[1] = from
<1> DEFINE body == Numbered(len)
           s == SubSeq(body, from + 1, to)
<1>1. body \in Seq(Int) /\ Len(body) = len /\ \A i \in 1 .. len : body[i] = i - 1
  BY DEF Numbered
<1> HIDE DEF body
<1>2. from + 1 \in 1 .. len /\ to \in 1 .. len
  OBVIOUS
<1>3. s \in Seq(Int) /\ Len(s) = to - from /\ \A i \in 1 .. to - from : s[i] = body[from + i]
  <2>1. s \in Seq(Int)
    BY <1>1, <1>2, SubSeqProperties
  <2>2. Len(s) = to - from
    BY <1>1, <1>2, SubSeqProperties
  <2>3. ASSUME NEW i \in 1 .. to - from PROVE s[i] = body[from + i]
    <3>1. s[i] = body[from + 1 + i - 1]
      BY <1>1, <1>2, <2>2, SubSeqProperties
    <3> QED
      BY <3>1
  <2> QED
    BY <2>1, <2>2, <2>3
<1> HIDE DEF s
<1>4. DOMAIN s = 1 .. to - from
  BY <1>3
<1>5. \A i \in 1 .. to - from : s[i] = from + i - 1
  <2>1. ASSUME NEW i \in 1 .. to - from PROVE s[i] = from + i - 1
    <3>1. from + i \in 1 .. len
      OBVIOUS
    <3> QED
      BY <1>1, <1>3, <3>1
  <2> QED
    BY <2>1
<1>6. Lists(s, from .. to - 1) /\ s[1] = from
  BY <1>4, <1>5, CountingLists
<1> QED
  BY <1>6 DEF s, body

\* Where a range starts and how much of the body it has.
LEMMA RangeSelects ==
    ASSUME NEW r \in Position \X Position, NEW len \in 1 .. SizeLimit \div 2, ~Backwards(r)
    PROVE  LET o == OffsetAndLength(r, len)
               to == IF o[1] + o[2] < len THEN o[1] + o[2] ELSE len
           IN  /\ o[1] \in Nat /\ o[2] \in Nat
               /\ Wanted(r, len) = {} <=> o[1] >= len
               /\ o[1] < len => o[1] < to /\ Wanted(r, len) = o[1] .. to - 1
<1> DEFINE half == SizeLimit \div 2
           a == r[1]
           b == r[2]
<1>1. half \in Nat /\ 2 * half <= SizeLimit /\ SizeLimit \in Nat
  BY RangeAssumption
<1>2. a \in -1 .. half - 1 /\ b \in -1 .. half - 1 /\ len \in 1 .. half /\ r = <<a, b>>
  BY DEF Position
<1> HIDE DEF half
<1>3. SizeLimit > 1
  BY <1>1, <1>2
<1>4. CASE a = -1 /\ b = -1
  <2>1. OffsetAndLength(r, len) = <<0, len>>
    BY <1>2, <1>4 DEF OffsetAndLength, Absent
  <2>2. Wanted(r, len) = 0 .. len - 1
    BY <1>2, <1>4 DEF Wanted
  <2> QED
    BY <1>2, <2>1, <2>2
<1>5. CASE a = -1 /\ b # -1
  <2> DEFINE first == IF len > b THEN len - b ELSE 0
  <2>1. OffsetAndLength(r, len) = <<first, SizeT(SizeT(len - 1 - first) + 1)>>
    BY <1>2, <1>5 DEF OffsetAndLength, Absent
  <2>2. Wanted(r, len) = {i \in 0 .. len - 1 : i >= len - b}
    BY <1>2, <1>5 DEF Wanted
  <2>3. CASE b = 0
    <3>1. first = len /\ len - 1 - first = -1
      BY <1>2, <2>3
    <3>2. OffsetAndLength(r, len) = <<len, 0>>
      <4>1. SizeT(SizeT(len - 1 - first) + 1) = 0
        BY <1>1, <1>3, <3>1, SizeWraps
      <4> QED
        BY <2>1, <3>1, <4>1
    <3>3. Wanted(r, len) = {}
      BY <1>2, <2>2, <2>3
    <3> QED
      BY <1>2, <3>2, <3>3
  <2>4. CASE b > 0
    <3>1. first \in Nat /\ first < len /\ len - 1 \in Nat /\ first <= len - 1 /\ len - 1 + 1 < SizeLimit
      BY <1>1, <1>2, <2>4
    <3>2. OffsetAndLength(r, len) = <<first, len - first>>
      <4>1. SizeT(SizeT(len - 1 - first) + 1) = len - 1 - first + 1
        BY <3>1, LengthBetween
      <4> QED
        BY <1>2, <2>1, <3>1, <4>1
    <3>3. Wanted(r, len) = first .. len - 1
      BY <1>2, <2>2, <2>4
    <3> HIDE DEF first
    <3> QED
      BY <1>2, <3>1, <3>2, <3>3
  <2> QED
    BY <1>2, <1>5, <2>3, <2>4
<1>6. CASE a # -1 /\ b = -1
  <2>1. OffsetAndLength(r, len) = <<a, SizeT(SizeT(len - 1 - a) + 1)>>
    BY <1>2, <1>6 DEF OffsetAndLength, Absent
  <2>2. Wanted(r, len) = {i \in 0 .. len - 1 : i >= a}
    BY <1>2, <1>6 DEF Wanted
  <2>3. CASE a < len
    <3>1. SizeT(SizeT(len - 1 - a) + 1) = len - a
      <4>1. a \in Nat /\ len - 1 \in Nat /\ a <= len - 1 /\ len - 1 + 1 < SizeLimit
        BY <1>1, <1>2, <1>6, <2>3
      <4>2. SizeT(SizeT(len - 1 - a) + 1) = len - 1 - a + 1
        BY <4>1, LengthBetween
      <4> QED
        BY <1>2, <4>2
    <3>2. Wanted(r, len) = a .. len - 1
      BY <1>2, <1>6, <2>2
    <3> QED
      BY <1>2, <1>6, <2>1, <2>3, <3>1, <3>2
  <2>4. CASE a >= len
    <3>1. Wanted(r, len) = {}
      BY <1>2, <2>2, <2>4
    <3>2. SizeT(SizeT(len - 1 - a) + 1) \in Nat
      BY <1>1, <1>2, <1>3 DEF SizeT
    <3> QED
      BY <1>2, <1>6, <2>1, <2>4, <3>1, <3>2
  <2> QED
    BY <1>2, <2>3, <2>4
<1>7. CASE a # -1 /\ b # -1
  <2>0. a <= b
    BY <1>2, <1>7 DEF Backwards, Absent
  <2>1. OffsetAndLength(r, len) = <<a, b - a + 1>>
    <3>1. OffsetAndLength(r, len) = <<a, SizeT(SizeT(b - a) + 1)>>
      BY <1>2, <1>7 DEF OffsetAndLength, Absent
    <3>2. a \in Nat /\ b \in Nat /\ b + 1 < SizeLimit
      BY <1>1, <1>2, <1>7
    <3> QED
      BY <2>0, <3>1, <3>2, LengthBetween
  <2>2. Wanted(r, len) = {i \in 0 .. len - 1 : i >= a /\ i <= b}
    BY <1>2, <1>7 DEF Wanted
  <2>3. CASE a < len
    <3>1. a \in Wanted(r, len)
      BY <1>2, <1>7, <2>0, <2>2, <2>3
    <3> QED
      BY <1>2, <1>7, <2>0, <2>1, <2>2, <2>3, <3>1
  <2>4. CASE a >= len
    <3>1. Wanted(r, len) = {}
      BY <1>2, <2>2, <2>4
    <3> QED
      BY <1>2, <1>7, <2>0, <2>1, <2>4, <3>1
  <2> QED
    BY <1>2, <2>3, <2>4
<1> QED
  BY <1>4, <1>5, <1>6, <1>7

\* What a range's part of a body is.
LEMMA PartSelected ==
    ASSUME NEW r \in Position \X Position, NEW len \in 1 .. SizeLimit \div 2, ~Backwards(r),
           NEW body, body = Numbered(len)
    PROVE  /\ Outside(body, r) <=> Wanted(r, len) = {}
           /\ ~Outside(body, r) => /\ Lists(Part(body, r).data, Wanted(r, len))
                                   /\ Part(body, r).range.first = Part(body, r).data[1]
<1> DEFINE o == OffsetAndLength(r, len)
           to == IF o[1] + o[2] < len THEN o[1] + o[2] ELSE len
<1>0. len \in Nat
  BY RangeAssumption
<1>1. Len(body) = len
  BY <1>0 DEF Numbered
<1>2. /\ o[1] \in Nat /\ o[2] \in Nat
      /\ Wanted(r, len) = {} <=> o[1] >= len
      /\ o[1] < len => o[1] < to /\ Wanted(r, len) = o[1] .. to - 1
  BY RangeSelects
<1>3. Outside(body, r) <=> o[1] >= len
  BY <1>1 DEF Outside
<1>4. Part(body, r).data = SubSeq(body, o[1] + 1, to) /\ Part(body, r).range.first = o[1]
  BY <1>1 DEF Part, Substr, ContentRange
<1> HIDE DEF o
<1>5. CASE o[1] < len
  <2>1. to \in Nat /\ to <= len
    BY <1>0, <1>2
  <2> HIDE DEF to
  <2>2. Lists(SubSeq(body, o[1] + 1, to), o[1] .. to - 1) /\ SubSeq(body, o[1] + 1, to)[1] = o[1]
    <3> DEFINE from == o[1]
    <3>1. from \in Nat /\ from < to
      BY <1>2, <1>5
    <3> HIDE DEF from
    <3>2. Lists(SubSeq(body, from + 1, to), from .. to - 1) /\ SubSeq(body, from + 1, to)[1] = from
      BY <1>0, <2>1, <3>1, StretchLists, Zenon
    <3> QED
      BY <3>2 DEF from
  <2> QED
    BY <1>2, <1>3, <1>4, <1>5, <2>2
<1> QED
  BY <1>0, <1>2, <1>3, <1>5

\* A header of ranges is taken as it is, unless one of them runs backwards.
LEMMA HeaderTaken ==
    ASSUME NEW ranges \in Seq(Position \X Position), ranges # <<>>, ranges # Malformed
    PROVE  LET parsed == parse_range_header(make_range_header(ranges))
           IN  /\ parsed.ok <=> \A i \in DOMAIN ranges : ~Backwards(ranges[i])
               /\ parsed.ok => parsed.ranges = ranges
<1> DEFINE bad(r) == TooLarge \in {r[1], r[2]} \/ Backwards(r)
           upTo == SelectInSeq(ranges, bad)
           I == {i \in 1 .. Len(ranges) : bad(ranges[i])}
           parsed == parse_range_header(make_range_header(ranges))
<1>1. DOMAIN ranges = 1 .. Len(ranges)
  OBVIOUS
<1>2. \A i \in DOMAIN ranges : bad(ranges[i]) <=> Backwards(ranges[i])
  <2>1. ASSUME NEW i \in DOMAIN ranges PROVE TooLarge \notin {ranges[i][1], ranges[i][2]}
    <3>1. ranges[i] \in Position \X Position
      OBVIOUS
    <3>2. ranges[i][1] \in Int /\ ranges[i][2] \in Int
      BY <3>1, RangeAssumption DEF Position
    <3> QED
      BY <3>2, RangeAssumption
  <2> QED
    BY <2>1
<1>3. upTo = 0 <=> I = {}
  <2>1. upTo = IF I # {} THEN Min(I) ELSE 0
    BY DEF SelectInSeq
  <2>2. I # {} => Min(I) \in I
    <3>1. I \in SUBSET Nat
      OBVIOUS
    <3> HIDE DEF I
    <3> QED
      BY <3>1, LeastMember DEF Min
  <2>3. 0 \notin I
    OBVIOUS
  <2> HIDE DEF I, upTo
  <2> QED
    BY <2>1, <2>2, <2>3
<1>4. parsed.ok = (upTo = 0) /\ (upTo = 0 => parsed.ranges = ranges)
  BY DEF parse_range_header, make_range_header
<1>5. I = {} <=> \A i \in DOMAIN ranges : ~Backwards(ranges[i])
  BY <1>1, <1>2
<1> HIDE DEF I, upTo, parsed
<1> QED
  BY <1>3, <1>4, <1>5 DEF parsed

\* Ranges are refused if one runs backwards, answered 416 if one selects nothing,
\* and otherwise get the bytes they name, for bodies and ranges of any length
\* (httplib.h 3548-3580, 3808-3922, 5187-5296).
THEOREM RangesAlwaysServed == ASSUME input \in RangeInputs PROVE RangesServed
<1> DEFINE ranges == input.ranges
           len == input.size
           body == [i \in 1 .. len |-> i - 1]
           parsed == parse_range_header(make_range_header(ranges))
           applied == apply_ranges(ranges, body, 206)
           parts == IF applied.form = "multipart" THEN applied.data
                    ELSE <<[range |-> applied.parts[1], data |-> applied.data]>>
<1>1. ranges \in Seq(Position \X Position) /\ ranges # <<>> /\ ranges # Malformed /\ len \in 1 .. SizeLimit \div 2
  BY DEF RangeInputs
<1>2. /\ parsed.ok <=> \A i \in DOMAIN ranges : ~Backwards(ranges[i])
      /\ parsed.ok => parsed.ranges = ranges
  BY <1>1, HeaderTaken
<1>3. \A i \in DOMAIN ranges : /\ ranges[i] \in Position \X Position
                               /\ ranges[i][1] \in Int /\ ranges[i][2] \in Int
  BY <1>1, RangeAssumption DEF Position
<1>4. parsed.ok <=> \A i \in DOMAIN ranges : -1 \in {ranges[i][1], ranges[i][2]} \/ ranges[i][1] <= ranges[i][2]
  <2>1. \A i \in DOMAIN ranges :
           ~Backwards(ranges[i]) <=> (-1 \in {ranges[i][1], ranges[i][2]} \/ ranges[i][1] <= ranges[i][2])
    BY <1>3 DEF Backwards, Absent
  <2> HIDE DEF ranges, parsed
  <2> QED
    BY <1>2, <2>1
<1>5. ASSUME parsed.ok
      PROVE  IF \E i \in DOMAIN ranges : Wanted(ranges[i], len) = {}
             THEN applied.status = 416 /\ applied.data = <<>>
             ELSE /\ applied.status = 206
                  /\ \A i \in DOMAIN ranges : /\ Lists(parts[i].data, Wanted(ranges[i], len))
                                              /\ parts[i].range.first = parts[i].data[1]
  <2>1. \A i \in DOMAIN ranges :
           /\ Outside(body, ranges[i]) <=> Wanted(ranges[i], len) = {}
           /\ ~Outside(body, ranges[i]) =>
                 /\ Lists(Part(body, ranges[i]).data, Wanted(ranges[i], len))
                 /\ Part(body, ranges[i]).range.first = Part(body, ranges[i]).data[1]
    <3>1. body = Numbered(len)
      BY DEF Numbered
    <3> HIDE DEF ranges, len, parsed, body
    <3> QED
      BY <1>1, <1>2, <1>3, <1>5, <3>1, PartSelected
  <2> HIDE DEF body
  <2>2. CASE Len(ranges) = 1
    <3>1. DOMAIN ranges = {1}
      BY <1>1, <2>2
    <3>2. CASE Outside(body, ranges[1])
      <4>1. applied.status = 416 /\ applied.data = <<>>
        BY <1>1, <2>2, <3>2 DEF apply_ranges
      <4> QED
        BY <2>1, <3>1, <3>2, <4>1
    <3>3. CASE ~Outside(body, ranges[1])
      <4>1. /\ applied.status = 206 /\ applied.form = "part" /\ applied.data = Part(body, ranges[1]).data
            /\ applied.parts = <<Part(body, ranges[1]).range>>
        BY <1>1, <2>2, <3>3 DEF apply_ranges
      <4>2. parts[1].data = Part(body, ranges[1]).data /\ parts[1].range = Part(body, ranges[1]).range
        BY <4>1
      <4> QED
        BY <2>1, <3>1, <3>3, <4>1, <4>2
    <3> QED
      BY <3>2, <3>3
  <2>3. CASE Len(ranges) # 1
    <3>1. CASE \E i \in DOMAIN ranges : Outside(body, ranges[i])
      <4>1. applied.status = 416 /\ applied.data = <<>>
        BY <1>1, <2>3, <3>1 DEF apply_ranges
      <4>2. \E i \in DOMAIN ranges : Wanted(ranges[i], len) = {}
        BY <2>1, <3>1
      <4> QED
        BY <4>1, <4>2
    <3>2. CASE ~ \E i \in DOMAIN ranges : Outside(body, ranges[i])
      <4>1. /\ applied.status = 206 /\ applied.form = "multipart"
            /\ applied.data = [i \in DOMAIN ranges |-> Part(body, ranges[i])]
        BY <1>1, <2>3, <3>2 DEF apply_ranges
      <4>2. \A i \in DOMAIN ranges : parts[i] = Part(body, ranges[i])
        BY <4>1
      <4> QED
        BY <2>1, <3>2, <4>1, <4>2
    <3> QED
      BY <3>1, <3>2
  <2> QED
    BY <2>2, <2>3
<1>6. parsed.ok => apply_ranges(parsed.ranges, body, 206) = applied
  BY <1>2
<1> DEFINE result == apply_ranges(parsed.ranges, body, 206)
           found == IF result.form = "multipart" THEN result.data
                    ELSE <<[range |-> result.parts[1], data |-> result.data]>>
<1>7. parsed.ok => IF \E i \in DOMAIN ranges : Wanted(ranges[i], len) = {}
                   THEN result.status = 416 /\ result.data = <<>>
                   ELSE /\ result.status = 206
                        /\ \A i \in DOMAIN ranges : /\ Lists(found[i].data, Wanted(ranges[i], len))
                                                    /\ found[i].range.first = found[i].data[1]
  <2>1. ASSUME parsed.ok PROVE result = applied /\ found = parts
    <3>1. result = applied
      BY <1>6, <2>1
    <3> QED
      BY <3>1
  <2> HIDE DEF applied, parsed, result, ranges, len, found, parts
  <2> QED
    BY <1>5, <2>1
<1> QED
  BY <1>4, <1>7, Zenon DEF RangesServed

-----------------------------------------------------------------------------
(* Paths *)

UpSet(path, n) == {i \in Ends(path) \cap 1 .. n : Component(path, i) = <<Dot, Dot>>}
DownSet(path, n) == {i \in Ends(path) \cap 1 .. n : Component(path, i) \notin {<<Dot>>, <<Dot, Dot>>}}

\* The counts grow with the component that ends at the next character.
LEMMA CountsGrow ==
    ASSUME NEW path, NEW n \in Nat
    PROVE  /\ Ups(path, n) \in Nat /\ Downs(path, n) \in Nat
           /\ Ups(path, 0) = 0 /\ Downs(path, 0) = 0
           /\ LET name == Component(path, n + 1)
                  ends == n + 1 \in Ends(path)
              IN  /\ Ups(path, n + 1) = Ups(path, n) + (IF ends /\ name = <<Dot, Dot>> THEN 1 ELSE 0)
                  /\ Downs(path, n + 1) = Downs(path, n)
                                            + (IF ends /\ name \notin {<<Dot>>, <<Dot, Dot>>} THEN 1 ELSE 0)
<1>1. \A k : Ups(path, k) = Cardinality(UpSet(path, k)) /\ Downs(path, k) = Cardinality(DownSet(path, k))
  BY DEF Ups, Downs, UpSet, DownSet
<1>2. \A k \in Nat : IsFiniteSet(1 .. k)
  BY FS_Interval
<1>3. \A k \in Nat : UpSet(path, k) \subseteq 1 .. k /\ DownSet(path, k) \subseteq 1 .. k
  BY DEF UpSet, DownSet
<1>4. \A k \in Nat : /\ IsFiniteSet(UpSet(path, k)) /\ Cardinality(UpSet(path, k)) \in Nat
                     /\ IsFiniteSet(DownSet(path, k)) /\ Cardinality(DownSet(path, k)) \in Nat
  BY <1>2, <1>3, FS_Subset, FS_CardinalityType
<1>5. UpSet(path, 0) = {} /\ DownSet(path, 0) = {}
  BY <1>3
<1>6. Cardinality({}) = 0
  BY FS_EmptySet
<1>7. 1 .. n + 1 = 1 .. n \cup {n + 1} /\ n + 1 \notin 1 .. n
  OBVIOUS
<1>8. UpSet(path, n + 1) = IF n + 1 \in Ends(path) /\ Component(path, n + 1) = <<Dot, Dot>>
                           THEN UpSet(path, n) \cup {n + 1} ELSE UpSet(path, n)
  BY <1>7 DEF UpSet
<1>9. DownSet(path, n + 1) = IF n + 1 \in Ends(path) /\ Component(path, n + 1) \notin {<<Dot>>, <<Dot, Dot>>}
                             THEN DownSet(path, n) \cup {n + 1} ELSE DownSet(path, n)
  BY <1>7 DEF DownSet
<1>10. n + 1 \notin UpSet(path, n) /\ n + 1 \notin DownSet(path, n)
  BY <1>3, <1>7
<1>11. /\ Cardinality(UpSet(path, n) \cup {n + 1}) = Cardinality(UpSet(path, n)) + 1
       /\ Cardinality(DownSet(path, n) \cup {n + 1}) = Cardinality(DownSet(path, n)) + 1
  <2>1. Cardinality(UpSet(path, n) \cup {n + 1}) = Cardinality(UpSet(path, n)) + 1
    BY <1>4, <1>10, FS_AddElement
  <2>2. Cardinality(DownSet(path, n) \cup {n + 1}) = Cardinality(DownSet(path, n)) + 1
    BY <1>4, <1>10, FS_AddElement
  <2> QED
    BY <2>1, <2>2
<1>12. Ups(path, n) \in Nat /\ Downs(path, n) \in Nat /\ Ups(path, 0) = 0 /\ Downs(path, 0) = 0
  BY <1>1, <1>4, <1>5, <1>6
<1>13. Ups(path, n + 1) = Ups(path, n) + (IF n + 1 \in Ends(path) /\ Component(path, n + 1) = <<Dot, Dot>> THEN 1 ELSE 0)
  BY <1>1, <1>8, <1>11, <1>12
<1>14. Downs(path, n + 1) =
          Downs(path, n) + (IF n + 1 \in Ends(path) /\ Component(path, n + 1) \notin {<<Dot>>, <<Dot, Dot>>} THEN 1 ELSE 0)
  BY <1>1, <1>9, <1>11, <1>12
<1> QED
  BY <1>12, <1>13, <1>14, Zenon

\* The levels of is_valid_path, character by character.
IsLevels(f, path) ==
    f = [i \in 0 .. Len(path) |->
            IF i = 0 THEN 0 ELSE IF i \in Ends(path) THEN NextLevel(f[i - 1], Component(path, i)) ELSE f[i - 1]]

\* What they are: -1 once a beginning has led above the root.
Within(path, n) == \A m \in 1 .. n : Ups(path, m) <= Downs(path, m)
LevelAt(path, n) == IF Within(path, n) THEN Downs(path, n) - Ups(path, n) ELSE -1

\* A step of a path leads down, up or nowhere.
LEMMA LevelSteps ==
    ASSUME NEW path, NEW n \in Nat
    PROVE  /\ LevelAt(path, 0) = 0
           /\ LevelAt(path, n + 1) = IF n + 1 \in Ends(path) THEN NextLevel(LevelAt(path, n), Component(path, n + 1))
                                     ELSE LevelAt(path, n)
<1> DEFINE name == Component(path, n + 1)
           up == Ups(path, n)
           down == Downs(path, n)
<1>1. up \in Nat /\ down \in Nat /\ Ups(path, 0) = 0 /\ Downs(path, 0) = 0
  BY CountsGrow
<1>2. LevelAt(path, 0) = 0
  BY <1>1 DEF LevelAt, Within
<1>3. Within(path, n + 1) <=> Within(path, n) /\ Ups(path, n + 1) <= Downs(path, n + 1)
  <2>1. 1 .. n + 1 = 1 .. n \cup {n + 1}
    OBVIOUS
  <2> QED
    BY <2>1 DEF Within
<1>4. Within(path, n) => up <= down
  <2>1. CASE n = 0
    BY <1>1, <2>1
  <2>2. CASE n # 0
    BY <2>2 DEF Within
  <2> QED
    BY <2>1, <2>2
<1>5. /\ Ups(path, n + 1) = up + (IF n + 1 \in Ends(path) /\ name = <<Dot, Dot>> THEN 1 ELSE 0)
      /\ Downs(path, n + 1) = down + (IF n + 1 \in Ends(path) /\ name \notin {<<Dot>>, <<Dot, Dot>>} THEN 1 ELSE 0)
  BY CountsGrow
<1>6. <<Dot>> # <<Dot, Dot>>
  OBVIOUS
<1> HIDE DEF name, up, down
<1>7. CASE n + 1 \notin Ends(path)
  <2>1. Ups(path, n + 1) = up /\ Downs(path, n + 1) = down
    BY <1>1, <1>5, <1>7
  <2> QED
    BY <1>1, <1>2, <1>3, <1>4, <1>7, <2>1 DEF LevelAt, up, down
<1>8. CASE n + 1 \in Ends(path) /\ name = <<Dot>>
  <2>1. Ups(path, n + 1) = up /\ Downs(path, n + 1) = down
    BY <1>1, <1>5, <1>6, <1>8
  <2> QED
    BY <1>1, <1>2, <1>3, <1>4, <1>8, <2>1 DEF LevelAt, NextLevel, up, down, name
<1>9. CASE n + 1 \in Ends(path) /\ name = <<Dot, Dot>>
  <2>1. Ups(path, n + 1) = up + 1 /\ Downs(path, n + 1) = down
    BY <1>1, <1>5, <1>6, <1>9
  <2> QED
    BY <1>1, <1>2, <1>3, <1>4, <1>6, <1>9, <2>1 DEF LevelAt, NextLevel, up, down, name
<1>10. CASE n + 1 \in Ends(path) /\ name \notin {<<Dot>>, <<Dot, Dot>>}
  <2>1. Ups(path, n + 1) = up /\ Downs(path, n + 1) = down + 1
    BY <1>1, <1>5, <1>10
  <2> QED
    BY <1>1, <1>2, <1>3, <1>4, <1>10, <2>1 DEF LevelAt, NextLevel, up, down, name
<1> QED
  BY <1>2, <1>7, <1>8, <1>9, <1>10

\* They are the ones that is_valid_path computes.
LEMMA LevelsKnown ==
    ASSUME NEW path, Len(path) \in Nat, NEW f, IsLevels(f, path)
    PROVE  f[Len(path)] = LevelAt(path, Len(path))
<1> DEFINE T == {n \in Nat : n <= Len(path) => f[n] = LevelAt(path, n)}
<1>1. \A i \in 0 .. Len(path) :
         f[i] = IF i = 0 THEN 0 ELSE IF i \in Ends(path) THEN NextLevel(f[i - 1], Component(path, i)) ELSE f[i - 1]
  BY Zenon DEF IsLevels
<1>2. 0 \in T
  BY <1>1, LevelSteps
<1>3. ASSUME NEW n \in Nat, n \in T
      PROVE  n + 1 \in T
  <2> SUFFICES ASSUME n + 1 <= Len(path)
               PROVE  f[n + 1] = LevelAt(path, n + 1)
    OBVIOUS
  <2>1. n + 1 \in 0 .. Len(path) /\ n + 1 # 0 /\ n + 1 - 1 = n
    OBVIOUS
  <2>2. f[n] = LevelAt(path, n)
    BY <1>3
  <2>3. f[n + 1] = IF n + 1 \in Ends(path) THEN NextLevel(f[n], Component(path, n + 1)) ELSE f[n]
    BY <1>1, <2>1
  <2> QED
    BY <2>2, <2>3, LevelSteps
<1>4. \A n \in Nat : n \in T
  <2> HIDE DEF T
  <2> QED
    BY <1>2, <1>3, NatSteps
<1> QED
  BY <1>4

\* There are the levels that a path leads to.
LEMMA LevelsExist ==
    ASSUME NEW path, Len(path) \in Nat
    PROVE  \E f : IsLevels(f, path)
<1> DEFINE f == [i \in 0 .. Len(path) |-> LevelAt(path, i)]
<1>1. ASSUME NEW i \in 0 .. Len(path)
      PROVE  f[i] = IF i = 0 THEN 0 ELSE IF i \in Ends(path) THEN NextLevel(f[i - 1], Component(path, i)) ELSE f[i - 1]
  <2>1. CASE i = 0
    BY <2>1, LevelSteps
  <2>2. CASE i # 0
    <3>1. i - 1 \in Nat /\ i - 1 \in 0 .. Len(path) /\ (i - 1) + 1 = i
      BY <2>2
    <3>2. LevelAt(path, i) = IF i \in Ends(path) THEN NextLevel(LevelAt(path, i - 1), Component(path, i))
                             ELSE LevelAt(path, i - 1)
      <4> DEFINE n == i - 1
      <4>1. n \in Nat /\ n + 1 = i
        BY <3>1
      <4> HIDE DEF n
      <4>2. LevelAt(path, n + 1) = IF n + 1 \in Ends(path) THEN NextLevel(LevelAt(path, n), Component(path, n + 1))
                                   ELSE LevelAt(path, n)
        BY <4>1, LevelSteps
      <4> QED
        BY <4>1, <4>2 DEF n
    <3> QED
      BY <2>2, <3>1, <3>2
  <2> QED
    BY <2>1, <2>2
<1>2. IsLevels(f, path)
  BY <1>1 DEF IsLevels
<1> QED
  BY <1>2

\* Of a path of any length: it is served only if none of its beginnings leads out
\* of its directory, and then it is (httplib.h 1928-1963).
THEOREM PathsAlwaysInside == ASSUME input \in PathInputs PROVE PathStaysInside
<1> DEFINE path == input.path
           levels == CHOOSE f : IsLevels(f, path)
<1>1. path \in Seq(Byte) /\ Len(path) \in Nat /\ DOMAIN path = 1 .. Len(path)
  BY DEF PathInputs
<1>2. is_valid_path(path) <=> levels[Len(path)] # -1
  BY Zenon DEF is_valid_path, IsLevels
<1> HIDE DEF path
<1>3. IsLevels(levels, path)
  BY <1>1, LevelsExist
<1>4. levels[Len(path)] = LevelAt(path, Len(path))
  BY <1>1, <1>3, LevelsKnown
<1>5. LevelAt(path, Len(path)) # -1 <=> Within(path, Len(path))
  <2>1. Ups(path, Len(path)) \in Nat /\ Downs(path, Len(path)) \in Nat
        /\ Ups(path, 0) = 0 /\ Downs(path, 0) = 0
    BY <1>1, CountsGrow
  <2>2. Within(path, Len(path)) => Ups(path, Len(path)) <= Downs(path, Len(path))
    <3>1. CASE Len(path) = 0
      BY <2>1, <3>1
    <3>2. CASE Len(path) # 0
      BY <1>1, <3>2 DEF Within
    <3> QED
      BY <3>1, <3>2
  <2> QED
    BY <2>1, <2>2 DEF LevelAt
<1>6. is_valid_path(path) <=> \A n \in DOMAIN path : Ups(path, n) <= Downs(path, n)
  BY <1>1, <1>2, <1>4, <1>5 DEF Within
<1> QED
  BY <1>6 DEF PathStaysInside, path

-----------------------------------------------------------------------------
(* How requests lie in the bytes that are written for them *)

\* A sequence is one of its own elements.
LEMMA SequenceOfItsOwn ==
    ASSUME NEW U, NEW s \in Seq(U)
    PROVE  s \in Seq(Range(s))
<1>1. s = [j \in 1 .. Len(s) |-> s[j]] /\ Len(s) \in Nat /\ \A j \in 1 .. Len(s) : s[j] \in Range(s)
  BY DEF Range
<1> QED
  BY <1>1

\* Where each of some sequences ends when they are written one after the other.
Laid(S, seqs, w) ==
    /\ S \in [0 .. Len(seqs) -> Nat] /\ S[0] = 0 /\ S[Len(seqs)] = Len(w)
    /\ \A k \in 1 .. Len(seqs) :
          /\ S[k] = S[k - 1] + Len(seqs[k])
          /\ \A j \in 1 .. Len(seqs[k]) : w[S[k - 1] + j] = seqs[k][j]

\* The first k sequences end at S[k] of what is written up to there, f.
LaidUpTo(k, S, seqs, f) ==
    \A m \in 1 .. k :
        /\ S[m] = S[m - 1] + Len(seqs[m]) /\ S[m] \in Nat /\ S[m - 1] \in Nat /\ S[m] <= Len(f) /\ Len(seqs[m]) \in Nat
        /\ \A j \in 1 .. Len(seqs[m]) : f[S[m - 1] + j] = seqs[m][j]

\* One sequence more.
LEMMA OneMoreLaid ==
    ASSUME NEW U, NEW k \in Nat, NEW S, NEW seqs, NEW f \in Seq(U), NEW last \in Seq(U), last = seqs[k + 1],
           LaidUpTo(k, S, seqs, f), S[k] = Len(f), S[k + 1] = Len(f) + Len(last),
           NEW g, g = f \o last
    PROVE  g \in Seq(U) /\ Len(g) = S[k + 1] /\ LaidUpTo(k + 1, S, seqs, g)
<1> DEFINE a == Len(f)
           b == Len(last)
<1>1. a \in Nat /\ b \in Nat
  OBVIOUS
<1>2. g \in Seq(U) /\ Len(g) = a + b /\ \A i \in 1 .. a + b : g[i] = IF i <= a THEN f[i] ELSE last[i - a]
  BY ConcatProperties
<1>3. S[k] = a /\ S[k + 1] = a + b
  OBVIOUS
<1>4. ASSUME NEW m \in 1 .. k + 1
      PROVE  /\ S[m] = S[m - 1] + Len(seqs[m]) /\ S[m] \in Nat /\ S[m - 1] \in Nat /\ S[m] <= a + b /\ Len(seqs[m]) \in Nat
             /\ \A j \in 1 .. Len(seqs[m]) : g[S[m - 1] + j] = seqs[m][j]
  <2>1. CASE m = k + 1
    <3>1. m - 1 = k /\ seqs[m] = last /\ Len(seqs[m]) = b
      BY <2>1
    <3>0. a \in Nat /\ S[m - 1] = a /\ S[m] = a + b
      BY <1>1, <1>3, <2>1, <3>1
    <3> HIDE DEF a, b
    <3>2. \A j \in 1 .. b : g[a + j] = last[j]
      <4>1. ASSUME NEW j \in 1 .. b PROVE g[a + j] = last[j]
        <5> DEFINE i == a + j
        <5>1. i \in 1 .. a + b /\ ~(i <= a) /\ i - a = j
          BY <1>1
        <5> HIDE DEF i
        <5>2. g[i] = last[i - a]
          BY <1>2, <5>1
        <5>3. g[i] = last[j]
          BY <5>1, <5>2
        <5> QED
          BY <5>3 DEF i
      <4> QED
        BY <4>1
    <3> QED
      BY <1>1, <3>0, <3>1, <3>2, SMTT(30)
  <2>2. CASE m # k + 1
    <3>1. m \in 1 .. k
      BY <2>2
    <3>2. /\ S[m] = S[m - 1] + Len(seqs[m]) /\ S[m] \in Nat /\ S[m - 1] \in Nat /\ S[m] <= a /\ Len(seqs[m]) \in Nat
          /\ \A j \in 1 .. Len(seqs[m]) : f[S[m - 1] + j] = seqs[m][j]
      BY <3>1 DEF LaidUpTo
    <3> DEFINE from == S[m - 1]
               to == S[m]
               long == Len(seqs[m])
    <3>3. from \in Nat /\ long \in Nat /\ to \in Nat /\ to = from + long /\ to <= a
      BY <3>2
    <3> HIDE DEF a, b, from, to, long
    <3>4. \A j \in 1 .. long : from + j \in 1 .. a + b /\ from + j <= a
      BY <1>1, <3>3
    <3>5. \A j \in 1 .. long : g[from + j] = f[from + j]
      BY <1>2, <3>4
    <3>6. to <= a + b
      BY <1>1, <3>3, SMT
    <3> QED
      BY <3>2, <3>5, <3>6 DEF from, to, long
  <2> QED
    BY <2>1, <2>2
<1>5. Len(g) = S[k + 1]
  BY <1>2, <1>3
<1> QED
  BY <1>2, <1>4, <1>5 DEF LaidUpTo

\* What flattening computes on the way.
IsFlattening(m, seqs, g) == g = [i \in 1 .. m |-> IF i = 1 THEN seqs[i] ELSE g[i - 1] \o seqs[i]]

\* There is what flattening computes, for any number of sequences.
LEMMA FlatteningExists ==
    ASSUME NEW seqs
    PROVE  \A m \in Nat : \E g : IsFlattening(m, seqs, g)
<1> DEFINE T == {m \in Nat : \E g : IsFlattening(m, seqs, g)}
<1>1. 0 \in T
  <2>1. IsFlattening(0, seqs, [i \in 1 .. 0 |-> 0])
    BY DEF IsFlattening
  <2> QED
    BY <2>1
<1>2. ASSUME NEW m \in Nat, m \in T PROVE m + 1 \in T
  <2>1. PICK g : IsFlattening(m, seqs, g)
    BY <1>2
  <2> DEFINE next == IF m = 0 THEN seqs[1] ELSE g[m] \o seqs[m + 1]
             h == [i \in 1 .. m + 1 |-> IF i = m + 1 THEN next ELSE g[i]]
  <2>2. \A i \in 1 .. m : g[i] = IF i = 1 THEN seqs[i] ELSE g[i - 1] \o seqs[i]
    BY <2>1 DEF IsFlattening
  <2>3. h[m + 1] = next /\ \A i \in 1 .. m : h[i] = g[i]
    <3> HIDE DEF next
    <3> QED
      OBVIOUS
  <2>4. h = [i \in 1 .. m + 1 |-> h[i]]
    OBVIOUS
  <2> HIDE DEF h
  <2>5. ASSUME NEW i \in 1 .. m + 1 PROVE h[i] = IF i = 1 THEN seqs[i] ELSE h[i - 1] \o seqs[i]
    <3>1. CASE i = m + 1
      <4>1. m # 0 => m \in 1 .. m /\ i - 1 = m
        BY <3>1
      <4> QED
        BY <2>3, <3>1, <4>1
    <3>2. CASE i # m + 1
      <4>1. i \in 1 .. m /\ (i # 1 => i - 1 \in 1 .. m)
        BY <3>2
      <4> QED
        BY <2>2, <2>3, <4>1
    <3> QED
      BY <3>1, <3>2
  <2>6. IsFlattening(m + 1, seqs, h)
    BY <2>4, <2>5 DEF IsFlattening
  <2> QED
    BY <2>6
<1>3. \A m \in Nat : m \in T
  <2> HIDE DEF T
  <2> QED
    BY <1>1, <1>2, NatSteps
<1> QED
  BY <1>3

\* Flattening lays sequences one after the other.
LEMMA FlattenLays ==
    ASSUME NEW U, NEW seqs \in Seq(Seq(U))
    PROVE  FlattenSeq(seqs) \in Seq(U) /\ \E S : Laid(S, seqs, FlattenSeq(seqs))
<1> DEFINE n == Len(seqs)
           f == CHOOSE g : IsFlattening(n, seqs, g)
<1>0. n \in Nat /\ \A i \in 1 .. n : seqs[i] \in Seq(U)
  OBVIOUS
<1> HIDE DEF n
<1>1. IsFlattening(n, seqs, f)
  BY <1>0, FlatteningExists
<1> HIDE DEF f
<1>2. \A i \in 1 .. n : f[i] = IF i = 1 THEN seqs[i] ELSE f[i - 1] \o seqs[i]
  BY <1>1 DEF IsFlattening
<1> DEFINE S == [k \in 0 .. n |-> IF k = 0 THEN 0 ELSE Len(f[k])]
           Good(k) == f[k] \in Seq(U) /\ Len(f[k]) = S[k] /\ LaidUpTo(k, S, seqs, f[k])
           G == {k \in Nat : k + 1 <= n => Good(k + 1)}
<1>3. DOMAIN S = 0 .. n /\ S[0] = 0 /\ \A k \in 1 .. n : S[k] = Len(f[k])
  BY <1>0
<1> HIDE DEF S
<1>4. 0 \in G
  <2> SUFFICES ASSUME 1 <= n PROVE Good(1)
    OBVIOUS
  <2>1. 1 \in 1 .. n
    BY <1>0
  <2>2. f[1] = seqs[1] /\ f[1] \in Seq(U) /\ S[1] = Len(seqs[1]) /\ Len(seqs[1]) \in Nat
    BY <1>0, <1>2, <1>3, <2>1
  <2>3. LaidUpTo(1, S, seqs, f[1])
    <3>1. \A m \in 1 .. 1 : m = 1 /\ m - 1 = 0
      OBVIOUS
    <3>2. \A j \in 1 .. Len(seqs[1]) : 0 + j = j
      BY <2>2
    <3> QED
      BY <1>3, <2>2, <3>1, <3>2 DEF LaidUpTo
  <2> QED
    BY <2>2, <2>3
<1>5. ASSUME NEW k \in Nat, k \in G PROVE k + 1 \in G
  <2> SUFFICES ASSUME k + 1 + 1 <= n PROVE Good(k + 1 + 1)
    OBVIOUS
  <2> DEFINE p == k + 1
  <2>1. p \in 1 .. n /\ p + 1 \in 1 .. n /\ p + 1 # 1 /\ p \in Nat
    BY <1>0
  <2>2. Good(p)
    BY <1>0, <1>5, <2>1
  <2> HIDE DEF p
  <2>3. f[p + 1] = f[p] \o seqs[p + 1]
    <3> DEFINE q == p + 1
    <3>1. q \in 1 .. n /\ q # 1 /\ q - 1 = p
      BY <2>1
    <3> HIDE DEF q
    <3>2. f[q] = f[q - 1] \o seqs[q]
      BY <1>2, <3>1
    <3> QED
      BY <3>1, <3>2 DEF q
  <2> HIDE DEF G
  <2> DEFINE last == seqs[p + 1]
             more == f[p + 1]
  <2>4. last \in Seq(U) /\ f[p] \in Seq(U) /\ more = f[p] \o last
    BY <1>0, <2>1, <2>2, <2>3
  <2>5. S[p] = Len(f[p]) /\ S[p + 1] = Len(more) /\ LaidUpTo(p, S, seqs, f[p])
    BY <1>3, <2>1, <2>2
  <2> HIDE DEF last, more
  <2>6. Len(more) = Len(f[p]) + Len(last)
    BY <2>4, ConcatProperties
  <2>7. more \in Seq(U) /\ Len(more) = S[p + 1] /\ LaidUpTo(p + 1, S, seqs, more)
    <3>1. last = seqs[p + 1] /\ S[p + 1] = Len(f[p]) + Len(last)
      BY <2>5, <2>6 DEF last
    <3> HIDE DEF Good
    <3> QED
      BY <2>1, <2>4, <2>5, <3>1, OneMoreLaid
  <2> QED
    BY <2>7 DEF more, p
<1>6. \A k \in Nat : k \in G
  <2> HIDE DEF G
  <2> QED
    BY <1>4, <1>5, NatSteps
<1>7. \A k \in 1 .. n : Good(k)
  <2>1. ASSUME NEW k \in 1 .. n PROVE Good(k)
    <3>1. k - 1 \in Nat /\ k - 1 + 1 = k /\ k <= n
      BY <1>0
    <3>2. k - 1 \in G
      BY <1>6, <3>1
    <3> QED
      BY <3>1, <3>2
  <2> QED
    BY <2>1
<1> HIDE DEF G
<1>8. CASE n = 0
  <2>1. FlattenSeq(seqs) = <<>> /\ seqs = <<>>
    BY <1>8 DEF FlattenSeq, n
  <2>2. S \in [0 .. 0 -> Nat] /\ S[0] = 0
    <3>1. DOMAIN S = 0 .. 0 /\ S[0] = 0
      BY <1>3, <1>8
    <3>2. S = [k \in 0 .. n |-> S[k]]
      BY DEF S
    <3> QED
      BY <1>8, <3>1, <3>2
  <2>3. Laid(S, seqs, FlattenSeq(seqs))
    BY <1>8, <2>1, <2>2 DEF Laid, n
  <2> QED
    BY <2>1, <2>3
<1>9. CASE n # 0
  <2>1. FlattenSeq(seqs) = f[n]
    BY <1>9 DEF FlattenSeq, f, IsFlattening, n
  <2>2. n \in 1 .. n /\ n \in 0 .. n /\ 0 \in 0 .. n
    BY <1>0, <1>9
  <2>3. f[n] \in Seq(U) /\ Len(f[n]) = S[n] /\ LaidUpTo(n, S, seqs, f[n])
    BY <1>7, <2>2
  <2>4. S = [k \in 0 .. n |-> S[k]]
    BY DEF S
  <2>5. \A k \in 0 .. n : S[k] \in Nat
    <3>1. ASSUME NEW k \in 0 .. n PROVE S[k] \in Nat
      <4>1. CASE k = 0
        BY <1>3, <4>1
      <4>2. CASE k # 0
        <5>1. k \in 1 .. n
          BY <1>0, <4>2
        <5> QED
          BY <2>3, <5>1 DEF LaidUpTo
      <4> QED
        BY <4>1, <4>2
    <3> QED
      BY <3>1
  <2>6. S \in [0 .. n -> Nat]
    BY <2>4, <2>5
  <2>7. Laid(S, seqs, f[n])
    BY <1>3, <2>3, <2>6 DEF Laid, LaidUpTo, n
  <2> QED
    BY <2>1, <2>3, <2>7
<1> QED
  BY <1>8, <1>9

\* The line of a request.
LineOf(i, request) ==
    [t |-> "line", of |-> i, form |-> request.form, method |-> request.method, path |-> request.path,
     version |-> request.version]

\* The tokens of a request, one by one.
Tokened(tokens, i, request) ==
    LET h == Len(request.headers)
        c == Len(request.content)
    IN  /\ tokens \in Seq(Range(tokens)) /\ h \in Nat /\ c \in Nat
        /\ Len(tokens) = h + c + 2
        /\ tokens[1] = LineOf(i, request) /\ tokens[h + 2] = BlankLine
        /\ \A j \in 1 .. h : tokens[1 + j] = request.headers[j]
        /\ \A j \in 1 .. c : tokens[h + 2 + j] = request.content[j]

\* The tokens of a request are its line, headers, a blank line and its content.
LEMMA TokensLie ==
    ASSUME NEW i, NEW request, IsRequest(request)
    PROVE  Tokened(TokensOf(i, request), i, request)
<1> DEFINE line == LineOf(i, request)
           headers == request.headers
           content == request.content
           h == Len(headers)
           c == Len(content)
           U == {line, BlankLine} \cup Range(headers) \cup Range(content)
           s1 == <<line>>
           s2 == s1 \o headers
           s3 == s2 \o <<BlankLine>>
           s4 == s3 \o content
<1>1. headers \in Seq(U) /\ content \in Seq(U)
  <2>1. headers \in Seq(Range(headers)) /\ content \in Seq(Range(content))
    BY DEF IsRequest
  <2> QED
    BY <2>1
<1>2. s4 = TokensOf(i, request)
  BY DEF TokensOf, LineOf
<1>3. h \in Nat /\ c \in Nat
  BY <1>1
<1> HIDE DEF line, headers, content
<1>4. s1 \in Seq(U) /\ Len(s1) = 1 /\ s1[1] = line
  OBVIOUS
<1>5. <<BlankLine>> \in Seq(U) /\ Len(<<BlankLine>>) = 1 /\ <<BlankLine>>[1] = BlankLine
  BY DEF BlankLine
<1> HIDE DEF U, s1, h, c
<1>6. s2 \in Seq(U) /\ Len(s2) = 1 + h /\ s2[1] = line /\ \A j \in 1 .. h : s2[1 + j] = headers[j]
  <2> DEFINE a == 1
  <2>0. a \in Nat /\ Len(s1) = a /\ Len(headers) = h
    BY <1>4 DEF h
  <2> HIDE DEF a
  <2>1. s2 \in Seq(U) /\ Len(s2) = a + h /\ \A j \in 1 .. a + h : s2[j] = IF j <= a THEN s1[j] ELSE headers[j - a]
    BY <1>1, <1>4, <2>0, ConcatProperties
  <2> USE DEF a
  <2> HIDE DEF s2
  <2>2. s2[1] = line
    BY <1>3, <1>4, <2>1
  <2>3. \A j \in 1 .. h : s2[1 + j] = headers[j]
    <3>1. ASSUME NEW j \in 1 .. h PROVE s2[1 + j] = headers[j]
      <4> DEFINE m == 1 + j
      <4>1. m \in 1 .. 1 + h /\ ~(m <= 1) /\ m - 1 = j
        BY <1>3
      <4> HIDE DEF m
      <4>2. s2[m] = headers[j]
        BY <2>1, <4>1
      <4> QED
        BY <4>2 DEF m
    <3> QED
      BY <3>1
  <2> QED
    BY <2>1, <2>2, <2>3
<1> HIDE DEF s2
<1>7. /\ s3 \in Seq(U) /\ Len(s3) = h + 2 /\ s3[1] = line /\ s3[h + 2] = BlankLine
      /\ \A j \in 1 .. h : s3[1 + j] = headers[j]
  <2> DEFINE b == <<BlankLine>>
             a == 1 + h
  <2>0. a \in Nat /\ a + 1 = h + 2 /\ Len(s2) = a /\ b \in Seq(U) /\ Len(b) = 1 /\ b[1] = BlankLine
    BY <1>3, <1>5, <1>6
  <2> HIDE DEF b
  <2>1. s3 \in Seq(U) /\ Len(s3) = a + 1 /\ \A j \in 1 .. a + 1 : s3[j] = IF j <= a THEN s2[j] ELSE b[j - a]
    <3> HIDE DEF a
    <3> QED
      BY <1>6, <2>0, ConcatProperties DEF b
  <2> HIDE DEF s3
  <2>2. s3[a + 1] = BlankLine
    <3> DEFINE m == a + 1
    <3>1. m \in 1 .. a + 1 /\ ~(m <= a) /\ m - a = 1
      BY <2>0
    <3> HIDE DEF m, a
    <3>2. s3[m] = b[1]
      BY <2>1, <3>1
    <3> QED
      BY <2>0, <3>2 DEF m
  <2>3. s3[1] = line
    <3>1. 1 \in 1 .. a + 1 /\ 1 <= a
      BY <1>3
    <3> QED
      BY <1>6, <2>1, <3>1
  <2>4. \A j \in 1 .. h : s3[1 + j] = headers[j]
    <3>1. ASSUME NEW j \in 1 .. h PROVE s3[1 + j] = headers[j]
      <4>1. 1 + j \in 1 .. a + 1 /\ 1 + j <= a
        BY <1>3
      <4> QED
        BY <1>6, <2>1, <4>1
    <3> QED
      BY <3>1
  <2>5. a + 1 = h + 2
    BY <2>0
  <2> QED
    BY <2>1, <2>2, <2>3, <2>4, <2>5
<1> HIDE DEF s3
<1>8. /\ s4 \in Seq(U) /\ Len(s4) = h + c + 2 /\ s4[1] = line /\ s4[h + 2] = BlankLine
      /\ \A j \in 1 .. h : s4[1 + j] = headers[j]
      /\ \A j \in 1 .. c : s4[h + 2 + j] = content[j]
  <2> DEFINE a == h + 2
  <2>0. a \in Nat /\ Len(s3) = a /\ a >= 2 /\ a + c = h + c + 2
    BY <1>3, <1>7
  <2>1. s4 \in Seq(U) /\ Len(s4) = a + c /\ \A j \in 1 .. a + c : s4[j] = IF j <= a THEN s3[j] ELSE content[j - a]
    <3> HIDE DEF a
    <3> QED
      BY <1>1, <1>7, <2>0, ConcatProperties DEF c
  <2> HIDE DEF s4
  <2>2. ASSUME NEW j \in 1 .. c PROVE s4[a + j] = content[j]
    <3> DEFINE m == a + j
    <3>1. m \in 1 .. a + c /\ ~(m <= a) /\ m - a = j
      BY <1>3, <2>0
    <3> HIDE DEF m, a
    <3>2. s4[m] = content[j]
      BY <2>1, <3>1
    <3> QED
      BY <3>2 DEF m
  <2>3. 1 \in 1 .. a + c /\ 1 <= a /\ a \in 1 .. a + c /\ a <= a
    BY <1>3, <2>0
  <2>4. s4[1] = line /\ s4[a] = BlankLine
    BY <1>7, <2>1, <2>3
  <2>5. \A j \in 1 .. h : s4[1 + j] = headers[j]
    <3>1. ASSUME NEW j \in 1 .. h PROVE s4[1 + j] = headers[j]
      <4>1. 1 + j \in 1 .. a + c /\ 1 + j <= a
        BY <1>3
      <4> QED
        BY <1>7, <2>1, <4>1
    <3> QED
      BY <3>1
  <2> QED
    BY <2>0, <2>1, <2>2, <2>4, <2>5
<1>9. s4 \in Seq(Range(s4))
  <2> HIDE DEF s4
  <2> QED
    BY <1>8, SequenceOfItsOwn
<1> QED
  BY <1>2, <1>3, <1>8, <1>9 DEF Tokened, line, headers, content, h, c

\* Where each request of a script ends in what is written, w.
Placed(S, requests, w) ==
    /\ S \in [0 .. Len(requests) -> Nat] /\ S[0] = 0 /\ S[Len(requests)] = Len(w)
    /\ \A k \in 1 .. Len(requests) :
          LET from == S[k - 1]
              h == Len(requests[k].headers)
              c == Len(requests[k].content)
          IN  /\ h \in Nat /\ c \in Nat /\ from \in Nat /\ S[k] = from + h + 2 + c
              /\ w[from + 1] = LineOf(k, requests[k]) /\ w[from + h + 2] = BlankLine
              /\ \A j \in 1 .. h : w[from + 1 + j] = requests[k].headers[j]
              /\ \A j \in 1 .. c : w[from + h + 2 + j] = requests[k].content[j]

Place(requests) == CHOOSE S : Placed(S, requests, Written(requests))

\* The requests of a script lie one after the other in what is written.
LEMMA WrittenPlaced ==
    ASSUME NEW requests \in Scripts
    PROVE  /\ Placed(Place(requests), requests, Written(requests))
           /\ Written(requests) \in Seq(Range(Written(requests)))
           /\ Len(requests) \in Nat /\ \A k \in 1 .. Len(requests) : IsRequest(requests[k])
<1> DEFINE n == Len(requests)
           seqs == [i \in DOMAIN requests |-> TokensOf(i, requests[i])]
           U == UNION {Range(TokensOf(i, requests[i])) : i \in DOMAIN requests}
           w == Written(requests)
<1>1. requests \in Seq(Range(requests)) /\ \A i \in DOMAIN requests : IsRequest(requests[i])
  BY RequestAssumption
<1>2. n \in Nat /\ DOMAIN requests = 1 .. n
  BY <1>1
<1>3. \A i \in 1 .. n : TokensOf(i, requests[i]) \in Seq(U)
  <2>1. ASSUME NEW i \in 1 .. n PROVE TokensOf(i, requests[i]) \in Seq(U)
    <3>1. TokensOf(i, requests[i]) \in Seq(Range(TokensOf(i, requests[i])))
      BY <1>1, <1>2, TokensLie DEF Tokened
    <3>2. Range(TokensOf(i, requests[i])) \subseteq U
      BY <1>2
    <3> HIDE DEF U
    <3> QED
      BY <3>1, <3>2
  <2> QED
    BY <2>1
<1>4. seqs \in Seq(Seq(U)) /\ Len(seqs) = n /\ \A i \in 1 .. n : seqs[i] = TokensOf(i, requests[i])
  <2> HIDE DEF U, n
  <2> QED
    BY <1>2, <1>3
<1>5. w = FlattenSeq(seqs)
  BY DEF Written
<1> HIDE DEF n, seqs, U, w
<1>6. w \in Seq(U) /\ \E S : Laid(S, seqs, w)
  BY <1>4, <1>5, FlattenLays
<1>7. PICK S : Laid(S, seqs, w)
  BY <1>6
<1>8. S \in [0 .. n -> Nat] /\ S[0] = 0 /\ S[n] = Len(w)
  BY <1>4, <1>7 DEF Laid
<1>9. ASSUME NEW k \in 1 .. n
      PROVE  LET from == S[k - 1]
                 h == Len(requests[k].headers)
                 c == Len(requests[k].content)
             IN  /\ h \in Nat /\ c \in Nat /\ from \in Nat /\ S[k] = from + h + 2 + c
                 /\ w[from + 1] = LineOf(k, requests[k]) /\ w[from + h + 2] = BlankLine
                 /\ \A j \in 1 .. h : w[from + 1 + j] = requests[k].headers[j]
                 /\ \A j \in 1 .. c : w[from + h + 2 + j] = requests[k].content[j]
  <2> DEFINE from == S[k - 1]
             r == requests[k]
             h == Len(r.headers)
             c == Len(r.content)
             tokens == TokensOf(k, r)
  <2>1. from \in Nat
    <3>1. k - 1 \in 0 .. n
      BY <1>2
    <3> QED
      BY <1>8, <3>1
  <2>2. IsRequest(r)
    BY <1>1, <1>2
  <2>3. seqs[k] = tokens
    BY <1>4
  <2>4. S[k] = from + Len(tokens) /\ \A j \in 1 .. Len(tokens) : w[from + j] = tokens[j]
    BY <1>4, <1>7, <2>3 DEF Laid
  <2> HIDE DEF r
  <2>5. /\ h \in Nat /\ c \in Nat
        /\ Len(tokens) = h + c + 2
        /\ tokens[1] = LineOf(k, r) /\ tokens[h + 2] = BlankLine
        /\ \A j \in 1 .. h : tokens[1 + j] = r.headers[j]
        /\ \A j \in 1 .. c : tokens[h + 2 + j] = r.content[j]
    <3>1. Tokened(TokensOf(k, r), k, r)
      BY <2>2, TokensLie
    <3> QED
      BY <3>1 DEF Tokened
  <2> HIDE DEF h, c, tokens, from
  <2>6. S[k] = from + h + 2 + c
    BY <2>1, <2>4, <2>5
  <2>7. /\ 1 \in 1 .. Len(tokens) /\ h + 2 \in 1 .. Len(tokens)
        /\ \A j \in 1 .. h : 1 + j \in 1 .. Len(tokens)
        /\ \A j \in 1 .. c : h + 2 + j \in 1 .. Len(tokens)
    BY <2>5
  <2>8. w[from + 1] = LineOf(k, r)
    BY <2>4, <2>5, <2>7
  <2>9. w[from + h + 2] = BlankLine
    <3>1. w[from + (h + 2)] = BlankLine
      BY <2>4, <2>5, <2>7
    <3>2. from + (h + 2) = from + h + 2
      BY <2>1, <2>5
    <3> QED
      BY <3>1, <3>2
  <2>10. ASSUME NEW j \in 1 .. h PROVE w[from + 1 + j] = r.headers[j]
    <3>1. w[from + (1 + j)] = r.headers[j]
      BY <2>4, <2>5, <2>7
    <3>2. from + (1 + j) = from + 1 + j
      BY <2>1, <2>5
    <3> QED
      BY <3>1, <3>2
  <2>11. ASSUME NEW j \in 1 .. c PROVE w[from + h + 2 + j] = r.content[j]
    <3>1. w[from + (h + 2 + j)] = r.content[j]
      BY <2>4, <2>5, <2>7
    <3>2. from + (h + 2 + j) = from + h + 2 + j
      BY <2>1, <2>5
    <3> QED
      BY <3>1, <3>2
  <2> QED
    BY <2>1, <2>5, <2>6, <2>8, <2>9, <2>10, <2>11 DEF from, h, c, r
<1>10. Placed(S, requests, w)
  BY <1>8, <1>9 DEF Placed, n
<1>11. Placed(Place(requests), requests, w)
  BY <1>10 DEF Place, w
<1>12. w \in Seq(Range(w))
  BY <1>6, SequenceOfItsOwn
<1> QED
  BY <1>1, <1>2, <1>11, <1>12 DEF w, n

-----------------------------------------------------------------------------
(* What is read from some position *)

\* The first of some positions is the least of them.
LEMMA FirstIsLeast ==
    ASSUME NEW positions \in SUBSET Nat, positions # {}
    PROVE  FirstOf(positions) \in positions /\ \A j \in positions : FirstOf(positions) <= j
<1>1. \E i \in positions : \A j \in positions : i <= j
  BY LeastMember
<1>2. FirstOf(positions) = CHOOSE i \in positions : \A j \in positions : i <= j
  BY DEF FirstOf
<1> QED
  BY <1>1, <1>2

\* At the end there is no line; a line is read up to its end.
LEMMA LineRead ==
    ASSUME Len(bytes) \in Nat, NEW i \in 1 .. Behind
    PROVE  /\ i = Behind => ~Getline(i).ok /\ Getline(i).next = Behind
           /\ i # Behind /\ bytes[i].t # "data" =>
                 Getline(i).ok /\ Getline(i).line = bytes[i] /\ Getline(i).next = i + 1
           /\ i # Behind => Getline(i).next \in i + 1 .. Behind
<1> DEFINE ends == {k \in 1 .. Len(bytes) : k >= i /\ bytes[k].t # "data"}
           j == FirstOf(ends)
<1>1. /\ Getline(i).ok <=> j # Behind \/ (i # Behind /\ end = "closed")
      /\ Getline(i).line = IF j = i /\ i # Behind THEN bytes[i] ELSE ContentByte
      /\ Getline(i).next = IF j = Behind THEN Behind ELSE j + 1
  BY DEF Getline
<1>2. Behind \in Nat /\ Len(bytes) = Behind - 1
  BY DEF Behind
<1>3. ends = {} => j = Behind
  BY DEF FirstOf
<1>4. ends # {} => j \in ends /\ \A k \in ends : j <= k
  <2>1. ends \in SUBSET Nat
    BY <1>2
  <2> HIDE DEF ends
  <2> QED
    BY <2>1, FirstIsLeast
<1>5. ends # {} => j \in i .. Behind - 1
  BY <1>2, <1>4
<1>6. i = Behind => ends = {}
  BY <1>2
<1>7. i # Behind /\ bytes[i].t # "data" => i \in ends
  BY <1>2
<1> HIDE DEF ends, j
<1>8. i = Behind => ~Getline(i).ok /\ Getline(i).next = Behind
  BY <1>1, <1>3, <1>6
<1>9. ASSUME i # Behind, bytes[i].t # "data" PROVE Getline(i).ok /\ Getline(i).line = bytes[i] /\ Getline(i).next = i + 1
  <2>1. j = i
    BY <1>2, <1>4, <1>5, <1>7, <1>9
  <2> QED
    BY <1>1, <1>9, <2>1
<1>10. ASSUME i # Behind PROVE Getline(i).next \in i + 1 .. Behind
  <2>1. CASE ends = {}
    BY <1>1, <1>2, <1>3, <1>10, <2>1
  <2>2. CASE ends # {}
    <3>1. j # Behind /\ j + 1 \in i + 1 .. Behind
      BY <1>2, <1>5, <2>2
    <3> QED
      BY <1>1, <3>1
  <2> QED
    BY <2>1, <2>2
<1> QED
  BY <1>8, <1>9, <1>10

\* Headers are read up to the first blank line.
LEMMA HeadersRead ==
    ASSUME Len(bytes) \in Nat, NEW i \in 1 .. Behind, NEW h \in Nat,
           \A j \in 1 .. h : i - 1 + j <= Len(bytes) => bytes[i - 1 + j] # BlankLine,
           i + h <= Len(bytes) => bytes[i + h] = BlankLine
    PROVE  LET read == ReadHeaders(i)
           IN  IF i + h <= Len(bytes) THEN read.ok /\ read.next = i + h + 1 /\ read.headers = SubSeq(bytes, i, i + h - 1)
               ELSE ~read.ok /\ read.next = Behind
<1> DEFINE blanks == {k \in i .. Len(bytes) : bytes[k] = BlankLine}
           j == FirstOf(blanks)
<1>1. /\ ReadHeaders(i).ok <=> j # Behind
      /\ ReadHeaders(i).headers = SubSeq(bytes, i, j - 1)
      /\ ReadHeaders(i).next = IF j = Behind THEN Behind ELSE j + 1
  BY DEF ReadHeaders
<1>2. Behind \in Nat /\ Len(bytes) = Behind - 1
  BY DEF Behind
<1>3. ASSUME NEW k \in i .. Len(bytes), k < i + h PROVE bytes[k] # BlankLine
  <2> DEFINE m == k - i + 1
  <2>1. m \in 1 .. h /\ i - 1 + m = k
    BY <1>3
  <2> HIDE DEF m
  <2>2. i - 1 + m <= Len(bytes)
    BY <1>2, <2>1
  <2>3. bytes[i - 1 + m] # BlankLine
    BY <2>1, <2>2
  <2> QED
    BY <2>1, <2>3
<1>4. CASE i + h <= Len(bytes)
  <2>1. i + h \in blanks
    BY <1>2, <1>4
  <2>2. j \in blanks /\ \A k \in blanks : j <= k
    <3>1. blanks \in SUBSET Nat /\ blanks # {}
      BY <1>2, <2>1
    <3> HIDE DEF blanks
    <3> QED
      BY <3>1, FirstIsLeast
  <2>3. j = i + h
    <3>1. j \in i .. Len(bytes) /\ j <= i + h
      BY <2>1, <2>2
    <3>2. ~(j < i + h)
      BY <1>3, <2>2, <3>1
    <3> HIDE DEF j
    <3> QED
      BY <1>2, <3>1, <3>2
  <2>4. j # Behind
    BY <1>2, <1>4, <2>3
  <2> HIDE DEF j
  <2> QED
    BY <1>1, <1>4, <2>3, <2>4
<1>5. CASE ~(i + h <= Len(bytes))
  <2>1. blanks = {}
    <3>1. \A k \in i .. Len(bytes) : k < i + h
      BY <1>2, <1>5
    <3> QED
      BY <1>3, <3>1
  <2>2. j = Behind
    BY <2>1 DEF FirstOf
  <2> HIDE DEF j
  <2> QED
    BY <1>1, <1>5, <2>2
<1> QED
  BY <1>4, <1>5

\* Bytes are read, or all that are left.
LEMMA LengthRead ==
    ASSUME Len(bytes) \in Nat, NEW i \in 1 .. Behind, NEW n \in Nat
    PROVE  LET read == ReadLength(i, n)
           IN  IF i + n <= Behind THEN read.ok /\ read.got = n /\ read.next = i + n
               ELSE ~read.ok /\ read.next = Behind
<1>1. Behind \in Nat
  BY DEF Behind
<1> DEFINE got == IF n <= Behind - i THEN n ELSE Behind - i
<1>2. /\ ReadLength(i, n).ok <=> got = n
      /\ ReadLength(i, n).got = got /\ ReadLength(i, n).next = i + got
  BY DEF ReadLength
<1>3. i + n <= Behind => got = n
  BY <1>1
<1>4. ~(i + n <= Behind) => got # n /\ i + got = Behind
  BY <1>1
<1> HIDE DEF got
<1> QED
  BY <1>2, <1>3, <1>4

-----------------------------------------------------------------------------
(* Contents of chunks *)

\* The step of read_content_chunked's loop at a position.
SizeAt(i) == Getline(i)
ChunkAt(i) == ReadLength(SizeAt(i).next, SizeAt(i).line.n)
AfterAt(i) == Getline(ChunkAt(i).next)
IsSize(i) == SizeAt(i).ok /\ SizeAt(i).line.t = "size"
GoesOn(i) ==
    /\ IsSize(i) /\ SizeAt(i).line.n # 0
    /\ ChunkAt(i).ok /\ AfterAt(i).ok /\ AfterAt(i).line = BlankLine
StoppedAt(i) ==
    IF ~IsSize(i) THEN [ok |-> FALSE, got |-> 0, next |-> SizeAt(i).next]
    ELSE IF SizeAt(i).line.n = 0 THEN LastChunk(SizeAt(i).next)
    ELSE IF ~ChunkAt(i).ok THEN ChunkAt(i)
    ELSE [ok |-> AfterAt(i).ok, got |-> ChunkAt(i).got, next |-> AfterAt(i).next]
ChunksFrom(i, g) ==
    IF GoesOn(i) THEN [g[AfterAt(i).next] EXCEPT !.got = @ + ChunkAt(i).got] ELSE StoppedAt(i)

SizesAreNumbers == \A i \in 1 .. Len(bytes) : bytes[i].t = "size" => bytes[i].n \in Nat

\* The loop moves on.
LEMMA ChunkMovesOn ==
    ASSUME Len(bytes) \in Nat, SizesAreNumbers, NEW i \in 1 .. Behind, GoesOn(i)
    PROVE  AfterAt(i).next \in i + 1 .. Behind
<1> DEFINE n == SizeAt(i).line.n
           from == SizeAt(i).next
           to == ChunkAt(i).next
<1>1. Behind \in Nat /\ Len(bytes) = Behind - 1
  BY DEF Behind
<1>2. SizeAt(i).ok /\ SizeAt(i).line.t = "size" /\ n # 0 /\ ChunkAt(i).ok /\ AfterAt(i).ok
  BY DEF GoesOn, IsSize
<1>3. i # Behind
  BY <1>2, LineRead DEF SizeAt
<1>4. from \in i + 1 .. Behind
  BY <1>3, LineRead DEF SizeAt
<1>5. n \in Nat
  <2>1. SizeAt(i).line = bytes[i] \/ SizeAt(i).line = ContentByte
    BY DEF SizeAt, Getline
  <2>2. SizeAt(i).line = bytes[i]
    BY <1>2, <2>1 DEF ContentByte
  <2> QED
    BY <1>1, <1>2, <1>3, <2>2 DEF SizesAreNumbers
<1>6. to \in i + 1 .. Behind
  <2>0. ChunkAt(i) = ReadLength(from, n)
    BY DEF ChunkAt
  <2> HIDE DEF from, n
  <2>1. from \in 1 .. Behind
    BY <1>1, <1>4
  <2>2. from + n <= Behind /\ ChunkAt(i).next = from + n
    BY <1>2, <1>5, <2>0, <2>1, LengthRead
  <2> QED
    BY <1>1, <1>4, <1>5, <2>2
<1>7. to \in 1 .. Behind
  BY <1>1, <1>6
<1>8. AfterAt(i) = Getline(to)
  BY DEF AfterAt
<1> HIDE DEF to
<1>9. CASE to = Behind
  BY <1>2, <1>7, <1>8, <1>9, LineRead
<1>10. CASE to # Behind
  <2>1. AfterAt(i).next \in to + 1 .. Behind
    BY <1>7, <1>8, <1>10, LineRead
  <2> QED
    BY <1>1, <1>6, <2>1
<1> QED
  BY <1>9, <1>10

\* The loop over chunks ends: there is what it reads from every position.
LEMMA ChunksDefined ==
    ASSUME Len(bytes) \in Nat, SizesAreNumbers
    PROVE  \E g : g = [i \in 1 .. Behind |-> ChunksFrom(i, g)]
<1> DEFINE N == Behind
           Upto(m, g) == g = [i \in 1 .. N |-> g[i]] /\ \A i \in 1 .. N : i + m > N => g[i] = ChunksFrom(i, g)
           T == {m \in Nat : \E g : Upto(m, g)}
<1>1. N \in Nat
  BY DEF Behind
<1>2. \A i \in 1 .. N : GoesOn(i) => AfterAt(i).next \in i + 1 .. N
  BY ChunkMovesOn
<1> HIDE DEF N
<1>3. 0 \in T
  <2>1. Upto(0, [i \in 1 .. N |-> 0])
    BY <1>1
  <2> QED
    BY <2>1
<1>4. ASSUME NEW m \in Nat, m \in T PROVE m + 1 \in T
  <2>1. PICK g : Upto(m, g)
    BY <1>4
  <2> DEFINE p == N - m
             h == [i \in 1 .. N |-> IF i = p THEN ChunksFrom(p, g) ELSE g[i]]
  <2>2. p \in Int
    BY <1>1
  <2>3. \A i \in 1 .. N : i + m > N <=> i > p
    BY <1>1
  <2>4. \A i \in 1 .. N : i + (m + 1) > N <=> i > p \/ i = p
    BY <1>1
  <2> HIDE DEF p
  <2>5. h = [i \in 1 .. N |-> h[i]] /\ \A i \in 1 .. N : h[i] = IF i = p THEN ChunksFrom(p, g) ELSE g[i]
    OBVIOUS
  <2> HIDE DEF h
  <2>6. ASSUME NEW i \in 1 .. N, i > p \/ i = p PROVE ChunksFrom(i, h) = ChunksFrom(i, g)
    <3>1. CASE GoesOn(i)
      <4>1. AfterAt(i).next \in i + 1 .. N
        BY <1>2, <3>1
      <4>2. h[AfterAt(i).next] = g[AfterAt(i).next]
        BY <1>1, <2>2, <2>5, <2>6, <4>1
      <4> QED
        BY <4>2 DEF ChunksFrom
    <3>2. CASE ~GoesOn(i)
      BY <3>2 DEF ChunksFrom
    <3> QED
      BY <3>1, <3>2
  <2>7. ASSUME NEW i \in 1 .. N, i + (m + 1) > N PROVE h[i] = ChunksFrom(i, h)
    <3>1. i > p \/ i = p
      BY <2>4, <2>7
    <3>2. CASE i = p
      BY <2>5, <2>6, <3>2
    <3>3. CASE i > p
      <4>1. i # p /\ i + m > N
        BY <2>2, <2>3, <3>3
      <4>2. g[i] = ChunksFrom(i, g)
        BY <2>1, <4>1
      <4> QED
        BY <2>5, <2>6, <3>3, <4>1, <4>2
    <3> QED
      BY <3>1, <3>2, <3>3
  <2>8. Upto(m + 1, h)
    BY <2>5, <2>7
  <2> HIDE DEF Upto
  <2> QED
    BY <2>8
<1>5. N \in T
  <2> HIDE DEF T
  <2> QED
    BY <1>1, <1>3, <1>4, NatSteps
<1>6. PICK g : Upto(N, g)
  BY <1>5
<1>7. g = [i \in 1 .. N |-> g[i]] /\ \A i \in 1 .. N : g[i] = ChunksFrom(i, g)
  BY <1>1, <1>6
<1>8. g = [i \in 1 .. N |-> ChunksFrom(i, g)]
  BY <1>7
<1> QED
  BY <1>8 DEF N

\* The bytes of a content from some token on.
UnitsFrom(content, s) == {j \in s .. Len(content) : content[j].t = "data"}

\* The bytes of a content can be counted.
LEMMA UnitsFinite ==
    ASSUME NEW content, Len(content) \in Nat, NEW s \in Nat
    PROVE  IsFiniteSet(UnitsFrom(content, s)) /\ Cardinality(UnitsFrom(content, s)) \in Nat
<1>1. IsFiniteSet(s .. Len(content))
  BY FS_Interval
<1>2. IsFiniteSet(UnitsFrom(content, s))
  BY <1>1, FS_Subset DEF UnitsFrom
<1> QED
  BY <1>2, FS_CardinalityType

\* A chunk's bytes are as many as its size says.
LEMMA ChunkUnits ==
    ASSUME NEW content, Len(content) \in Nat, NEW s \in 1 .. Len(content), NEW n \in Nat, s + n + 1 <= Len(content),
           content[s].t # "data", content[s + n + 1].t # "data", \A j \in s + 1 .. s + n : content[j].t = "data"
    PROVE  Cardinality(UnitsFrom(content, s)) = n + Cardinality(UnitsFrom(content, s + n + 2))
<1> DEFINE A == s + 1 .. s + n
           B == UnitsFrom(content, s + n + 2)
<1>1. UnitsFrom(content, s) = A \cup B
  <2>1. ASSUME NEW j \in s .. Len(content) PROVE content[j].t = "data" <=> j \in A \/ (j \in s + n + 2 .. Len(content) /\ content[j].t = "data")
    <3>1. j = s \/ j \in s + 1 .. s + n \/ j = s + n + 1 \/ j \in s + n + 2 .. Len(content)
      OBVIOUS
    <3> QED
      BY <3>1
  <2>2. A \subseteq s .. Len(content) /\ s + n + 2 .. Len(content) \subseteq s .. Len(content)
    OBVIOUS
  <2> QED
    BY <2>1, <2>2 DEF UnitsFrom
<1>2. A \cap B = {}
  BY DEF UnitsFrom
<1>3. IsFiniteSet(A) /\ Cardinality(A) = n
  <2> DEFINE a == s + 1
             b == s + n
  <2>0. s \in Int /\ n \in Int /\ n >= 0
    OBVIOUS
  <2>1. a \in Int /\ b \in Int /\ b - a + 1 = n /\ (a > b => n = 0)
    BY <2>0
  <2> HIDE DEF a, b
  <2>2. IsFiniteSet(a .. b) /\ Cardinality(a .. b) = n
    BY <2>1, FS_Interval
  <2> QED
    BY <2>2 DEF a, b
<1>4. IsFiniteSet(B) /\ Cardinality(B) \in Nat
  <2>1. s + n + 2 \in Nat
    OBVIOUS
  <2> QED
    BY <2>1, UnitsFinite
<1> HIDE DEF A, B
<1>5. Cardinality(A \cup B) = Cardinality(A) + Cardinality(B) - Cardinality(A \cap B)
  BY <1>3, <1>4, FS_Union
<1>6. Cardinality(A \cap B) = 0
  BY <1>2, FS_EmptySet
<1> QED
  BY <1>1, <1>3, <1>4, <1>5, <1>6 DEF B

\* What is read of a content of chunks from its token s on, at position i.
ReadFrom(r, content, first, s) ==
    /\ r = [ok |-> r.ok, got |-> r.got, next |-> r.next]
    /\ IF first + Len(content) <= Behind
       THEN r.ok /\ r.got = Cardinality(UnitsFrom(content, s)) /\ r.next = first + Len(content)
       ELSE ~r.ok /\ r.next = Behind

\* What of a content arrives, arrives as it was written.
Arrives(content, first) ==
    /\ Len(content) \in Nat /\ DOMAIN content = 1 .. Len(content)
    /\ \A j \in 1 .. Len(content) : first - 1 + j <= Len(bytes) => bytes[first - 1 + j] = content[j]
    /\ \A j \in 1 .. Len(content) : content[j].t = "size" => content[j].n \in Nat

\* A chunk is read, if what is behind it is.
LEMMA ChunkRead ==
    ASSUME Len(bytes) \in Nat, SizesAreNumbers, NEW first \in 1 .. Behind, NEW content, Arrives(content, first),
           WellChunked(content), NEW s \in 1 .. Len(content), content[s].t = "size", first - 1 + s <= Behind,
           NEW f, f[first - 1 + s] = ChunksFrom(first - 1 + s, f),
           \A m \in 1 .. Len(content) :
              m > s /\ content[m].t = "size" /\ first - 1 + m <= Behind => ReadFrom(f[first - 1 + m], content, first, m)
    PROVE  ReadFrom(f[first - 1 + s], content, first, s)
<1> DEFINE i == first - 1 + s
           n == content[s].n
           L == Len(content)
           r == f[i]
<1>0. Behind \in Nat /\ Len(bytes) = Behind - 1 /\ L \in Nat /\ n \in Nat /\ first \in 1 .. Behind /\ DOMAIN content = 1 .. L
  BY DEF Behind, Arrives
<1>1. /\ n = 0 => s + 1 = L /\ content[s + 1] = BlankLine
      /\ n # 0 => /\ s + n + 2 \in 1 .. L /\ content[s + n + 2].t = "size" /\ content[s + n + 1] = BlankLine
                  /\ \A j \in s + 1 .. s + n : content[j].t = "data"
  BY <1>0 DEF WellChunked
<1>2. i \in 1 .. Behind /\ s <= L /\ first + L > i
  BY <1>0
<1>3. r = ChunksFrom(i, f)
  OBVIOUS
<1>4. \A j \in 1 .. L : first - 1 + j < Behind => bytes[first - 1 + j] = content[j]
  BY <1>0 DEF Arrives
<1> HIDE DEF i, n, L, r
<1>5. CASE i = Behind
  <2>1. ~SizeAt(i).ok /\ SizeAt(i).next = Behind
    BY <1>0, <1>2, <1>5, LineRead DEF SizeAt
  <2>2. ~IsSize(i) /\ ~GoesOn(i)
    BY <2>1 DEF IsSize, GoesOn
  <2>3. r = [ok |-> FALSE, got |-> 0, next |-> Behind]
    BY <1>3, <2>1, <2>2 DEF ChunksFrom, StoppedAt
  <2>4. ~(first + L <= Behind)
    BY <1>0, <1>2, <1>5
  <2> QED
    BY <2>3, <2>4 DEF ReadFrom, r, i, L
<1>6. CASE i # Behind
  <2>0. bytes[i] = content[s]
    <3>1. first - 1 + s < Behind
      BY <1>0, <1>2, <1>6 DEF i
    <3> QED
      BY <1>4, <3>1 DEF i, L
  <2>1. SizeAt(i).ok /\ SizeAt(i).line = content[s] /\ SizeAt(i).next = i + 1
    BY <1>0, <1>2, <1>6, <2>0, LineRead DEF SizeAt
  <2>2. IsSize(i) /\ SizeAt(i).line.n = n
    BY <2>1 DEF IsSize, n
  <2>3. i + 1 \in 1 .. Behind
    BY <1>0, <1>2, <1>6
  <2>4. CASE n = 0
    <3>1. ~GoesOn(i)
      BY <2>2, <2>4 DEF GoesOn
    <3>2. r = LastChunk(i + 1)
      BY <1>3, <2>1, <2>2, <2>4, <3>1 DEF ChunksFrom, StoppedAt
    <3>3. /\ r.ok <=> Getline(i + 1).ok /\ Getline(i + 1).line = BlankLine
          /\ r.got = 0 /\ r.next = Getline(i + 1).next /\ r = [ok |-> r.ok, got |-> r.got, next |-> r.next]
      BY <3>2 DEF LastChunk
    <3>4. first + L = i + 2
      BY <1>0, <1>1, <1>2, <2>4, SMTT(30) DEF i
    <3>5. CASE i + 1 = Behind
      <4>1. ~Getline(i + 1).ok /\ Getline(i + 1).next = Behind
        BY <1>0, <2>3, <3>5, LineRead
      <4>2. ~(first + L <= Behind)
        BY <1>0, <1>2, <3>4, <3>5
      <4> QED
        BY <3>3, <4>1, <4>2 DEF ReadFrom, r, i, L
    <3>6. CASE i + 1 # Behind
      <4>1. bytes[i + 1] = BlankLine
        <5> DEFINE j == s + 1
        <5>1. j \in 1 .. L /\ first - 1 + j < Behind /\ first - 1 + j = i + 1
          BY <1>0, <1>1, <1>2, <2>3, <2>4, <3>6 DEF i
        <5> HIDE DEF j
        <5>2. bytes[first - 1 + j] = content[j]
          BY <1>4, <5>1
        <5> QED
          BY <1>1, <2>4, <5>1, <5>2 DEF j
      <4>2. Getline(i + 1).ok /\ Getline(i + 1).line = BlankLine /\ Getline(i + 1).next = i + 1 + 1
        BY <1>0, <2>3, <3>6, <4>1, LineRead DEF BlankLine
      <4>3. first + L <= Behind /\ i + 1 + 1 = first + L
        BY <1>0, <1>2, <2>3, <3>4, <3>6
      <4>4. Cardinality(UnitsFrom(content, s)) = 0
        <5>1. \A j \in s .. L : j = s \/ j = s + 1
          BY <1>0, <1>1, <2>4
        <5>2. UnitsFrom(content, s) = {}
          BY <1>1, <2>4, <5>1 DEF UnitsFrom, BlankLine, L
        <5> QED
          BY <5>2, FS_EmptySet
      <4> QED
        BY <3>3, <4>2, <4>3, <4>4 DEF ReadFrom, r, i, L
    <3> QED
      BY <3>5, <3>6
  <2>5. CASE n # 0
    <3> DEFINE q == i + 1 + n
    <3>0. ChunkAt(i) = ReadLength(i + 1, n)
      BY <2>1, <2>2 DEF ChunkAt
    <3>1. IF q <= Behind THEN ChunkAt(i).ok /\ ChunkAt(i).got = n /\ ChunkAt(i).next = q
          ELSE ~ChunkAt(i).ok /\ ChunkAt(i).next = Behind
      <4> DEFINE from == i + 1
      <4>1. from \in 1 .. Behind /\ ChunkAt(i) = ReadLength(from, n) /\ q = from + n
        BY <2>3, <3>0
      <4> HIDE DEF from, q
      <4>2. IF from + n <= Behind THEN ReadLength(from, n).ok /\ ReadLength(from, n).got = n /\ ReadLength(from, n).next = from + n
            ELSE ~ReadLength(from, n).ok /\ ReadLength(from, n).next = Behind
        BY <1>0, <4>1, LengthRead
      <4> QED
        BY <4>1, <4>2
    <3>2. ChunkAt(i) = [ok |-> ChunkAt(i).ok, got |-> ChunkAt(i).got, next |-> ChunkAt(i).next]
      BY <3>0 DEF ReadLength
    <3>3. q \in Nat /\ first + L >= q + 2 - 1
      BY <1>0, <1>1, <1>2, <2>5, SMTT(30) DEF i
    <3>4. CASE ~(q <= Behind)
      <4>1. ~GoesOn(i)
        BY <3>1, <3>4 DEF GoesOn
      <4>2. r = ChunkAt(i)
        BY <1>3, <2>2, <2>5, <3>1, <3>4, <4>1 DEF ChunksFrom, StoppedAt
      <4>3. ~(first + L <= Behind)
        BY <1>0, <3>3, <3>4
      <4> HIDE DEF q
      <4> QED
        BY <3>1, <3>2, <3>4, <4>2, <4>3 DEF ReadFrom, r, i, L
    <3>5. CASE q <= Behind
      <4>0. q \in 1 .. Behind
        BY <1>0, <2>3, <3>3, <3>5
      <4>1. ChunkAt(i).ok /\ ChunkAt(i).got = n /\ AfterAt(i) = Getline(q)
        BY <3>1, <3>5 DEF AfterAt
      <4>2. CASE q = Behind
        <5>1. ~AfterAt(i).ok /\ AfterAt(i).next = Behind
          BY <1>0, <4>0, <4>1, <4>2, LineRead
        <5>2. ~GoesOn(i)
          BY <5>1 DEF GoesOn
        <5>3. r = [ok |-> AfterAt(i).ok, got |-> ChunkAt(i).got, next |-> AfterAt(i).next]
          BY <1>3, <2>2, <2>5, <4>1, <5>2 DEF ChunksFrom, StoppedAt
        <5>4. ~(first + L <= Behind)
          BY <1>0, <3>3, <4>2
        <5>5. r = [ok |-> r.ok, got |-> r.got, next |-> r.next] /\ ~r.ok /\ r.next = Behind
          BY <5>1, <5>3
        <5> QED
          BY <5>4, <5>5 DEF ReadFrom, r, i, L
      <4>3. CASE q # Behind
        <5> DEFINE m == s + n + 2
        <5>1. bytes[q] = BlankLine
          <6> DEFINE j == s + n + 1
          <6>1. j \in 1 .. L /\ first - 1 + j < Behind /\ first - 1 + j = q
            BY <1>0, <1>1, <1>2, <2>5, <4>0, <4>3 DEF i
          <6>2. content[j] = BlankLine
            BY <1>1, <2>5
          <6> HIDE DEF j, q
          <6>3. bytes[first - 1 + j] = content[j]
            BY <1>4, <6>1
          <6> QED
            BY <6>1, <6>2, <6>3
        <5>2. AfterAt(i).ok /\ AfterAt(i).line = BlankLine /\ AfterAt(i).next = q + 1
          <6> HIDE DEF q
          <6> QED
            BY <1>0, <4>0, <4>1, <4>3, <5>1, LineRead DEF BlankLine
        <5>3. GoesOn(i)
          BY <2>2, <2>5, <4>1, <5>2 DEF GoesOn
        <5>4. m \in 1 .. L /\ m > s /\ content[m].t = "size" /\ first - 1 + m <= Behind /\ first - 1 + m = q + 1
          BY <1>0, <1>1, <1>2, <2>5, <4>0, <4>3 DEF i
        <5>5. Cardinality(UnitsFrom(content, s)) = n + Cardinality(UnitsFrom(content, m))
          <6>1. /\ L \in Nat /\ s + n + 1 <= L /\ content[s].t # "data" /\ content[s + n + 1].t # "data"
                /\ \A j \in s + 1 .. s + n : content[j].t = "data"
            BY <1>0, <1>1, <2>5, <5>4 DEF BlankLine
          <6> QED
            BY <1>0, <6>1, ChunkUnits DEF L
        <5>6. Cardinality(UnitsFrom(content, m)) \in Nat
          BY <1>0, <5>4, UnitsFinite DEF L
        <5> HIDE DEF m, q
        <5> DEFINE more == f[q + 1]
        <5>7. ReadFrom(more, content, first, m)
          BY <5>4 DEF L
        <5>8. r = [more EXCEPT !.got = @ + n]
          BY <1>3, <4>1, <5>2, <5>3 DEF ChunksFrom
        <5> HIDE DEF more
        <5>9. /\ r = [ok |-> r.ok, got |-> r.got, next |-> r.next]
              /\ r.ok = more.ok /\ r.got = more.got + n /\ r.next = more.next
          BY <5>7, <5>8 DEF ReadFrom
        <5>10. CASE first + L <= Behind
          BY <1>0, <5>5, <5>6, <5>7, <5>9, <5>10 DEF ReadFrom, r, i, L
        <5>11. CASE ~(first + L <= Behind)
          BY <5>7, <5>9, <5>11 DEF ReadFrom, r, i, L
        <5> QED
          BY <5>10, <5>11
      <4> QED
        BY <4>2, <4>3
    <3> QED
      BY <3>4, <3>5
  <2> QED
    BY <2>4, <2>5
<1> QED
  BY <1>5, <1>6 DEF i

\* A content of chunks is read to its end, or to the end of the bytes.
LEMMA ChunksRead ==
    ASSUME Len(bytes) \in Nat, SizesAreNumbers, NEW first \in 1 .. Behind, NEW content, Arrives(content, first),
           WellChunked(content)
    PROVE  ReadFrom(ReadChunks(first), content, first, 1)
<1> DEFINE Body(i, g) ==
               LET size == Getline(i)
                   chunk == ReadLength(size.next, size.line.n)
                   after == Getline(chunk.next)
               IN  IF ~size.ok \/ size.line.t # "size" THEN [ok |-> FALSE, got |-> 0, next |-> size.next]
                   ELSE IF size.line.n = 0 THEN LastChunk(size.next)
                   ELSE IF ~chunk.ok THEN chunk
                   ELSE IF ~after.ok \/ after.line # BlankLine THEN [ok |-> after.ok, got |-> chunk.got, next |-> after.next]
                   ELSE [g[after.next] EXCEPT !.got = @ + chunk.got]
           F(g) == g = [i \in 1 .. Behind |-> Body(i, g)]
           f == CHOOSE g : F(g)
           L == Len(content)
           Fails == {s \in 1 .. L : content[s].t = "size" /\ first - 1 + s <= Behind
                                       /\ ~ReadFrom(f[first - 1 + s], content, first, s)}
<1>0. Behind \in Nat /\ L \in Nat /\ DOMAIN content = 1 .. L
  BY DEF Behind, Arrives
<1>1. ReadChunks(first) = f[first]
  BY DEF ReadChunks
<1>2. ASSUME NEW i, NEW g PROVE Body(i, g) = ChunksFrom(i, g)
  BY DEF ChunksFrom, GoesOn, StoppedAt, IsSize, SizeAt, ChunkAt, AfterAt
<1> HIDE DEF Body
<1>3. \E g : F(g)
  <2>1. PICK g : g = [i \in 1 .. Behind |-> ChunksFrom(i, g)]
    BY ChunksDefined
  <2>2. F(g)
    BY <1>2, <2>1
  <2> QED
    BY <2>2
<1>4. F(f)
  <2> HIDE DEF F
  <2> QED
    BY <1>3
<1> HIDE DEF f
<1>5. \A i \in 1 .. Behind : f[i] = ChunksFrom(i, f)
  BY <1>2, <1>4
<1>6. 1 \in 1 .. L /\ content[1].t = "size"
  BY <1>0 DEF WellChunked
<1>7. Fails = {}
  <2> SUFFICES ASSUME Fails # {} PROVE FALSE
    OBVIOUS
  <2> DEFINE left == {L - s : s \in Fails}
  <2>1. left \in SUBSET Nat /\ left # {}
    BY <1>0
  <2>2. PICK d \in left : \A e \in left : d <= e
    <3> HIDE DEF left
    <3> QED
      BY <2>1, LeastMember
  <2>3. PICK s \in Fails : d = L - s
    BY <2>2
  <2>4. ASSUME NEW m \in 1 .. L, m > s, content[m].t = "size", first - 1 + m <= Behind
        PROVE  ReadFrom(f[first - 1 + m], content, first, m)
    <3>1. m \notin Fails
      <4> SUFFICES ASSUME m \in Fails PROVE FALSE
        OBVIOUS
      <4>1. L - m \in left
        OBVIOUS
      <4>2. d <= L - m /\ s \in 1 .. L
        BY <2>2, <2>3, <4>1
      <4> QED
        BY <1>0, <2>3, <2>4, <4>2
    <3> QED
      BY <2>4, <3>1
  <2>5. first - 1 + s \in 1 .. Behind
    BY <1>0, <2>3
  <2>6. f[first - 1 + s] = ChunksFrom(first - 1 + s, f)
    BY <1>5, <2>5
  <2>7. s \in 1 .. L /\ content[s].t = "size" /\ first - 1 + s <= Behind
    BY <2>3
  <2>8. ReadFrom(f[first - 1 + s], content, first, s)
    <3> HIDE DEF Fails
    <3> QED
      BY <2>4, <2>6, <2>7, ChunkRead
  <2> QED
    BY <2>3, <2>8
<1>8. first - 1 + 1 = first /\ first <= Behind
  BY <1>0
<1>9. ReadFrom(f[first - 1 + 1], content, first, 1)
  BY <1>6, <1>7, <1>8
<1> QED
  BY <1>1, <1>8, <1>9

-----------------------------------------------------------------------------
(* The invariant *)

\* What arrives is a part of what was written.
Streamed ==
    /\ script \in Scripts /\ Len(bytes) \in Nat /\ Len(bytes) <= Len(Written(script))
    /\ \A i \in 1 .. Len(bytes) : bytes[i] = Written(script)[i]

\* The answers so far that are final.
Answered == Finals(Len(answers))

\* Each final answer counts.
Counted ==
    /\ stage \in {"line", "headers", "expect", "content", "handle", "write", "ended"}
    /\ count \in Nat /\ answers \in Seq(Range(answers)) /\ Answered \in Nat
    /\ Answered <= KeepAliveMax /\ (stage # "ended" => count + Answered = KeepAliveMax)
    /\ count = 0 => stage \in {"line", "ended"}

\* Requests and responses have their fields, and are fresh for each request.
Shaped ==
    /\ req = [of |-> req.of, method |-> req.method, path |-> req.path, version |-> req.version,
              headers |-> req.headers, ranges |-> req.ranges, got |-> req.got]
    /\ stage = "line" => req = NoRequest /\ closed = FALSE
    /\ stage # "write" => res = NoResponse
    /\ stage = "write" =>
          /\ res = [status |-> res.status, body |-> res.body, routed |-> res.routed]
          /\ res.status \in {-1, 400, 413, 414, 416, 500}
          /\ res.routed \in BOOLEAN /\ (~res.routed /\ res.body # <<>> => res.status = 500)

\* The end of a connection is announced by its last answer only.
Announced ==
    /\ stage \notin {"line", "ended"} => \A i \in DOMAIN answers : ~answers[i].close
    /\ stage = "line" /\ (\E i \in DOMAIN answers : answers[i].close) => count = 0 \/ position = Behind
    /\ stage \in {"expect", "content", "handle", "write"} /\ get_header_value(req, "Connection") = TextValue("close") =>
          closed \/ (stage = "write" /\ position = Behind)

\* Where request k ends in the bytes, and where the next one is read.
EndOf(k) == Place(script)[k]
NextAfter(k) == IF EndOf(k) + 1 <= Behind THEN EndOf(k) + 1 ELSE Behind

\* Request k, which is whole, is being read or answered.
Reading(k) ==
    LET request == script[k]
        first == EndOf(k - 1) + 1
        content == first + Len(request.headers) + 2
    IN  /\ req.of = k /\ req.method = request.method /\ req.version = request.version
        /\ stage = "headers" => position = first + 1 /\ position <= Behind
        /\ stage \in {"headers", "expect", "content"} => req.got = 0
        /\ stage \in {"expect", "content"} =>
              position = content /\ position <= Behind /\ req.headers = request.headers
        /\ stage \in {"handle", "write"} => position = NextAfter(k)
        /\ stage = "handle" => req.got = UnitsOf(request)
        /\ stage = "write" => req.got = UnitsOf(request) \/ (res.status # -1 /\ res.routed = FALSE)

\* The server is where its client is, as long as the requests are whole.
Along ==
    AllWhole(Answered) =>
        /\ stage = "line" => position = NextAfter(Answered)
        /\ stage \notin {"line", "ended"} /\ AllWhole(Answered + 1) => Reading(Answered + 1)

\* All of a script of whole requests arrives.
Complete == bytes = Written(script) /\ AllWhole(Len(script))

\* Then no request is left out.
AllRead ==
    Complete =>
        /\ Answered <= Len(script)
        /\ stage # "ended" => \A j \in 1 .. Answered : ~AsksEnd(script[j])
        /\ stage \notin {"line", "ended"} => Answered + 1 <= Len(script)
        /\ stage \in {"expect", "content", "handle", "write"} => (closed <=> AsksEnd(script[Answered + 1]))

HttpInv ==
    /\ Streamed /\ Counted /\ Shaped /\ Announced /\ Along /\ AllRead
    /\ InStep /\ AllAnswered /\ CloseIsLast /\ LengthTold
-----------------------------------------------------------------------------
(* Requests in the bytes that arrive *)

\* Request k, as far as it arrives.
Lies(k) ==
    LET request == script[k]
        from == EndOf(k - 1)
        h == Len(request.headers)
        c == Len(request.content)
    IN  /\ h \in Nat /\ c \in Nat /\ from \in Nat /\ EndOf(k) = from + h + 2 + c
        /\ from + 1 <= Len(bytes) => bytes[from + 1] = LineOf(k, request)
        /\ from + h + 2 <= Len(bytes) => bytes[from + h + 2] = BlankLine
        /\ \A j \in 1 .. h : from + 1 + j <= Len(bytes) => bytes[from + 1 + j] = request.headers[j]
        /\ \A j \in 1 .. c : from + h + 2 + j <= Len(bytes) => bytes[from + h + 2 + j] = request.content[j]

\* The requests of the script lie one after the other in what is written.
LEMMA ScriptPlaced ==
    ASSUME Streamed
    PROVE  /\ Placed(Place(script), script, Written(script)) /\ Len(script) \in Nat /\ Len(Written(script)) \in Nat
           /\ DOMAIN script = 1 .. Len(script)
           /\ \A k \in 1 .. Len(script) : IsRequest(script[k])
<1>1. script \in Scripts
  BY DEF Streamed
<1>2. /\ Placed(Place(script), script, Written(script)) /\ Written(script) \in Seq(Range(Written(script)))
      /\ Len(script) \in Nat /\ \A k \in 1 .. Len(script) : IsRequest(script[k])
  BY <1>1, WrittenPlaced
<1>3. script \in Seq(Range(script))
  BY <1>1, RequestAssumption
<1>4. DOMAIN script = 1 .. Len(script)
  BY <1>3
<1>5. Len(Written(script)) \in Nat
  BY <1>2
<1> QED
  BY <1>2, <1>4, <1>5

\* What arrives of a request is what was written of it.
LEMMA RequestsLie ==
    ASSUME Streamed
    PROVE  \A k \in 1 .. Len(script) : Lies(k)
<1> DEFINE w == Written(script)
<1>1. Placed(Place(script), script, w) /\ Len(w) \in Nat
  BY ScriptPlaced
<1>2. Len(bytes) \in Nat /\ Len(bytes) <= Len(w) /\ \A i \in 1 .. Len(bytes) : bytes[i] = w[i]
  BY DEF Streamed
<1> HIDE DEF w
<1>3. ASSUME NEW k \in 1 .. Len(script) PROVE Lies(k)
  <2> DEFINE r == script[k]
             from == EndOf(k - 1)
             h == Len(r.headers)
             c == Len(r.content)
  <2>1. /\ h \in Nat /\ c \in Nat /\ from \in Nat /\ EndOf(k) = from + h + 2 + c
        /\ w[from + 1] = LineOf(k, r) /\ w[from + h + 2] = BlankLine
        /\ \A j \in 1 .. h : w[from + 1 + j] = r.headers[j]
        /\ \A j \in 1 .. c : w[from + h + 2 + j] = r.content[j]
    BY <1>1 DEF Placed, EndOf
  <2> HIDE DEF r, from, h, c
  <2>2. /\ from + 1 >= 1 /\ from + h + 2 >= 1 /\ from + 1 \in Int /\ from + h + 2 \in Int
        /\ \A j \in 1 .. h : from + 1 + j >= 1 /\ from + 1 + j \in Int
        /\ \A j \in 1 .. c : from + h + 2 + j >= 1 /\ from + h + 2 + j \in Int
    <3>1. h \in Nat /\ c \in Nat /\ from \in Nat
      BY <2>1
    <3> QED
      BY <3>1
  <2>3. from + 1 <= Len(bytes) => bytes[from + 1] = LineOf(k, r)
    BY <1>2, <2>1, <2>2
  <2>4. from + h + 2 <= Len(bytes) => bytes[from + h + 2] = BlankLine
    BY <1>2, <2>1, <2>2
  <2>5. \A j \in 1 .. h : from + 1 + j <= Len(bytes) => bytes[from + 1 + j] = r.headers[j]
    BY <1>2, <2>1, <2>2
  <2>6. \A j \in 1 .. c : from + h + 2 + j <= Len(bytes) => bytes[from + h + 2 + j] = r.content[j]
    BY <1>2, <2>1, <2>2
  <2> QED
    BY <2>1, <2>3, <2>4, <2>5, <2>6 DEF Lies, r, from, h, c
<1> QED
  BY <1>3

\* Each request ends behind the one before it.
LEMMA EndsGrow ==
    ASSUME Streamed
    PROVE  /\ EndOf(0) = 0 /\ EndOf(Len(script)) = Len(Written(script))
           /\ \A k \in 0 .. Len(script) : EndOf(k) \in Nat /\ EndOf(k) <= Len(Written(script))
           /\ \A k \in 1 .. Len(script) : EndOf(k - 1) + 2 <= EndOf(k)
<1> DEFINE n == Len(script)
           last == Len(Written(script))
           Beyond == {k \in 0 .. n : EndOf(k) > last}
<1>1. n \in Nat /\ last \in Nat
  BY ScriptPlaced
<1>2. EndOf(0) = 0 /\ EndOf(n) = last /\ \A k \in 0 .. n : EndOf(k) \in Nat
  BY ScriptPlaced DEF Placed, EndOf
<1>3. \A k \in 1 .. n : EndOf(k - 1) + 2 <= EndOf(k)
  <2>1. ASSUME NEW k \in 1 .. n PROVE EndOf(k - 1) + 2 <= EndOf(k)
    <3>1. Lies(k)
      BY RequestsLie
    <3> DEFINE h == Len(script[k].headers)
               c == Len(script[k].content)
               from == EndOf(k - 1)
               to == EndOf(k)
    <3>2. h \in Nat /\ c \in Nat /\ from \in Nat /\ to = from + h + 2 + c
      BY <3>1 DEF Lies
    <3> HIDE DEF h, c, from, to
    <3>3. from + 2 <= to
      BY <3>2
    <3> QED
      BY <3>3 DEF from, to
  <2> QED
    BY <2>1
<1> HIDE DEF n, last
<1>4. Beyond = {}
  <2> SUFFICES ASSUME Beyond # {} PROVE FALSE
    OBVIOUS
  <2> DEFINE left == {n - k : k \in Beyond}
  <2>1. left \in SUBSET Nat /\ left # {}
    BY <1>1
  <2>2. PICK d \in left : \A e \in left : d <= e
    <3> HIDE DEF left
    <3> QED
      BY <2>1, LeastMember
  <2>3. PICK k \in Beyond : d = n - k
    BY <2>2
  <2>4. k \in 0 .. n /\ EndOf(k) > last /\ EndOf(k) \in Nat
    BY <1>2, <2>3
  <2>5. k # n
    BY <1>1, <1>2, <2>4
  <2> DEFINE m == k + 1
  <2>6. m \in 1 .. n /\ m \in 0 .. n /\ m - 1 = k /\ n - m < d
    BY <1>1, <2>3, <2>4, <2>5
  <2> HIDE DEF m
  <2>7. EndOf(m) \in Nat /\ EndOf(k) + 2 <= EndOf(m)
    BY <1>2, <1>3, <2>6
  <2>8. m \in Beyond
    BY <1>1, <2>4, <2>6, <2>7
  <2>9. n - m \in left
    BY <2>8
  <2> HIDE DEF left, Beyond
  <2>10. d <= n - m /\ d \in Int /\ n - m \in Int
    BY <1>1, <2>1, <2>2, <2>6, <2>9
  <2> QED
    BY <2>6, <2>10
<1>5. \A k \in 0 .. n : EndOf(k) <= last
  BY <1>1, <1>2, <1>4
<1> QED
  BY <1>2, <1>3, <1>5 DEF n, last

\* The byte at i is one of request k.
IsByteOf(i, k) ==
    LET request == script[k]
    IN  \/ i = EndOf(k - 1) + 1 /\ bytes[i] = LineOf(k, request)
        \/ bytes[i] = BlankLine
        \/ \E j \in DOMAIN request.headers : bytes[i] = request.headers[j]
        \/ \E j \in DOMAIN request.content : bytes[i] = request.content[j]

\* Every byte is one of some request.
LEMMA ByteOfRequest ==
    ASSUME Streamed, NEW i \in 1 .. Len(bytes)
    PROVE  \E k \in 1 .. Len(script) : IsByteOf(i, k)
<1> DEFINE n == Len(script)
           last == Len(Written(script))
<1>1. n \in Nat /\ last \in Nat /\ Len(bytes) \in Nat /\ Len(bytes) <= last
  BY ScriptPlaced DEF Streamed
<1>2. /\ EndOf(0) = 0 /\ EndOf(n) = last
      /\ \A k \in 0 .. n : EndOf(k) \in Nat
  BY EndsGrow
<1> HIDE DEF n, last
<1>3. \E k \in 1 .. n : IsByteOf(i, k)
  <2> DEFINE Past == {k \in 0 .. n : EndOf(k) >= i}
  <2>1. n \in Past
    BY <1>1, <1>2
  <2>2. PICK k \in Past : \A m \in Past : k <= m
    <3>1. Past \in SUBSET Nat /\ Past # {}
      BY <1>1, <2>1
    <3> HIDE DEF Past
    <3> QED
      BY <3>1, LeastMember
  <2>3. k \in 0 .. n /\ EndOf(k) >= i /\ k # 0
    BY <1>1, <1>2, <2>2
  <2>4. k \in 1 .. n /\ k - 1 \in 0 .. n
    BY <1>1, <2>3
  <2>5. EndOf(k - 1) < i
    <3>1. k - 1 \notin Past
      <4>1. ~(k <= k - 1)
        BY <2>4
      <4> HIDE DEF Past
      <4> QED
        BY <2>2, <4>1
    <3> QED
      BY <1>1, <1>2, <2>4, <3>1
  <2>6. Lies(k) /\ IsRequest(script[k])
    BY <2>4, RequestsLie, ScriptPlaced DEF n
  <2> DEFINE r == script[k]
             from == EndOf(k - 1)
             h == Len(r.headers)
             c == Len(r.content)
             j == i - from
  <2>7. /\ h \in Nat /\ c \in Nat /\ from \in Nat /\ EndOf(k) = from + h + 2 + c
        /\ from + 1 <= Len(bytes) => bytes[from + 1] = LineOf(k, r)
        /\ from + h + 2 <= Len(bytes) => bytes[from + h + 2] = BlankLine
        /\ \A m \in 1 .. h : from + 1 + m <= Len(bytes) => bytes[from + 1 + m] = r.headers[m]
        /\ \A m \in 1 .. c : from + h + 2 + m <= Len(bytes) => bytes[from + h + 2 + m] = r.content[m]
    BY <2>6 DEF Lies
  <2>8. DOMAIN r.headers = 1 .. h /\ DOMAIN r.content = 1 .. c
    BY <2>6 DEF IsRequest
  <2> HIDE DEF r, h, c, from
  <2>10. j \in 1 .. h + 2 + c /\ from + j = i
    BY <1>1, <2>3, <2>5, <2>7 DEF from
  <2> HIDE DEF j
  <2>11. ASSUME j = 1 PROVE IsByteOf(i, k)
    <3>1. i = from + 1 /\ bytes[i] = LineOf(k, r)
      BY <1>1, <2>7, <2>10, <2>11
    <3> QED
      BY <3>1 DEF IsByteOf, r, from
  <2>12. ASSUME j = h + 2 PROVE IsByteOf(i, k)
    <3>1. from + h + 2 = i
      BY <2>7, <2>10, <2>12
    <3>2. bytes[i] = BlankLine
      BY <1>1, <2>7, <3>1
    <3> QED
      BY <3>2 DEF IsByteOf
  <2>13. ASSUME j > 1 /\ j < h + 2 PROVE IsByteOf(i, k)
    <3> DEFINE m == j - 1
    <3>1. m \in 1 .. h /\ from + 1 + m = i
      BY <2>7, <2>10, <2>13
    <3> HIDE DEF m
    <3>2. bytes[from + 1 + m] = r.headers[m]
      BY <1>1, <2>7, <3>1
    <3>3. m \in DOMAIN r.headers /\ bytes[i] = r.headers[m]
      BY <2>8, <3>1, <3>2
    <3> QED
      BY <3>3 DEF IsByteOf, r
  <2>14. ASSUME j > h + 2 PROVE IsByteOf(i, k)
    <3> DEFINE m == j - (h + 2)
    <3>0. h \in Nat /\ c \in Nat /\ from \in Nat /\ j \in Int /\ j <= h + 2 + c /\ from + j = i
      BY <2>7, <2>10
    <3>1. m \in 1 .. c /\ from + h + 2 + m = i
      BY <2>14, <3>0
    <3> HIDE DEF m
    <3>2. bytes[from + h + 2 + m] = r.content[m]
      BY <1>1, <2>7, <3>1
    <3>3. m \in DOMAIN r.content /\ bytes[i] = r.content[m]
      BY <2>8, <3>1, <3>2
    <3> QED
      BY <3>3 DEF IsByteOf, r
  <2>15. IsByteOf(i, k)
    BY <2>7, <2>10, <2>11, <2>12, <2>13, <2>14
  <2> QED
    BY <2>4, <2>15
<1> QED
  BY <1>3 DEF n

\* The sizes of chunks are numbers.
LEMMA SizesNumbered ==
    ASSUME Streamed
    PROVE  SizesAreNumbers
<1>1. ASSUME NEW i \in 1 .. Len(bytes), bytes[i].t = "size" PROVE bytes[i].n \in Nat
  <2>1. PICK k \in 1 .. Len(script) : IsByteOf(i, k)
    BY ByteOfRequest
  <2>2. IsRequest(script[k])
    BY ScriptPlaced
  <2>3. bytes[i] # LineOf(k, script[k]) /\ bytes[i] # BlankLine
    BY <1>1 DEF LineOf, BlankLine
  <2>4. \A j \in DOMAIN script[k].headers : bytes[i] # script[k].headers[j]
    BY <1>1, <2>2 DEF IsRequest
  <2>5. PICK j \in DOMAIN script[k].content : bytes[i] = script[k].content[j]
    BY <2>1, <2>3, <2>4 DEF IsByteOf
  <2> QED
    BY <1>1, <2>2, <2>5 DEF IsRequest
<1> QED
  BY <1>1 DEF SizesAreNumbers

\* A request's line is where the request begins.
LEMMA LineBegins ==
    ASSUME Streamed, NEW i \in 1 .. Len(bytes), bytes[i].t = "line"
    PROVE  \E k \in 1 .. Len(script) : i = EndOf(k - 1) + 1 /\ bytes[i] = LineOf(k, script[k]) /\ bytes[i].of = k
<1>1. PICK k \in 1 .. Len(script) : IsByteOf(i, k)
  BY ByteOfRequest
<1>2. IsRequest(script[k])
  BY ScriptPlaced
<1>3. bytes[i] # BlankLine
  BY DEF BlankLine
<1>4. \A j \in DOMAIN script[k].headers : bytes[i] # script[k].headers[j]
  BY <1>2 DEF IsRequest
<1>5. \A j \in DOMAIN script[k].content : bytes[i] # script[k].content[j]
  BY <1>2 DEF IsRequest
<1>6. i = EndOf(k - 1) + 1 /\ bytes[i] = LineOf(k, script[k])
  BY <1>1, <1>3, <1>4, <1>5 DEF IsByteOf
<1> QED
  BY <1>6 DEF LineOf

-----------------------------------------------------------------------------
(* Answers *)

\* How many of the first n answers of a sequence are final.
FinalsOf(a, n) == Cardinality({i \in 1 .. n : a[i].status # 100})

\* Final answers can be counted.
LEMMA FinalsCount ==
    ASSUME NEW a, NEW n \in Nat
    PROVE  FinalsOf(a, n) \in Nat /\ IsFiniteSet({i \in 1 .. n : a[i].status # 100})
<1>1. IsFiniteSet(1 .. n)
  BY FS_Interval
<1>2. IsFiniteSet({i \in 1 .. n : a[i].status # 100})
  BY <1>1, FS_Subset
<1> QED
  BY <1>2, FS_CardinalityType DEF FinalsOf

\* b has x behind what a has.
Appended(a, b, x) ==
    /\ b \in Seq(Range(b)) /\ Len(a) \in Nat /\ Len(b) = Len(a) + 1
    /\ DOMAIN a = 1 .. Len(a) /\ DOMAIN b = 1 .. Len(a) + 1
    /\ b[Len(a) + 1] = x /\ \A i \in 1 .. Len(a) : b[i] = a[i]
    /\ \A n \in 0 .. Len(a) : FinalsOf(b, n) = FinalsOf(a, n)
    /\ FinalsOf(b, Len(a) + 1) = IF x.status # 100 THEN FinalsOf(a, Len(a)) + 1 ELSE FinalsOf(a, Len(a))

\* One answer more, in sequences.
LEMMA FinalsAppended ==
    ASSUME NEW a, a \in Seq(Range(a)), NEW x, NEW b, b = Append(a, x)
    PROVE  Appended(a, b, x)
<1> DEFINE U == Range(a) \cup {x}
           len == Len(a)
<1>1. a \in Seq(U) /\ x \in U
  OBVIOUS
<1>2. /\ b \in Seq(U) /\ Len(b) = len + 1
      /\ \A i \in 1 .. len : b[i] = a[i]
      /\ b[len + 1] = x
  <2> HIDE DEF U
  <2> QED
    BY <1>1, AppendProperties
<1>3. len \in Nat /\ DOMAIN a = 1 .. len /\ DOMAIN b = 1 .. len + 1
  BY <1>1, <1>2
<1>4. b \in Seq(Range(b))
  <2> HIDE DEF U
  <2> QED
    BY <1>2, SequenceOfItsOwn
<1> HIDE DEF len, U
<1>5. ASSUME NEW n \in 0 .. len PROVE FinalsOf(b, n) = FinalsOf(a, n)
  <2>1. \A i \in 1 .. n : b[i] = a[i]
    BY <1>2, <1>3
  <2>2. {i \in 1 .. n : b[i].status # 100} = {i \in 1 .. n : a[i].status # 100}
    BY <2>1
  <2> QED
    BY <2>2 DEF FinalsOf
<1>6. FinalsOf(b, len + 1) = IF x.status # 100 THEN FinalsOf(a, len) + 1 ELSE FinalsOf(a, len)
  <2> DEFINE A == {i \in 1 .. len : a[i].status # 100}
             B == {i \in 1 .. len + 1 : b[i].status # 100}
  <2>1. B = IF x.status # 100 THEN A \cup {len + 1} ELSE A
    <3>1. \A i \in 1 .. len + 1 : i \in 1 .. len \/ i = len + 1
      BY <1>3
    <3>2. 1 .. len \subseteq 1 .. len + 1 /\ len + 1 \in 1 .. len + 1 /\ len + 1 \notin 1 .. len
      BY <1>3
    <3> QED
      BY <1>2, <3>1, <3>2
  <2>2. IsFiniteSet(A) /\ len + 1 \notin A
    <3>1. IsFiniteSet(A)
      BY <1>3, FinalsCount, Zenon
    <3>2. len + 1 \notin 1 .. len
      BY <1>3
    <3> QED
      BY <3>1, <3>2
  <2> HIDE DEF A, B
  <2>3. Cardinality(B) = IF x.status # 100 THEN Cardinality(A) + 1 ELSE Cardinality(A)
    BY <2>1, <2>2, FS_AddElement
  <2> QED
    BY <2>3 DEF A, B, FinalsOf
<1> QED
  BY <1>2, <1>3, <1>4, <1>5, <1>6 DEF len, Appended

\* What does not change as long as the connection's bytes do not.
LEMMA StreamKept ==
    ASSUME UNCHANGED streamVars
    PROVE  /\ script' = script /\ bytes' = bytes /\ Behind' = Behind
           /\ Streamed => Streamed'
           /\ \A k : EndOf(k)' = EndOf(k) /\ NextAfter(k)' = NextAfter(k)
           /\ \A n : AllWhole(n)' <=> AllWhole(n)
           /\ Complete' <=> Complete
<1>1. script' = script /\ bytes' = bytes
  BY DEF streamVars
<1>2. Behind' = Behind
  BY <1>1 DEF Behind
<1>3. Streamed => Streamed'
  BY <1>1 DEF Streamed
<1>4. \A k : EndOf(k)' = EndOf(k)
  BY <1>1 DEF EndOf
<1>5. \A k : NextAfter(k)' = NextAfter(k)
  BY <1>2, <1>4 DEF NextAfter
<1>6. \A n : AllWhole(n)' <=> AllWhole(n)
  BY <1>1 DEF AllWhole
<1>7. Complete' <=> Complete
  BY <1>1, <1>6 DEF Complete
<1> QED
  BY <1>1, <1>2, <1>3, <1>4, <1>5, <1>6, <1>7

\* What does not change as long as nothing is answered.
LEMMA AnswersKept ==
    ASSUME UNCHANGED streamVars, answers' = answers
    PROVE  /\ Answered' = Answered
           /\ InStep => InStep'
           /\ LengthTold => LengthTold'
           /\ CloseIsLast /\ count' = count => CloseIsLast'
<1>1. \A n : Finals(n)' = Finals(n)
  BY DEF Finals
<1>2. Answered' = Answered
  <2>1. Finals(Len(answers))' = Cardinality({i \in 1 .. Len(answers') : answers'[i].status # 100})
    BY DEF Finals
  <2> QED
    BY <2>1 DEF Answered, Finals
<1>3. script' = script /\ \A n : AllWhole(n)' <=> AllWhole(n)
  BY StreamKept
<1>4. InStep => InStep'
  BY <1>1, <1>3 DEF InStep
<1>5. LengthTold => LengthTold'
  BY DEF LengthTold
<1>6. CloseIsLast /\ count' = count => CloseIsLast'
  BY DEF CloseIsLast
<1> QED
  BY <1>2, <1>4, <1>5, <1>6

\* The whole requests are among the script's.
LEMMA WholeCount ==
    ASSUME Streamed, NEW n \in Nat, AllWhole(n)
    PROVE  n <= Len(script) /\ \A k \in 1 .. n : ReadWhole(script[k]) /\ k \in 1 .. Len(script)
<1>1. DOMAIN script = 1 .. Len(script) /\ Len(script) \in Nat
  BY ScriptPlaced
<1>2. \A k \in 1 .. n : k \in 1 .. Len(script) /\ ReadWhole(script[k])
  BY <1>1 DEF AllWhole
<1>3. n # 0 => n \in 1 .. n
  OBVIOUS
<1> QED
  BY <1>1, <1>2, <1>3

\* If some requests are whole, the first of them are.
LEMMA FewerWhole ==
    ASSUME NEW n \in Nat, NEW m \in Nat, m <= n, AllWhole(n)
    PROVE  AllWhole(m)
BY DEF AllWhole

\* What a connection reads next, behind the first k requests.
LEMMA NextRequest ==
    ASSUME Streamed, NEW k \in 0 .. Len(script), position = NextAfter(k)
    PROVE  /\ position \in 1 .. Behind
           /\ Getline(position).ok => position # Behind
           /\ Getline(position).ok /\ k < Len(script) =>
                 /\ Getline(position).line = LineOf(k + 1, script[k + 1])
                 /\ position = EndOf(k) + 1 /\ Getline(position).next = EndOf(k) + 2 /\ EndOf(k) + 2 <= Behind
           /\ bytes = Written(script) => (Getline(position).ok <=> k < Len(script))
<1>1. Len(bytes) \in Nat /\ Behind = Len(bytes) + 1 /\ Len(bytes) <= Len(Written(script))
  BY DEF Streamed, Behind
<1>2. Len(script) \in Nat /\ Len(Written(script)) \in Nat
  BY ScriptPlaced
<1>3. EndOf(k) \in Nat /\ EndOf(k) <= Len(Written(script)) /\ EndOf(Len(script)) = Len(Written(script))
  BY EndsGrow
<1>4. position \in 1 .. Behind /\ (position # Behind => position = EndOf(k) + 1)
  BY <1>1, <1>3 DEF NextAfter
<1>5. Getline(position).ok => position # Behind
  BY <1>1, <1>4, LineRead
<1>6. ASSUME position # Behind, k < Len(script)
      PROVE  /\ bytes[position] = LineOf(k + 1, script[k + 1])
             /\ Getline(position).ok /\ Getline(position).line = bytes[position]
             /\ Getline(position).next = EndOf(k) + 2 /\ EndOf(k) + 2 <= Behind
  <2> DEFINE m == k + 1
  <2>1. m \in 1 .. Len(script) /\ m - 1 = k
    BY <1>2, <1>6
  <2> HIDE DEF m
  <2>2. Lies(m)
    BY <2>1, RequestsLie
  <2>3. EndOf(m - 1) + 1 <= Len(bytes) => bytes[EndOf(m - 1) + 1] = LineOf(m, script[m])
    BY <2>2 DEF Lies
  <2>4. bytes[position] = LineOf(m, script[m])
    BY <1>1, <1>4, <1>6, <2>1, <2>3
  <2>5. bytes[position].t # "data"
    BY <2>4 DEF LineOf
  <2>6. Getline(position).ok /\ Getline(position).line = bytes[position] /\ Getline(position).next = position + 1
    BY <1>1, <1>4, <1>6, <2>5, LineRead
  <2>7. position + 1 = EndOf(k) + 2 /\ EndOf(k) + 2 <= Behind
    BY <1>1, <1>3, <1>4, <1>6
  <2> QED
    BY <2>4, <2>6, <2>7 DEF m
<1>7. ASSUME bytes = Written(script) PROVE Getline(position).ok <=> k < Len(script)
  <2>1. CASE k < Len(script)
    <3> DEFINE m == k + 1
    <3>1. m \in 1 .. Len(script) /\ m \in 0 .. Len(script) /\ m - 1 = k
      BY <1>2, <2>1
    <3> HIDE DEF m
    <3>2. EndOf(m - 1) + 2 <= EndOf(m) /\ EndOf(m) <= Len(Written(script)) /\ EndOf(m) \in Nat
      BY <3>1, EndsGrow
    <3>3. position # Behind
      BY <1>1, <1>2, <1>3, <1>7, <3>1, <3>2 DEF NextAfter
    <3> QED
      BY <1>6, <2>1, <3>3
  <2>2. CASE ~(k < Len(script))
    <3>1. k = Len(script)
      BY <1>2, <2>2
    <3>2. position = Behind
      BY <1>1, <1>3, <1>7, <3>1 DEF NextAfter
    <3> QED
      BY <1>5, <2>2, <3>2
  <2> QED
    BY <2>1, <2>2
<1> QED
  BY <1>4, <1>5, <1>6, <1>7

\* Where a script's first request that asks for the end is.
LEMMA FirstToEnd ==
    ASSUME NEW requests, Len(requests) \in Nat, NEW k \in 0 .. Len(requests),
           \A j \in 1 .. k : ~AsksEnd(requests[j])
    PROVE  LET last == SelectInSeq(requests, AsksEnd)
           IN  /\ last = 0 \/ last \in k + 1 .. Len(requests)
               /\ k = Len(requests) => last = 0
               /\ k < Len(requests) /\ AsksEnd(requests[k + 1]) => last = k + 1
<1> DEFINE I == {i \in 1 .. Len(requests) : AsksEnd(requests[i])}
           last == SelectInSeq(requests, AsksEnd)
<1>1. last = IF I # {} THEN Min(I) ELSE 0
  BY DEF SelectInSeq
<1>2. I # {} => Min(I) \in I /\ \A i \in I : Min(I) <= i
  <2>1. I \in SUBSET Nat
    OBVIOUS
  <2> HIDE DEF I
  <2> QED
    BY <2>1, LeastMember DEF Min
<1>3. \A i \in I : i \in k + 1 .. Len(requests)
  OBVIOUS
<1>4. k < Len(requests) /\ AsksEnd(requests[k + 1]) => k + 1 \in I
  OBVIOUS
<1> HIDE DEF I, last
<1>5. last = 0 \/ last \in k + 1 .. Len(requests)
  BY <1>1, <1>2, <1>3
<1>6. k = Len(requests) => last = 0
  BY <1>5
<1>7. ASSUME k < Len(requests), AsksEnd(requests[k + 1]) PROVE last = k + 1
  <2>1. last \in I /\ last <= k + 1
    BY <1>1, <1>2, <1>4, <1>7
  <2>2. last \in k + 1 .. Len(requests)
    BY <1>3, <2>1
  <2> QED
    BY <2>1, <2>2
<1> QED
  BY <1>5, <1>6, <1>7 DEF last

-----------------------------------------------------------------------------
(* Each step keeps the invariant *)

\* A connection starts with the first request (httplib.h 2362-2367).
LEMMA HttpInvInit ==
    ASSUME HttpInit
    PROVE  HttpInv
<1> USE DEF HttpInit
<1>1. Streamed
  <2>1. PICK n \in 0 .. Len(Written(script)) : bytes = SubSeq(Written(script), 1, n)
    OBVIOUS
  <2> DEFINE w == Written(script)
  <2>2. w \in Seq(Range(w))
    BY WrittenPlaced
  <2> HIDE DEF w
  <2>3. Len(w) \in Nat /\ n \in 0 .. Len(w) /\ bytes = SubSeq(w, 1, n)
    BY <2>1, <2>2 DEF w
  <2>4. \A i \in 1 .. n : w[i] \in Range(w)
    BY <2>2, <2>3
  <2>5. /\ Len(SubSeq(w, 1, n)) = IF 1 <= n THEN n - 1 + 1 ELSE 0
        /\ \A i \in 1 .. n - 1 + 1 : SubSeq(w, 1, n)[i] = w[1 + i - 1]
    BY <2>3, <2>4, SubSeqProperties
  <2>6. Len(bytes) = n /\ \A i \in 1 .. n : bytes[i] = w[i]
    <3>1. n - 1 + 1 = n /\ \A i \in 1 .. n : 1 + i - 1 = i
      BY <2>3
    <3>2. Len(bytes) = n
      BY <2>3, <2>5
    <3> QED
      BY <2>3, <2>5, <3>1, <3>2
  <2> QED
    BY <2>3, <2>6 DEF Streamed, w
<1>2. answers = <<>> /\ Len(answers) = 0 /\ DOMAIN answers = {}
  OBVIOUS
<1>3. Answered = 0
  <2>1. {i \in 1 .. 0 : answers[i].status # 100} = {}
    OBVIOUS
  <2> QED
    BY <1>2, <2>1, FS_EmptySet DEF Answered, Finals
<1>4. Counted
  <2>1. answers \in Seq(Range(answers))
    OBVIOUS
  <2> QED
    BY <1>3, <2>1, RequestAssumption DEF Counted
<1>5. Shaped
  BY DEF Shaped, NoRequest, NoResponse
<1>6. Announced
  BY <1>2 DEF Announced
<1>7. Along
  <2>1. EndOf(0) = 0
    BY <1>1, EndsGrow
  <2>2. Behind \in Nat /\ 1 <= Behind
    BY <1>1 DEF Streamed, Behind
  <2>3. NextAfter(0) = 1
    BY <2>1, <2>2 DEF NextAfter
  <2> QED
    BY <1>3, <2>3 DEF Along
<1>8. AllRead
  <2>1. Len(script) \in Nat
    BY <1>1, ScriptPlaced
  <2> QED
    BY <1>3, <2>1 DEF AllRead
<1>9. InStep /\ LengthTold
  BY <1>2 DEF InStep, LengthTold
<1>10. AllAnswered /\ CloseIsLast
  BY <1>2, RequestAssumption DEF AllAnswered, CloseIsLast
<1> QED
  BY <1>1, <1>4, <1>5, <1>6, <1>7, <1>8, <1>9, <1>10 DEF HttpInv

\* What the connection's limit and the script leave to be answered.
LEMMA EndedAnswers ==
    ASSUME NEW requests, Len(requests) \in Nat, NEW k \in 0 .. Len(requests), k <= KeepAliveMax,
           \A j \in 1 .. k : ~AsksEnd(requests[j]), k = KeepAliveMax \/ k = Len(requests)
    PROVE  LET last == SelectInSeq(requests, AsksEnd)
               wanted == IF last = 0 THEN Len(requests) ELSE last
           IN  k = IF wanted < KeepAliveMax THEN wanted ELSE KeepAliveMax
<1> DEFINE last == SelectInSeq(requests, AsksEnd)
<1>1. last = 0 \/ last \in k + 1 .. Len(requests)
  BY FirstToEnd
<1>2. k = Len(requests) => last = 0
  BY FirstToEnd
<1> HIDE DEF last
<1>3. KeepAliveMax \in Nat
  BY RequestAssumption
<1> QED
  BY <1>1, <1>2, <1>3 DEF last

\* A response r that refuses a request with a status has no content and no handler's answer.
IsRefusal(r, status) ==
    /\ r = [status |-> r.status, body |-> r.body, routed |-> r.routed]
    /\ r.status = status /\ r.body = <<>> /\ r.routed = FALSE

\* A refusal is a response of its own shape.
LEMMA RefusedShape ==
    ASSUME NEW status \in {400, 413, 414, 416}, res = NoResponse, Refuse(status)
    PROVE  IsRefusal(res', status)
<1>1. res' = [NoResponse EXCEPT !.status = status]
  BY DEF Refuse
<1>2. res'.status = status /\ res'.body = <<>> /\ res'.routed = FALSE
  BY <1>1 DEF NoResponse
<1>3. res' = [status |-> res'.status, body |-> res'.body, routed |-> res'.routed]
  BY <1>1 DEF NoResponse
<1> QED
  BY <1>2, <1>3 DEF IsRefusal

\* A request's line is read, refused, or missing (httplib.h 5313-5362).
LEMMA ReadLineKeeps ==
    ASSUME HttpInv, ReadLine
    PROVE  HttpInv'
<1> DEFINE k == Answered
           read == Getline(position)
           line == read.line
           form == IF line.t = "line" THEN line.form ELSE "bad"
<1>1. /\ Streamed /\ Counted /\ Shaped /\ Announced /\ Along /\ AllRead
      /\ InStep /\ AllAnswered /\ CloseIsLast /\ LengthTold
  BY DEF HttpInv
<1>2. /\ stage = "line" /\ UNCHANGED streamVars /\ count' = count /\ closed' = closed /\ answers' = answers
  BY DEF ReadLine
<1>3. /\ req = NoRequest /\ res = NoResponse /\ closed = FALSE
      /\ k \in Nat /\ count \in Nat /\ count + k = KeepAliveMax /\ k <= KeepAliveMax
  BY <1>1, <1>2 DEF Shaped, Counted
<1>4. /\ script' = script /\ bytes' = bytes /\ Behind' = Behind /\ Streamed'
      /\ \A m : NextAfter(m)' = NextAfter(m) /\ EndOf(m)' = EndOf(m)
      /\ \A n : AllWhole(n)' <=> AllWhole(n)
      /\ Complete' <=> Complete
  BY <1>1, <1>2, StreamKept
<1>5. k' = k /\ InStep' /\ LengthTold' /\ CloseIsLast'
  BY <1>1, <1>2, AnswersKept
<1>6. Len(script) \in Nat /\ DOMAIN script = 1 .. Len(script) /\ Len(bytes) \in Nat
  BY <1>1, ScriptPlaced DEF Streamed
<1>7. ASSUME AllWhole(k)
      PROVE  k \in 0 .. Len(script) /\ position = NextAfter(k)
  BY <1>1, <1>2, <1>3, <1>6, <1>7, WholeCount DEF Along
<1>8. ASSUME AllWhole(k + 1), read.ok
      PROVE  /\ AllWhole(k) /\ k + 1 \in 1 .. Len(script) /\ ReadWhole(script[k + 1])
             /\ line = LineOf(k + 1, script[k + 1]) /\ position = EndOf(k) + 1
             /\ read.next = EndOf(k) + 2 /\ EndOf(k) + 2 <= Behind
  <2>1. k + 1 \in Nat /\ k <= k + 1 /\ k + 1 \in 1 .. k + 1
    BY <1>3
  <2>2. AllWhole(k)
    BY <1>3, <1>8, <2>1, FewerWhole
  <2>3. k + 1 <= Len(script) /\ ReadWhole(script[k + 1]) /\ k + 1 \in 1 .. Len(script)
    BY <1>1, <1>8, <2>1, WholeCount
  <2>4. k \in 0 .. Len(script) /\ k < Len(script) /\ position = NextAfter(k)
    BY <1>3, <1>6, <1>7, <2>2, <2>3
  <2> HIDE DEF k
  <2>5. /\ line = LineOf(k + 1, script[k + 1]) /\ position = EndOf(k) + 1
        /\ read.next = EndOf(k) + 2 /\ EndOf(k) + 2 <= Behind
    BY <1>1, <1>8, <2>4, NextRequest
  <2> QED
    BY <2>2, <2>3, <2>5
<1>9. ASSUME Complete
      PROVE  /\ AllWhole(k) /\ k \in 0 .. Len(script) /\ (read.ok <=> k < Len(script))
             /\ \A j \in 1 .. k : ~AsksEnd(script[j])
             /\ k < Len(script) => AllWhole(k + 1)
  <2>1. k <= Len(script) /\ \A j \in 1 .. k : ~AsksEnd(script[j])
    BY <1>1, <1>2, <1>9 DEF AllRead
  <2>2. AllWhole(Len(script)) /\ bytes = Written(script)
    BY <1>9 DEF Complete
  <2>3. AllWhole(k)
    BY <1>3, <1>6, <2>1, <2>2, FewerWhole
  <2>4. k < Len(script) => AllWhole(k + 1)
    <3>1. k < Len(script) => k + 1 \in Nat /\ k + 1 <= Len(script)
      BY <1>3, <1>6
    <3> QED
      BY <1>6, <2>2, <3>1, FewerWhole
  <2>5. k \in 0 .. Len(script) /\ position = NextAfter(k)
    BY <1>7, <2>3
  <2> HIDE DEF k
  <2>6. read.ok <=> k < Len(script)
    BY <1>1, <2>2, <2>5, NextRequest
  <2> QED
    BY <2>1, <2>3, <2>4, <2>5, <2>6
<1> HIDE DEF k, read
<1>10. CASE count = 0 \/ ~read.ok
  <2>1. stage' = "ended" /\ position' = position /\ req' = req /\ res' = res
    BY <1>10 DEF ReadLine, read
  <2>2. Counted'
    BY <1>1, <1>2, <1>3, <1>5, <2>1 DEF Counted, k
  <2>3. Shaped'
    BY <1>1, <1>2, <1>3, <2>1 DEF Shaped
  <2>4. Announced'
    BY <2>1 DEF Announced
  <2>5. Along'
    BY <2>1 DEF Along
  <2>6. AllRead'
    BY <1>1, <1>4, <1>5, <2>1 DEF AllRead, k
  <2>7. AllAnswered'
    <3> SUFFICES ASSUME Complete
                 PROVE  LET last == SelectInSeq(script', AsksEnd)
                            wanted == IF last = 0 THEN Len(script') ELSE last
                        IN  k' = IF wanted < KeepAliveMax THEN wanted ELSE KeepAliveMax
      <4>1. (bytes = Written(script) /\ AllWhole(Len(script)))' => Complete
        BY <1>4 DEF Complete
      <4> QED
        BY <4>1 DEF AllAnswered, k, Answered
    <3>1. k \in 0 .. Len(script) /\ \A j \in 1 .. k : ~AsksEnd(script[j])
      BY <1>9
    <3>2. k = KeepAliveMax \/ k = Len(script)
      <4>1. CASE count = 0
        BY <1>3, <4>1
      <4>2. CASE ~read.ok
        <5>1. ~(k < Len(script)) /\ k \in 0 .. Len(script)
          BY <1>9, <4>2
        <5> DEFINE n == Len(script)
        <5>0. n \in Nat /\ ~(k < n) /\ k \in 0 .. n
          BY <1>6, <5>1
        <5> HIDE DEF n
        <5>2. k = n
          BY <5>0
        <5> QED
          BY <5>2 DEF n
      <4> QED
        BY <1>10, <4>1, <4>2
    <3> QED
      BY <1>3, <1>4, <1>5, <1>6, <3>1, <3>2, EndedAnswers
  <2> QED
    BY <1>4, <1>5, <2>2, <2>3, <2>4, <2>5, <2>6, <2>7 DEF HttpInv
<1>11. ASSUME count # 0, read.ok PROVE position # Behind /\ \A i \in DOMAIN answers : ~answers[i].close
  <2>1. position # Behind
    <3> SUFFICES ASSUME position = Behind PROVE FALSE
      OBVIOUS
    <3>1. position \in 1 .. Behind
      BY <1>6 DEF Behind
    <3> QED
      BY <1>6, <1>11, <3>1, LineRead DEF read
  <2> QED
    BY <1>1, <1>2, <1>11, <2>1 DEF Announced
<1>12. CASE count # 0 /\ read.ok /\ form \in {"bad", "long"}
  <2>1. PICK status \in {400, 414} : stage' = "write" /\ res' = [res EXCEPT !.status = status] /\ req' = req
    BY <1>12 DEF ReadLine, Refuse, read
  <2>2. ~AllWhole(k + 1)
    <3> SUFFICES ASSUME AllWhole(k + 1) PROVE FALSE
      OBVIOUS
    <3>1. ReadWhole(script[k + 1]) /\ line = LineOf(k + 1, script[k + 1])
      BY <1>8, <1>12
    <3>2. form = "good"
      BY <3>1 DEF LineOf, ReadWhole
    <3> QED
      BY <1>12, <3>2
  <2>3. ~Complete
    BY <1>9, <1>12, <2>2
  <2>4. Counted'
    BY <1>1, <1>2, <1>3, <1>5, <1>12, <2>1 DEF Counted, k
  <2>5. Shaped'
    <3>1. Refuse(400) \/ Refuse(414)
      BY <1>12 DEF ReadLine, read
    <3>2. /\ res' = [status |-> res'.status, body |-> res'.body, routed |-> res'.routed]
          /\ res'.status \in {400, 414} /\ res'.body = <<>> /\ res'.routed = FALSE
      <4>1. CASE Refuse(400)
        <5>1. IsRefusal(res', 400)
          BY <1>3, <4>1, RefusedShape
        <5> QED
          BY <5>1 DEF IsRefusal
      <4>2. CASE Refuse(414)
        <5>1. IsRefusal(res', 414)
          BY <1>3, <4>2, RefusedShape
        <5> QED
          BY <5>1 DEF IsRefusal
      <4> QED
        BY <3>1, <4>1, <4>2
    <3>3. req' = [of |-> req'.of, method |-> req'.method, path |-> req'.path, version |-> req'.version,
                  headers |-> req'.headers, ranges |-> req'.ranges, got |-> req'.got]
      <4>1. req = [of |-> req.of, method |-> req.method, path |-> req.path, version |-> req.version,
                   headers |-> req.headers, ranges |-> req.ranges, got |-> req.got]
        BY <1>1 DEF Shaped
      <4> QED
        BY <2>1, <4>1
    <3> QED
      BY <2>1, <3>2, <3>3 DEF Shaped
  <2>6. Announced'
    <3>1. get_header_value(req', "Connection") = NoValue
      BY <1>3, <2>1 DEF get_header_value, has_header, Named, NoRequest
    <3> QED
      BY <1>2, <1>11, <1>12, <2>1, <3>1, RequestAssumption DEF Announced
  <2>7. Along'
    BY <1>4, <1>5, <2>1, <2>2 DEF Along, k
  <2>8. AllRead'
    BY <1>4, <2>3 DEF AllRead
  <2>9. AllAnswered'
    BY <2>1 DEF AllAnswered
  <2> QED
    BY <1>4, <1>5, <2>4, <2>5, <2>6, <2>7, <2>8, <2>9 DEF HttpInv
<1>13. CASE count # 0 /\ read.ok /\ form = "good"
  <2>1. /\ stage' = "headers" /\ position' = read.next /\ res' = res
        /\ req' = [req EXCEPT !.of = line.of, !.method = line.method, !.path = line.path, !.version = line.version]
    BY <1>13 DEF ReadLine, read
  <2>2. req' = [NoRequest EXCEPT !.of = line.of, !.method = line.method, !.path = line.path, !.version = line.version]
    BY <1>3, <2>1
  <2>3. /\ req'.of = line.of /\ req'.method = line.method /\ req'.version = line.version /\ req'.got = 0
        /\ req' = [of |-> req'.of, method |-> req'.method, path |-> req'.path, version |-> req'.version,
                   headers |-> req'.headers, ranges |-> req'.ranges, got |-> req'.got]
    <3> HIDE DEF line
    <3> QED
      BY <2>2 DEF NoRequest
  <2>4. Counted'
    BY <1>1, <1>2, <1>3, <1>5, <1>13, <2>1 DEF Counted, k
  <2>5. Shaped'
    BY <1>3, <2>1, <2>3 DEF Shaped
  <2>6. Announced'
    BY <1>2, <1>11, <1>13, <2>1 DEF Announced
  <2>7. Along'
    <3> SUFFICES ASSUME NEW m \in Nat, m = k + 1, AllWhole(m) PROVE Reading(m)'
      BY <1>3, <1>4, <1>5, <2>1 DEF Along, k
    <3>1. line = LineOf(m, script[m]) /\ read.next = EndOf(k) + 2 /\ EndOf(k) + 2 <= Behind
      BY <1>8, <1>13
    <3>2. line.of = m /\ line.method = script[m].method /\ line.version = script[m].version
      BY <3>1 DEF LineOf
    <3>3. m - 1 = k /\ EndOf(m - 1) \in Nat
      <4>1. k \in 0 .. Len(script) /\ m - 1 = k
        BY <1>3, <1>6, <1>8, <1>13
      <4> QED
        BY <1>1, <4>1, EndsGrow
    <3>4. /\ EndOf(m - 1)' = EndOf(m - 1) /\ position' = EndOf(m - 1) + 1 + 1 /\ position' <= Behind'
      BY <1>4, <2>1, <3>1, <3>3
    <3> QED
      BY <1>4, <2>1, <2>3, <3>2, <3>4 DEF Reading
  <2>8. AllRead'
    <3> SUFFICES ASSUME Complete
                 PROVE  k <= Len(script) /\ (\A j \in 1 .. k : ~AsksEnd(script[j])) /\ k + 1 <= Len(script)
      BY <1>4, <1>5, <2>1 DEF AllRead, k
    <3>1. k < Len(script) /\ k \in 0 .. Len(script) /\ \A j \in 1 .. k : ~AsksEnd(script[j])
      BY <1>9, <1>13
    <3> QED
      BY <1>6, <3>1
  <2>9. AllAnswered'
    BY <2>1 DEF AllAnswered
  <2> QED
    BY <1>4, <1>5, <2>4, <2>5, <2>6, <2>7, <2>8, <2>9 DEF HttpInv
<1>14. (count = 0 \/ ~read.ok) \/ (count # 0 /\ read.ok /\ form \in {"bad", "long"}) \/ (count # 0 /\ read.ok /\ form = "good")
  BY DEF ReadLine, read
<1> QED
  BY <1>10, <1>12, <1>13, <1>14

\* Only the headers tell what a header's value is.
LEMMA SameHeaders ==
    ASSUME NEW r, NEW s, r.headers = s.headers
    PROVE  /\ \A name : has_header(r, name) <=> has_header(s, name)
           /\ \A name : get_header_value(r, name) = get_header_value(s, name)
           /\ r.version = s.version => (AsksEnd(r) <=> AsksEnd(s))
           /\ r.method = s.method => (expect_content(r) <=> expect_content(s))
<1>1. \A name : Named(r, name) = Named(s, name)
  BY DEF Named
<1>2. \A name : has_header(r, name) <=> has_header(s, name)
  BY <1>1 DEF has_header
<1>3. ASSUME NEW name PROVE get_header_value(r, name) = get_header_value(s, name)
  <2>1. Named(r, name) = Named(s, name)
    BY <1>1
  <2> DEFINE first(N) == CHOOSE i \in N : \A j \in N : i <= j
  <2>2. first(Named(r, name)) = first(Named(s, name))
    <3> HIDE DEF first
    <3> QED
      BY <2>1
  <2>3. /\ get_header_value(r, name) = IF has_header(r, name) THEN r.headers[first(Named(r, name))].value ELSE NoValue
        /\ get_header_value(s, name) = IF has_header(s, name) THEN s.headers[first(Named(s, name))].value ELSE NoValue
    BY DEF get_header_value
  <2> HIDE DEF first
  <2> QED
    BY <1>2, <2>2, <2>3
<1>4. r.version = s.version => (AsksEnd(r) <=> AsksEnd(s))
  BY <1>3 DEF AsksEnd
<1>5. r.method = s.method => (expect_content(r) <=> expect_content(s))
  BY <1>2 DEF expect_content
<1> QED
  BY <1>2, <1>3, <1>4, <1>5

\* The headers of a request, behind its line.
LEMMA RequestHeaders ==
    ASSUME Streamed, NEW m \in 1 .. Len(script), position = EndOf(m - 1) + 1 + 1, position <= Behind
    PROVE  LET read == ReadHeaders(position)
           IN  /\ read.ok => /\ read.next = EndOf(m - 1) + 1 + Len(script[m].headers) + 2 /\ read.next <= Behind
                             /\ read.headers = script[m].headers
               /\ ~read.ok => read.next = NextAfter(m)
               /\ bytes = Written(script) => read.ok
<1> DEFINE r == script[m]
           from == EndOf(m - 1)
           to == EndOf(m)
           h == Len(r.headers)
           c == Len(r.content)
           L == Len(bytes)
           read == ReadHeaders(position)
<1>1. L \in Nat /\ Behind = L + 1 /\ L <= Len(Written(script)) /\ Len(Written(script)) \in Nat
  BY ScriptPlaced DEF Streamed, Behind
<1>2. /\ h \in Nat /\ c \in Nat /\ from \in Nat /\ to = from + h + 2 + c
      /\ from + h + 2 <= L => bytes[from + h + 2] = BlankLine
      /\ \A j \in 1 .. h : from + 1 + j <= L => bytes[from + 1 + j] = r.headers[j]
  BY RequestsLie DEF Lies
<1>3. IsRequest(r)
  BY ScriptPlaced
<1>4. m \in 0 .. Len(script) /\ to <= Len(Written(script))
  <2>1. m \in 0 .. Len(script)
    BY ScriptPlaced
  <2> QED
    BY <2>1, EndsGrow
<1>5. NextAfter(m) = IF to + 1 <= Behind THEN to + 1 ELSE Behind
  BY DEF NextAfter
<1>6. r.headers \in Seq(Range(r.headers)) /\ \A j \in 1 .. h : r.headers[j].t = "header"
  BY <1>3 DEF IsRequest
<1>7. position = from + 2 /\ position <= Behind
  BY <1>2
<1> HIDE DEF r, from, to, h, c, L
<1>8. position \in 1 .. Behind /\ position - 1 = from + 1 /\ position + h = from + h + 2
  BY <1>1, <1>2, <1>7
<1> DEFINE at == position
           bs == bytes
<1>9. /\ \A j \in 1 .. h : at - 1 + j <= L => bs[at - 1 + j] = r.headers[j]
      /\ at + h <= L => bs[at + h] = BlankLine
  BY <1>2, <1>8
<1>10. \A j \in 1 .. h : at - 1 + j <= L => bs[at - 1 + j] # BlankLine
  BY <1>6, <1>9 DEF BlankLine
<1>11. IF at + h <= L THEN read.ok /\ read.next = at + h + 1 /\ read.headers = SubSeq(bs, at, at + h - 1)
       ELSE ~read.ok /\ read.next = Behind
  <2> HIDE DEF read
  <2> QED
    BY <1>1, <1>2, <1>8, <1>9, <1>10, HeadersRead DEF L, read
<1> HIDE DEF read, at, bs
<1>12. at \in Nat /\ at >= 2 /\ at = from + 2
  BY <1>2, <1>7 DEF at
<1>13. ASSUME at + h <= L
       PROVE  read.next = from + 1 + h + 2 /\ read.next <= Behind /\ read.headers = r.headers
  <2>1. read.next = from + 1 + h + 2 /\ read.next <= Behind
    BY <1>1, <1>2, <1>11, <1>12, <1>13
  <2> DEFINE U == Range(r.headers)
             to2 == at + h - 1
             s == SubSeq(bs, at, to2)
  <2>2. h = Len(r.headers) /\ r.headers \in Seq(U) /\ \A j \in 1 .. h : r.headers[j] \in U
    BY <1>6 DEF h, Range
  <2>3. to2 \in Int /\ at \in Int /\ (at <= to2 <=> h # 0) /\ to2 - at + 1 = h
    BY <1>2, <1>12
  <2>4. ASSUME NEW j \in 1 .. h PROVE bs[at + j - 1] = r.headers[j]
    <3>1. at + j - 1 = at - 1 + j /\ at - 1 + j <= L
      BY <1>1, <1>2, <1>12, <1>13
    <3> QED
      BY <1>9, <3>1
  <2> HIDE DEF U
  <2>5. ASSUME NEW i \in at .. to2 PROVE bs[i] \in U
    <3> DEFINE j == i - at + 1
    <3>1. j \in 1 .. h /\ at + j - 1 = i
      BY <1>2, <1>12, <2>5
    <3> HIDE DEF j
    <3>2. bs[i] = r.headers[j]
      BY <2>4, <3>1
    <3> QED
      BY <2>2, <3>1, <3>2
  <2> HIDE DEF to2
  <2>6. /\ s \in Seq(U) /\ Len(s) = IF at <= to2 THEN to2 - at + 1 ELSE 0
        /\ \A i \in 1 .. to2 - at + 1 : s[i] = bs[at + i - 1]
    BY <2>3, <2>5, SubSeqProperties
  <2>7. Len(s) = h
    BY <1>2, <2>3, <2>6
  <2>8. \A i \in 1 .. h : s[i] = r.headers[i]
    BY <2>3, <2>4, <2>6
  <2>9. s = r.headers
    BY <2>2, <2>6, <2>7, <2>8, SeqEqual
  <2>10. read.headers = s
    BY <1>11, <1>13 DEF to2
  <2> QED
    BY <2>1, <2>9, <2>10
<1>14. ASSUME ~(at + h <= L) PROVE NextAfter(m) = Behind /\ bytes # Written(script)
  <2>1. ~(to + 1 <= Behind)
    BY <1>1, <1>2, <1>12, <1>14
  <2>2. bytes # Written(script)
    BY <1>1, <1>2, <1>4, <1>12, <1>14 DEF L
  <2> QED
    BY <1>5, <2>1, <2>2
<1> QED
  BY <1>11, <1>13, <1>14 DEF read, r, from, h, at

\* What holds while a request is read and answered.
LEMMA WithinRequest ==
    ASSUME HttpInv, stage \notin {"line", "ended"}, NEW m, m = Answered + 1
    PROVE  /\ m \in Nat \ {0} /\ m - 1 = Answered /\ count \in Nat \ {0} /\ count + m = KeepAliveMax + 1 /\ m <= KeepAliveMax
           /\ Streamed /\ Counted /\ Shaped /\ Len(bytes) \in Nat /\ Behind = Len(bytes) + 1 /\ Len(script) \in Nat
           /\ \A i \in DOMAIN answers : ~answers[i].close
           /\ AllWhole(m) => /\ m \in 1 .. Len(script) /\ ReadWhole(script[m]) /\ IsRequest(script[m])
                             /\ Reading(m) /\ EndOf(m - 1) \in Nat
           /\ Complete => /\ AllWhole(m) /\ m <= Len(script) /\ \A j \in 1 .. m - 1 : ~AsksEnd(script[j])
                          /\ bytes = Written(script)
<1>1. Streamed /\ Counted /\ Shaped /\ Announced /\ Along /\ AllRead
  BY DEF HttpInv
<1>2. KeepAliveMax \in Nat
  BY RequestAssumption
<1>3. /\ Answered \in Nat /\ count \in Nat /\ count # 0 /\ count + Answered = KeepAliveMax
  BY <1>1 DEF Counted
<1> DEFINE k == Answered
<1>4. /\ m \in Nat \ {0} /\ m - 1 = k /\ count \in Nat \ {0} /\ count + m = KeepAliveMax + 1 /\ m <= KeepAliveMax
      /\ k \in Nat /\ k <= m
  <2> HIDE DEF k
  <2>1. m = k + 1 /\ k \in Nat /\ count + k = KeepAliveMax
    BY <1>3 DEF k
  <2> QED
    BY <1>2, <1>3, <2>1
<1>5. Len(bytes) \in Nat /\ Behind = Len(bytes) + 1 /\ Len(script) \in Nat
  BY <1>1, ScriptPlaced DEF Streamed, Behind
<1>6. \A i \in DOMAIN answers : ~answers[i].close
  BY <1>1 DEF Announced
<1>7. ASSUME AllWhole(m)
      PROVE  /\ m \in 1 .. Len(script) /\ ReadWhole(script[m]) /\ IsRequest(script[m])
             /\ Reading(m) /\ EndOf(m - 1) \in Nat
  <2>1. AllWhole(k)
    BY <1>4, <1>7, FewerWhole
  <2>2. Reading(m)
    BY <1>1, <1>7, <2>1 DEF Along
  <2>3. m \in 1 .. m /\ m \in Nat
    BY <1>4
  <2>4. m \in 1 .. Len(script) /\ ReadWhole(script[m])
    BY <1>1, <1>7, <2>3, WholeCount
  <2>5. IsRequest(script[m])
    BY <1>1, <2>4, ScriptPlaced
  <2>6. m - 1 \in 0 .. Len(script)
    BY <1>5, <2>4
  <2>7. EndOf(m - 1) \in Nat
    BY <1>1, <2>6, EndsGrow
  <2> QED
    BY <2>2, <2>4, <2>5, <2>7
<1>8. ASSUME Complete
      PROVE  /\ AllWhole(m) /\ m <= Len(script) /\ \A j \in 1 .. m - 1 : ~AsksEnd(script[j])
             /\ bytes = Written(script)
  <2>1. m <= Len(script) /\ \A j \in 1 .. m - 1 : ~AsksEnd(script[j])
    BY <1>1, <1>4, <1>8 DEF AllRead
  <2>2. AllWhole(Len(script)) /\ bytes = Written(script)
    BY <1>8 DEF Complete
  <2>3. AllWhole(m)
    BY <1>4, <1>5, <2>1, <2>2, FewerWhole
  <2> QED
    BY <2>1, <2>2, <2>3
<1> QED
  BY <1>1, <1>4, <1>5, <1>6, <1>7, <1>8

\* A step within a request keeps the invariant if it keeps what is said of the
\* request.
LEMMA StillWithin ==
    ASSUME HttpInv, stage \notin {"line", "ended"}, stage' \in {"expect", "content", "handle", "write"},
           UNCHANGED streamVars, count' = count, Answered' = Answered, answers' \in Seq(Range(answers')),
           InStep', LengthTold', \A i \in DOMAIN answers' : ~answers'[i].close,
           Shaped',
           get_header_value(req', "Connection") = TextValue("close") => closed' \/ (stage' = "write" /\ position' = Behind'),
           NEW m, m = Answered + 1, AllWhole(m) => Reading(m)',
           Complete => (closed' <=> AsksEnd(script[m]))
    PROVE  HttpInv'
<1>1. /\ m \in Nat \ {0} /\ m - 1 = Answered /\ count \in Nat \ {0} /\ count + m = KeepAliveMax + 1
      /\ Streamed /\ Counted /\ Shaped
      /\ Complete => m <= Len(script) /\ \A j \in 1 .. m - 1 : ~AsksEnd(script[j])
  BY WithinRequest
<1>2. /\ script' = script /\ bytes' = bytes /\ Streamed'
      /\ \A n : AllWhole(n)' <=> AllWhole(n)
      /\ Complete' <=> Complete
  BY <1>1, StreamKept
<1>3. Counted'
  BY <1>1 DEF Counted
<1>4. Announced'
  BY DEF Announced
<1>5. Along'
  <2>1. Answered' + 1 = m /\ (AllWhole(m)' => Reading(m)')
    BY <1>2
  <2> QED
    BY <2>1 DEF Along
<1>6. AllRead'
  <2> SUFFICES ASSUME Complete
               PROVE  /\ Answered <= Len(script) /\ \A j \in 1 .. Answered : ~AsksEnd(script[j])
                      /\ m <= Len(script) /\ (closed' <=> AsksEnd(script[m]))
    BY <1>2 DEF AllRead
  <2>1. m <= Len(script) /\ \A j \in 1 .. m - 1 : ~AsksEnd(script[j])
    BY <1>1
  <2>2. Len(script) \in Nat
    BY <1>1, ScriptPlaced
  <2>3. m - 1 <= Len(script)
    <3> DEFINE n == Len(script)
    <3> HIDE DEF n
    <3>1. n \in Nat /\ m <= n
      BY <2>1, <2>2 DEF n
    <3> QED
      BY <1>1, <3>1 DEF n
  <2> QED
    BY <1>1, <2>1, <2>3
<1>7. AllAnswered'
  BY DEF AllAnswered
<1>8. CloseIsLast'
  BY <1>1 DEF CloseIsLast
<1> QED
  BY <1>2, <1>3, <1>4, <1>5, <1>6, <1>7, <1>8 DEF HttpInv

\* A request's headers are read, or refused (httplib.h 5357-5383).
LEMMA HeadersKeeps ==
    ASSUME HttpInv, Headers
    PROVE  HttpInv'
<1>1. SUFFICES ASSUME NEW m, m = Answered + 1 PROVE HttpInv'
  OBVIOUS
<1> DEFINE read == ReadHeaders(position)
           r == [req EXCEPT !.headers = read.headers]
           range == parse_range_header(get_header_value(r, "Range").ranges)
<1>2. /\ stage = "headers" /\ UNCHANGED streamVars /\ count' = count /\ answers' = answers /\ position' = read.next
      /\ \/ ~read.ok /\ Refuse(400) /\ req' = r /\ UNCHANGED closed
         \/ /\ read.ok /\ closed' = AsksEnd(r)
            /\ \/ ~has_header(r, "Range") /\ req' = r /\ stage' = "expect" /\ UNCHANGED res
               \/ /\ has_header(r, "Range")
                  /\ req' = [r EXCEPT !.ranges = range.ranges]
                  /\ IF range.ok THEN stage' = "expect" /\ UNCHANGED res ELSE Refuse(416)
  BY DEF Headers
<1>3. /\ Streamed /\ Counted /\ Shaped /\ Len(script) \in Nat
      /\ \A i \in DOMAIN answers : ~answers[i].close
      /\ AllWhole(m) => m \in 1 .. Len(script) /\ ReadWhole(script[m]) /\ Reading(m) /\ EndOf(m - 1) \in Nat
      /\ Complete => AllWhole(m) /\ bytes = Written(script)
  BY <1>1, <1>2, WithinRequest
<1>4. InStep /\ LengthTold /\ CloseIsLast
  BY DEF HttpInv
<1>5. Answered' = Answered /\ answers' \in Seq(Range(answers')) /\ InStep' /\ LengthTold' /\ \A i \in DOMAIN answers' : ~answers'[i].close
  BY <1>2, <1>3, <1>4, AnswersKept DEF Counted
<1>6. /\ script' = script /\ Behind' = Behind
      /\ \A n : EndOf(n)' = EndOf(n) /\ NextAfter(n)' = NextAfter(n)
  BY <1>2, <1>3, StreamKept
<1>7. /\ req = [of |-> req.of, method |-> req.method, path |-> req.path, version |-> req.version,
                headers |-> req.headers, ranges |-> req.ranges, got |-> req.got]
      /\ res = NoResponse
  BY <1>2, <1>3 DEF Shaped
<1> DEFINE headers == read.headers
<1>8. /\ r = [of |-> req.of, method |-> req.method, path |-> req.path, version |-> req.version,
              headers |-> headers, ranges |-> req.ranges, got |-> req.got]
      /\ r.of = req.of /\ r.method = req.method /\ r.version = req.version /\ r.headers = headers /\ r.got = req.got
  <2> HIDE DEF headers
  <2>1. r = [req EXCEPT !.headers = headers]
    BY DEF headers
  <2> HIDE DEF r
  <2> QED
    BY <1>7, <2>1
<1>9. /\ req' = [of |-> req'.of, method |-> req'.method, path |-> req'.path, version |-> req'.version,
                 headers |-> req'.headers, ranges |-> req'.ranges, got |-> req'.got]
      /\ req'.of = req.of /\ req'.method = req.method /\ req'.version = req.version /\ req'.headers = headers /\ req'.got = req.got
  <2>1. CASE req' = r
    <3> HIDE DEF r, headers
    <3> QED
      BY <1>8, <2>1
  <2>2. CASE req' = [r EXCEPT !.ranges = range.ranges]
    <3> DEFINE ranges == range.ranges
    <3>1. req' = [r EXCEPT !.ranges = ranges]
      BY <2>2
    <3> HIDE DEF r, headers, ranges
    <3> QED
      BY <1>8, <3>1
  <2> QED
    BY <1>2, <2>1, <2>2
<1>10. ASSUME AllWhole(m)
       PROVE  /\ m \in 1 .. Len(script) /\ ReadWhole(script[m])
              /\ position = EndOf(m - 1) + 1 + 1 /\ position <= Behind
              /\ req.of = m /\ req.method = script[m].method /\ req.version = script[m].version /\ req.got = 0
              /\ read.ok => /\ read.next = EndOf(m - 1) + 1 + Len(script[m].headers) + 2 /\ read.next <= Behind
                            /\ headers = script[m].headers
              /\ ~read.ok => read.next = NextAfter(m)
              /\ bytes = Written(script) => read.ok
  <2>1. /\ m \in 1 .. Len(script) /\ ReadWhole(script[m]) /\ Reading(m)
    BY <1>3, <1>10
  <2>2. /\ position = EndOf(m - 1) + 1 + 1 /\ position <= Behind
        /\ req.of = m /\ req.method = script[m].method /\ req.version = script[m].version /\ req.got = 0
    BY <1>2, <2>1 DEF Reading
  <2> QED
    BY <1>3, <2>1, <2>2, RequestHeaders
<1>11. /\ get_header_value(req', "Connection") = get_header_value(r, "Connection")
       /\ get_header_value(r, "Connection") = TextValue("close") => AsksEnd(r)
  BY <1>8, <1>9, SameHeaders DEF AsksEnd
<1> HIDE DEF read, r, headers
<1>12. CASE ~read.ok
  <2>0. Refuse(400) /\ closed' = closed /\ req' = r
    BY <1>2, <1>12
  <2>1. stage' = "write" /\ res' = [res EXCEPT !.status = 400] /\ closed' = closed /\ req' = r
    BY <2>0 DEF Refuse
  <2>2. Shaped'
    <3>1. IsRefusal(res', 400)
      BY <1>7, <2>0, RefusedShape
    <3> QED
      BY <1>9, <2>1, <3>1 DEF Shaped, IsRefusal
  <2>3. position' = Behind'
    <3>1. read.next = Behind
      BY <1>12 DEF read, ReadHeaders
    <3> QED
      BY <1>2, <1>6, <3>1
  <2>4. AllWhole(m) => Reading(m)'
    <3> SUFFICES ASSUME AllWhole(m) PROVE Reading(m)'
      OBVIOUS
    <3>1. position' = NextAfter(m)' /\ req'.of = m /\ req'.method = script'[m].method /\ req'.version = script'[m].version
      BY <1>2, <1>6, <1>9, <1>10, <1>12
    <3>2. res'.status # -1 /\ res'.routed = FALSE
      BY <1>7, <2>1 DEF NoResponse
    <3> QED
      BY <2>1, <3>1, <3>2 DEF Reading
  <2>5. ~Complete
    BY <1>3, <1>10, <1>12
  <2> QED
    BY <1>1, <1>2, <1>5, <2>1, <2>2, <2>3, <2>4, <2>5, StillWithin
<1>13. ASSUME read.ok
       PROVE  /\ closed' = AsksEnd(r)
              /\ get_header_value(req', "Connection") = TextValue("close") => closed'
  BY <1>2, <1>11, <1>13
<1>14. ASSUME read.ok, Complete
       PROVE  closed' <=> AsksEnd(script[m])
  <2>1. r.headers = script[m].headers /\ r.version = script[m].version
    BY <1>3, <1>8, <1>10, <1>14
  <2> QED
    BY <1>13, <1>14, <2>1, SameHeaders
<1>15. CASE read.ok /\ stage' = "expect" /\ UNCHANGED res
  <2>1. Shaped'
    BY <1>7, <1>9, <1>15 DEF Shaped
  <2>2. AllWhole(m) => Reading(m)'
    <3> SUFFICES ASSUME AllWhole(m) PROVE Reading(m)'
      OBVIOUS
    <3>1. /\ req'.of = m /\ req'.method = script'[m].method /\ req'.version = script'[m].version
          /\ req'.headers = script'[m].headers /\ req'.got = 0
      BY <1>6, <1>9, <1>10, <1>15
    <3>2. position' = EndOf(m - 1)' + 1 + Len(script'[m].headers) + 2 /\ position' <= Behind'
      BY <1>2, <1>6, <1>10, <1>15
    <3> QED
      BY <1>15, <3>1, <3>2 DEF Reading
  <2> QED
    BY <1>1, <1>2, <1>5, <1>13, <1>14, <1>15, <2>1, <2>2, StillWithin
<1>16. CASE read.ok /\ has_header(r, "Range") /\ ~range.ok /\ Refuse(416)
  <2>0. Refuse(416)
    BY <1>16
  <2>1. stage' = "write" /\ res' = [res EXCEPT !.status = 416]
    BY <2>0 DEF Refuse
  <2>2. Shaped'
    <3>1. IsRefusal(res', 416)
      BY <1>7, <2>0, RefusedShape
    <3> QED
      BY <1>9, <2>1, <3>1 DEF Shaped, IsRefusal
  <2>3. ~AllWhole(m)
    <3> SUFFICES ASSUME AllWhole(m) PROVE FALSE
      OBVIOUS
    <3>1. r.headers = script[m].headers /\ ReadWhole(script[m])
      BY <1>8, <1>10, <1>16
    <3>2. has_header(script[m], "Range") /\ get_header_value(script[m], "Range") = get_header_value(r, "Range")
      BY <1>16, <3>1, SameHeaders
    <3> QED
      BY <1>16, <3>1, <3>2 DEF ReadWhole
  <2>4. ~Complete
    BY <1>3, <2>3
  <2> QED
    BY <1>1, <1>2, <1>5, <1>13, <1>16, <2>1, <2>2, <2>3, <2>4, StillWithin
<1> QED
  BY <1>2, <1>12, <1>15, <1>16

\* One answer more.
LEMMA AnswerAppended ==
    ASSUME UNCHANGED streamVars, answers \in Seq(Range(answers)), InStep, LengthTold,
           \A i \in DOMAIN answers : ~answers[i].close,
           NEW m, m = Answered + 1, NEW x, answers' = Append(answers, x),
           x.status # 500 => x.told /\ x.sent \in {0, x.length},
           x.status # 100 /\ AllWhole(m) => x.of = m /\ (x.status \in {200, 206} => x.got = UnitsOf(script[m]))
    PROVE  /\ answers' \in Seq(Range(answers')) /\ InStep' /\ LengthTold'
           /\ Answered' = IF x.status # 100 THEN m ELSE Answered
           /\ Len(answers') \in DOMAIN answers' /\ answers'[Len(answers')] = x
           /\ \A i \in DOMAIN answers' : answers'[i].close => i = Len(answers') /\ x.close
<1> DEFINE a == answers
           b == answers'
           n == Len(a)
<1>1. /\ b \in Seq(Range(b)) /\ n \in Nat /\ Len(b) = n + 1
      /\ DOMAIN a = 1 .. n /\ DOMAIN b = 1 .. n + 1
      /\ b[n + 1] = x /\ \A i \in 1 .. n : b[i] = a[i]
      /\ \A i \in 0 .. n : FinalsOf(b, i) = FinalsOf(a, i)
      /\ FinalsOf(b, n + 1) = IF x.status # 100 THEN FinalsOf(a, n) + 1 ELSE FinalsOf(a, n)
  <2>1. Appended(answers, answers', x)
    BY FinalsAppended
  <2> QED
    BY <2>1 DEF Appended
<1>2. \A i : Finals(i) = FinalsOf(a, i)
  BY DEF Finals, FinalsOf
<1>3. ASSUME NEW i PROVE Finals(i)' = FinalsOf(b, i)
  BY DEF Finals, FinalsOf
<1>4. Answered' = FinalsOf(b, n + 1)
  <2>1. Answered' = Cardinality({i \in 1 .. Len(answers') : answers'[i].status # 100})
    BY DEF Answered, Finals
  <2> QED
    BY <1>1, <2>1 DEF FinalsOf
<1>5. Answered = FinalsOf(a, n)
  BY <1>2 DEF Answered
<1>6. script' = script /\ \A i : AllWhole(i)' <=> AllWhole(i)
  BY StreamKept
<1> DEFINE Fine(s, i, f) ==
               s[i].status # 100 /\ AllWhole(f) =>
                  /\ s[i].of = f
                  /\ s[i].status \in {200, 206} => s[i].got = UnitsOf(script[f])
<1>7. \A i \in 1 .. n : Fine(a, i, FinalsOf(a, i))
  BY <1>1, <1>2 DEF InStep
<1>8. ASSUME NEW i \in 1 .. n + 1 PROVE Fine(b, i, FinalsOf(b, i))
  <2>1. CASE i = n + 1
    <3>1. b[i] = x
      BY <1>1, <2>1
    <3>2. x.status # 100 => FinalsOf(b, i) = m
      BY <1>1, <1>5, <2>1
    <3> QED
      BY <3>1, <3>2
  <2>2. CASE i # n + 1
    <3>1. i \in 1 .. n /\ i \in 0 .. n
      BY <1>1, <2>2
    <3>2. b[i] = a[i] /\ FinalsOf(b, i) = FinalsOf(a, i)
      BY <1>1, <3>1
    <3>3. Fine(a, i, FinalsOf(a, i))
      BY <1>7, <3>1
    <3> QED
      BY <3>2, <3>3
  <2> QED
    BY <2>1, <2>2
<1>9. InStep'
  <2>1. \A i \in 1 .. n + 1 : Fine(b, i, Finals(i)')
    BY <1>3, <1>8
  <2> QED
    BY <1>1, <1>6, <2>1 DEF InStep
<1>10. LengthTold'
  <2>1. ASSUME NEW i \in 1 .. n + 1
        PROVE  b[i].status # 500 => b[i].told /\ b[i].sent \in {0, b[i].length}
    <3>1. CASE i = n + 1
      BY <1>1, <3>1
    <3>2. CASE i # n + 1
      <4>1. i \in 1 .. n
        BY <1>1, <3>2
      <4> QED
        BY <1>1, <4>1 DEF LengthTold
    <3> QED
      BY <3>1, <3>2
  <2> QED
    BY <1>1, <2>1 DEF LengthTold
<1>11. \A i \in DOMAIN b : b[i].close => i = Len(b) /\ x.close
  <2>1. ASSUME NEW i \in 1 .. n + 1, b[i].close PROVE i = n + 1 /\ x.close
    <3>1. CASE i = n + 1
      BY <1>1, <2>1, <3>1
    <3>2. CASE i # n + 1
      <4>1. i \in 1 .. n
        BY <1>1, <3>2
      <4> QED
        BY <1>1, <2>1, <4>1
    <3> QED
      BY <3>1, <3>2
  <2> QED
    BY <1>1, <2>1
<1>12. Len(b) \in DOMAIN b /\ b[Len(b)] = x
  BY <1>1
<1> QED
  BY <1>1, <1>4, <1>5, <1>9, <1>10, <1>11, <1>12

\* A client may be told to go on (httplib.h 5387-5400).
LEMMA ExpectKeeps ==
    ASSUME HttpInv, Expect
    PROVE  HttpInv'
<1>1. SUFFICES ASSUME NEW m, m = Answered + 1 PROVE HttpInv'
  OBVIOUS
<1> DEFINE x == [of |-> req.of, status |-> 100, close |-> FALSE,
                 told |-> TRUE, length |-> 0, sent |-> 0, got |-> 0]
<1>2. /\ stage = "expect" /\ stage' = "content" /\ UNCHANGED <<streamVars, position, count, req, res, closed>>
      /\ answers' = answers \/ answers' = Append(answers, x)
  BY DEF Expect
<1>3. /\ Streamed /\ Counted /\ Shaped /\ \A i \in DOMAIN answers : ~answers[i].close
      /\ AllWhole(m) => Reading(m)
  BY <1>1, <1>2, WithinRequest
<1>4. InStep /\ LengthTold /\ CloseIsLast /\ Announced /\ AllRead
  BY DEF HttpInv
<1>5. Answered' = Answered /\ answers' \in Seq(Range(answers')) /\ InStep' /\ LengthTold' /\ \A i \in DOMAIN answers' : ~answers'[i].close
  <2>1. CASE answers' = answers
    BY <1>2, <1>3, <1>4, <2>1, AnswersKept DEF Counted
  <2>2. CASE answers' = Append(answers, x)
    <3>1. x.status = 100 /\ x.told /\ x.sent = 0 /\ ~x.close /\ answers \in Seq(Range(answers))
      BY <1>3 DEF Counted
    <3> HIDE DEF x
    <3>2. /\ answers' \in Seq(Range(answers')) /\ InStep' /\ LengthTold'
          /\ Answered' = IF x.status # 100 THEN m ELSE Answered
          /\ \A i \in DOMAIN answers' : answers'[i].close => i = Len(answers') /\ x.close
      BY <1>1, <1>2, <1>3, <1>4, <2>2, <3>1, AnswerAppended
    <3> QED
      BY <3>1, <3>2
  <2> QED
    BY <1>2, <2>1, <2>2
<1>6. /\ script' = script /\ Behind' = Behind
      /\ \A n : EndOf(n)' = EndOf(n) /\ NextAfter(n)' = NextAfter(n)
  BY <1>2, <1>3, StreamKept
<1>7. Shaped'
  BY <1>2, <1>3 DEF Shaped
<1>8. get_header_value(req', "Connection") = TextValue("close") => closed'
  BY <1>2, <1>4 DEF Announced
<1>9. AllWhole(m) => Reading(m)'
  BY <1>2, <1>3, <1>6 DEF Reading
<1>10. Complete => (closed' <=> AsksEnd(script[m]))
  BY <1>1, <1>2, <1>4 DEF AllRead
<1> QED
  BY <1>1, <1>2, <1>5, <1>7, <1>8, <1>9, <1>10, StillWithin

\* A handler answers, sets no status or throws (httplib.h 5097-5186).
LEMMA HandleKeeps ==
    ASSUME HttpInv, Handle
    PROVE  HttpInv'
<1>1. SUFFICES ASSUME NEW m, m = Answered + 1 PROVE HttpInv'
  OBVIOUS
<1>2. /\ stage = "handle" /\ stage' = "write" /\ UNCHANGED <<streamVars, position, count, req, closed, answers>>
  BY DEF Handle
<1>3. /\ Streamed /\ Counted /\ Shaped /\ \A i \in DOMAIN answers : ~answers[i].close
      /\ AllWhole(m) => Reading(m)
  BY <1>1, <1>2, WithinRequest
<1>4. InStep /\ LengthTold /\ CloseIsLast /\ Announced /\ AllRead
  BY DEF HttpInv
<1>5. Answered' = Answered /\ answers' \in Seq(Range(answers')) /\ InStep' /\ LengthTold' /\ \A i \in DOMAIN answers' : ~answers'[i].close
  BY <1>2, <1>3, <1>4, AnswersKept DEF Counted
<1>6. /\ script' = script /\ Behind' = Behind
      /\ \A n : EndOf(n)' = EndOf(n) /\ NextAfter(n)' = NextAfter(n)
  BY <1>2, <1>3, StreamKept
<1>7. res = NoResponse
  BY <1>2, <1>3 DEF Shaped
<1>8. /\ res' = [status |-> res'.status, body |-> res'.body, routed |-> res'.routed]
      /\ res'.status \in {-1, 400, 413, 414, 416, 500}
      /\ res'.routed \in BOOLEAN /\ (~res'.routed /\ res'.body # <<>> => res'.status = 500)
  <2>1. CASE \E status \in {-1, 400} : res' = [res EXCEPT !.status = status, !.body = AnswerBody, !.routed = TRUE]
    <3>1. PICK status \in {-1, 400} : res' = [NoResponse EXCEPT !.status = status, !.body = AnswerBody, !.routed = TRUE]
      BY <1>7, <2>1
    <3>2. res'.status = status /\ res'.body = AnswerBody /\ res'.routed = TRUE
      BY <3>1 DEF NoResponse
    <3>3. res' = [status |-> res'.status, body |-> res'.body, routed |-> res'.routed]
      BY <3>1 DEF NoResponse
    <3>4. /\ res'.status \in {-1, 400, 413, 414, 416, 500} /\ res'.routed \in BOOLEAN
          /\ (~res'.routed /\ res'.body # <<>> => res'.status = 500)
      <4>1. res'.status \in {-1, 400, 413, 414, 416, 500}
        BY <3>2
      <4>2. res'.routed \in BOOLEAN
        BY <3>2, Zenon
      <4>3. ~res'.routed /\ res'.body # <<>> => res'.status = 500
        BY <3>2, Zenon
      <4> QED
        BY <4>1, <4>2, <4>3
    <3> QED
      BY <3>3, <3>4
  <2>2. CASE res' = [res EXCEPT !.status = 500, !.body = AnswerBody]
    <3>1. res' = [NoResponse EXCEPT !.status = 500, !.body = AnswerBody]
      BY <1>7, <2>2
    <3>2. res'.status = 500 /\ res'.body = AnswerBody /\ res'.routed = FALSE
      BY <3>1 DEF NoResponse
    <3>3. res' = [status |-> res'.status, body |-> res'.body, routed |-> res'.routed]
      BY <3>1 DEF NoResponse
    <3> QED
      BY <3>2, <3>3
  <2>3. CASE \E status \in {-1, 400} : res' = [res EXCEPT !.status = status]
    <3>1. PICK status \in {-1, 400} : res' = [NoResponse EXCEPT !.status = status]
      BY <1>7, <2>3
    <3>2. res'.status = status /\ res'.body = <<>> /\ res'.routed = FALSE
      BY <3>1 DEF NoResponse
    <3>3. res' = [status |-> res'.status, body |-> res'.body, routed |-> res'.routed]
      BY <3>1 DEF NoResponse
    <3>4. /\ res'.status \in {-1, 400, 413, 414, 416, 500} /\ res'.routed \in BOOLEAN
          /\ (~res'.routed /\ res'.body # <<>> => res'.status = 500)
      <4>1. res'.status \in {-1, 400, 413, 414, 416, 500}
        BY <3>2
      <4>2. res'.routed \in BOOLEAN
        BY <3>2, Zenon
      <4>3. ~res'.routed /\ res'.body # <<>> => res'.status = 500
        BY <3>2, Zenon
      <4> QED
        BY <4>1, <4>2, <4>3
    <3> QED
      BY <3>3, <3>4
  <2>4. \/ \E status \in {-1, 400} : res' = [res EXCEPT !.status = status, !.body = AnswerBody, !.routed = TRUE]
        \/ res' = [res EXCEPT !.status = 500, !.body = AnswerBody]
        \/ \E status \in {-1, 400} : res' = [res EXCEPT !.status = status]
    BY DEF Handle
  <2> QED
    BY <2>1, <2>2, <2>3, <2>4
<1>9. Shaped'
  BY <1>2, <1>3, <1>8 DEF Shaped
<1>10. get_header_value(req', "Connection") = TextValue("close") => closed'
  BY <1>2, <1>4 DEF Announced
<1>11. AllWhole(m) => Reading(m)'
  BY <1>2, <1>3, <1>6 DEF Reading
<1>12. Complete => (closed' <=> AsksEnd(script[m]))
  BY <1>1, <1>2, <1>4 DEF AllRead
<1> QED
  BY <1>1, <1>2, <1>5, <1>9, <1>10, <1>11, <1>12, StillWithin

\* Where the content of a request lies.
LEMMA RequestContent ==
    ASSUME Streamed, NEW m \in 1 .. Len(script), NEW first,
           first = EndOf(m - 1) + 1 + Len(script[m].headers) + 2, first <= Behind
    PROVE  LET content == script[m].content
           IN  /\ first \in 1 .. Behind /\ Arrives(content, first)
               /\ NextAfter(m) = IF first + Len(content) <= Behind THEN first + Len(content) ELSE Behind
<1> DEFINE r == script[m]
           content == r.content
           from == EndOf(m - 1)
           to == EndOf(m)
           h == Len(r.headers)
           c == Len(content)
           L == Len(bytes)
<1>1. L \in Nat /\ Behind = L + 1
  BY DEF Streamed, Behind
<1>2. /\ h \in Nat /\ c \in Nat /\ from \in Nat /\ to = from + h + 2 + c
      /\ \A j \in 1 .. c : from + h + 2 + j <= L => bytes[from + h + 2 + j] = content[j]
  BY RequestsLie DEF Lies
<1>3. IsRequest(r)
  BY ScriptPlaced
<1>4. content \in Seq(Range(content))
  BY <1>3 DEF IsRequest
<1>5. DOMAIN content = 1 .. c
  BY <1>4
<1>6. \A j \in 1 .. c : content[j].t = "size" => content[j].n \in Nat
  BY <1>3, <1>5 DEF IsRequest
<1>7. NextAfter(m) = IF to + 1 <= Behind THEN to + 1 ELSE Behind
  BY DEF NextAfter
<1>8. first = from + 1 + h + 2 /\ first <= Behind
  OBVIOUS
<1> HIDE DEF r, content, from, to, h, c, L
<1>9. first - 1 = from + h + 2 /\ first + c = to + 1 /\ first \in 1 .. Behind
  BY <1>1, <1>2, <1>8
<1>10. \A j \in 1 .. c : first - 1 + j <= L => bytes[first - 1 + j] = content[j]
  BY <1>2, <1>9
<1>11. Arrives(content, first)
  BY <1>2, <1>5, <1>6, <1>10 DEF Arrives, c, L
<1>12. NextAfter(m) = IF first + c <= Behind THEN first + c ELSE Behind
  BY <1>7, <1>9
<1> QED
  BY <1>9, <1>11, <1>12 DEF content, c, r

\* As many bytes as a content of nothing else has.
LEMMA AllUnits ==
    ASSUME NEW request, Len(request.content) \in Nat, DOMAIN request.content = 1 .. Len(request.content),
           \A i \in DOMAIN request.content : request.content[i].t = "data"
    PROVE  UnitsOf(request) = Len(request.content)
<1> DEFINE c == Len(request.content)
<1>1. {i \in DOMAIN request.content : request.content[i].t = "data"} = 1 .. c
  OBVIOUS
<1>2. c \in Nat
  OBVIOUS
<1> HIDE DEF c
<1>3. Cardinality(1 .. c) = c
  BY <1>2, FS_Interval
<1> QED
  BY <1>1, <1>3 DEF UnitsOf, c

\* The content of a whole request is read to its end, or to the end of the bytes,
\* and what is read to its end is all of it.
LEMMA ContentRead ==
    ASSUME Streamed, NEW m \in 1 .. Len(script), ReadWhole(script[m]), expect_content(script[m]),
           NEW r, r.headers = script[m].headers, NEW first,
           first = EndOf(m - 1) + 1 + Len(script[m].headers) + 2, first <= Behind
    PROVE  LET read == ReadContent(r, first)
           IN  read.next = NextAfter(m) /\ (read.ok => read.got = UnitsOf(script[m]))
<1> DEFINE request == script[m]
           content == request.content
           c == Len(content)
           chunked == get_header_value(request, "Transfer-Encoding") = TextValue("chunked")
           got(i) == IF chunked THEN ReadChunks(i) ELSE ReadLength(i, c)
           read == ReadContent(r, first)
<1>1. /\ first \in 1 .. Behind /\ Arrives(content, first)
      /\ NextAfter(m) = IF first + c <= Behind THEN first + c ELSE Behind
  BY RequestContent
<1>2. Len(bytes) \in Nat /\ c \in Nat /\ DOMAIN content = 1 .. c
  BY <1>1 DEF Streamed, Arrives
<1>3. /\ chunked => WellChunked(content)
      /\ ~chunked => /\ has_header(request, "Content-Length")
                     /\ get_header_value(request, "Content-Length") = [number |-> c]
                     /\ \A i \in DOMAIN content : content[i].t = "data"
  BY DEF ReadWhole
<1>4. /\ get_header_value(r, "Transfer-Encoding") = get_header_value(request, "Transfer-Encoding")
      /\ get_header_value(r, "Content-Length") = get_header_value(request, "Content-Length")
      /\ has_header(r, "Content-Length") <=> has_header(request, "Content-Length")
  BY SameHeaders
<1>5. ~chunked => get_header_value(r, "Content-Length").number = c
  <2>1. [number |-> c].number = c
    OBVIOUS
  <2> QED
    BY <1>3, <1>4, <2>1
<1>6. read.next = got(first).next /\ (read.ok => got(first).ok /\ read.got = got(first).got)
  <2>1. CASE chunked
    <3>1. get_header_value(r, "Transfer-Encoding") = TextValue("chunked")
      BY <1>4, <2>1
    <3>2. read.next = ReadChunks(first).next /\ (read.ok => ReadChunks(first).ok /\ read.got = ReadChunks(first).got)
      BY <3>1 DEF ReadContent
    <3> QED
      BY <2>1, <3>2
  <2>2. CASE ~chunked
    <3>1. /\ get_header_value(r, "Transfer-Encoding") # TextValue("chunked")
          /\ has_header(r, "Content-Length") /\ get_header_value(r, "Content-Length").number = c
      BY <1>3, <1>4, <1>5, <2>2
    <3> HIDE DEF c
    <3>2. /\ read.next = ReadLength(first, c).next
          /\ read.ok => ReadLength(first, c).ok /\ read.got = ReadLength(first, c).got
      BY <3>1 DEF ReadContent
    <3> QED
      BY <2>2, <3>2
  <2> QED
    BY <2>1, <2>2
<1>7. ASSUME chunked
      PROVE  got(first).next = NextAfter(m) /\ (got(first).ok => got(first).got = UnitsOf(request))
  <2> DEFINE chunks == ReadChunks(first)
  <2>1. ReadFrom(chunks, content, first, 1)
    BY <1>1, <1>2, <1>3, <1>7, SizesNumbered, ChunksRead
  <2> HIDE DEF chunks
  <2>2. IF first + c <= Behind THEN chunks.got = Cardinality(UnitsFrom(content, 1)) /\ chunks.next = first + c
        ELSE ~chunks.ok /\ chunks.next = Behind
    BY <2>1 DEF ReadFrom
  <2>3. UnitsFrom(content, 1) = {i \in DOMAIN content : content[i].t = "data"}
    BY <1>2 DEF UnitsFrom
  <2>4. Cardinality(UnitsFrom(content, 1)) = UnitsOf(request)
    BY <2>3 DEF UnitsOf
  <2>5. got(first) = chunks
    BY <1>7 DEF chunks
  <2> QED
    BY <1>1, <2>2, <2>4, <2>5
<1>8. ASSUME ~chunked
      PROVE  got(first).next = NextAfter(m) /\ (got(first).ok => got(first).got = UnitsOf(request))
  <2> DEFINE sized == ReadLength(first, c)
  <2>1. IF first + c <= Behind THEN sized.ok /\ sized.got = c /\ sized.next = first + c
        ELSE ~sized.ok /\ sized.next = Behind
    <3> HIDE DEF c
    <3> QED
      BY <1>1, <1>2, LengthRead
  <2>2. UnitsOf(request) = c
    BY <1>2, <1>3, <1>8, AllUnits
  <2>3. got(first) = sized
    BY <1>8
  <2> HIDE DEF sized
  <2> QED
    BY <1>1, <2>1, <2>2, <2>3
<1> HIDE DEF got, read
<1> QED
  BY <1>6, <1>7, <1>8 DEF read

\* A request's content is read, or refused (httplib.h 4905-4958).
LEMMA ContentKeeps ==
    ASSUME HttpInv, Content
    PROVE  HttpInv'
<1>1. SUFFICES ASSUME NEW m, m = Answered + 1 PROVE HttpInv'
  OBVIOUS
<1> DEFINE read == ReadContent(req, position)
<1>2. /\ stage = "content" /\ UNCHANGED <<streamVars, count, closed, answers>>
      /\ \/ /\ expect_content(req) /\ position' = read.next /\ req' = [req EXCEPT !.got = read.got]
            /\ \/ read.ok /\ stage' = "handle" /\ UNCHANGED res
               \/ ~read.ok /\ Refuse(read.status)
         \/ ~expect_content(req) /\ stage' = "handle" /\ UNCHANGED <<position, req, res>>
  BY DEF Content
<1>3. /\ Streamed /\ Counted /\ Shaped /\ \A i \in DOMAIN answers : ~answers[i].close
      /\ AllWhole(m) => m \in 1 .. Len(script) /\ ReadWhole(script[m]) /\ Reading(m) /\ IsRequest(script[m])
  BY <1>1, <1>2, WithinRequest
<1>4. InStep /\ LengthTold /\ CloseIsLast /\ Announced /\ AllRead
  BY DEF HttpInv
<1>5. Answered' = Answered /\ answers' \in Seq(Range(answers')) /\ InStep' /\ LengthTold' /\ \A i \in DOMAIN answers' : ~answers'[i].close
  BY <1>2, <1>3, <1>4, AnswersKept DEF Counted
<1>6. /\ script' = script /\ Behind' = Behind
      /\ \A n : EndOf(n)' = EndOf(n) /\ NextAfter(n)' = NextAfter(n)
  BY <1>2, <1>3, StreamKept
<1>7. /\ req = [of |-> req.of, method |-> req.method, path |-> req.path, version |-> req.version,
                headers |-> req.headers, ranges |-> req.ranges, got |-> req.got]
      /\ res = NoResponse
  BY <1>2, <1>3 DEF Shaped
<1>8. /\ req' = [of |-> req'.of, method |-> req'.method, path |-> req'.path, version |-> req'.version,
                 headers |-> req'.headers, ranges |-> req'.ranges, got |-> req'.got]
      /\ req'.of = req.of /\ req'.method = req.method /\ req'.version = req.version /\ req'.headers = req.headers
      /\ expect_content(req) => req'.got = read.got
  <2>1. CASE req' = [req EXCEPT !.got = read.got]
    <3> DEFINE got == read.got
    <3>1. req' = [req EXCEPT !.got = got]
      BY <2>1
    <3> HIDE DEF got
    <3>2. /\ req' = [of |-> req'.of, method |-> req'.method, path |-> req'.path, version |-> req'.version,
                     headers |-> req'.headers, ranges |-> req'.ranges, got |-> req'.got]
          /\ req'.of = req.of /\ req'.method = req.method /\ req'.version = req.version /\ req'.headers = req.headers
          /\ req'.got = got
      BY <1>7, <3>1
    <3> QED
      BY <3>2 DEF got
  <2>2. CASE req' = req /\ ~expect_content(req)
    BY <1>7, <2>2
  <2> QED
    BY <1>2, <2>1, <2>2
<1>9. get_header_value(req', "Connection") = TextValue("close") => closed'
  <2>1. get_header_value(req', "Connection") = get_header_value(req, "Connection")
    BY <1>8, SameHeaders
  <2> QED
    BY <1>2, <1>4, <2>1 DEF Announced
<1>10. Complete => (closed' <=> AsksEnd(script[m]))
  BY <1>1, <1>2, <1>4 DEF AllRead
<1>11. ASSUME AllWhole(m)
       PROVE  /\ m \in 1 .. Len(script) /\ ReadWhole(script[m]) /\ IsRequest(script[m])
              /\ position = EndOf(m - 1) + 1 + Len(script[m].headers) + 2 /\ position <= Behind
              /\ req.of = m /\ req.method = script[m].method /\ req.version = script[m].version /\ req.got = 0
              /\ req.headers = script[m].headers
              /\ expect_content(req) <=> expect_content(script[m])
  <2>1. m \in 1 .. Len(script) /\ ReadWhole(script[m]) /\ Reading(m) /\ IsRequest(script[m])
    BY <1>3, <1>11
  <2>2. /\ position = EndOf(m - 1) + 1 + Len(script[m].headers) + 2 /\ position <= Behind
        /\ req.of = m /\ req.method = script[m].method /\ req.version = script[m].version /\ req.got = 0
        /\ req.headers = script[m].headers
    BY <1>2, <2>1 DEF Reading
  <2> QED
    BY <2>1, <2>2, SameHeaders
<1>12. ASSUME AllWhole(m), expect_content(req)
       PROVE  read.next = NextAfter(m) /\ (read.ok => read.got = UnitsOf(script[m]))
  BY <1>3, <1>11, <1>12, ContentRead
<1>13. ASSUME AllWhole(m), ~expect_content(req)
       PROVE  position = NextAfter(m) /\ req.got = UnitsOf(script[m])
  <2>1. script[m].content = <<>>
    BY <1>11, <1>13 DEF ReadWhole
  <2>2. /\ position \in 1 .. Behind
        /\ NextAfter(m) = IF position + Len(script[m].content) <= Behind THEN position + Len(script[m].content) ELSE Behind
    BY <1>3, <1>11, <1>13, RequestContent
  <2>3. Len(script[m].content) = 0
    BY <2>1
  <2>4. position + 0 = position /\ position <= Behind
    BY <2>2
  <2>5. UnitsOf(script[m]) = 0
    <3>1. {i \in DOMAIN script[m].content : script[m].content[i].t = "data"} = {}
      BY <2>1
    <3> QED
      BY <3>1, FS_EmptySet DEF UnitsOf
  <2> QED
    BY <1>11, <1>13, <2>2, <2>3, <2>4, <2>5
<1> HIDE DEF read
<1>14. ASSUME AllWhole(m)
       PROVE  /\ position' = NextAfter(m)' /\ req'.of = m /\ req'.method = script'[m].method /\ req'.version = script'[m].version
              /\ expect_content(req) /\ read.ok => req'.got = UnitsOf(script'[m])
              /\ ~expect_content(req) => req'.got = UnitsOf(script'[m])
  <2>1. CASE expect_content(req)
    BY <1>2, <1>6, <1>8, <1>11, <1>12, <1>14, <2>1
  <2>2. CASE ~expect_content(req)
    BY <1>2, <1>6, <1>8, <1>11, <1>13, <1>14, <2>2
  <2> QED
    BY <2>1, <2>2
<1>15. CASE stage' = "handle" /\ UNCHANGED res /\ (expect_content(req) => read.ok)
  <2>1. Shaped'
    BY <1>7, <1>8, <1>15 DEF Shaped
  <2>2. AllWhole(m) => Reading(m)'
    BY <1>14, <1>15 DEF Reading
  <2> QED
    BY <1>1, <1>2, <1>5, <1>9, <1>10, <1>15, <2>1, <2>2, StillWithin
<1>16. CASE expect_content(req) /\ ~read.ok /\ Refuse(read.status)
  <2>1. Refuse(400) \/ Refuse(413)
    <3>1. read.status = 400 \/ read.status = 413
      BY DEF read, ReadContent
    <3> QED
      BY <1>16, <3>1
  <2>2. /\ res' = [status |-> res'.status, body |-> res'.body, routed |-> res'.routed]
        /\ res'.status \in {400, 413} /\ res'.body = <<>> /\ res'.routed = FALSE
    <3>1. CASE Refuse(400)
      <4>1. IsRefusal(res', 400)
        BY <1>7, <3>1, RefusedShape
      <4> QED
        BY <4>1 DEF IsRefusal
    <3>2. CASE Refuse(413)
      <4>1. IsRefusal(res', 413)
        BY <1>7, <3>2, RefusedShape
      <4> QED
        BY <4>1 DEF IsRefusal
    <3> QED
      BY <2>1, <3>1, <3>2
  <2>3. stage' = "write"
    BY <2>1 DEF Refuse
  <2>4. Shaped'
    <3>1. res'.status \in {-1, 400, 413, 414, 416, 500} /\ res'.routed \in BOOLEAN
          /\ (~res'.routed /\ res'.body # <<>> => res'.status = 500)
      <4>1. res'.status \in {-1, 400, 413, 414, 416, 500}
        BY <2>2
      <4>2. res'.routed \in BOOLEAN
        BY <2>2, Zenon
      <4>3. ~res'.routed /\ res'.body # <<>> => res'.status = 500
        BY <2>2, Zenon
      <4> QED
        BY <4>1, <4>2, <4>3
    <3>2. stage' # "line"
      BY <2>3
    <3> QED
      BY <1>8, <2>2, <2>3, <3>1, <3>2 DEF Shaped
  <2>5. AllWhole(m) => Reading(m)'
    BY <1>14, <2>2, <2>3 DEF Reading
  <2> QED
    BY <1>1, <1>2, <1>5, <1>9, <1>10, <2>3, <2>4, <2>5, StillWithin
<1> QED
  BY <1>2, <1>15, <1>16

\* Ranges applied to a response leave its status, or refuse.
LEMMA AppliedStatus ==
    ASSUME NEW ranges, NEW body, NEW status
    PROVE  apply_ranges(ranges, body, status).status \in {status, 416}
<1> DEFINE refused == [status |-> 416, form |-> "whole", parts |-> <<>>, data |-> <<>>]
           part == Part(body, ranges[1])
           one == [status |-> status, form |-> "part", parts |-> <<part.range>>, data |-> part.data]
           noPart == [refused EXCEPT !.form = "part", !.parts = <<part.range>>]
           noParts == [refused EXCEPT !.form = "multipart"]
           all == [status |-> status, form |-> "multipart", parts |-> <<>>,
                   data |-> [i \in DOMAIN ranges |-> Part(body, ranges[i])]]
           whole == [status |-> status, form |-> "whole", parts |-> <<>>, data |-> body]
<1>1. apply_ranges(ranges, body, status) \in {whole, noPart, one, noParts, all}
  BY DEF apply_ranges
<1>2. noPart.status = 416 /\ noParts.status = 416
  OBVIOUS
<1>3. whole.status = status /\ one.status = status /\ all.status = status
  OBVIOUS
<1> HIDE DEF whole, noPart, one, noParts, all
<1> QED
  BY <1>1, <1>2, <1>3

\* What is written of a response.
LEMMA ResponseWritten ==
    ASSUME res.status \in {-1, 400, 413, 414, 416, 500}, res.routed \in BOOLEAN,
           ~res.routed /\ res.body # <<>> => res.status = 500
    PROVE  LET applied == IF res.routed THEN apply_ranges(req.ranges, res.body, StatusOf)
                          ELSE [status |-> StatusOf, form |-> "whole", data |-> res.body]
           IN  /\ applied.status # 100
               /\ applied.status # 500 => TellsLength
               /\ applied.status \in {200, 206} => ~(res.status # -1 /\ res.routed = FALSE)
<1> DEFINE applied == IF res.routed THEN apply_ranges(req.ranges, res.body, StatusOf)
                      ELSE [status |-> StatusOf, form |-> "whole", data |-> res.body]
<1>1. StatusOf \in {400, 413, 414, 416, 500, 404, 200, 206}
  BY DEF StatusOf
<1>2. CASE res.routed
  <2>1. applied.status \in {StatusOf, 416}
    BY <1>2, AppliedStatus
  <2>2. TellsLength
    BY <1>2 DEF TellsLength
  <2> QED
    BY <1>1, <1>2, <2>1, <2>2
<1>3. CASE ~res.routed
  <2>1. applied.status = StatusOf
    BY <1>3
  <2>2. res.status # -1 => StatusOf = res.status
    BY DEF StatusOf
  <2>3. res.status # 500 => TellsLength
    BY <1>3 DEF TellsLength
  <2>4. res.status = 500 => StatusOf = 500
    BY DEF StatusOf
  <2>5. StatusOf # 500 => TellsLength
    BY <2>3, <2>4
  <2>6. StatusOf \in {200, 206} => res.status = -1
    BY <2>2
  <2> QED
    BY <1>1, <2>1, <2>5, <2>6
<1> QED
  BY <1>2, <1>3

\* An answer is written, and the connection goes on or ends (httplib.h 2369-2375,
\* 4727-4814).
LEMMA WriteKeeps ==
    ASSUME HttpInv, Write
    PROVE  HttpInv'
<1>1. SUFFICES ASSUME NEW m, m = Answered + 1 PROVE HttpInv'
  OBVIOUS
<1> DEFINE applied == IF res.routed THEN apply_ranges(req.ranges, res.body, StatusOf)
                      ELSE [status |-> StatusOf, form |-> "whole", data |-> res.body]
           x == [of |-> req.of, status |-> applied.status, close |-> SaysClose,
                 told |-> TellsLength, length |-> LengthOf(applied), got |-> req.got,
                 sent |-> IF req.method = "HEAD" THEN 0 ELSE BytesOf(applied)]
<1>2. /\ stage = "write" /\ UNCHANGED <<streamVars, position>>
      /\ answers' = Append(answers, x)
      /\ stage' = IF closed THEN "ended" ELSE "line"
      /\ count' = IF closed THEN count ELSE count - 1
      /\ req' = NoRequest /\ res' = NoResponse /\ closed' = FALSE
  BY DEF Write, AfterWrite
<1>3. /\ m \in Nat \ {0} /\ m - 1 = Answered /\ count \in Nat \ {0} /\ count + m = KeepAliveMax + 1 /\ m <= KeepAliveMax
      /\ Streamed /\ Counted /\ Shaped /\ Len(script) \in Nat
      /\ \A i \in DOMAIN answers : ~answers[i].close
      /\ AllWhole(m) => Reading(m)
      /\ Complete => AllWhole(m) /\ m <= Len(script) /\ \A j \in 1 .. m - 1 : ~AsksEnd(script[j])
  BY <1>1, <1>2, WithinRequest
<1>4. InStep /\ LengthTold /\ Announced /\ AllRead
  BY DEF HttpInv
<1>5. /\ res.status \in {-1, 400, 413, 414, 416, 500}
      /\ res.routed \in BOOLEAN /\ (~res.routed /\ res.body # <<>> => res.status = 500)
  BY <1>2, <1>3 DEF Shaped
<1>6. /\ applied.status # 100 /\ (applied.status # 500 => TellsLength)
      /\ applied.status \in {200, 206} => ~(res.status # -1 /\ res.routed = FALSE)
  BY <1>5, ResponseWritten
<1>7. AllWhole(m) =>
        /\ req.of = m /\ position = NextAfter(m)
        /\ applied.status \in {200, 206} => req.got = UnitsOf(script[m])
  BY <1>2, <1>3, <1>6 DEF Reading
<1>8. /\ x.of = req.of /\ x.status = applied.status /\ (x.close <=> SaysClose) /\ (x.told <=> TellsLength)
      /\ x.got = req.got /\ x.sent \in {0, x.length}
  <2> HIDE DEF applied
  <2>1. x.of = req.of /\ x.status = applied.status /\ x.got = req.got
    OBVIOUS
  <2>2. x.close = SaysClose /\ x.told = TellsLength
    OBVIOUS
  <2>3. x.sent \in {0, x.length}
    BY DEF LengthOf
  <2> QED
    BY <2>1, <2>2, <2>3
<1> HIDE DEF applied, x
<1>9. /\ answers' \in Seq(Range(answers')) /\ InStep' /\ LengthTold' /\ Answered' = m
      /\ Len(answers') \in DOMAIN answers' /\ answers'[Len(answers')] = x
      /\ \A i \in DOMAIN answers' : answers'[i].close => i = Len(answers') /\ x.close
  <2>1. x.status # 100
    BY <1>6, <1>8
  <2>2. x.status # 500 => x.told /\ x.sent \in {0, x.length}
    BY <1>6, <1>8
  <2>3. x.status # 100 /\ AllWhole(m) => x.of = m /\ (x.status \in {200, 206} => x.got = UnitsOf(script[m]))
    BY <1>7, <1>8
  <2>4. answers \in Seq(Range(answers))
    BY <1>3 DEF Counted
  <2> QED
    BY <1>1, <1>2, <1>3, <1>4, <2>1, <2>2, <2>3, <2>4, AnswerAppended
<1>10. /\ script' = script /\ bytes' = bytes /\ Behind' = Behind /\ Streamed'
       /\ \A n : NextAfter(n)' = NextAfter(n)
       /\ \A n : AllWhole(n)' <=> AllWhole(n)
       /\ Complete' <=> Complete
  BY <1>2, <1>3, StreamKept
<1>11. KeepAliveMax \in Nat
  BY RequestAssumption
<1>12. count' \in Nat /\ (stage' # "ended" => count' + m = KeepAliveMax)
  <2>1. CASE closed
    BY <1>2, <1>3, <2>1
  <2>2. CASE ~closed
    <3>1. count' = count - 1
      BY <1>2, <2>2
    <3> QED
      BY <1>3, <1>11, <3>1
  <2> QED
    BY <2>1, <2>2
<1>13. Counted'
  BY <1>2, <1>3, <1>9, <1>12 DEF Counted
<1>14. Shaped'
  BY <1>2 DEF Shaped, NoRequest, NoResponse
<1>15. ASSUME SaysClose, stage' = "line" PROVE count' = 0 \/ position' = Behind'
  <2>1. ~closed
    BY <1>2, <1>15
  <2>2. CASE count = 1
    BY <1>2, <2>1, <2>2
  <2>3. CASE get_header_value(req, "Connection") = TextValue("close")
    BY <1>2, <1>4, <1>10, <2>1, <2>3 DEF Announced
  <2> QED
    BY <1>15, <2>2, <2>3 DEF SaysClose
<1>16. Announced'
  <2>1. stage' \in {"line", "ended"}
    BY <1>2
  <2>2. (\E i \in DOMAIN answers' : answers'[i].close) => SaysClose
    BY <1>8, <1>9
  <2> QED
    BY <1>15, <2>1, <2>2 DEF Announced
<1>17. Along'
  <2>1. AllWhole(m) => position' = NextAfter(m)'
    BY <1>2, <1>7, <1>10
  <2>2. stage' \in {"line", "ended"}
    BY <1>2
  <2> QED
    BY <1>9, <1>10, <2>1, <2>2 DEF Along
<1>18. ASSUME Complete
       PROVE  /\ m <= Len(script) /\ \A j \in 1 .. m - 1 : ~AsksEnd(script[j])
              /\ closed <=> AsksEnd(script[m])
  BY <1>1, <1>2, <1>3, <1>4, <1>18 DEF AllRead
<1>19. AllRead'
  <2> SUFFICES ASSUME Complete
               PROVE  m <= Len(script) /\ (stage' # "ended" => \A j \in 1 .. m : ~AsksEnd(script[j]))
    BY <1>2, <1>9, <1>10 DEF AllRead
  <2>1. ASSUME stage' # "ended", NEW j \in 1 .. m PROVE ~AsksEnd(script[j])
    <3>1. ~AsksEnd(script[m])
      BY <1>2, <1>18, <2>1
    <3>2. j = m \/ j \in 1 .. m - 1
      BY <1>3
    <3> QED
      BY <1>18, <3>1, <3>2
  <2> QED
    BY <1>18, <2>1
<1>20. AllAnswered'
  <2> SUFFICES ASSUME Complete, closed
               PROVE  LET last == SelectInSeq(script', AsksEnd)
                          wanted == IF last = 0 THEN Len(script') ELSE last
                      IN  Answered' = IF wanted < KeepAliveMax THEN wanted ELSE KeepAliveMax
    <3>1. (bytes = Written(script) /\ AllWhole(Len(script)))' => Complete
      BY <1>10 DEF Complete
    <3>2. stage' = "ended" => closed
      BY <1>2
    <3> QED
      BY <3>1, <3>2 DEF AllAnswered, Answered
  <2> DEFINE last == SelectInSeq(script, AsksEnd)
             k == m - 1
             n == Len(script)
  <2>0. n \in Nat /\ m <= n /\ AsksEnd(script[m]) /\ \A j \in 1 .. k : ~AsksEnd(script[j])
    BY <1>3, <1>18
  <2>1. k \in 0 .. n /\ k + 1 = m /\ k < n
    <3> HIDE DEF n
    <3> QED
      BY <1>3, <2>0
  <2> HIDE DEF k
  <2>2. last = m
    <3>1. AsksEnd(script[k + 1])
      BY <2>0, <2>1
    <3> QED
      BY <2>0, <2>1, <3>1, FirstToEnd
  <2>3. m # 0 /\ (m = IF m < KeepAliveMax THEN m ELSE KeepAliveMax)
    BY <1>3, <1>11
  <2> HIDE DEF last
  <2> QED
    BY <1>9, <1>10, <2>2, <2>3 DEF last
<1>21. CloseIsLast'
  <2>1. \A i \in DOMAIN answers' : answers'[i].close => i = Len(answers')
    BY <1>9
  <2>2. ASSUME count' = 0 PROVE answers'[Len(answers')].close
    <3>1. count = 1
      <4>1. ~closed /\ count - 1 = 0
        BY <1>2, <1>3, <2>2
      <4> QED
        BY <1>3, <4>1
    <3>2. SaysClose
      BY <3>1 DEF SaysClose
    <3> QED
      BY <1>8, <1>9, <3>2
  <2> QED
    BY <2>1, <2>2 DEF CloseIsLast
<1> QED
  BY <1>9, <1>10, <1>13, <1>14, <1>16, <1>17, <1>19, <1>20, <1>21 DEF HttpInv

-----------------------------------------------------------------------------
(* The end of the connection is told *)

\* What the server knows of the request it is at: its line, and, once the head has
\* arrived, whether it ends the connection.
Heard ==
    /\ stage = "headers" =>
          /\ req.of \in 1 .. Len(script) /\ position = EndOf(req.of - 1) + 1 + 1 /\ position <= Behind
          /\ req.version = script[req.of].version
    /\ stage \in {"expect", "content", "handle", "write"} /\ req.of \in 1 .. Len(script) /\ HeadArrived(req.of) =>
          /\ closed <=> AsksEnd(script[req.of])
          /\ get_header_value(req, "Connection") = get_header_value(script[req.of], "Connection")

\* No answer so far was to a request that ends the connection.
NoneEnds ==
    \A i \in DOMAIN answers :
        LET k == answers[i].of
        IN  ~(answers[i].status # 100 /\ k \in 1 .. Len(script) /\ HeadArrived(k) /\ AsksEnd(script[k]))

\* A connection starts without answers.
LEMMA HeardInit ==
    ASSUME HttpInit
    PROVE  Heard /\ EndIsTold
<1>1. DOMAIN answers = {} /\ stage = "line"
  BY DEF HttpInit
<1> QED
  BY <1>1 DEF Heard, EndIsTold

\* Until the connection ends, no answer was to a request that ends it.
LEMMA NoneEndsYet ==
    ASSUME Streamed, EndIsTold, stage # "ended"
    PROVE  NoneEnds
<1>1. DOMAIN script = 1 .. Len(script)
  BY ScriptPlaced
<1> QED
  BY <1>1 DEF EndIsTold, NoneEnds

\* What was told stays told while no final answer is added.
LEMMA NoEndAdded ==
    ASSUME Streamed, UNCHANGED streamVars, NoneEnds,
           \/ answers' = answers
           \/ \E x : x.status = 100 /\ answers \in Seq(Range(answers)) /\ answers' = Append(answers, x)
    PROVE  EndIsTold'
<1>1. /\ script' = script /\ bytes' = bytes /\ DOMAIN script = 1 .. Len(script)
  BY ScriptPlaced DEF streamVars
<1>2. \A k : HeadArrived(k)' <=> HeadArrived(k)
  BY <1>1 DEF HeadArrived
<1>3. ASSUME NEW i \in DOMAIN answers', answers'[i].status # 100
      PROVE  i \in DOMAIN answers /\ answers'[i] = answers[i]
  <2>1. CASE answers' = answers
    BY <1>3, <2>1
  <2>2. CASE \E x : x.status = 100 /\ answers \in Seq(Range(answers)) /\ answers' = Append(answers, x)
    <3>1. PICK x : x.status = 100 /\ answers \in Seq(Range(answers)) /\ answers' = Append(answers, x)
      BY <2>2
    <3>2. Appended(answers, answers', x)
      BY <3>1, FinalsAppended
    <3>3. /\ Len(answers) \in Nat /\ DOMAIN answers = 1 .. Len(answers) /\ DOMAIN answers' = 1 .. Len(answers) + 1
          /\ answers'[Len(answers) + 1] = x /\ \A m \in 1 .. Len(answers) : answers'[m] = answers[m]
      BY <3>2 DEF Appended
    <3>4. i # Len(answers) + 1
      BY <1>3, <3>1, <3>3
    <3>5. i \in 1 .. Len(answers)
      BY <1>3, <3>3, <3>4
    <3> QED
      BY <3>3, <3>5
  <2> QED
    BY <2>1, <2>2
<1>4. ASSUME NEW i \in DOMAIN answers', answers'[i].status # 100, answers'[i].of \in 1 .. Len(script),
             HeadArrived(answers'[i].of), AsksEnd(script[answers'[i].of])
      PROVE  FALSE
  <2>1. i \in DOMAIN answers /\ answers'[i] = answers[i]
    BY <1>3, <1>4
  <2> QED
    BY <1>4, <2>1 DEF NoneEnds
<1> QED
  BY <1>1, <1>2, <1>4 DEF EndIsTold

\* The line that is read is where its request begins.
LEMMA LineHeard ==
    ASSUME Streamed, Getline(position).line.t = "line"
    PROVE  LET line == Getline(position).line
           IN  /\ line.of \in 1 .. Len(script) /\ line.version = script[line.of].version
               /\ Getline(position).next = EndOf(line.of - 1) + 1 + 1 /\ Getline(position).next <= Behind
<1> DEFINE ends == {k \in 1 .. Len(bytes) : k >= position /\ bytes[k].t # "data"}
           j == FirstOf(ends)
<1>1. /\ Getline(position).line = IF j = position /\ position # Behind THEN bytes[position] ELSE ContentByte
      /\ Getline(position).next = IF j = Behind THEN Behind ELSE j + 1
  BY DEF Getline
<1>2. Len(bytes) \in Nat /\ Behind = Len(bytes) + 1
  BY DEF Streamed, Behind
<1>3. ends = {} => j = Behind
  BY DEF FirstOf
<1>4. ends # {} => j \in ends
  <2>1. ends \in SUBSET Nat
    BY <1>2
  <2> HIDE DEF ends
  <2> QED
    BY <2>1, FirstIsLeast
<1>5. j = Behind \/ j \in 1 .. Len(bytes)
  BY <1>3, <1>4
<1> HIDE DEF ends, j
<1>6. j = position /\ position # Behind
  BY <1>1 DEF ContentByte
<1>7. position \in 1 .. Len(bytes) /\ Getline(position).line = bytes[position] /\ Getline(position).next = position + 1
  BY <1>1, <1>5, <1>6
<1>8. PICK k \in 1 .. Len(script) :
         position = EndOf(k - 1) + 1 /\ bytes[position] = LineOf(k, script[k]) /\ bytes[position].of = k
  BY <1>7, LineBegins
<1>9. bytes[position].version = script[k].version
  BY <1>8 DEF LineOf
<1>10. position + 1 <= Behind
  BY <1>2, <1>7
<1> QED
  BY <1>7, <1>8, <1>9, <1>10

\* Where the headers are not read to their end, the head has not arrived.
LEMMA HeadMissing ==
    ASSUME Streamed, NEW k \in 1 .. Len(script), position = EndOf(k - 1) + 1 + 1, ~ReadHeaders(position).ok
    PROVE  ~HeadArrived(k)
<1> SUFFICES ASSUME HeadArrived(k) PROVE FALSE
  OBVIOUS
<1>1. PICK i \in 1 .. Len(bytes), j \in 1 .. Len(bytes) :
         i < j /\ bytes[i].t = "line" /\ bytes[i].of = k /\ bytes[j] = BlankLine
  BY DEF HeadArrived
<1>2. i = EndOf(k - 1) + 1
  BY <1>1, LineBegins
<1>3. Len(bytes) \in Nat /\ Behind = Len(bytes) + 1 /\ position = i + 1
  BY <1>2 DEF Streamed, Behind
<1> DEFINE blanks == {m \in position .. Len(bytes) : bytes[m] = BlankLine}
<1>4. j \in blanks
  BY <1>1, <1>3
<1>5. blanks \in SUBSET Nat
  BY <1>3
<1>6. ReadHeaders(position).ok <=> FirstOf(blanks) # Behind
  BY DEF ReadHeaders
<1>7. \A m \in blanks : m # Behind
  BY <1>3
<1> HIDE DEF blanks
<1>8. FirstOf(blanks) \in blanks
  BY <1>4, <1>5, FirstIsLeast
<1> QED
  BY <1>6, <1>7, <1>8

\* What is heard of a request that only changes elsewhere stays.
LEMMA HeardKept ==
    ASSUME Streamed, UNCHANGED streamVars, Heard, stage \in {"expect", "content", "handle"},
           stage' \in {"content", "handle", "write"},
           closed' = closed, req'.of = req.of, req'.headers = req.headers
    PROVE  Heard'
<1>1. script' = script /\ bytes' = bytes
  BY DEF streamVars
<1>2. \A k : HeadArrived(k)' <=> HeadArrived(k)
  BY <1>1 DEF HeadArrived
<1>3. get_header_value(req', "Connection") = get_header_value(req, "Connection")
  BY SameHeaders
<1>4. ASSUME NEW k, k = req'.of, k \in 1 .. Len(script'), HeadArrived(k)'
      PROVE  /\ closed' <=> AsksEnd(script'[k])
             /\ get_header_value(req', "Connection") = get_header_value(script'[k], "Connection")
  <2>1. k = req.of /\ k \in 1 .. Len(script) /\ HeadArrived(k)
    BY <1>1, <1>2, <1>4
  <2>2. /\ closed <=> AsksEnd(script[req.of])
        /\ get_header_value(req, "Connection") = get_header_value(script[req.of], "Connection")
    BY <2>1 DEF Heard
  <2>3. closed' <=> AsksEnd(script'[k])
    BY <1>1, <2>1, <2>2
  <2>4. get_header_value(req', "Connection") = get_header_value(script'[k], "Connection")
    BY <1>1, <1>3, <2>1, <2>2
  <2> QED
    BY <2>3, <2>4
<1> QED
  BY <1>4 DEF Heard

\* A line is read (httplib.h 5313-5362).
LEMMA ReadLineHeard ==
    ASSUME HttpInv, Heard, EndIsTold, ReadLine
    PROVE  Heard' /\ EndIsTold'
<1> DEFINE read == Getline(position)
           line == read.line
           form == IF line.t = "line" THEN line.form ELSE "bad"
<1>1. /\ Streamed /\ stage = "line" /\ req = NoRequest /\ UNCHANGED streamVars /\ answers' = answers
      /\ script' = script /\ Len(script) \in Nat /\ Behind' = Behind /\ \A k : EndOf(k)' = EndOf(k)
  <2>1. Streamed /\ Shaped /\ stage = "line" /\ UNCHANGED streamVars /\ answers' = answers
    BY DEF HttpInv, ReadLine
  <2> QED
    BY <2>1, StreamKept, ScriptPlaced DEF Shaped
<1>2. EndIsTold'
  <2>1. NoneEnds
    BY <1>1, NoneEndsYet
  <2> QED
    BY <1>1, <2>1, NoEndAdded
<1>3. \/ stage' = "ended"
      \/ stage' = "write" /\ req' = req
      \/ /\ form = "good" /\ stage' = "headers" /\ position' = read.next
         /\ req' = [req EXCEPT !.of = line.of, !.method = line.method, !.path = line.path, !.version = line.version]
  BY DEF ReadLine, Refuse
<1>4. CASE stage' = "ended"
  BY <1>2, <1>4 DEF Heard
<1>5. CASE stage' = "write" /\ req' = req
  <2>1. req'.of = NoValue
    BY <1>1, <1>5 DEF NoRequest
  <2>2. NoValue \notin 1 .. Len(script')
    BY <1>1, RequestAssumption
  <2> QED
    BY <1>2, <1>5, <2>1, <2>2 DEF Heard
<1>6. CASE /\ form = "good" /\ stage' = "headers" /\ position' = read.next
           /\ req' = [req EXCEPT !.of = line.of, !.method = line.method, !.path = line.path, !.version = line.version]
  <2>1. line.t = "line"
    BY <1>6
  <2>2. /\ line.of \in 1 .. Len(script) /\ line.version = script[line.of].version
        /\ read.next = EndOf(line.of - 1) + 1 + 1 /\ read.next <= Behind
    BY <1>1, <2>1, LineHeard
  <2> HIDE DEF line, read
  <2>3. req'.of = line.of /\ req'.version = line.version
    BY <1>1, <1>6 DEF NoRequest
  <2>4. PICK k : k = req'.of
    OBVIOUS
  <2>5. /\ k \in 1 .. Len(script') /\ position' = EndOf(k - 1)' + 1 + 1 /\ position' <= Behind'
        /\ req'.version = script'[k].version
    BY <1>1, <1>6, <2>2, <2>3, <2>4
  <2> QED
    BY <1>2, <1>6, <2>4, <2>5 DEF Heard
<1> QED
  BY <1>2, <1>3, <1>4, <1>5, <1>6

\* A head is read (httplib.h 5357-5383).
LEMMA HeadersHeard ==
    ASSUME HttpInv, Heard, EndIsTold, Headers
    PROVE  Heard' /\ EndIsTold'
<1> DEFINE read == ReadHeaders(position)
           headers == read.headers
           r == [req EXCEPT !.headers = headers]
           ranges == parse_range_header(get_header_value(r, "Range").ranges).ranges
<1>0. PICK k : k = req.of
  OBVIOUS
<1>1. /\ Streamed /\ stage = "headers" /\ UNCHANGED streamVars /\ answers' = answers
      /\ req = [of |-> req.of, method |-> req.method, path |-> req.path, version |-> req.version,
                headers |-> req.headers, ranges |-> req.ranges, got |-> req.got]
  BY DEF HttpInv, Shaped, Headers
<1>2. /\ stage' \in {"expect", "write"}
      /\ req' = r \/ req' = [r EXCEPT !.ranges = ranges]
      /\ read.ok => closed' = AsksEnd(r)
  BY DEF Headers, Refuse
<1>3. EndIsTold'
  <2>1. NoneEnds
    BY <1>1, NoneEndsYet
  <2> QED
    BY <1>1, <2>1, NoEndAdded
<1>4. k \in 1 .. Len(script) /\ position = EndOf(k - 1) + 1 + 1 /\ position <= Behind /\ req.version = script[k].version
  BY <1>0, <1>1 DEF Heard
<1>5. script' = script /\ bytes' = bytes
  BY <1>1 DEF streamVars
<1>6. HeadArrived(k)' <=> HeadArrived(k)
  BY <1>5 DEF HeadArrived
<1>7. r.of = k /\ r.version = req.version /\ r.headers = headers /\ req'.of = k /\ req'.headers = headers
  <2> HIDE DEF headers, ranges
  <2>1. r.of = req.of /\ r.version = req.version /\ r.headers = headers
    BY <1>1
  <2>2. CASE req' = r
    BY <1>0, <2>1, <2>2
  <2>3. CASE req' = [r EXCEPT !.ranges = ranges]
    <3>1. r = [of |-> req.of, method |-> req.method, path |-> req.path, version |-> req.version,
               headers |-> headers, ranges |-> req.ranges, got |-> req.got]
      BY <1>1
    <3> HIDE DEF r
    <3>2. req'.of = req.of /\ req'.headers = headers
      BY <2>3, <3>1
    <3> QED
      BY <1>0, <2>1, <3>2
  <2> QED
    BY <1>2, <2>2, <2>3
<1>8. ASSUME HeadArrived(k)
      PROVE  /\ closed' <=> AsksEnd(script[k])
             /\ get_header_value(req', "Connection") = get_header_value(script[k], "Connection")
  <2>1. read.ok
    BY <1>1, <1>4, <1>8, HeadMissing
  <2>2. headers = script[k].headers
    BY <1>1, <1>4, <2>1, RequestHeaders
  <2> HIDE DEF read, headers
  <2>3. closed' = AsksEnd(r)
    BY <1>2, <2>1
  <2> HIDE DEF r
  <2>4. AsksEnd(r) <=> AsksEnd(script[k])
    BY <1>4, <1>7, <2>2, SameHeaders
  <2>5. get_header_value(req', "Connection") = get_header_value(script[k], "Connection")
    BY <1>7, <2>2, SameHeaders
  <2> QED
    BY <2>3, <2>4, <2>5
<1> QED
  BY <1>2, <1>3, <1>5, <1>6, <1>7, <1>8 DEF Heard

\* A client is told to go on, its content is read, a handler answers
\* (httplib.h 4905-4958, 5097-5186, 5387-5400).
LEMMA WithinHeard ==
    ASSUME HttpInv, Heard, EndIsTold, Expect \/ Content \/ Handle
    PROVE  Heard' /\ EndIsTold'
<1>1. Streamed /\ Counted /\ Shaped
  BY DEF HttpInv
<1>2. /\ stage \in {"expect", "content", "handle"} /\ stage' \in {"content", "handle", "write"}
      /\ UNCHANGED streamVars /\ closed' = closed
  BY DEF Expect, Content, Handle, Refuse
<1>3. req' = req \/ \E got : req' = [req EXCEPT !.got = got]
  BY DEF Expect, Content, Handle
<1>4. req'.of = req.of /\ req'.headers = req.headers
  <2>1. CASE req' = req
    BY <2>1
  <2>2. CASE \E got : req' = [req EXCEPT !.got = got]
    <3>1. PICK got : req' = [req EXCEPT !.got = got]
      BY <2>2
    <3>2. req = [of |-> req.of, method |-> req.method, path |-> req.path, version |-> req.version,
                 headers |-> req.headers, ranges |-> req.ranges, got |-> req.got]
      BY <1>1 DEF Shaped
    <3> QED
      BY <3>1, <3>2
  <2> QED
    BY <1>3, <2>1, <2>2
<1>5. \/ answers' = answers
      \/ \E x : x.status = 100 /\ answers \in Seq(Range(answers)) /\ answers' = Append(answers, x)
  <2>1. CASE answers' = answers
    BY <2>1
  <2>2. CASE answers' # answers
    <3> DEFINE x == [of |-> req.of, status |-> 100, close |-> FALSE, told |-> TRUE, length |-> 0, sent |-> 0, got |-> 0]
    <3>1. answers' = Append(answers, x)
      BY <2>2 DEF Expect, Content, Handle
    <3>2. x.status = 100
      OBVIOUS
    <3> HIDE DEF x
    <3> QED
      BY <1>1, <3>1, <3>2 DEF Counted
  <2> QED
    BY <2>1, <2>2
<1>6. Heard'
  BY <1>1, <1>2, <1>4, HeardKept
<1>7. NoneEnds
  BY <1>1, <1>2, NoneEndsYet
<1> QED
  BY <1>1, <1>2, <1>5, <1>6, <1>7, NoEndAdded

\* The answer to a request that ends the connection is the last, and announces the end
\* unless that request ends it untold (httplib.h 4754-4761, 5364-5371).
LEMMA WriteHeard ==
    ASSUME HttpInv, Heard, EndIsTold, Write
    PROVE  Heard' /\ EndIsTold'
<1>1. /\ Streamed /\ Counted /\ stage = "write" /\ UNCHANGED streamVars
      /\ stage' = IF closed THEN "ended" ELSE "line"
  BY DEF HttpInv, Write, AfterWrite
<1>2. PICK x : answers' = Append(answers, x) /\ x.of = req.of /\ x.close = SaysClose
  <2> DEFINE applied == IF res.routed THEN apply_ranges(req.ranges, res.body, StatusOf)
                        ELSE [status |-> StatusOf, form |-> "whole", data |-> res.body]
             x == [of |-> req.of, status |-> applied.status, close |-> SaysClose,
                   told |-> TellsLength, length |-> LengthOf(applied), got |-> req.got,
                   sent |-> IF req.method = "HEAD" THEN 0 ELSE BytesOf(applied)]
  <2>1. answers' = Append(answers, x)
    BY DEF Write
  <2> HIDE DEF applied
  <2>2. x.of = req.of /\ x.close = SaysClose
    OBVIOUS
  <2> HIDE DEF x
  <2> QED
    BY <2>1, <2>2
<1>3. /\ script' = script /\ bytes' = bytes /\ DOMAIN script = 1 .. Len(script)
  BY <1>1, ScriptPlaced DEF streamVars
<1>4. \A k : HeadArrived(k)' <=> HeadArrived(k)
  BY <1>3 DEF HeadArrived
<1>5. Appended(answers, answers', x)
  BY <1>1, <1>2, FinalsAppended DEF Counted
<1>6. NoneEnds
  BY <1>1, NoneEndsYet
<1>7. ASSUME NEW i \in DOMAIN answers', NEW k, k = answers'[i].of, answers'[i].status # 100, k \in 1 .. Len(script),
             HeadArrived(k), AsksEnd(script[k])
      PROVE  i = Len(answers') /\ stage' = "ended" /\ (answers'[i].close \/ EndsUntold(script[k]))
  <2>1. i = Len(answers') /\ answers'[i] = x
    <3>1. i \notin 1 .. Len(answers)
      <4> SUFFICES ASSUME i \in 1 .. Len(answers) PROVE FALSE
        OBVIOUS
      <4>1. answers'[i] = answers[i] /\ i \in DOMAIN answers
        BY <1>5 DEF Appended
      <4> QED
        BY <1>6, <1>7, <4>1 DEF NoneEnds
    <3> QED
      BY <1>5, <3>1 DEF Appended
  <2>2. k = req.of
    BY <1>2, <1>7, <2>1
  <2>3. closed /\ get_header_value(req, "Connection") = get_header_value(script[k], "Connection")
    BY <1>1, <1>7, <2>2 DEF Heard
  <2>4. get_header_value(script[k], "Connection") = TextValue("close") => SaysClose
    BY <2>3 DEF SaysClose
  <2>5. get_header_value(script[k], "Connection") # TextValue("close") => EndsUntold(script[k])
    BY <1>7 DEF AsksEnd, EndsUntold
  <2> QED
    BY <1>1, <1>2, <2>1, <2>3, <2>4, <2>5
<1>8. EndIsTold'
  BY <1>3, <1>4, <1>7 DEF EndIsTold
<1>9. Heard'
  BY <1>1 DEF Heard
<1> QED
  BY <1>8, <1>9

\* Every step keeps what is heard and told.
LEMMA HeardStep ==
    ASSUME HttpInv, Heard, EndIsTold, [HttpNext]_httpVars
    PROVE  Heard' /\ EndIsTold'
<1>1. CASE UNCHANGED httpVars
  <2>1. /\ script' = script /\ bytes' = bytes /\ position' = position /\ stage' = stage /\ req' = req
        /\ closed' = closed /\ answers' = answers
    BY <1>1 DEF httpVars, streamVars
  <2>2. \A k : HeadArrived(k)' <=> HeadArrived(k)
    BY <2>1 DEF HeadArrived
  <2>3. \A k : EndOf(k)' = EndOf(k)
    BY <2>1 DEF EndOf
  <2>4. Behind' = Behind
    BY <2>1 DEF Behind
  <2> QED
    BY <2>1, <2>2, <2>3, <2>4 DEF Heard, EndIsTold
<1>2. CASE Ended
  BY <1>1, <1>2 DEF Ended
<1> QED
  BY <1>1, <1>2, ReadLineHeard, HeadersHeard, WithinHeard, WriteHeard DEF HttpNext

-----------------------------------------------------------------------------
(* The theorems *)

\* Every step keeps the invariant.
LEMMA HttpInvStep ==
    ASSUME HttpInv, [HttpNext]_httpVars
    PROVE  HttpInv'
<1>1. CASE UNCHANGED httpVars
  <2>1. /\ UNCHANGED streamVars /\ position' = position /\ stage' = stage /\ count' = count /\ req' = req
        /\ res' = res /\ closed' = closed /\ answers' = answers
    BY <1>1 DEF httpVars
  <2>2. /\ Streamed /\ Counted /\ Shaped /\ Announced /\ Along /\ AllRead
        /\ InStep /\ AllAnswered /\ CloseIsLast /\ LengthTold
    BY DEF HttpInv
  <2>3. /\ script' = script /\ bytes' = bytes /\ Behind' = Behind /\ Streamed'
        /\ \A n : EndOf(n)' = EndOf(n) /\ NextAfter(n)' = NextAfter(n)
        /\ \A n : AllWhole(n)' <=> AllWhole(n)
        /\ Complete' <=> Complete
    BY <2>1, <2>2, StreamKept
  <2>4. Answered' = Answered /\ InStep' /\ LengthTold' /\ CloseIsLast'
    BY <2>1, <2>2, AnswersKept
  <2>5. Counted' /\ Shaped' /\ Announced'
    BY <2>1, <2>2, <2>3, <2>4 DEF Counted, Shaped, Announced
  <2>6. Along'
    <3>1. \A n : Reading(n)' <=> Reading(n)
      BY <2>1, <2>3 DEF Reading
    <3> QED
      BY <2>1, <2>2, <2>3, <2>4, <3>1 DEF Along
  <2>7. AllRead'
    BY <2>1, <2>2, <2>3, <2>4 DEF AllRead
  <2>8. AllAnswered'
    BY <2>1, <2>2, <2>3, <2>4 DEF AllAnswered, Answered
  <2> QED
    BY <2>3, <2>4, <2>5, <2>6, <2>7, <2>8 DEF HttpInv
<1>2. CASE Ended
  BY <1>1, <1>2 DEF Ended
<1> QED
  BY <1>1, <1>2, ReadLineKeeps, HeadersKeeps, ExpectKeeps, ContentKeeps, HandleKeeps, WriteKeeps DEF HttpNext

\* For any requests, limits and ends of the bytes: as long as the requests are ones
\* that the server reads whole, it stays in step with its client, and each handler has its
\* request's content (httplib.h 3166-3204, 5313-5427).
THEOREM RequestsInStep == HttpSpec => []InStep
<1>1. HttpInit => HttpInv
  BY HttpInvInit
<1>2. HttpInv /\ [HttpNext]_httpVars => HttpInv'
  BY HttpInvStep
<1>3. HttpInv => InStep
  BY DEF HttpInv
<1> QED
  BY <1>1, <1>2, <1>3, PTL DEF HttpSpec

\* Whoever sends whole requests gets an answer to each, with its length.  Only the
\* last answer of a connection announces the end, and it does so at the server's limit
\* and where the request, whole or not, ends the connection, but for an HTTP/1.0
\* request without Keep-Alive, which ends it untold (httplib.h 2362-2377, 4739-4811,
\* 5187-5296, 5368-5371).
THEOREM AnswersAlwaysComplete == HttpSpec => []AnswersComplete
<1>1. HttpInit => HttpInv /\ Heard /\ EndIsTold
  BY HttpInvInit, HeardInit
<1>2. HttpInv /\ Heard /\ EndIsTold /\ [HttpNext]_httpVars => (HttpInv /\ Heard /\ EndIsTold)'
  BY HttpInvStep, HeardStep
<1>3. HttpInv /\ EndIsTold => AnswersComplete
  BY DEF HttpInv, AnswersComplete, EndAnnounced
<1> QED
  BY <1>1, <1>2, <1>3, PTL DEF HttpSpec
=============================================================================
