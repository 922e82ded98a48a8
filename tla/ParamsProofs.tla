---------------------------- MODULE ParamsProofs ----------------------------
(***************************************************************************)
(* Proofs about Params for all names, keys and values, every number of     *)
(* slots and files of every length.                                        *)
(***************************************************************************)
EXTENDS Params, FiniteSetTheorems, SequenceTheorems, TLAPS

\* Every set of natural numbers has a least element: otherwise the numbers up to
\* one of them that are below all of the set would map by +1 into themselves
\* without their 0.
LEMMA LeastNat ==
  ASSUME NEW T \in SUBSET Nat, T # {}
  PROVE  Min(T) \in T /\ \A y \in T : Min(T) <= y
<1>1. SUFFICES ASSUME \A x \in T : \E y \in T : y < x PROVE FALSE
  <2>1. (\E x \in T : \A y \in T : x <= y) \/ (\A x \in T : \E y \in T : y < x)
    OBVIOUS
  <2> QED
    BY <1>1, <2>1 DEF Min
<1>2. PICK k \in T : TRUE
  OBVIOUS
<1> DEFINE B == {n \in 0..k : \A y \in T : n < y}
           f == [n \in B |-> n + 1]
<1>3. 0 \in B
  BY <1>1, <1>2
<1>4. IsFiniteSet(B)
  <2>1. B \in SUBSET (0..k) /\ IsFiniteSet(0..k)
    BY FS_Interval
  <2> QED
    BY <2>1, FS_Subset
<1>5. \A n \in B : n + 1 \in B \ {0}
  <2> SUFFICES ASSUME NEW n \in B PROVE n + 1 \in 0..k /\ \A y \in T : n + 1 < y
    OBVIOUS
  <2>1. n + 1 \notin T
    <3> SUFFICES ASSUME n + 1 \in T PROVE FALSE
      OBVIOUS
    <3>1. PICK y \in T : y < n + 1
      BY <1>1
    <3> QED
      BY <3>1
  <2>2. \A y \in T : n + 1 < y
    BY <2>1
  <2> QED
    BY <1>2, <2>2
<1>6. f \in [B -> B \ {0}] /\ \A x, y \in B : f[x] = f[y] => x = y
  BY <1>5
<1> HIDE DEF B, f
<1>7. IsFiniteSet(B \ {0}) /\ Cardinality(B \ {0}) < Cardinality(B)
  <2>1. Cardinality(B \ {0}) = Cardinality(B) - 1 /\ IsFiniteSet(B \ {0})
    BY <1>3, <1>4, FS_RemoveElement
  <2> QED
    BY <1>4, <2>1, FS_CardinalityType
<1>8. \E x, y \in B : x # y /\ f[x] = f[y]
  BY <1>4, <1>6, <1>7, FS_PigeonHole
<1> QED
  BY <1>6, <1>8

\* The least of a set that is extended by something greater.
LEMMA MinGreater ==
  ASSUME NEW S \in SUBSET Nat, NEW T \in SUBSET Nat, \A x \in S, y \in T : x < y
  PROVE  /\ S # {} => Min(S \cup T) = Min(S)
         /\ S = {} => Min(S \cup T) = Min(T)
<1>1. CASE S # {}
  <2> DEFINE a == Min(S)
             b == Min(S \cup T)
  <2>1. a \in S /\ \A y \in S : a <= y
    BY <1>1, LeastNat
  <2>2. b \in S \cup T /\ \A y \in S \cup T : b <= y
    BY <1>1, LeastNat
  <2> HIDE DEF a, b
  <2>3. a \in Nat /\ b \in Nat /\ b <= a
    BY <2>1, <2>2
  <2>4. a <= b
    BY <2>1, <2>2, <2>3
  <2>5. a = b
    BY <2>3, <2>4
  <2> QED
    BY <1>1, <2>5 DEF a, b
<1>2. CASE S = {}
  <2>1. S \cup T = T
    BY <1>2
  <2> QED
    BY <1>2, <2>1
<1> QED
  BY <1>1, <1>2

LEMMA AppendIs ==
  ASSUME NEW S, NEW s \in Seq(S), NEW e \in S
  PROVE  /\ Append(s, e) \in Seq(S) /\ Len(Append(s, e)) = Len(s) + 1
         /\ DOMAIN s = 1..Len(s) /\ Len(s) \in Nat
         /\ DOMAIN Append(s, e) = DOMAIN s \cup {Len(s) + 1} /\ Len(s) + 1 \notin DOMAIN s
         /\ \A i \in DOMAIN s : Append(s, e)[i] = s[i]
         /\ Append(s, e)[Len(s) + 1] = e
<1>1. Append(s, e) \in Seq(S) /\ Len(Append(s, e)) = Len(s) + 1 /\ Len(s) \in Nat
  BY AppendProperties, LenProperties
<1>2. DOMAIN s = 1..Len(s) /\ DOMAIN Append(s, e) = 1..(Len(s) + 1)
  BY <1>1, LenProperties
<1>3. \A i \in 1..Len(s) : Append(s, e)[i] = s[i]
  BY AppendProperties
<1> QED
  BY <1>1, <1>2, <1>3, AppendProperties

----------------------------------------------------------------------------
(* Lines and sections *)

Tenths == {v \div 10 : v \in Values}
PairOf == Keys \X (Values \cup Tenths)

\* A line as the parser sees it, without its last character.
CutLines == {Title(p) : p \in Names \cup {"longer", "other"}}
            \cup {Entry(k, v) : k \in Keys, v \in Values \cup Tenths}
            \cup {NotFloat(k) : k \in Keys}
            \cup {Line(kind) : kind \in {"blank", "comment", "noValue"}}

LEMMA CutLineIs ==
  ASSUME NEW l \in CutLines
  PROVE  \/ /\ l.kind = "title" /\ l.name \in Names \cup {"longer", "other"}
            /\ l = Title(l.name)
         \/ /\ l.kind = "entry" /\ l.key \in Keys /\ l.value \in Values \cup Tenths
            /\ l = Entry(l.key, l.value)
         \/ l.kind = "notFloat" /\ l.key \in Keys /\ l = NotFloat(l.key)
         \/ l.kind \in {"blank", "comment", "noValue"}
BY DEF CutLines, Title, Entry, NotFloat, Line

LEMMA LineIs ==
  ASSUME NEW l \in Lines
  PROVE  /\ \/ l.kind = "title" /\ l.name \in Names /\ l = Title(l.name)
            \/ /\ l.kind = "entry" /\ l.key \in Keys /\ l.value \in Values
               /\ l = Entry(l.key, l.value)
            \/ l.kind = "notFloat" /\ l.key \in Keys /\ l = NotFloat(l.key)
            \/ l.kind \in {"blank", "comment", "noValue"}
         /\ l \in CutLines
BY DEF Lines, CutLines, Title, Entry, NotFloat, Line

LEMMA ShortenedIs ==
  ASSUME NEW l \in Lines, NEW cut \in Shortened(l), aux \in Section
  PROVE  cut \in CutLines
<1>1. CASE l.kind = "title"
  BY <1>1, LineIs DEF Shortened, CutLines
<1>2. CASE l.kind = "entry"
  <2>1. l.value \div 10 \in Tenths /\ l.key \in Keys
    BY <1>2, LineIs DEF Tenths, Title, Line
  <2>2. cut = Line("noValue") \/ cut = Entry(l.key, l.value \div 10)
    BY <1>2 DEF Shortened
  <2> QED
    BY <2>1, <2>2 DEF CutLines
<1>3. CASE l.kind = "notFloat"
  <2>1. cut \in {l, Line("noValue")} \cup {Entry(l.key, v) : v \in Values}
    BY <1>3 DEF Shortened
  <2>2. l.key \in Keys /\ l \in CutLines
    BY <1>3, LineIs DEF Title, Entry, Line
  <2> QED
    BY <2>1, <2>2 DEF CutLines
<1>4. CASE l.kind \notin {"title", "entry", "notFloat"}
  <2>1. cut \in {l, Line("blank")}
    BY <1>4 DEF Shortened
  <2> QED
    BY <2>1, LineIs DEF CutLines
<1> QED
  BY <1>1, <1>2, <1>3, <1>4

LEMMA SectionIs ==
  /\ Section = [name : Names \cup {"none", "longer", "other"}, pairs : Seq(PairOf), random : BOOLEAN]
  /\ Fresh \in Section /\ Fresh.name = "none" /\ Fresh.pairs = <<>> /\ ~Fresh.random
<1>1. Section = [name : Names \cup {"none", "longer", "other"}, pairs : Seq(PairOf), random : BOOLEAN]
  BY DEF Section, Sections, PairOf, Tenths
<1>2. <<>> \in Seq(PairOf)
  BY EmptySeq
<1> QED
  BY <1>1, <1>2 DEF Fresh

LEMMA WholeIs ==
  /\ Whole = [name : Names \cup {"none", "longer"}, pairs : Seq(Keys \X Values), random : BOOLEAN]
  /\ Fresh \in Whole
<1>1. Whole = [name : Names \cup {"none", "longer"}, pairs : Seq(Keys \X Values), random : BOOLEAN]
  BY DEF Whole, Sections
<1>2. <<>> \in Seq(Keys \X Values)
  BY EmptySeq
<1> QED
  BY <1>1, <1>2 DEF Fresh

\* What a line does to the section that is collected and to the slots.
LEMMA ParseIs ==
  ASSUME TypeOK, NEW l \in CutLines, Parse(l), status = "reading"
  PROVE  \/ /\ l.kind = "blank" /\ slots' = Append(slots, aux) /\ aux' = Fresh
            /\ \/ Len(slots) < MAX_PROCESSES /\ status' = "reading"
               \/ Len(slots) >= MAX_PROCESSES /\ status' = "overrun"
         \/ l.kind = "comment" /\ status' = "reading" /\ UNCHANGED <<aux, slots>>
         \/ /\ l.kind = "title" /\ status' = "reading" /\ UNCHANGED slots
            /\ aux' \in Section /\ aux'.name = Copied(aux.name, l.name)
            /\ aux'.pairs = aux.pairs /\ aux'.random = aux.random
         \/ /\ l.kind = "entry" /\ status' = "reading" /\ UNCHANGED slots
            /\ aux' \in Section /\ aux'.name = aux.name /\ aux'.random = aux.random
            /\ aux'.pairs = Append(aux.pairs, <<l.key, l.value>>)
         \/ l.kind \in {"notFloat", "noValue"} /\ status' \in {"exit", "crash"}
            /\ UNCHANGED <<aux, slots>>
<1>1. /\ aux \in Section /\ Len(slots) \in Nat /\ MAX_PROCESSES \in Nat
  BY ParamsAssumption, LenProperties DEF TypeOK
<1>2. CASE l.kind = "blank"
  BY <1>1, <1>2 DEF Parse, Push, Overrun
<1>3. CASE l.kind = "title"
  <2>1. aux' = [aux EXCEPT !.name = Copied(aux.name, l.name)] /\ UNCHANGED <<slots, status>>
    BY <1>3 DEF Parse
  <2>2. Copied(aux.name, l.name) \in Names \cup {"none", "longer", "other"}
    BY <1>3, CutLineIs DEF Copied
  <2> QED
    BY <1>1, <1>3, <2>1, <2>2, SectionIs
<1>4. CASE l.kind = "entry"
  <2>1. aux' = [aux EXCEPT !.pairs = Append(aux.pairs, <<l.key, l.value>>)]
        /\ UNCHANGED <<slots, status>>
    BY <1>4 DEF Parse
  <2>2. <<l.key, l.value>> \in PairOf
    BY <1>4, CutLineIs DEF PairOf
  <2>3. Append(aux.pairs, <<l.key, l.value>>) \in Seq(PairOf)
    BY <1>1, <2>2, SectionIs, AppendIs
  <2> QED
    BY <1>1, <1>4, <2>1, <2>3, SectionIs
<1>5. CASE l.kind \in {"comment", "notFloat", "noValue"}
  BY <1>5 DEF Parse
<1> QED
  BY <1>2, <1>3, <1>4, <1>5, CutLineIs

----------------------------------------------------------------------------
(* Types *)

LEMMA InitTypes == Init => TypeOK
<1> SUFFICES ASSUME Init PROVE TypeOK
  OBVIOUS
<1>1. file \in Seq(Lines) /\ slots \in Seq(Section) /\ Len(file) = 0 /\ Len(slots) = 0
  BY EmptySeq DEF Init
<1>2. PICK n \in {"none", "longer"}, r \in BOOLEAN : aux = [Fresh EXCEPT !.name = n, !.random = r]
  BY DEF Init
<1>3. aux \in Section /\ aux \in Whole /\ slots \in Seq(Whole)
  BY <1>2, SectionIs, WholeIs, EmptySeq DEF Init
<1>4. MAX_PROCESSES \in Nat /\ MaxLines \in Nat
  BY ParamsAssumption
<1>5. newline = TRUE /\ status = "reading"
  BY DEF Init
<1> QED
  BY <1>1, <1>3, <1>4, <1>5 DEF TypeOK

\* One line is read, as it stands or without its last character.
Reads(l, cut) ==
  /\ l \in Lines /\ cut \in CutLines
  /\ status = "reading" /\ newline /\ Len(file) < MaxLines
  /\ file' = Append(file, l)
  /\ Parse(cut)
  /\ \/ cut = l /\ newline' = TRUE
     \/ cut \in Shortened(l) /\ l.kind # "blank" /\ newline' = FALSE

LEMMA StepIs ==
  ASSUME TypeOK, [Next]_vars
  PROVE  (\E l, cut : Reads(l, cut)) \/ ReadEof \/ UNCHANGED vars
<1>1. ASSUME NEW l \in Lines, ReadLine(l) PROVE Reads(l, l)
  BY <1>1, LineIs DEF ReadLine, Reads
<1>2. ASSUME NEW l \in Lines, ReadLastLine(l) PROVE \E cut : Reads(l, cut)
  <2>1. PICK cut \in Shortened(l) : Parse(cut)
    BY <1>2 DEF ReadLastLine
  <2>2. cut \in CutLines
    BY ShortenedIs DEF TypeOK
  <2>3. Reads(l, cut)
    BY <1>2, <2>1, <2>2 DEF ReadLastLine, Reads
  <2> QED
    BY <2>3
<1> QED
  BY <1>1, <1>2 DEF Next

LEMMA StoredType ==
  ASSUME TypeOK, slots' = Append(slots, aux), aux' = Fresh
  PROVE  /\ aux' \in Section /\ slots' \in Seq(Section)
         /\ newline => aux' \in Whole /\ slots' \in Seq(Whole)
<1>1. aux \in Section /\ slots \in Seq(Section) /\ (newline => aux \in Whole /\ slots \in Seq(Whole))
  BY DEF TypeOK
<1>2. slots' \in Seq(Section)
  BY <1>1, AppendIs
<1>3. newline => slots' \in Seq(Whole)
  BY <1>1, AppendIs
<1> QED
  BY <1>2, <1>3, SectionIs, WholeIs

\* A line with its newline leaves names and values whole.
LEMMA WholeStays ==
  ASSUME TypeOK, newline, NEW l \in Lines, Parse(l)
  PROVE  aux' \in Whole /\ slots' \in Seq(Whole)
<1>1. TypeOK /\ aux \in Whole /\ slots \in Seq(Whole)
  BY DEF TypeOK
<1>2. CASE l.kind = "blank"
  <2>1. slots' = Append(slots, aux) /\ aux' = Fresh
    BY <1>2 DEF Parse, Push
  <2> QED
    BY <2>1, StoredType
<1>3. CASE l.kind = "title"
  <2>1. aux' = [aux EXCEPT !.name = Copied(aux.name, l.name)] /\ UNCHANGED slots
    BY <1>3 DEF Parse
  <2>2. Copied(aux.name, l.name) \in Names \cup {"none", "longer"}
    BY <1>3, LineIs DEF Copied
  <2> QED
    BY <1>1, <2>1, <2>2, WholeIs
<1>4. CASE l.kind = "entry"
  <2>1. aux' = [aux EXCEPT !.pairs = Append(aux.pairs, <<l.key, l.value>>)] /\ UNCHANGED slots
    BY <1>4 DEF Parse
  <2>2. <<l.key, l.value>> \in Keys \X Values
    BY <1>4, LineIs
  <2>3. Append(aux.pairs, <<l.key, l.value>>) \in Seq(Keys \X Values)
    BY <1>1, <2>2, WholeIs, AppendIs
  <2> QED
    BY <1>1, <2>1, <2>3, WholeIs
<1>5. CASE l.kind \in {"comment", "notFloat", "noValue"}
  BY <1>1, <1>5 DEF Parse
<1> QED
  BY <1>2, <1>3, <1>4, <1>5, LineIs

LEMMA StepTypes == TypeOK /\ [Next]_vars => TypeOK'
<1> SUFFICES ASSUME TypeOK, [Next]_vars PROVE TypeOK'
  OBVIOUS
<1>1. ASSUME NEW l, NEW cut, Reads(l, cut) PROVE TypeOK'
  <2>1. file' \in Seq(Lines) /\ Len(file') <= MaxLines
    <3>1. file \in Seq(Lines) /\ l \in Lines /\ Len(file) < MaxLines /\ MaxLines \in Nat
      BY <1>1, ParamsAssumption DEF Reads, TypeOK
    <3> QED
      BY <1>1, <3>1, AppendIs DEF Reads
  <2>2. newline' \in BOOLEAN
    BY <1>1 DEF Reads
  <2>3. /\ aux' \in Section /\ slots' \in Seq(Section)
        /\ status' \in {"reading", "done", "exit", "crash", "overrun"}
    BY <1>1, ParseIs, StoredType DEF Reads, TypeOK
  <2>4. ASSUME newline' = TRUE PROVE aux' \in Whole /\ slots' \in Seq(Whole)
    <3>1. l \in Lines /\ newline /\ Parse(l)
      BY <1>1, <2>4 DEF Reads
    <3> QED
      BY <3>1, WholeStays
  <2> QED
    BY <2>1, <2>2, <2>3, <2>4 DEF TypeOK
<1>2. CASE ReadEof
  <2>1. /\ slots' = Append(slots, aux) /\ aux' = Fresh /\ UNCHANGED <<file, newline>>
        /\ status' \in {"done", "overrun"}
    BY <1>2 DEF ReadEof
  <2> QED
    BY <2>1, StoredType DEF TypeOK
<1>3. CASE UNCHANGED vars
  BY <1>3 DEF vars, TypeOK
<1> QED
  BY <1>1, <1>2, <1>3, StepIs

\* The parser stays within its types: as long as every line has its newline, no
\* name and no value it stores is cut (utils.c:73-134).
THEOREM ParamsTypes == Spec => []TypeOK
BY InitTypes, StepTypes, PTL DEF Spec

----------------------------------------------------------------------------
(* Blank lines and slots *)

\* What one line more makes of the file.
LEMMA FileGrows ==
  ASSUME TypeOK, NEW l \in Lines, file' = Append(file, l)
  PROVE  LET n == Len(file) + 1
         IN  /\ DOMAIN file \subseteq Nat /\ n \in Nat /\ \A i \in DOMAIN file : i < n
             /\ DOMAIN file' = DOMAIN file \cup {n} /\ Len(file') = n
             /\ file'[n] = l /\ \A i \in DOMAIN file : file'[i] = file[i]
             /\ l.kind = "blank" => Blanks' = Blanks \cup {n}
             /\ l.kind # "blank" => Blanks' = Blanks
<1> DEFINE n == Len(file) + 1
<1>1. file \in Seq(Lines)
  BY DEF TypeOK
<1>2. /\ DOMAIN file = 1..Len(file) /\ Len(file) \in Nat /\ Len(file') = n
      /\ DOMAIN file' = DOMAIN file \cup {n} /\ n \notin DOMAIN file
      /\ file'[n] = l /\ \A i \in DOMAIN file : file'[i] = file[i]
  BY <1>1, AppendIs
<1>3. \A i \in DOMAIN file : i < n
  BY <1>2
<1> HIDE DEF n
<1>4. /\ l.kind = "blank" => Blanks' = Blanks \cup {n}
      /\ l.kind # "blank" => Blanks' = Blanks
  BY <1>2 DEF Blanks
<1> QED
  BY <1>2, <1>3, <1>4 DEF n

LEMMA BlanksFinite ==
  ASSUME TypeOK
  PROVE  IsFiniteSet(Blanks) /\ Cardinality(Blanks) \in Nat /\ Blanks \subseteq DOMAIN file
<1>1. DOMAIN file = 1..Len(file) /\ Len(file) \in Nat
  BY LenProperties DEF TypeOK
<1>2. Blanks \in SUBSET (1..Len(file)) /\ IsFiniteSet(1..Len(file))
  BY <1>1, FS_Interval DEF Blanks
<1>3. IsFiniteSet(Blanks)
  BY <1>2, FS_Subset
<1> QED
  BY <1>1, <1>2, <1>3, FS_CardinalityType

\* While the file is read a slot has been taken for each blank line, and one for
\* a last line that was emptied.
SlotsTaken ==
  status = "reading" => Len(slots) <= Cardinality(Blanks) + (IF newline THEN 0 ELSE 1)

BlanksInv == TypeOK /\ SlotsTaken /\ BlanksFillSlots

LEMMA InitBlanks == Init => BlanksInv
<1> SUFFICES ASSUME Init PROVE BlanksInv
  OBVIOUS
<1>1. TypeOK /\ Len(slots) = 0 /\ newline = TRUE /\ status = "reading"
  BY InitTypes, EmptySeq DEF Init
<1> QED
  BY <1>1, BlanksFinite DEF BlanksInv, SlotsTaken, BlanksFillSlots

LEMMA StepBlanks == BlanksInv /\ [Next]_vars => BlanksInv'
<1> SUFFICES ASSUME BlanksInv, [Next]_vars PROVE BlanksInv'
  OBVIOUS
<1> DEFINE taken == Cardinality(Blanks)
<1>1. /\ TypeOK /\ TypeOK' /\ SlotsTaken /\ BlanksFillSlots
      /\ newline \in BOOLEAN /\ Len(slots) \in Nat /\ MAX_PROCESSES \in Nat
      /\ aux \in Section /\ slots \in Seq(Section)
  BY StepTypes, LenProperties, ParamsAssumption DEF BlanksInv, TypeOK
<1>2. taken \in Nat /\ taken' \in Nat
  <2>1. Cardinality(Blanks)' \in Nat
    <3>1. IsFiniteSet(Blanks)'
      BY <1>1, BlanksFinite, PTL
    <3> QED
      BY <3>1, FS_CardinalityType
  <2> QED
    BY <1>1, <2>1, BlanksFinite
<1>3. ASSUME NEW l, NEW cut, Reads(l, cut) PROVE SlotsTaken' /\ BlanksFillSlots'
  <2>1. /\ l \in Lines /\ cut \in CutLines /\ status = "reading" /\ newline
        /\ file' = Append(file, l) /\ Parse(cut)
        /\ \/ cut = l /\ newline' = TRUE
           \/ l.kind # "blank" /\ newline' = FALSE
    BY <1>3 DEF Reads
  <2>2. /\ l.kind = "blank" => taken' = taken + 1
        /\ l.kind # "blank" => taken' = taken
    <3>1. IsFiniteSet(Blanks) /\ Len(file) + 1 \notin Blanks
      BY <1>1, <2>1, FileGrows, BlanksFinite
    <3>2. l.kind = "blank" => Blanks' = Blanks \cup {Len(file) + 1}
      BY <1>1, <2>1, FileGrows
    <3>3. l.kind # "blank" => Blanks' = Blanks
      BY <1>1, <2>1, FileGrows
    <3>4. Cardinality(Blanks \cup {Len(file) + 1}) = Cardinality(Blanks) + 1
      BY <3>1, FS_AddElement
    <3>5. /\ l.kind = "blank" => Cardinality(Blanks') = Cardinality(Blanks) + 1
          /\ l.kind # "blank" => Cardinality(Blanks') = Cardinality(Blanks)
      BY <3>2, <3>3, <3>4
    <3> QED
      BY <3>5
  <2>3. Len(slots) <= taken
    BY <1>1, <1>2, <2>1 DEF SlotsTaken
  <2> HIDE DEF taken
  <2>4. CASE cut.kind = "blank" /\ Len(slots) < MAX_PROCESSES
    <3>1. status' = "reading" /\ Len(slots') = Len(slots) + 1
      <4>1. slots' = Append(slots, aux) /\ status' = "reading"
        BY <1>1, <2>1, <2>4, ParseIs
      <4> QED
        BY <1>1, <4>1, AppendIs
    <3> QED
      BY <1>1, <1>2, <2>1, <2>2, <2>3, <2>4, <3>1 DEF SlotsTaken, BlanksFillSlots, taken
  <2>5. CASE cut.kind = "blank" /\ Len(slots) >= MAX_PROCESSES
    <3>1. status' = "overrun"
      BY <1>1, <2>1, <2>5, ParseIs
    <3> QED
      BY <1>1, <1>2, <2>1, <2>2, <2>3, <2>5, <3>1 DEF SlotsTaken, BlanksFillSlots, taken
  <2>6. CASE cut.kind # "blank"
    <3>1. slots' = slots /\ status' # "overrun"
      BY <1>1, <2>1, <2>6, ParseIs
    <3> QED
      BY <1>1, <1>2, <2>1, <2>2, <2>3, <2>6, <3>1 DEF SlotsTaken, BlanksFillSlots, taken
  <2> QED
    BY <1>1, <2>4, <2>5, <2>6
<1>4. ASSUME ReadEof PROVE SlotsTaken' /\ BlanksFillSlots'
  <2>1. taken' = taken /\ newline' = newline /\ status = "reading"
    BY <1>4 DEF ReadEof, Blanks
  <2>2. status' # "reading" /\ (status' = "overrun" => ~(Len(slots) < MAX_PROCESSES))
    BY <1>1, <1>4 DEF ReadEof, Overrun
  <2> HIDE DEF taken
  <2> QED
    BY <1>1, <1>2, <2>1, <2>2 DEF SlotsTaken, BlanksFillSlots, taken
<1>5. ASSUME UNCHANGED vars PROVE SlotsTaken' /\ BlanksFillSlots'
  BY <1>1, <1>2, <1>5 DEF vars, SlotsTaken, BlanksFillSlots, Blanks
<1> QED
  BY <1>1, <1>3, <1>4, <1>5, StepIs DEF BlanksInv

\* The array of the caller is overrun only by a file that has as many blank lines
\* as the array has slots, or one less and a last line that is emptied
\* (utils.c:73-91).
THEOREM BlanksOverrun == Spec => []BlanksFillSlots
<1>1. BlanksInv => BlanksFillSlots
  BY DEF BlanksInv
<1> QED
  BY <1>1, InitBlanks, StepBlanks, PTL DEF Spec

----------------------------------------------------------------------------
(* The lines of a section, those before the last blank line and those after *)
(* it, which the parser is still collecting                                  *)

Open == {i \in DOMAIN file : \A b \in Blanks : b < i}
Titled(p) == \E t \in Open : file[t] = Title(p)
OpenSays(k) == {i \in Open : file[i].kind = "entry" /\ file[i].key = k}
ClosedSays(p, k) == BlockSays(p, k) \ Open

LEMMA LinesNat ==
  ASSUME TypeOK
  PROVE  DOMAIN file \subseteq Nat /\ Blanks \subseteq DOMAIN file /\ Open \subseteq DOMAIN file
BY LenProperties DEF TypeOK, Blanks, Open

LEMMA OpenTogether ==
  ASSUME TypeOK, NEW i \in DOMAIN file, NEW t \in DOMAIN file
  PROVE  /\ i \in Open /\ t \in Open => ~Apart(i, t)
         /\ i \in Open /\ ~Apart(i, t) => t \in Open
         /\ t \in Open /\ ~Apart(i, t) => i \in Open
<1>1. i \in Nat /\ t \in Nat /\ Blanks \subseteq Nat
  BY LinesNat
<1>2. ASSUME i \in Open, t \in Open PROVE ~Apart(i, t)
  BY <1>1, <1>2 DEF Apart, Open
<1>3. ASSUME ~Apart(i, t), NEW b \in Blanks
      PROVE  (b < i => b < t) /\ (b < t => b < i)
  <2>1. b \notin i..t /\ b \notin t..i
    BY <1>3 DEF Apart
  <2> QED
    BY <1>1, <2>1
<1> QED
  BY <1>2, <1>3 DEF Open

LEMMA SaysSplit ==
  ASSUME TypeOK, NEW p, NEW k
  PROVE  /\ Titled(p) => BlockSays(p, k) = ClosedSays(p, k) \cup OpenSays(k)
         /\ ~Titled(p) => BlockSays(p, k) = ClosedSays(p, k)
         /\ BlockSays(p, k) \subseteq Nat /\ OpenSays(k) \subseteq Nat
         /\ \A i \in ClosedSays(p, k), j \in OpenSays(k) : i < j
<1>1. ASSUME NEW i \in Open PROVE i \in BlockOf(p) <=> Titled(p)
  BY <1>1, LinesNat, OpenTogether DEF BlockOf, Titled
<1>2. BlockSays(p, k) = ClosedSays(p, k) \cup {i \in OpenSays(k) : Titled(p)}
  <2>1. ASSUME NEW i \in Open PROVE i \in BlockSays(p, k) <=> Titled(p) /\ i \in OpenSays(k)
    BY <1>1, <2>1 DEF BlockSays, OpenSays
  <2>2. OpenSays(k) \subseteq Open
    BY DEF OpenSays
  <2> QED
    BY <2>1, <2>2 DEF ClosedSays
<1>3. BlockSays(p, k) \subseteq DOMAIN file /\ OpenSays(k) \subseteq DOMAIN file
  BY LinesNat DEF BlockSays, BlockOf, OpenSays
<1>4. ASSUME NEW i \in ClosedSays(p, k), NEW j \in OpenSays(k) PROVE i < j
  <2>1. i \in DOMAIN file /\ i \notin Open /\ j \in Open
    BY <1>3 DEF ClosedSays, OpenSays
  <2>2. PICK b \in Blanks : ~(b < i)
    BY <2>1 DEF Open
  <2>3. b < j
    BY <2>1 DEF Open
  <2>4. b \in Nat /\ i \in Nat /\ j \in Nat
    BY <2>1, LinesNat
  <2> QED
    BY <2>2, <2>3, <2>4
<1> QED
  BY <1>2, <1>3, <1>4, LinesNat

\* What one line more makes of the open lines, and of what the closed ones say.
LEMMA OpenGrows ==
  ASSUME TypeOK, NEW l \in Lines, file' = Append(file, l)
  PROVE  /\ l.kind = "blank" => Open' = {}
         /\ l.kind # "blank" => Open' = Open \cup {Len(file) + 1}
         /\ \A i, t \in DOMAIN file : Apart(i, t)' <=> Apart(i, t)
<1> DEFINE n == Len(file) + 1
<1>1. /\ DOMAIN file \subseteq Nat /\ n \in Nat /\ \A i \in DOMAIN file : i < n
      /\ DOMAIN file' = DOMAIN file \cup {n}
      /\ l.kind = "blank" => Blanks' = Blanks \cup {n}
      /\ l.kind # "blank" => Blanks' = Blanks
      /\ Blanks \subseteq DOMAIN file
  BY FileGrows, LinesNat
<1> HIDE DEF n
<1>2. ASSUME l.kind = "blank" PROVE Open' = {}
  <2>1. ASSUME NEW i \in DOMAIN file' PROVE ~(n < i)
    BY <1>1
  <2> QED
    BY <1>1, <1>2, <2>1 DEF Open
<1>3. ASSUME l.kind # "blank" PROVE Open' = Open \cup {n}
  <2>1. Open' = {i \in DOMAIN file \cup {n} : \A b \in Blanks : b < i}
    BY <1>1, <1>3 DEF Open
  <2>2. \A b \in Blanks : b < n
    BY <1>1
  <2> QED
    BY <2>1, <2>2 DEF Open
<1>4. ASSUME NEW i \in DOMAIN file, NEW t \in DOMAIN file PROVE Apart(i, t)' <=> Apart(i, t)
  <2>1. n \notin i..t /\ n \notin t..i
    BY <1>1
  <2> QED
    BY <1>1, <2>1 DEF Apart
<1> QED
  BY <1>2, <1>3, <1>4 DEF n

LEMMA TitledGrows ==
  ASSUME TypeOK, NEW l \in Lines, file' = Append(file, l), NEW p
  PROVE  /\ l.kind = "blank" => ~Titled(p)'
         /\ l.kind # "blank" => (Titled(p)' <=> Titled(p) \/ l = Title(p))
<1> DEFINE n == Len(file) + 1
<1>1. /\ file'[n] = l /\ \A i \in Open : file'[i] = file[i]
      /\ l.kind = "blank" => Open' = {}
      /\ l.kind # "blank" => Open' = Open \cup {n}
  BY FileGrows, OpenGrows, LinesNat
<1> HIDE DEF n
<1> QED
  BY <1>1 DEF Titled

LEMMA OpenSaysGrows ==
  ASSUME TypeOK, NEW l \in Lines, file' = Append(file, l), NEW k
  PROVE  /\ l.kind = "blank" => OpenSays(k)' = {}
         /\ l.kind = "entry" /\ l.key = k => OpenSays(k)' = OpenSays(k) \cup {Len(file) + 1}
         /\ l.kind # "blank" /\ ~(l.kind = "entry" /\ l.key = k) => OpenSays(k)' = OpenSays(k)
<1> DEFINE n == Len(file) + 1
<1>1. /\ file'[n] = l /\ \A i \in Open : file'[i] = file[i]
      /\ l.kind = "blank" => Open' = {}
      /\ l.kind # "blank" => Open' = Open \cup {n}
  BY FileGrows, OpenGrows, LinesNat
<1> HIDE DEF n
<1>2. OpenSays(k)' = {i \in Open' : file'[i].kind = "entry" /\ file'[i].key = k}
  BY DEF OpenSays
<1> QED
  BY <1>1, <1>2 DEF OpenSays, n

OpenStaysTogether == \A a, b \in DOMAIN file : b \in Open /\ ~Apart(a, b) => a \in Open

LEMMA OpenRun == TypeOK => OpenStaysTogether
BY OpenTogether DEF OpenStaysTogether

\* Closed lines say what they said; a blank line closes the open ones.
LEMMA ClosedSaysGrows ==
  ASSUME TypeOK, TypeOK', NEW l \in Lines, file' = Append(file, l), NEW p, NEW k
  PROVE  /\ l.kind = "blank" => ClosedSays(p, k)' = BlockSays(p, k)
         /\ l.kind # "blank" => ClosedSays(p, k)' = ClosedSays(p, k)
         /\ BlockSays(p, k) \subseteq BlockSays(p, k)'
<1> DEFINE n == Len(file) + 1
<1>1. /\ DOMAIN file' = DOMAIN file \cup {n} /\ n \notin DOMAIN file
      /\ file'[n] = l /\ \A i \in DOMAIN file : file'[i] = file[i]
      /\ l.kind = "blank" => Open' = {}
      /\ l.kind # "blank" => Open' = Open \cup {n}
      /\ \A i, t \in DOMAIN file : Apart(i, t)' <=> Apart(i, t)
  BY FileGrows, OpenGrows
<1> HIDE DEF n
<1>2. ASSUME NEW i \in DOMAIN file, NEW t \in DOMAIN file', ~Apart(i, t)', i \notin Open'
      PROVE  t \notin Open'
  <2>1. OpenStaysTogether'
    BY OpenRun, PTL
  <2> QED
    BY <1>1, <1>2, <2>1 DEF OpenStaysTogether
<1>3. ASSUME NEW i \in DOMAIN file PROVE i \in BlockSays(p, k) => i \in BlockSays(p, k)'
  BY <1>1, <1>3 DEF BlockSays, BlockOf
<1>4. ASSUME NEW i \in DOMAIN file, i \notin Open', i \in BlockSays(p, k)' PROVE i \in BlockSays(p, k)
  <2>1. PICK t \in DOMAIN file' : file'[t] = Title(p) /\ ~Apart(i, t)'
    BY <1>4 DEF BlockSays, BlockOf
  <2>2. t \notin Open'
    BY <1>2, <1>4, <2>1
  <2>3. t \in DOMAIN file
    <3>1. CASE l.kind = "blank"
      BY <1>1, <2>1, <3>1 DEF Title
    <3>2. CASE l.kind # "blank"
      BY <1>1, <2>1, <2>2, <3>2
    <3> QED
      BY <3>1, <3>2
  <2> QED
    BY <1>1, <1>4, <2>1, <2>3 DEF BlockSays, BlockOf
<1>5. BlockSays(p, k) \subseteq DOMAIN file /\ BlockSays(p, k)' \subseteq DOMAIN file'
  BY DEF BlockSays, BlockOf
<1>6. CASE l.kind = "blank"
  <2>1. n \notin BlockSays(p, k)'
    BY <1>1, <1>6 DEF BlockSays
  <2>2. BlockSays(p, k)' = BlockSays(p, k)
    BY <1>1, <1>3, <1>4, <1>5, <1>6, <2>1
  <2> QED
    BY <1>1, <1>6, <2>2 DEF ClosedSays
<1>7. CASE l.kind # "blank"
  <2>1. ClosedSays(p, k)' = {i \in BlockSays(p, k)' : i \notin Open \cup {n}}
    BY <1>1, <1>7 DEF ClosedSays
  <2>2. ClosedSays(p, k) = {i \in BlockSays(p, k) : i \notin Open}
    BY DEF ClosedSays
  <2> QED
    BY <1>1, <1>3, <1>4, <1>5, <1>7, <2>1, <2>2
<1> QED
  BY <1>6, <1>7

----------------------------------------------------------------------------
(* Whose values they are *)

\* Every pair of a slot stands in a section of the file that has the slot's title,
\* and every pair that is collected, and the title, in the open lines.
SlotsOwn ==
  \A p \in Names, k \in Keys :
    \A n \in DOMAIN slots : \A j \in DOMAIN slots[n].pairs :
      slots[n].name = p /\ slots[n].pairs[j][1] = k =>
        \E i \in BlockSays(p, k) : file[i].value = slots[n].pairs[j][2]
AuxOwn ==
  /\ \A p \in Names : aux.name = p => Titled(p)
  /\ \A k \in Keys : \A j \in DOMAIN aux.pairs :
       aux.pairs[j][1] = k => \E i \in OpenSays(k) : file[i].value = aux.pairs[j][2]

OwnInv ==
  /\ TypeOK
  /\ newline = TRUE /\ status \in {"reading", "done"} => SlotsOwn
  /\ newline = TRUE /\ status = "reading" => AuxOwn

LEMMA InitOwn == Init => OwnInv
<1> SUFFICES ASSUME Init PROVE OwnInv
  OBVIOUS
<1>1. PICK n \in {"none", "longer"}, r \in BOOLEAN : aux = [Fresh EXCEPT !.name = n, !.random = r]
  BY DEF Init
<1>2. aux.name \notin Names /\ DOMAIN aux.pairs = {} /\ DOMAIN slots = {}
  BY <1>1, ParamsAssumption DEF Fresh, Init
<1> QED
  BY <1>2, InitTypes DEF OwnInv, SlotsOwn, AuxOwn

\* The section that was collected becomes a slot.
LEMMA StoredOwn ==
  ASSUME TypeOK, SlotsOwn, AuxOwn, slots' = Append(slots, aux),
         \A p, k : BlockSays(p, k) \subseteq BlockSays(p, k)',
         \A i \in DOMAIN file : file'[i] = file[i]
  PROVE  SlotsOwn'
<1>1. /\ DOMAIN slots' = DOMAIN slots \cup {Len(slots) + 1} /\ slots'[Len(slots) + 1] = aux
      /\ \A n \in DOMAIN slots : slots'[n] = slots[n]
  BY AppendIs DEF TypeOK
<1>2. \A p, k : BlockSays(p, k) \subseteq DOMAIN file
  BY DEF BlockSays, BlockOf
<1>3. ASSUME NEW p \in Names, NEW k \in Keys, NEW n \in DOMAIN slots',
             NEW j \in DOMAIN slots'[n].pairs, slots'[n].name = p, slots'[n].pairs[j][1] = k
      PROVE  \E i \in BlockSays(p, k)' : file'[i].value = slots'[n].pairs[j][2]
  <2>1. \E i \in BlockSays(p, k) : file[i].value = slots'[n].pairs[j][2]
    <3>1. CASE n \in DOMAIN slots
      BY <1>1, <1>3, <3>1 DEF SlotsOwn
    <3>2. CASE n = Len(slots) + 1
      <4>1. Titled(p) /\ \E i \in OpenSays(k) : file[i].value = slots'[n].pairs[j][2]
        BY <1>1, <1>3, <3>2 DEF AuxOwn
      <4> QED
        BY <4>1, SaysSplit
    <3> QED
      BY <1>1, <3>1, <3>2
  <2> QED
    BY <1>2, <2>1
<1> QED
  BY <1>3 DEF SlotsOwn

LEMMA SlotsStayOwn ==
  ASSUME TypeOK, SlotsOwn, UNCHANGED slots,
         \A p, k : BlockSays(p, k) \subseteq BlockSays(p, k)',
         \A i \in DOMAIN file : file'[i] = file[i]
  PROVE  SlotsOwn'
<1>1. \A p, k : BlockSays(p, k) \subseteq DOMAIN file
  BY DEF BlockSays, BlockOf
<1>2. ASSUME NEW p \in Names, NEW k \in Keys, NEW n \in DOMAIN slots,
             NEW j \in DOMAIN slots[n].pairs, slots[n].name = p, slots[n].pairs[j][1] = k
      PROVE  \E i \in BlockSays(p, k)' : file'[i].value = slots[n].pairs[j][2]
  <2>1. PICK i \in BlockSays(p, k) : file[i].value = slots[n].pairs[j][2]
    BY <1>2 DEF SlotsOwn
  <2> QED
    BY <1>1, <2>1
<1> QED
  BY <1>2 DEF SlotsOwn

\* A line that neither ends the section nor gives it a pair.
LEMMA AuxStaysOwn ==
  ASSUME TypeOK, AuxOwn, NEW l \in Lines, file' = Append(file, l),
         l.kind \notin {"blank", "entry"}, aux'.pairs = aux.pairs,
         \A p \in Names : aux'.name = p => aux.name = p \/ l = Title(p)
  PROVE  AuxOwn'
<1>1. \A p : Titled(p)' <=> Titled(p) \/ l = Title(p)
  BY TitledGrows
<1>2. \A k : OpenSays(k)' = OpenSays(k)
  BY OpenSaysGrows
<1>3. \A k : \A i \in OpenSays(k) : file'[i] = file[i]
  BY FileGrows, LinesNat DEF OpenSays
<1> QED
  BY <1>1, <1>2, <1>3 DEF AuxOwn

LEMMA EntryOwn ==
  ASSUME TypeOK, AuxOwn, NEW l \in Lines, file' = Append(file, l), l.kind = "entry",
         aux'.name = aux.name, aux'.pairs = Append(aux.pairs, <<l.key, l.value>>)
  PROVE  AuxOwn'
<1>1. \A p : Titled(p) => Titled(p)'
  BY TitledGrows
<1>2. aux.pairs \in Seq(PairOf) /\ <<l.key, l.value>> \in PairOf
  BY LineIs, SectionIs DEF TypeOK, PairOf
<1>3. /\ DOMAIN aux'.pairs = DOMAIN aux.pairs \cup {Len(aux.pairs) + 1}
      /\ \A j \in DOMAIN aux.pairs : aux'.pairs[j] = aux.pairs[j]
      /\ aux'.pairs[Len(aux.pairs) + 1] = <<l.key, l.value>>
  BY <1>2, AppendIs
<1>4. /\ \A k : OpenSays(k) \subseteq OpenSays(k)'
      /\ \A k : l.key = k => Len(file) + 1 \in OpenSays(k)'
  BY OpenSaysGrows
<1>5. /\ \A k : \A i \in OpenSays(k) : file'[i] = file[i]
      /\ file'[Len(file) + 1] = l
  BY FileGrows, LinesNat DEF OpenSays
<1>6. ASSUME NEW k \in Keys, NEW j \in DOMAIN aux'.pairs, aux'.pairs[j][1] = k
      PROVE  \E i \in OpenSays(k)' : file'[i].value = aux'.pairs[j][2]
  <2>1. CASE j \in DOMAIN aux.pairs
    <3>1. PICK i \in OpenSays(k) : file[i].value = aux.pairs[j][2]
      BY <1>3, <1>6, <2>1 DEF AuxOwn
    <3> QED
      BY <1>3, <1>4, <1>5, <2>1, <3>1
  <2>2. CASE j = Len(aux.pairs) + 1
    BY <1>3, <1>4, <1>5, <1>6, <2>2
  <2> QED
    BY <1>3, <2>1, <2>2
<1> QED
  BY <1>1, <1>6 DEF AuxOwn

LEMMA StepOwn == OwnInv /\ [Next]_vars => OwnInv'
<1> SUFFICES ASSUME OwnInv, [Next]_vars PROVE OwnInv'
  OBVIOUS
<1>1. TypeOK /\ TypeOK'
  BY StepTypes DEF OwnInv
<1> DEFINE Owned == /\ newline = TRUE /\ status \in {"reading", "done"} => SlotsOwn
                    /\ newline = TRUE /\ status = "reading" => AuxOwn
<1>2. ASSUME NEW l, NEW cut, Reads(l, cut) PROVE Owned'
  <2>1. SUFFICES ASSUME newline' = TRUE PROVE Owned'
    OBVIOUS
  <2>2. /\ l \in Lines /\ l \in CutLines /\ status = "reading" /\ file' = Append(file, l)
        /\ Parse(l) /\ SlotsOwn /\ AuxOwn
    <3>1. newline = TRUE
      BY <1>1, <1>2 DEF Reads, TypeOK
    <3> QED
      BY <1>2, <2>1, <3>1 DEF Reads, OwnInv
  <2>3. /\ \A p, k : BlockSays(p, k) \subseteq BlockSays(p, k)'
        /\ \A i \in DOMAIN file : file'[i] = file[i]
    BY <1>1, <2>2, ClosedSaysGrows, FileGrows
  <2>4. ASSUME l.kind = "blank", slots' = Append(slots, aux), aux' = Fresh
        PROVE  SlotsOwn' /\ AuxOwn'
    <3>1. SlotsOwn'
      BY <1>1, <2>2, <2>3, <2>4, StoredOwn
    <3>2. aux'.name \notin Names /\ DOMAIN aux'.pairs = {}
      BY <2>4, SectionIs, ParamsAssumption
    <3> QED
      BY <3>1, <3>2 DEF AuxOwn
  <2>5. ASSUME l.kind = "comment", UNCHANGED <<aux, slots>> PROVE SlotsOwn' /\ AuxOwn'
    BY <1>1, <2>2, <2>3, <2>5, SlotsStayOwn, AuxStaysOwn
  <2>6. ASSUME l.kind = "title", UNCHANGED slots, aux'.name = Copied(aux.name, l.name),
               aux'.pairs = aux.pairs
        PROVE  SlotsOwn' /\ AuxOwn'
    <3>1. \A p \in Names : aux'.name = p => l = Title(p)
      BY <2>2, <2>6, LineIs, ParamsAssumption DEF Copied
    <3> QED
      BY <1>1, <2>2, <2>3, <2>6, <3>1, SlotsStayOwn, AuxStaysOwn
  <2>7. ASSUME l.kind = "entry", UNCHANGED slots, aux'.name = aux.name,
               aux'.pairs = Append(aux.pairs, <<l.key, l.value>>)
        PROVE  SlotsOwn' /\ AuxOwn'
    BY <1>1, <2>2, <2>3, <2>7, SlotsStayOwn, EntryOwn
  <2> QED
    BY <1>1, <2>2, <2>4, <2>5, <2>6, <2>7, ParseIs
<1>3. ASSUME ReadEof PROVE Owned'
  <2>1. SUFFICES ASSUME newline' = TRUE, status' = "done" PROVE SlotsOwn'
    BY <1>3 DEF ReadEof
  <2>2. SlotsOwn /\ AuxOwn /\ slots' = Append(slots, aux) /\ UNCHANGED file
    BY <1>3, <2>1 DEF ReadEof, OwnInv
  <2>3. \A p, k : BlockSays(p, k)' = BlockSays(p, k)
    BY <2>2 DEF BlockSays, BlockOf, Apart, Blanks
  <2> QED
    BY <1>1, <2>2, <2>3, StoredOwn
<1>4. ASSUME UNCHANGED vars PROVE Owned'
  <2>1. /\ \A p, k : BlockSays(p, k)' = BlockSays(p, k)
        /\ \A k : OpenSays(k)' = OpenSays(k)
        /\ \A p : Titled(p)' = Titled(p)
    BY <1>4 DEF vars, BlockSays, BlockOf, Apart, Blanks, OpenSays, Titled, Open
  <2>2. OwnInv /\ UNCHANGED <<file, newline, aux, slots, status>>
    BY <1>4 DEF vars
  <2> QED
    BY <2>1, <2>2 DEF OwnInv, SlotsOwn, AuxOwn
<1> QED
  BY <1>1, <1>2, <1>3, <1>4, StepIs DEF OwnInv

\* Where get_param looks, and that it finds something there.
LEMMA LookupFinds ==
  ASSUME TypeOK, NEW p, NEW k, Found(p, k) # {}
  PROVE  \E n \in DOMAIN slots : \E j \in DOMAIN slots[n].pairs :
           /\ slots[n].name = p /\ slots[n].pairs[j][1] = k
           /\ Lookup(p, k) = slots[n].pairs[j][2]
<1>1. DOMAIN slots \subseteq Nat
  BY LenProperties DEF TypeOK
<1>2. Min(Found(p, k)) \in Found(p, k)
  <2>1. Found(p, k) \in SUBSET Nat
    BY <1>1 DEF Found, Named
  <2> QED
    BY <2>1, LeastNat
<1>3. PICK n \in Found(p, k) : n = Min(Found(p, k))
  BY <1>2
<1>4. n \in DOMAIN slots /\ slots[n].name = p /\ Pairs(slots[n], k) # {}
  BY DEF Found, Named
<1>5. Pairs(slots[n], k) \in SUBSET Nat
  <2>1. slots[n] \in Section
    <3>1. slots \in Seq(Section) /\ slots \in [1..Len(slots) -> Section]
      BY LenProperties DEF TypeOK
    <3> QED
      BY <1>4, <3>1
  <2>2. slots[n].pairs \in Seq(PairOf)
    BY <2>1, SectionIs
  <2>3. DOMAIN slots[n].pairs \subseteq Nat
    BY <2>2, LenProperties
  <2> QED
    BY <2>3 DEF Pairs
<1>6. Min(Pairs(slots[n], k)) \in Pairs(slots[n], k)
  BY <1>4, <1>5, LeastNat
<1> QED
  BY <1>3, <1>4, <1>6 DEF Lookup, Value, Pairs

\* In every file whose last line is complete, well-formed or not, a parameter is
\* read only from a block that has its title (utils.c:82-131, 156-168).
THEOREM OwnBlockOnly == Spec => []BlanksDivide
<1>1. OwnInv => BlanksDivide
  <2> SUFFICES ASSUME OwnInv, status = "done", newline,
                      NEW p \in Names, NEW k \in Keys, Lookup(p, k) # 0
               PROVE  \E i \in BlockSays(p, k) : file[i].value = Lookup(p, k)
    BY DEF BlanksDivide
  <2>1. TypeOK /\ SlotsOwn
    BY DEF OwnInv, TypeOK
  <2>2. Found(p, k) # {}
    BY DEF Lookup
  <2>3. PICK n \in DOMAIN slots : \E j \in DOMAIN slots[n].pairs :
          /\ slots[n].name = p /\ slots[n].pairs[j][1] = k
          /\ Lookup(p, k) = slots[n].pairs[j][2]
    BY <2>1, <2>2, LookupFinds
  <2> QED
    BY <2>1, <2>3 DEF SlotsOwn
<1> QED
  BY <1>1, InitOwn, StepOwn, PTL DEF Spec

----------------------------------------------------------------------------
(* What the file says, block by block *)

BlockMeaning(p, k) ==
  IF BlockSays(p, k) = {} THEN 0
  ELSE file[Min(BlockSays(p, k))].value

\* No two titles in a block, and a blank line before the first one: in such a file,
\* and so in every well-formed one, the parser returns what the blocks say.
Separated ==
  \A i \in DOMAIN file :
    file[i].kind = "title" =>
      /\ \E b \in Blanks : b < i
      /\ \A j \in DOMAIN file : j # i /\ file[j].kind = "title" => Apart(i, j)

BlockLastLine(p, k) ==
  /\ ~newline
  /\ \/ file[Len(file)] = Title(p)
     \/ /\ Len(file) \in BlockOf(p)
        /\ file[Len(file)].kind \in {"entry", "notFloat"} /\ file[Len(file)].key = k
BlocksAgree ==
  status = "done" /\ Separated =>
    \A p \in Names, k \in Keys :
      ~Unbounded(p, k) /\ (Lookup(p, k) = BlockMeaning(p, k) \/ BlockLastLine(p, k))

\* The pairs that are collected say what the open lines say.
PairsAgree ==
  \A k \in Keys :
    /\ Pairs(aux, k) = {} <=> OpenSays(k) = {}
    /\ OpenSays(k) # {} => Value(aux, k) = file[Min(OpenSays(k))].value

\* The section has the title of the open lines, and only the first, that has none,
\* can have been started with what was on the stack.
NamesAgree ==
  /\ \A p \in Names : aux.name = p <=> Titled(p)
  /\ Blanks # {} => aux.name # "longer"
  /\ aux.name \in Names => ~aux.random
  /\ Blanks # {} => ~aux.random
  /\ \A n \in DOMAIN slots : slots[n].name \in Names => ~slots[n].random

\* The slots say what the closed lines say.
SlotsAgree ==
  \A p \in Names, k \in Keys :
    /\ Found(p, k) = {} <=> ClosedSays(p, k) = {}
    /\ ClosedSays(p, k) # {} => Lookup(p, k) = file[Min(ClosedSays(p, k))].value

Collected == PairsAgree /\ (Separated => NamesAgree /\ SlotsAgree)

\* What get_param would return if the section that is collected were stored.
AllFound(p, k) == Found(p, k) # {} \/ (aux.name = p /\ Pairs(aux, k) # {})
AllLookup(p, k) ==
  IF Found(p, k) # {} THEN Lookup(p, k)
  ELSE IF aux.name = p /\ Pairs(aux, k) # {} THEN Value(aux, k) ELSE 0

Ready ==
  \A p \in Names, k \in Keys :
    /\ AllLookup(p, k) = BlockMeaning(p, k) \/ BlockLastLine(p, k)
    /\ ~Unbounded(p, k) /\ ~(aux.name = p /\ aux.random)

AgreeInv ==
  /\ TypeOK
  /\ newline = TRUE /\ status = "reading" => Collected
  /\ newline = FALSE /\ status = "reading" /\ Separated => Ready
  /\ BlocksAgree

\* All sections together say what the whole file says.
LEMMA CollectedSays ==
  ASSUME TypeOK, Separated, Collected, NEW p \in Names, NEW k \in Keys
  PROVE  /\ AllFound(p, k) <=> BlockSays(p, k) # {}
         /\ AllLookup(p, k) = BlockMeaning(p, k)
         /\ BlockSays(p, k) # {} => AllLookup(p, k) = file[Min(BlockSays(p, k))].value
         /\ ~Unbounded(p, k) /\ ~(aux.name = p /\ aux.random)
<1>1. PairsAgree /\ NamesAgree /\ SlotsAgree
  BY DEF Collected
<1>2. aux.name = p <=> Titled(p)
  BY <1>1 DEF NamesAgree
<1>3. /\ Titled(p) => BlockSays(p, k) = ClosedSays(p, k) \cup OpenSays(k)
      /\ ~Titled(p) => BlockSays(p, k) = ClosedSays(p, k)
      /\ BlockSays(p, k) \subseteq Nat /\ OpenSays(k) \subseteq Nat
      /\ \A i \in ClosedSays(p, k), j \in OpenSays(k) : i < j
  BY SaysSplit
<1>4. ClosedSays(p, k) \in SUBSET Nat /\ OpenSays(k) \in SUBSET Nat
  BY <1>3 DEF ClosedSays
<1>5. /\ ClosedSays(p, k) # {} =>
           Min(ClosedSays(p, k) \cup OpenSays(k)) = Min(ClosedSays(p, k))
      /\ ClosedSays(p, k) = {} =>
           Min(ClosedSays(p, k) \cup OpenSays(k)) = Min(OpenSays(k))
  BY <1>3, <1>4, MinGreater
<1>6. AllFound(p, k) <=> BlockSays(p, k) # {}
  BY <1>1, <1>2, <1>3 DEF AllFound, PairsAgree, SlotsAgree
<1>7. BlockSays(p, k) # {} => AllLookup(p, k) = file[Min(BlockSays(p, k))].value
  <2>1. CASE ClosedSays(p, k) # {}
    BY <1>1, <1>3, <1>5, <2>1 DEF AllLookup, SlotsAgree
  <2>2. CASE ClosedSays(p, k) = {} /\ Titled(p)
    BY <1>1, <1>2, <1>3, <1>5, <2>2 DEF AllLookup, SlotsAgree, PairsAgree
  <2>3. CASE ClosedSays(p, k) = {} /\ ~Titled(p)
    BY <1>3, <2>3
  <2> QED
    BY <2>1, <2>2, <2>3
<1>8. BlockSays(p, k) = {} => AllLookup(p, k) = 0
  BY <1>6 DEF AllFound, AllLookup
<1>9. ~Unbounded(p, k) /\ ~(aux.name = p /\ aux.random)
  BY <1>1 DEF NamesAgree, Unbounded, Named
<1> QED
  BY <1>6, <1>7, <1>8, <1>9 DEF BlockMeaning

\* What storing the section adds to get_param.
LEMMA StoreIs ==
  ASSUME TypeOK, slots' = Append(slots, aux), NEW p, NEW k
  PROVE  /\ Found(p, k)' # {} <=> AllFound(p, k)
         /\ Lookup(p, k)' = AllLookup(p, k)
         /\ Unbounded(p, k)' => Unbounded(p, k) \/ (aux.name = p /\ aux.random)
<1> DEFINE n == Len(slots) + 1
           new == IF aux.name = p /\ Pairs(aux, k) # {} THEN {n} ELSE {}
<1>1. /\ DOMAIN slots' = DOMAIN slots \cup {n} /\ slots'[n] = aux
      /\ \A i \in DOMAIN slots : slots'[i] = slots[i]
      /\ DOMAIN slots = 1..Len(slots) /\ Len(slots) \in Nat
  BY AppendIs DEF TypeOK
<1>2. DOMAIN slots \in SUBSET Nat /\ n \in Nat /\ n \notin DOMAIN slots
      /\ \A i \in DOMAIN slots : i < n
  BY <1>1
<1> HIDE DEF n
<1>3. Found(p, k) = {i \in DOMAIN slots : slots[i].name = p /\ Pairs(slots[i], k) # {}}
  BY DEF Found, Named
<1>4. Found(p, k)' = {i \in DOMAIN slots' : slots'[i].name = p /\ Pairs(slots'[i], k) # {}}
  BY DEF Found, Named, Pairs
<1>5. Found(p, k)' = Found(p, k) \cup new
  BY <1>1, <1>3, <1>4
<1>6. Lookup(p, k)' = IF Found(p, k)' = {} THEN 0 ELSE Value(slots'[Min(Found(p, k)')], k)
  BY DEF Lookup, Value, Pairs, Min
<1>7. Found(p, k) \in SUBSET Nat /\ new \in SUBSET Nat
      /\ \A i \in Found(p, k), j \in new : i < j
  BY <1>2, <1>3
<1>8. /\ Found(p, k) # {} => Min(Found(p, k)') = Min(Found(p, k))
      /\ Found(p, k) = {} => Min(Found(p, k)') = Min(new)
  BY <1>5, <1>7, MinGreater
<1>9. Unbounded(p, k)' => Unbounded(p, k) \/ (aux.name = p /\ aux.random)
  <2>1. Unbounded(p, k)' <=>
          \E i \in DOMAIN slots' : slots'[i].name = p /\ slots'[i].random /\ Pairs(slots'[i], k) = {}
    BY DEF Unbounded, Named, Pairs
  <2> QED
    BY <1>1, <2>1 DEF Unbounded, Named
<1>10. CASE Found(p, k) # {}
  <2>1. Min(Found(p, k)) \in DOMAIN slots
    BY <1>3, <1>7, <1>10, LeastNat
  <2>2. Lookup(p, k)' = Lookup(p, k)
    BY <1>1, <1>5, <1>6, <1>8, <1>10, <2>1 DEF Lookup
  <2> QED
    BY <1>5, <1>9, <1>10, <2>2 DEF AllFound, AllLookup
<1>11. CASE Found(p, k) = {} /\ aux.name = p /\ Pairs(aux, k) # {}
  <2>1. new = {n}
    BY <1>11
  <2>2. Min(new) = n
    BY <1>7, <2>1, LeastNat
  <2>3. Lookup(p, k)' = Value(aux, k)
    BY <1>1, <1>5, <1>6, <1>8, <1>11, <2>1, <2>2
  <2> QED
    BY <1>5, <1>9, <1>11, <2>1, <2>3 DEF AllFound, AllLookup
<1>12. CASE Found(p, k) = {} /\ ~(aux.name = p /\ Pairs(aux, k) # {})
  BY <1>5, <1>6, <1>9, <1>12 DEF AllFound, AllLookup
<1> QED
  BY <1>10, <1>11, <1>12

LEMMA SlotsSame ==
  ASSUME UNCHANGED slots, NEW p, NEW k
  PROVE  /\ Found(p, k)' = Found(p, k) /\ Lookup(p, k)' = Lookup(p, k)
         /\ Unbounded(p, k)' <=> Unbounded(p, k)
<1>1. Found(p, k)' = Found(p, k)
  BY DEF Found, Named, Pairs
<1>2. Lookup(p, k)' = IF Found(p, k)' = {} THEN 0 ELSE Value(slots'[Min(Found(p, k)')], k)
  BY DEF Lookup, Value, Pairs, Min
<1>3. Unbounded(p, k)' <=> Unbounded(p, k)
  BY DEF Unbounded, Named, Pairs
<1> QED
  BY <1>1, <1>2, <1>3 DEF Lookup

\* A well-formed file was well-formed before its last line.
LEMMA SeparatedBefore ==
  ASSUME TypeOK, NEW l \in Lines, file' = Append(file, l), Separated'
  PROVE  Separated
<1> DEFINE n == Len(file) + 1
<1>1. /\ DOMAIN file \subseteq Nat /\ n \in Nat /\ \A i \in DOMAIN file : i < n
      /\ DOMAIN file' = DOMAIN file \cup {n}
      /\ \A i \in DOMAIN file : file'[i] = file[i]
      /\ Blanks' \subseteq Blanks \cup {n}
  BY FileGrows
<1>2. \A i, t \in DOMAIN file : Apart(i, t)' <=> Apart(i, t)
  BY OpenGrows
<1> HIDE DEF n
<1> SUFFICES ASSUME NEW i \in DOMAIN file, file[i].kind = "title"
             PROVE  /\ \E b \in Blanks : b < i
                    /\ \A j \in DOMAIN file : j # i /\ file[j].kind = "title" => Apart(i, j)
  BY DEF Separated
<1>3. \E b \in Blanks' : b < i
  BY <1>1 DEF Separated
<1>4. \A j \in DOMAIN file : j # i /\ file[j].kind = "title" => Apart(i, j)'
  BY <1>1 DEF Separated
<1>5. \E b \in Blanks : b < i
  BY <1>1, <1>3
<1> QED
  BY <1>2, <1>4, <1>5

\* In a well-formed file a title is the first of the open lines, after a blank.
LEMMA OneTitle ==
  ASSUME TypeOK, NEW l \in Lines, file' = Append(file, l), l.kind = "title", Separated'
  PROVE  Blanks # {} /\ \A p : ~Titled(p)
<1>0. PICK n \in Nat : n = Len(file) + 1
  BY FileGrows
<1>1. /\ DOMAIN file \subseteq Nat /\ n \in Nat /\ \A i \in DOMAIN file : i < n
      /\ DOMAIN file' = DOMAIN file \cup {n} /\ file'[n] = l
      /\ \A i \in DOMAIN file : file'[i] = file[i]
      /\ Blanks' = Blanks /\ Blanks \subseteq DOMAIN file
  BY <1>0, FileGrows, LinesNat
<1>2. /\ \E b \in Blanks' : b < n
      /\ \A j \in DOMAIN file' : j # n /\ file'[j].kind = "title" => Apart(n, j)'
  BY <1>1 DEF Separated
<1>3. ASSUME NEW p, NEW t \in Open, file[t] = Title(p) PROVE FALSE
  <2>1. t \in DOMAIN file /\ t # n /\ file'[t].kind = "title"
    BY <1>1, <1>3, LinesNat DEF Title
  <2>2. Apart(n, t)'
    BY <1>1, <1>2, <2>1
  <2>3. PICK b \in Blanks : b \in n..t \/ b \in t..n
    BY <1>1, <2>2 DEF Apart
  <2>4. b < t
    BY DEF Open
  <2>5. b \in Nat /\ t \in Nat /\ t < n
    BY <1>1, <2>1
  <2> QED
    BY <1>1, <2>3, <2>4, <2>5
<1> QED
  BY <1>1, <1>2, <1>3 DEF Titled

\* The parser's copy of the open lines, line by line.
LEMMA PairsAgreeSame ==
  ASSUME TypeOK, PairsAgree, NEW l \in Lines, file' = Append(file, l),
         l.kind \notin {"blank", "entry"}, aux'.pairs = aux.pairs
  PROVE  PairsAgree'
<1> SUFFICES ASSUME NEW k \in Keys
             PROVE  /\ Pairs(aux', k) = {} <=> OpenSays(k)' = {}
                    /\ OpenSays(k)' # {} => Value(aux', k) = file'[Min(OpenSays(k)')].value
  BY DEF PairsAgree, Pairs, Value, Min
<1>1. OpenSays(k)' = OpenSays(k)
  BY OpenSaysGrows
<1>2. Pairs(aux', k) = Pairs(aux, k) /\ Value(aux', k) = Value(aux, k)
  BY DEF Pairs, Value
<1>3. OpenSays(k) # {} => Min(OpenSays(k)) \in DOMAIN file
  <2>1. OpenSays(k) \in SUBSET Nat /\ OpenSays(k) \subseteq DOMAIN file
    BY LinesNat DEF OpenSays
  <2> QED
    BY <2>1, LeastNat
<1>4. \A i \in DOMAIN file : file'[i] = file[i]
  BY FileGrows
<1> QED
  BY <1>1, <1>2, <1>3, <1>4 DEF PairsAgree

\* One pair more: only the value of its key can change, and only if there was none.
LEMMA PairAdded ==
  ASSUME TypeOK, NEW key \in Keys, NEW value \in Values \cup Tenths, NEW k,
         aux'.pairs = Append(aux.pairs, <<key, value>>)
  PROVE  /\ Pairs(aux', k) = {} <=> Pairs(aux, k) = {} /\ key # k
         /\ Pairs(aux, k) # {} => Value(aux', k) = Value(aux, k)
         /\ Pairs(aux, k) = {} /\ key = k => Value(aux', k) = value
<1> DEFINE n == Len(aux.pairs) + 1
           new == IF key = k THEN {n} ELSE {}
<1>1. aux.pairs \in Seq(PairOf) /\ <<key, value>> \in PairOf
  BY SectionIs DEF TypeOK, PairOf
<1>2. /\ DOMAIN aux'.pairs = DOMAIN aux.pairs \cup {n} /\ aux'.pairs[n] = <<key, value>>
      /\ \A j \in DOMAIN aux.pairs : aux'.pairs[j] = aux.pairs[j]
      /\ DOMAIN aux.pairs = 1..Len(aux.pairs) /\ Len(aux.pairs) \in Nat
  BY <1>1, AppendIs
<1>3. DOMAIN aux.pairs \in SUBSET Nat /\ n \in Nat /\ \A j \in DOMAIN aux.pairs : j < n
  BY <1>2
<1> HIDE DEF n
<1>4. Pairs(aux', k) = Pairs(aux, k) \cup new
  BY <1>2 DEF Pairs
<1>5. Pairs(aux, k) \in SUBSET Nat /\ new \in SUBSET Nat
      /\ \A i \in Pairs(aux, k), j \in new : i < j
  BY <1>3 DEF Pairs
<1>6. /\ Pairs(aux, k) # {} => Min(Pairs(aux', k)) = Min(Pairs(aux, k))
      /\ Pairs(aux, k) = {} => Min(Pairs(aux', k)) = Min(new)
  BY <1>4, <1>5, MinGreater
<1>7. Pairs(aux, k) # {} => Min(Pairs(aux, k)) \in DOMAIN aux.pairs
  BY <1>5, LeastNat DEF Pairs
<1>8. key = k => Min(new) = n
  BY <1>5, LeastNat
<1> QED
  BY <1>2, <1>4, <1>6, <1>7, <1>8 DEF Value

LEMMA PairsAgreeEntry ==
  ASSUME TypeOK, PairsAgree, NEW l \in Lines, file' = Append(file, l), l.kind = "entry",
         aux'.pairs = Append(aux.pairs, <<l.key, l.value>>)
  PROVE  PairsAgree'
<1> SUFFICES ASSUME NEW k \in Keys
             PROVE  /\ Pairs(aux', k) = {} <=> OpenSays(k)' = {}
                    /\ OpenSays(k)' # {} => Value(aux', k) = file'[Min(OpenSays(k)')].value
  BY DEF PairsAgree, Pairs, Value, Min
<1> DEFINE n == Len(file) + 1
           new == IF l.key = k THEN {n} ELSE {}
<1>1. /\ \A i \in DOMAIN file : file'[i] = file[i] /\ i < n
      /\ file'[n] = l /\ n \in Nat
  BY FileGrows
<1>2. OpenSays(k)' = OpenSays(k) \cup new
  BY OpenSaysGrows
<1> HIDE DEF n
<1>3. OpenSays(k) \in SUBSET Nat /\ OpenSays(k) \subseteq DOMAIN file
  BY LinesNat DEF OpenSays
<1>4. new \in SUBSET Nat /\ \A i \in OpenSays(k), j \in new : i < j
  BY <1>1, <1>3
<1>5. /\ OpenSays(k) # {} => Min(OpenSays(k)') = Min(OpenSays(k))
      /\ OpenSays(k) = {} => Min(OpenSays(k)') = Min(new)
  BY <1>2, <1>3, <1>4, MinGreater
<1>6. OpenSays(k) # {} => Min(OpenSays(k)) \in DOMAIN file
  BY <1>3, LeastNat
<1>7. l.key = k => Min(new) = n
  BY <1>4, LeastNat
<1>8. /\ Pairs(aux', k) = {} <=> Pairs(aux, k) = {} /\ l.key # k
      /\ Pairs(aux, k) # {} => Value(aux', k) = Value(aux, k)
      /\ Pairs(aux, k) = {} /\ l.key = k => Value(aux', k) = l.value
  <2>1. l.key \in Keys /\ l.value \in Values \cup Tenths
    BY LineIs
  <2> QED
    BY <2>1, PairAdded
<1>9. /\ Pairs(aux, k) = {} <=> OpenSays(k) = {}
      /\ OpenSays(k) # {} => Value(aux, k) = file[Min(OpenSays(k))].value
  BY DEF PairsAgree
<1> QED
  BY <1>1, <1>2, <1>5, <1>6, <1>7, <1>8, <1>9

LEMMA BlockMeaningSame ==
  ASSUME TypeOK, NEW p, NEW k, BlockSays(p, k)' = BlockSays(p, k),
         \A i \in DOMAIN file : file'[i] = file[i]
  PROVE  BlockMeaning(p, k)' = BlockMeaning(p, k)
<1>1. BlockSays(p, k) # {} => Min(BlockSays(p, k)) \in DOMAIN file
  <2>1. BlockSays(p, k) \in SUBSET Nat /\ BlockSays(p, k) \subseteq DOMAIN file
    BY LinesNat DEF BlockSays, BlockOf
  <2> QED
    BY <2>1, LeastNat
<1>2. BlockMeaning(p, k)' = IF BlockSays(p, k)' = {} THEN 0 ELSE file'[Min(BlockSays(p, k)')].value
  BY DEF BlockMeaning, Min
<1> QED
  BY <1>1, <1>2 DEF BlockMeaning

LEMMA SlotsAgreeSame ==
  ASSUME TypeOK, TypeOK', SlotsAgree, NEW l \in Lines, file' = Append(file, l),
         l.kind # "blank", UNCHANGED slots
  PROVE  SlotsAgree'
<1> SUFFICES ASSUME NEW p \in Names, NEW k \in Keys
             PROVE  /\ Found(p, k)' = {} <=> ClosedSays(p, k)' = {}
                    /\ ClosedSays(p, k)' # {} =>
                         Lookup(p, k)' = file'[Min(ClosedSays(p, k)')].value
  BY DEF SlotsAgree, Min
<1>1. ClosedSays(p, k)' = ClosedSays(p, k)
  BY ClosedSaysGrows
<1>2. ClosedSays(p, k) # {} => Min(ClosedSays(p, k)) \in DOMAIN file
  <2>1. ClosedSays(p, k) \in SUBSET Nat /\ ClosedSays(p, k) \subseteq DOMAIN file
    BY LinesNat DEF ClosedSays, BlockSays, BlockOf
  <2> QED
    BY <2>1, LeastNat
<1>3. \A i \in DOMAIN file : file'[i] = file[i]
  BY FileGrows
<1> QED
  BY <1>1, <1>2, <1>3, SlotsSame DEF SlotsAgree

LEMMA SlotsAgreeBlank ==
  ASSUME TypeOK, TypeOK', Separated, Collected, NEW l \in Lines, file' = Append(file, l),
         l.kind = "blank", slots' = Append(slots, aux)
  PROVE  SlotsAgree'
<1> SUFFICES ASSUME NEW p \in Names, NEW k \in Keys
             PROVE  /\ Found(p, k)' = {} <=> ClosedSays(p, k)' = {}
                    /\ ClosedSays(p, k)' # {} =>
                         Lookup(p, k)' = file'[Min(ClosedSays(p, k)')].value
  BY DEF SlotsAgree, Min
<1>1. ClosedSays(p, k)' = BlockSays(p, k)
  BY ClosedSaysGrows
<1>2. BlockSays(p, k) # {} => Min(BlockSays(p, k)) \in DOMAIN file
  <2>1. BlockSays(p, k) \in SUBSET Nat /\ BlockSays(p, k) \subseteq DOMAIN file
    BY LinesNat DEF BlockSays, BlockOf
  <2> QED
    BY <2>1, LeastNat
<1>3. \A i \in DOMAIN file : file'[i] = file[i]
  BY FileGrows
<1>4. /\ AllFound(p, k) <=> BlockSays(p, k) # {}
      /\ BlockSays(p, k) # {} => AllLookup(p, k) = file[Min(BlockSays(p, k))].value
  BY CollectedSays
<1>5. (Found(p, k)' # {} <=> AllFound(p, k)) /\ Lookup(p, k)' = AllLookup(p, k)
  BY StoreIs
<1> QED
  BY <1>1, <1>2, <1>3, <1>4, <1>5

LEMMA NamesAgreeSame ==
  ASSUME TypeOK, NamesAgree, NEW l \in Lines, file' = Append(file, l),
         l.kind \notin {"blank", "title"}, UNCHANGED slots,
         aux'.name = aux.name, aux'.random = aux.random
  PROVE  NamesAgree'
<1>1. \A p : Titled(p)' <=> Titled(p)
  BY TitledGrows DEF Title
<1>2. Blanks' = Blanks
  BY FileGrows
<1> QED
  BY <1>1, <1>2 DEF NamesAgree

LEMMA NamesAgreeTitle ==
  ASSUME TypeOK, NamesAgree, NEW l \in Lines, file' = Append(file, l), Separated',
         l.kind = "title", UNCHANGED slots,
         aux'.name = Copied(aux.name, l.name), aux'.random = aux.random
  PROVE  NamesAgree'
<1>1. \A p : Titled(p)' <=> l = Title(p)
  BY OneTitle, TitledGrows
<1>2. Blanks' = Blanks /\ Blanks # {}
  BY FileGrows, OneTitle
<1>3. aux'.name = l.name /\ ~aux'.random
  BY <1>2 DEF NamesAgree, Copied
<1>4. l = Title(l.name) /\ l.name # "longer"
  BY LineIs, ParamsAssumption
<1>5. \A p : l = Title(p) <=> l.name = p
  BY <1>4 DEF Title
<1> QED
  BY <1>1, <1>2, <1>3, <1>4, <1>5 DEF NamesAgree

LEMMA NamesAgreeBlank ==
  ASSUME TypeOK, NamesAgree, NEW l \in Lines, file' = Append(file, l),
         l.kind = "blank", slots' = Append(slots, aux), aux' = Fresh
  PROVE  NamesAgree'
<1>1. \A p : ~Titled(p)'
  BY TitledGrows
<1>2. aux'.name = "none" /\ ~aux'.random /\ "none" \notin Names
  BY SectionIs, ParamsAssumption
<1>3. /\ DOMAIN slots' = DOMAIN slots \cup {Len(slots) + 1} /\ slots'[Len(slots) + 1] = aux
      /\ \A i \in DOMAIN slots : slots'[i] = slots[i]
  BY AppendIs DEF TypeOK
<1>4. \A n \in DOMAIN slots' : slots'[n].name \in Names => ~slots'[n].random
  BY <1>3 DEF NamesAgree
<1> QED
  BY <1>1, <1>2, <1>4 DEF NamesAgree

LEMMA CollectedStep ==
  ASSUME TypeOK, TypeOK', Collected, NEW l \in Lines, file' = Append(file, l),
         Parse(l), status = "reading", status' = "reading"
  PROVE  Collected'
<1>1. l \in CutLines
  BY LineIs
<1>2. CASE l.kind = "blank"
  <2>1. slots' = Append(slots, aux) /\ aux' = Fresh
    BY <1>1, <1>2, ParseIs
  <2>2. PairsAgree'
    <3>1. \A k \in Keys : Pairs(aux', k) = {} /\ OpenSays(k)' = {}
      BY <1>2, <2>1, OpenSaysGrows, SectionIs DEF Pairs
    <3> QED
      BY <3>1 DEF PairsAgree, Pairs
  <2>3. ASSUME Separated' PROVE NamesAgree' /\ SlotsAgree'
    <3>1. Separated
      BY <2>3, SeparatedBefore
    <3>2. NamesAgree
      BY <3>1 DEF Collected
    <3> QED
      BY <1>2, <2>1, <3>1, <3>2, NamesAgreeBlank, SlotsAgreeBlank
  <2> QED
    BY <2>2, <2>3 DEF Collected
<1>3. CASE l.kind # "blank"
  <2>1. UNCHANGED slots /\ aux'.random = aux.random
        /\ l.kind \in {"comment", "title", "entry"}
        /\ (l.kind # "entry" => aux'.pairs = aux.pairs)
        /\ (l.kind = "entry" => aux'.pairs = Append(aux.pairs, <<l.key, l.value>>))
        /\ (l.kind # "title" => aux'.name = aux.name)
        /\ (l.kind = "title" => aux'.name = Copied(aux.name, l.name))
    BY <1>1, <1>3, ParseIs
  <2>2. PairsAgree'
    BY <1>3, <2>1, PairsAgreeSame, PairsAgreeEntry DEF Collected
  <2>3. ASSUME Separated' PROVE NamesAgree' /\ SlotsAgree'
    <3>1. NamesAgree /\ SlotsAgree
      BY <2>3, SeparatedBefore DEF Collected
    <3>2. SlotsAgree'
      BY <1>3, <2>1, <3>1, SlotsAgreeSame
    <3>3. NamesAgree'
      BY <1>3, <2>1, <2>3, <3>1, NamesAgreeSame, NamesAgreeTitle
    <3> QED
      BY <3>2, <3>3
  <2> QED
    BY <2>2, <2>3 DEF Collected
<1> QED
  BY <1>2, <1>3

\* A last line that is not one of p's entries for k, nor p's title, changes nothing
\* for them.
LEMMA SaysSame ==
  ASSUME TypeOK, NEW l \in Lines, file' = Append(file, l), NEW p, NEW k,
         l # Title(p), Len(file) + 1 \notin BlockSays(p, k)'
  PROVE  BlockSays(p, k)' = BlockSays(p, k)
<1>0. PICK n \in Nat : n = Len(file) + 1
  BY FileGrows
<1>1. /\ DOMAIN file' = DOMAIN file \cup {n} /\ n \notin DOMAIN file
      /\ file'[n] = l /\ \A i \in DOMAIN file : file'[i] = file[i]
  BY <1>0, FileGrows
<1>2. \A i, t \in DOMAIN file : Apart(i, t)' <=> Apart(i, t)
  BY OpenGrows
<1>3. ASSUME NEW i \in BlockSays(p, k)' PROVE i \in BlockSays(p, k)
  <2>1. i \in DOMAIN file /\ file[i].kind = "entry" /\ file[i].key = k
    BY <1>0, <1>1 DEF BlockSays, BlockOf
  <2>2. PICK t \in DOMAIN file' : file'[t] = Title(p) /\ ~Apart(i, t)'
    BY DEF BlockSays, BlockOf
  <2>3. t \in DOMAIN file
    BY <1>1, <2>2
  <2> QED
    BY <1>1, <1>2, <2>1, <2>2, <2>3 DEF BlockSays, BlockOf
<1>4. ASSUME NEW i \in BlockSays(p, k) PROVE i \in BlockSays(p, k)'
  BY <1>1, <1>2 DEF BlockSays, BlockOf
<1> QED
  BY <1>3, <1>4

\* A last line that is not blank is in the block of p if p's title is there.
LEMMA LastLineIn ==
  ASSUME TypeOK, NEW l \in Lines, file' = Append(file, l), l.kind # "blank", NEW p, Titled(p)
  PROVE  Len(file) + 1 \in BlockOf(p)'
<1>0. PICK n \in Nat : n = Len(file) + 1
  BY FileGrows
<1>1. /\ DOMAIN file' = DOMAIN file \cup {n} /\ file'[n] = l
      /\ DOMAIN file \subseteq Nat /\ \A i \in DOMAIN file : file'[i] = file[i] /\ i < n
      /\ Blanks' = Blanks /\ Blanks \subseteq DOMAIN file
  BY <1>0, FileGrows, LinesNat
<1>2. PICK t \in Open : file[t] = Title(p)
  BY DEF Titled
<1>3. t \in DOMAIN file /\ \A b \in Blanks : b < t
  BY <1>2, LinesNat DEF Open
<1>4. ~Apart(n, t)'
  <2>1. ASSUME NEW b \in Blanks PROVE b \notin n..t /\ b \notin t..n
    BY <1>1, <1>3
  <2> QED
    BY <1>1, <2>1 DEF Apart
<1> QED
  BY <1>0, <1>1, <1>2, <1>3, <1>4 DEF BlockOf

LEMMA AllLookupIs ==
  ASSUME NEW p, NEW k
  PROVE  AllLookup(p, k)' = IF Found(p, k)' # {} THEN Lookup(p, k)'
                            ELSE IF aux'.name = p /\ Pairs(aux', k) # {} THEN Value(aux', k) ELSE 0
BY DEF AllLookup, Pairs, Value, Min

\* A last line without a newline: only what it says itself can be misread.
LEMMA LastLineReady ==
  ASSUME TypeOK, TypeOK', Collected, NEW l \in Lines, l.kind # "blank",
         NEW cut \in CutLines, cut \in Shortened(l),
         file' = Append(file, l), newline' = FALSE, Parse(cut),
         status = "reading", status' = "reading", Separated'
  PROVE  Ready'
<1>0. Separated
  BY SeparatedBefore
<1>1. NamesAgree /\ \A p \in Names : aux.name = p <=> Titled(p)
  BY <1>0 DEF Collected, NamesAgree
<1> SUFFICES ASSUME NEW p \in Names, NEW k \in Keys
             PROVE  /\ AllLookup(p, k)' = BlockMeaning(p, k)' \/ BlockLastLine(p, k)'
                    /\ ~Unbounded(p, k)' /\ ~(aux'.name = p /\ aux'.random)
  BY DEF Ready
<1>2. /\ AllLookup(p, k) = BlockMeaning(p, k)
      /\ ~Unbounded(p, k) /\ ~(aux.name = p /\ aux.random)
  BY <1>0, CollectedSays
<1>3. ASSUME ~BlockLastLine(p, k)'
      PROVE  /\ l # Title(p) /\ Len(file) + 1 \notin BlockSays(p, k)'
             /\ BlockMeaning(p, k)' = BlockMeaning(p, k)
  <2>1. /\ Len(file') = Len(file) + 1 /\ file'[Len(file) + 1] = l
        /\ \A i \in DOMAIN file : file'[i] = file[i]
    BY FileGrows
  <2>2. l # Title(p) /\ Len(file) + 1 \notin BlockSays(p, k)'
    BY <1>3, <2>1 DEF BlockLastLine, BlockSays
  <2>3. BlockSays(p, k)' = BlockSays(p, k)
    BY <2>2, SaysSame
  <2> QED
    BY <2>1, <2>2, <2>3, BlockMeaningSame
<1>4. CASE cut.kind = "blank"
  <2>1. slots' = Append(slots, aux) /\ aux' = Fresh
    BY <1>4, ParseIs
  <2>2. aux'.name # p
    BY <2>1, SectionIs, ParamsAssumption
  <2>3. Lookup(p, k)' = AllLookup(p, k) /\ ~Unbounded(p, k)'
    BY <1>2, <2>1, StoreIs
  <2>4. Found(p, k)' = {} => Lookup(p, k)' = 0
    BY DEF Lookup
  <2>5. AllLookup(p, k)' = Lookup(p, k)'
    BY <2>2, <2>4, AllLookupIs
  <2> QED
    BY <1>2, <1>3, <2>2, <2>3, <2>5
<1>5. CASE cut.kind = "comment"
  <2>1. UNCHANGED <<aux, slots>>
    BY <1>5, ParseIs
  <2>2. AllLookup(p, k)' = AllLookup(p, k) /\ ~Unbounded(p, k)'
    BY <1>2, <2>1, SlotsSame, AllLookupIs DEF AllLookup
  <2> QED
    BY <1>2, <1>3, <2>1, <2>2
<1>6. CASE cut.kind = "title"
  <2>1. /\ UNCHANGED slots /\ aux'.name = Copied(aux.name, cut.name)
        /\ aux'.random = aux.random
    BY <1>6, ParseIs
  <2>2. l.kind = "title" /\ cut = Title(IF aux.name \in {l.name, "longer"} THEN aux.name ELSE "other")
    BY <1>6, LineIs DEF Shortened, Title, Entry, Line
  <2>3. Blanks # {} /\ ~Titled(p) /\ ~Titled(l.name) /\ l.name \in Names
    BY <2>2, OneTitle, LineIs
  <2>4. aux.name # "longer" /\ aux.name # l.name /\ aux.name # p
    BY <1>1, <2>3 DEF NamesAgree
  <2>5. cut.name = "other"
    BY <2>2, <2>4 DEF Title
  <2>6. aux'.name = "other" /\ "other" \notin Names
    BY <2>1, <2>4, <2>5, ParamsAssumption DEF Copied
  <2>7. AllLookup(p, k)' = AllLookup(p, k) /\ ~Unbounded(p, k)'
    BY <1>2, <2>1, <2>4, <2>6, SlotsSame, AllLookupIs DEF AllLookup
  <2> QED
    BY <1>2, <1>3, <2>6, <2>7
<1>7. CASE cut.kind = "entry"
  <2>1. /\ UNCHANGED slots /\ aux'.name = aux.name /\ aux'.random = aux.random
        /\ aux'.pairs = Append(aux.pairs, <<cut.key, cut.value>>)
    BY <1>7, ParseIs
  <2>2. l.kind \in {"entry", "notFloat"} /\ cut.key = l.key
    BY <1>7, LineIs DEF Shortened, Title, Entry, Line
  <2>3. /\ Pairs(aux', k) = {} <=> Pairs(aux, k) = {} /\ cut.key # k
        /\ Pairs(aux, k) # {} => Value(aux', k) = Value(aux, k)
    <3>1. cut.key \in Keys /\ cut.value \in Values \cup Tenths
      BY <1>7, CutLineIs
    <3> QED
      BY <2>1, <3>1, PairAdded
  <2>4. ASSUME ~BlockLastLine(p, k)' PROVE aux.name # p \/ cut.key # k
    <3>1. SUFFICES ASSUME aux.name = p, cut.key = k PROVE FALSE
      OBVIOUS
    <3>2. Len(file) + 1 \in BlockOf(p)'
      BY <1>1, <3>1, LastLineIn
    <3>3. Len(file') = Len(file) + 1 /\ file'[Len(file) + 1] = l
      BY FileGrows
    <3> QED
      BY <2>2, <2>4, <3>1, <3>2, <3>3 DEF BlockLastLine
  <2>5. ASSUME ~BlockLastLine(p, k)' PROVE AllLookup(p, k)' = AllLookup(p, k)
    BY <2>1, <2>3, <2>4, <2>5, SlotsSame, AllLookupIs DEF AllLookup
  <2>6. ~Unbounded(p, k)'
    BY <1>2, <2>1, SlotsSame
  <2> QED
    BY <1>2, <1>3, <2>1, <2>5, <2>6
<1>8. cut.kind \in {"blank", "comment", "title", "entry"}
  BY ParseIs
<1> QED
  BY <1>4, <1>5, <1>6, <1>7, <1>8

\* The sections that are stored at the end of the file.
LEMMA EofAgrees ==
  ASSUME AgreeInv, ReadEof, status' = "done"
  PROVE  BlocksAgree'
<1> SUFFICES ASSUME Separated', NEW p \in Names, NEW k \in Keys
             PROVE  ~Unbounded(p, k)' /\ (Lookup(p, k)' = BlockMeaning(p, k)' \/ BlockLastLine(p, k)')
  BY DEF BlocksAgree
<1>1. /\ TypeOK /\ status = "reading" /\ UNCHANGED <<file, newline>>
      /\ slots' = Append(slots, aux) /\ newline \in BOOLEAN
  BY DEF ReadEof, AgreeInv, TypeOK
<1>2. /\ Separated /\ BlockMeaning(p, k)' = BlockMeaning(p, k)
      /\ BlockLastLine(p, k)' <=> BlockLastLine(p, k)
  BY <1>1 DEF Separated, BlockMeaning, BlockLastLine, BlockSays, BlockOf, Apart, Blanks, Min
<1>3. /\ AllLookup(p, k) = BlockMeaning(p, k) \/ BlockLastLine(p, k)
      /\ ~Unbounded(p, k) /\ ~(aux.name = p /\ aux.random)
  <2>1. CASE newline = TRUE
    BY <1>1, <1>2, <2>1, CollectedSays DEF AgreeInv
  <2>2. CASE newline = FALSE
    BY <1>1, <1>2, <2>2 DEF AgreeInv, Ready
  <2> QED
    BY <1>1, <2>1, <2>2
<1> QED
  BY <1>1, <1>2, <1>3, StoreIs

LEMMA InitAgree == Init => AgreeInv
<1> SUFFICES ASSUME Init PROVE AgreeInv
  OBVIOUS
<1>1. PICK n \in {"none", "longer"}, r \in BOOLEAN : aux = [Fresh EXCEPT !.name = n, !.random = r]
  BY DEF Init
<1>2. /\ aux.name \notin Names /\ DOMAIN aux.pairs = {}
      /\ DOMAIN slots = {} /\ DOMAIN file = {}
      /\ status = "reading" /\ newline = TRUE
  BY <1>1, ParamsAssumption DEF Fresh, Init
<1>3. Open = {} /\ Blanks = {} /\ \A p, k : BlockSays(p, k) = {} /\ Found(p, k) = {}
  BY <1>2 DEF Open, Blanks, BlockSays, BlockOf, Found, Named
<1>4. PairsAgree
  BY <1>2, <1>3 DEF PairsAgree, Pairs, OpenSays
<1>5. NamesAgree /\ SlotsAgree
  BY <1>2, <1>3 DEF NamesAgree, SlotsAgree, Titled, ClosedSays
<1> QED
  BY <1>2, <1>4, <1>5, InitTypes DEF AgreeInv, Collected, BlocksAgree

LEMMA StepAgree == AgreeInv /\ [Next]_vars => AgreeInv'
<1> SUFFICES ASSUME AgreeInv, [Next]_vars PROVE AgreeInv'
  OBVIOUS
<1>1. TypeOK /\ TypeOK' /\ newline \in BOOLEAN
  BY StepTypes DEF AgreeInv, TypeOK
<1> DEFINE Agreed == /\ newline = TRUE /\ status = "reading" => Collected
                     /\ newline = FALSE /\ status = "reading" /\ Separated => Ready
                     /\ BlocksAgree
<1>2. ASSUME NEW l, NEW cut, Reads(l, cut) PROVE Agreed'
  <2>1. /\ l \in Lines /\ cut \in CutLines /\ status = "reading" /\ Collected
        /\ file' = Append(file, l) /\ Parse(cut)
        /\ \/ cut = l /\ newline' = TRUE
           \/ cut \in Shortened(l) /\ l.kind # "blank" /\ newline' = FALSE
    BY <1>1, <1>2 DEF Reads, AgreeInv
  <2>2. ASSUME newline' = TRUE, status' = "reading" PROVE Collected'
    BY <1>1, <2>1, <2>2, CollectedStep
  <2>3. ASSUME newline' = FALSE, status' = "reading", Separated' PROVE Ready'
    BY <1>1, <2>1, <2>3, LastLineReady
  <2>4. status' # "done"
    BY <1>1, <2>1, ParseIs
  <2>5. BlocksAgree'
    BY <2>4 DEF BlocksAgree
  <2> QED
    BY <2>2, <2>3, <2>5
<1>3. ASSUME ReadEof PROVE Agreed'
  <2>1. status' \in {"done", "overrun"}
    BY <1>3 DEF ReadEof
  <2>2. status' # "done" => BlocksAgree'
    BY DEF BlocksAgree
  <2> QED
    BY <1>3, <2>1, <2>2, EofAgrees
<1>4. ASSUME UNCHANGED vars PROVE Agreed'
  <2>1. UNCHANGED <<file, newline, aux, slots, status>>
    BY <1>4 DEF vars
  <2>2. Collected' <=> Collected
    BY <2>1 DEF Collected, PairsAgree, NamesAgree, SlotsAgree, Separated, Lookup, Found, Named,
                Pairs, Value, Titled, ClosedSays, OpenSays, Open, BlockSays, BlockOf, Apart, Blanks, Min
  <2>3. /\ Ready' <=> Ready
        /\ BlocksAgree' <=> BlocksAgree
        /\ Separated' <=> Separated
    BY <2>1 DEF Ready, BlocksAgree, Separated, AllLookup, Unbounded, BlockLastLine, BlockMeaning, Lookup,
                Found, Named, Pairs, Value, BlockSays, BlockOf, Apart, Blanks, Min
  <2> QED
    BY <2>1, <2>2, <2>3 DEF AgreeInv
<1> QED
  BY <1>1, <1>2, <1>3, <1>4, StepIs DEF AgreeInv

LEMMA ApartEitherWay == \A i, j : Apart(i, j) <=> Apart(j, i)
BY DEF Apart

\* Two lines that nothing blank lies between are in one block.
LEMMA NotApart ==
  ASSUME TypeOK, NEW i \in DOMAIN file, NEW t \in DOMAIN file, t <= i,
         \A j \in DOMAIN file : t <= j /\ j <= i => file[j].kind # "blank"
  PROVE  ~Apart(i, t)
<1>1. DOMAIN file \subseteq Nat
  BY LinesNat
<1>2. ASSUME NEW b \in Blanks, b \in i..t \/ b \in t..i PROVE FALSE
  <2>1. b \in DOMAIN file /\ file[b].kind = "blank" /\ b \in Nat /\ i \in Nat /\ t \in Nat
    BY <1>1 DEF Blanks
  <2>2. t <= b /\ b <= i
    BY <1>2, <2>1
  <2> QED
    BY <2>1, <2>2
<1> QED
  BY <1>2 DEF Apart

\* In a well-formed file the lines of a title are those of its block, save comments.
LEMMA WellFormedBlocks ==
  ASSUME TypeOK, WellFormed
  PROVE  /\ Separated
         /\ \A p, k : Says(p, k) = BlockSays(p, k)
         /\ \A p, k : LastLineSays(p, k) <=> BlockLastLine(p, k)
<1>1. DOMAIN file \subseteq Nat /\ file \in Seq(Lines)
      /\ \A i \in DOMAIN file : file[i] \in Lines
  <2>1. file \in [1..Len(file) -> Lines]
    BY LenProperties DEF TypeOK
  <2> QED
    BY <2>1, LinesNat DEF TypeOK
<1>2. Separated
  <2> SUFFICES ASSUME NEW i \in DOMAIN file, file[i].kind = "title"
               PROVE  /\ \E b \in Blanks : b < i
                      /\ \A j \in DOMAIN file : j # i /\ file[j].kind = "title" => Apart(i, j)
    BY DEF Separated
  <2>1. \E b \in Blanks : b < i
    BY DEF WellFormed
  <2>2. ASSUME NEW j \in DOMAIN file, j # i, file[j].kind = "title" PROVE Apart(i, j)
    <3>1. j < i \/ i < j
      BY <1>1, <2>2
    <3>2. j < i => Apart(i, j)
      BY <2>2 DEF WellFormed
    <3>3. i < j => Apart(j, i)
      BY <2>2 DEF WellFormed
    <3> QED
      BY <3>1, <3>2, <3>3, ApartEitherWay
  <2> QED
    BY <2>1, <2>2
<1>3. ASSUME NEW p, NEW i \in SectionOf(p) PROVE i \in BlockOf(p)
  <2>1. PICK t \in DOMAIN file :
          /\ t <= i /\ file[t] = Title(p)
          /\ \A j \in DOMAIN file : t < j /\ j <= i => file[j].kind \notin {"title", "blank"}
    BY <1>3 DEF SectionOf
  <2>2. i \in DOMAIN file /\ i \in Nat /\ t \in Nat
    BY <1>1, <1>3 DEF SectionOf
  <2>3. ASSUME NEW j \in DOMAIN file, t <= j, j <= i PROVE file[j].kind # "blank"
    <3>1. j = t \/ t < j
      BY <1>1, <2>2, <2>3
    <3> QED
      BY <2>1, <2>3, <3>1 DEF Title
  <2>4. ~Apart(i, t)
    BY <2>1, <2>2, <2>3, NotApart
  <2> QED
    BY <2>1, <2>2, <2>4 DEF BlockOf
<1>4. ASSUME NEW p, NEW i \in BlockOf(p), file[i].kind # "comment" PROVE i \in SectionOf(p)
  <2>1. PICK t \in DOMAIN file : file[t] = Title(p) /\ ~Apart(i, t)
    BY <1>4 DEF BlockOf
  <2>2. i \in DOMAIN file /\ i \in Nat /\ t \in Nat
    BY <1>1, <1>4 DEF BlockOf
  <2>3. file[t].kind = "title"
    BY <2>1 DEF Title
  <2>4. t <= i
    <3>1. i < t => Apart(t, i) \/ Apart(i, t)
      BY <1>4, <2>2, <2>3 DEF WellFormed
    <3>2. ~(i < t)
      BY <2>1, <3>1, ApartEitherWay
    <3> QED
      BY <2>2, <3>2
  <2>5. ASSUME NEW j \in DOMAIN file, t < j, j <= i PROVE file[j].kind \notin {"title", "blank"}
    <3>1. j \in Nat /\ j \in t..i
      BY <1>1, <2>2, <2>5
    <3>2. file[j].kind # "blank"
      BY <2>1, <3>1 DEF Apart, Blanks
    <3>3. file[j].kind # "title"
      <4>1. SUFFICES ASSUME file[j].kind = "title" PROVE FALSE
        OBVIOUS
      <4>2. Apart(j, t)
        BY <2>3, <2>5, <4>1 DEF WellFormed
      <4>3. PICK b \in Blanks : b \in t..j \/ b \in j..t
        BY <4>2 DEF Apart
      <4>4. b \in Nat
        BY <1>1 DEF Blanks
      <4>5. b \in t..i
        BY <2>2, <2>5, <3>1, <4>3, <4>4
      <4> QED
        BY <2>1, <4>5 DEF Apart
    <3> QED
      BY <3>2, <3>3
  <2> QED
    BY <2>1, <2>2, <2>4, <2>5 DEF SectionOf
<1>5. ASSUME NEW p, NEW k PROVE Says(p, k) = BlockSays(p, k)
  <2>1. ASSUME NEW i \in Says(p, k) PROVE i \in BlockSays(p, k)
    BY <1>3, <2>1 DEF Says, BlockSays
  <2>2. ASSUME NEW i \in BlockSays(p, k) PROVE i \in Says(p, k)
    BY <1>4, <2>2 DEF Says, BlockSays
  <2> QED
    BY <2>1, <2>2
<1>6. ASSUME NEW p, NEW k PROVE LastLineSays(p, k) <=> BlockLastLine(p, k)
  BY <1>3, <1>4 DEF LastLineSays, BlockLastLine
<1> QED
  BY <1>2, <1>5, <1>6

\* Every parameter of a well-formed file has the value that the file gives it,
\* whatever was on the stack and however long the file is; without a newline at
\* the end only what the last line says can be misread (utils.c:64-181).
THEOREM ParserIsRight == Spec => []ParserAgrees
<1>1. AgreeInv => ParserAgrees
  <2> SUFFICES ASSUME AgreeInv, status = "done", WellFormed, NEW p \in Names, NEW k \in Keys
               PROVE  /\ ~Unbounded(p, k)
                      /\ Lookup(p, k) = Meaning(p, k) \/ LastLineSays(p, k)
    BY DEF ParserAgrees
  <2>1. /\ Separated /\ Says(p, k) = BlockSays(p, k)
        /\ LastLineSays(p, k) <=> BlockLastLine(p, k)
    BY WellFormedBlocks DEF AgreeInv
  <2>2. Meaning(p, k) = BlockMeaning(p, k)
    BY <2>1 DEF Meaning, BlockMeaning
  <2> QED
    BY <2>1, <2>2 DEF AgreeInv, BlocksAgree
<1> QED
  BY <1>1, InitAgree, StepAgree, PTL DEF Spec
=============================================================================
