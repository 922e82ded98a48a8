------------------------------- MODULE Params -------------------------------
(***************************************************************************)
(* read_parameter_file and get_param of utils.c: the drone and the input   *)
(* process look their parameters up by parsing the whole file each time.   *)
(* The parser collects a section in aux, moves it to the next of           *)
(* MAX_PROCESSES slots at every blank line and at the end of the file, and *)
(* takes the last character off every line, a newline or not.              *)
(*                                                                         *)
(* A line is what the parser can tell of it.  A value is a natural number; *)
(* to take its last digit is to divide it by ten.  All titles are equally  *)
(* long, as those of the program are.                                      *)
(***************************************************************************)
EXTENDS Naturals, Sequences, FiniteSets, FiniteSetsExt

CONSTANTS
  Names,          \* the process names
  Keys, Values,   \* the parameters and what the file may say of them
  MAX_PROCESSES,  \* the slots of the caller's array
  MaxLines        \* bound on the length of the file

ASSUME ParamsAssumption ==
  /\ MAX_PROCESSES \in Nat \ {0} /\ MaxLines \in Nat
  /\ Values \subseteq Nat \ {0}
  /\ {"none", "longer", "other"} \cap Names = {}

VARIABLES
  file,     \* the lines read so far
  newline,  \* the last of them ends with a newline
  aux,      \* the section that is collected
  slots,    \* the sections that were stored
  status    \* "reading", "done", or how it went wrong: "exit", "crash", "overrun"

vars == <<file, newline, aux, slots, status>>

Title(p) == [kind |-> "title", name |-> p]
Entry(k, v) == [kind |-> "entry", key |-> k, value |-> v]
NotFloat(k) == [kind |-> "notFloat", key |-> k]   \* a value that is no number
Line(kind) == [kind |-> kind]                     \* blank, comment, no value at all
Lines == {Title(p) : p \in Names} \cup {Entry(k, v) : k \in Keys, v \in Values}
         \cup {NotFloat(k) : k \in Keys}
         \cup {Line(kind) : kind \in {"blank", "comment", "noValue"}}

\* A section: its name, its pairs, and whether the keys after them are the
\* random contents of a variable that was never initialised.  "none" is the
\* empty name, "longer" one with more characters than any title, "other" one
\* that was cut.
Sections(names, values) == [name : names, pairs : Seq(Keys \X values), random : BOOLEAN]
Whole == Sections(Names \cup {"none", "longer"}, Values)
Section == Sections(Names \cup {"none", "longer", "other"}, Values \cup {v \div 10 : v \in Values})
Fresh == [name |-> "none", pairs |-> <<>>, random |-> FALSE]

\* As long as every line has its newline, no name and no value is cut.
TypeOK ==
  /\ file \in Seq(Lines) /\ Len(file) <= MaxLines
  /\ newline \in BOOLEAN
  /\ aux \in Section /\ slots \in Seq(Section)
  /\ newline => aux \in Whole /\ slots \in Seq(Whole)
  /\ status \in {"reading", "done", "exit", "crash", "overrun"}

\* aux is not initialised: it is what the stack happens to hold, zeroes when an
\* earlier call left its own aux there.
Init ==
  /\ file = <<>> /\ newline = TRUE /\ slots = <<>> /\ status = "reading"
  /\ \E n \in {"none", "longer"}, r \in BOOLEAN : aux = [Fresh EXCEPT !.name = n, !.random = r]

----------------------------------------------------------------------------

\* The strncpy of a title leaves what a longer name has behind it.
Copied_KeepsBracket(old, p) == IF old = "longer" THEN "longer" ELSE "other"
Copied(old, p) == IF old = "longer" THEN "longer" ELSE p

\* The section is stored in the next slot, whether or not the array has it, and
\* aux is reset.  What a write past the array does is not followed.
Overrun == Len(slots) >= MAX_PROCESSES
Push_KeepsName ==
  /\ slots' = Append(slots, aux)
  /\ aux' = [Fresh EXCEPT !.name = aux.name]
  /\ status' = IF Overrun THEN "overrun" ELSE status
Push ==
  /\ slots' = Append(slots, aux)
  /\ aux' = Fresh
  /\ status' = IF Overrun THEN "overrun" ELSE status

\* One turn of the loop on a line without its last character.
Parse_CommentEnds(l) ==
  \/ l.kind \in {"blank", "comment"} /\ Push
  \/ /\ l.kind = "title"
     /\ aux' = [aux EXCEPT !.name = Copied(@, l.name)]
     /\ UNCHANGED <<slots, status>>
  \/ /\ l.kind = "entry"
     /\ aux' = [aux EXCEPT !.pairs = Append(@, <<l.key, l.value>>)]
     /\ UNCHANGED <<slots, status>>
  \/ l.kind = "notFloat" /\ status' = "exit" /\ UNCHANGED <<aux, slots>>
  \/ l.kind = "noValue" /\ status' = "crash" /\ UNCHANGED <<aux, slots>>
Parse(l) ==
  \/ l.kind = "blank" /\ Push
  \/ l.kind = "comment" /\ UNCHANGED <<aux, slots, status>>
  \/ /\ l.kind = "title"
     /\ aux' = [aux EXCEPT !.name = Copied(@, l.name)]
     /\ UNCHANGED <<slots, status>>
  \/ /\ l.kind = "entry"
     /\ aux' = [aux EXCEPT !.pairs = Append(@, <<l.key, l.value>>)]
     /\ UNCHANGED <<slots, status>>
  \/ l.kind = "notFloat" /\ status' = "exit" /\ UNCHANGED <<aux, slots>>
  \/ l.kind = "noValue" /\ status' = "crash" /\ UNCHANGED <<aux, slots>>

ReadLine(l) ==
  /\ status = "reading" /\ newline /\ Len(file) < MaxLines
  /\ file' = Append(file, l)
  /\ Parse(l)
  /\ UNCHANGED newline

\* The last line without a newline loses a character that counts: a name is
\* cut, unless the same name was there before; a value loses a digit, or what
\* kept it from being a number; a line of one character becomes empty.
Shortened(l) ==
  CASE l.kind = "title" -> {Title(IF aux.name \in {l.name, "longer"} THEN aux.name ELSE "other")}
    [] l.kind = "entry" -> {IF l.value < 10 THEN Line("noValue") ELSE Entry(l.key, l.value \div 10)}
    [] l.kind = "notFloat" -> {l, Line("noValue")} \cup {Entry(l.key, v) : v \in Values}
    [] OTHER -> {l, Line("blank")}

ReadLastLine(l) ==
  /\ status = "reading" /\ newline /\ Len(file) < MaxLines
  /\ l.kind # "blank"
  /\ file' = Append(file, l) /\ newline' = FALSE
  /\ \E cut \in Shortened(l) : Parse(cut)

\* getline returns -1.
ReadEof ==
  /\ status = "reading"
  /\ slots' = Append(slots, aux) /\ aux' = Fresh
  /\ status' = IF Overrun THEN "overrun" ELSE "done"
  /\ UNCHANGED <<file, newline>>

Next == (\E l \in Lines : ReadLine(l) \/ ReadLastLine(l)) \/ ReadEof

Spec == Init /\ [][Next]_vars

\* get_param: the first pair with the key in the first section of that name which
\* has one, 0 for the process killed because there is none.
Named(p) == {i \in DOMAIN slots : slots[i].name = p}
Pairs(s, k) == {j \in DOMAIN s.pairs : s.pairs[j][1] = k}
Found(p, k) == {i \in Named(p) : Pairs(slots[i], k) # {}}
Value(s, k) == s.pairs[Min(Pairs(s, k))][2]
Lookup_OneSection(p, k) ==
  IF Named(p) = {} \/ Pairs(slots[Min(Named(p))], k) = {} THEN 0
  ELSE Value(slots[Min(Named(p))], k)
Lookup(p, k) == IF Found(p, k) = {} THEN 0 ELSE Value(slots[Min(Found(p, k))], k)

\* The search runs past the pairs into random keys.
Unbounded(p, k) ==
  \E i \in Named(p) : slots[i].random /\ Pairs(slots[i], k) = {}

----------------------------------------------------------------------------
(* What the file says, line by line, without the parser *)

\* The lines of a title are those up to the next title or blank line: "A section
\* is delimited by a title inside [] brackets and a blank line"
\* (drone_parameters.toml:4-5).
SectionOf(p) ==
  {i \in DOMAIN file : \E t \in DOMAIN file :
     /\ t <= i /\ file[t] = Title(p)
     /\ \A j \in DOMAIN file : t < j /\ j <= i => file[j].kind \notin {"title", "blank"}}
Says(p, k) == {i \in SectionOf(p) : file[i].kind = "entry" /\ file[i].key = k}

Meaning(p, k) ==
  IF Says(p, k) = {} THEN 0
  ELSE file[Min(Says(p, k))].value

\* A blank line before every title, and nothing but comments between them.
Blanks == {i \in DOMAIN file : file[i].kind = "blank"}
Apart(i, j) == \E b \in Blanks : b \in i..j \/ b \in j..i
WellFormed ==
  \A i \in DOMAIN file :
    file[i].kind = "title" =>
      /\ \E b \in Blanks : b < i
      /\ \A j \in DOMAIN file : j < i /\ file[j].kind # "comment" => Apart(i, j)

\* Every parameter of a well-formed file has the value the file gives it,
\* whatever was on the stack, and the process that asks for one that is not
\* there is killed (utils.c:156-181).  Without a newline at the end only what
\* the last line says can be misread (utils.c:73-77).
LastLineSays(p, k) ==
  /\ ~newline
  /\ \/ file[Len(file)] = Title(p)
     \/ /\ Len(file) \in SectionOf(p)
        /\ file[Len(file)].kind \in {"entry", "notFloat"} /\ file[Len(file)].key = k
ParserAgrees ==
  status = "done" /\ WellFormed =>
    \A p \in Names, k \in Keys :
      ~Unbounded(p, k) /\ (Lookup(p, k) = Meaning(p, k) \/ LastLineSays(p, k))

\* The lines from one blank line to the next are a block, which may have several
\* titles, or lines before its title.
BlockOf(p) ==
  {i \in DOMAIN file : \E t \in DOMAIN file : file[t] = Title(p) /\ ~Apart(i, t)}
BlockSays(p, k) == {i \in BlockOf(p) : file[i].kind = "entry" /\ file[i].key = k}

\* Neither a name nor a value outlives the blank line that ends its block: in a
\* file whose last line is complete, well-formed or not, a process gets a
\* parameter only from a block that has its title (utils.c:82-87, 156-168).  A
\* block with two titles gives the pairs of the first to the second, unlike TOML,
\* which the file follows (README.md:194): a title alone divides nothing.
BlanksDivide ==
  status = "done" /\ newline =>
    \A p \in Names, k \in Keys :
      Lookup(p, k) # 0 => \E i \in BlockSays(p, k) : file[i].value = Lookup(p, k)

\* The array of the caller is overrun by blank lines alone, and only by as many
\* as it has slots (utils.c:10, 83).
BlanksFillSlots ==
  status = "overrun" => Cardinality(Blanks) + (IF newline THEN 0 ELSE 1) >= MAX_PROCESSES
=============================================================================
