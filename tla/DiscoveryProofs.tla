-------------------------- MODULE DiscoveryProofs ----------------------------
(***************************************************************************)
(* Proofs about Discovery: the one-pass parser decides what the document   *)
(* as a whole says, for all documents, fields and names; the two           *)
(* validations of a Config agree, and the parser gets whole responses      *)
(* only, for all limits, clocks and chunks.                                *)
(***************************************************************************)
EXTENDS Discovery, TLAPS, FiniteSetTheorems, SequenceTheorems

-----------------------------------------------------------------------------
(* The parser *)

\* What the loop of parse_sensor_configuration() reads in one round.
Tokens ==
  [kind : {"text"}, piece : Pieces] \cup [kind : {"aside", "bad"}]
    \cup [kind : {"open", "close", "selfclose"}, name : Names]

\* After position i, count elements have been opened and not closed, and none was ever closed
\* that was not opened after i.
OpenAfter(doc, i, count) ==
  /\ Opens(doc, i + 1, Len(doc)) = Closes(doc, i + 1, Len(doc)) + count
  /\ \A k \in i + 1 .. Len(doc) : Closes(doc, i + 1, k) <= Opens(doc, i + 1, k)

\* at[d] is where the d-th element of the stack was opened; every other opening tag has its
\* closing tag.
Stacked(doc, stack, at) ==
  /\ at \in [1 .. Len(stack) -> 1 .. Len(doc)]
  /\ \A d \in 1 .. Len(stack) :
       /\ doc[at[d]].kind = "open" /\ doc[at[d]].name = stack[d]
       /\ OpenAfter(doc, at[d], Len(stack) - d)
  /\ \A i \in 1 .. Len(doc) : doc[i].kind = "open" =>
       \/ \E d \in 1 .. Len(stack) : at[d] = i
       \/ \E j \in i + 1 .. Len(doc) : Matching(doc, i, j)
  /\ OpenAfter(doc, 0, Len(stack))

\* What has been collected for a field is its text, in the order of the document.
Collected(doc, tag, text) ==
  LET at == TextAt(doc, tag) IN
  /\ Len(text) = Cardinality(at)
  /\ \A k \in at : Rank(at, k) \in 1 .. Len(text) /\ text[Rank(at, k)] = doc[k].piece
  /\ \A r \in 1 .. Len(text) : \E k \in at : Rank(at, k) = r

\* The stack, the fields seen and their text, held against the document: no element but the
\* innermost is a field.
ReadingInv ==
  /\ \E at \in [1 .. Len(elements) -> 1 .. Len(document)] : Stacked(document, elements, at)
  /\ \A d \in 1 .. Len(elements) - 1 : elements[d] \notin Fields
  /\ seen = {tag \in Fields : Begins(document, tag) # {}}
  /\ \A tag \in Fields : Collected(document, tag, fields[tag])

\* The type of the parser's state.
XmlTypeOK ==
  /\ document \in Seq(Tokens) /\ elements \in Seq(Names) /\ fields \in [Fields -> Seq(Pieces)]
  /\ verdict \in {"reading", "malformed", "refused", "accepted"}

\* The inductive invariant of the parser.
ParserInv ==
  /\ XmlTypeOK /\ ParserDecides /\ ConfigurationIsTheDocument
  /\ verdict = "reading" => ReadingInv

\* How many tags of a kind there are between two positions is a number.
LEMMA Counting ==
  ASSUME NEW doc, NEW i \in Nat, NEW j \in Int
  PROVE  /\ Opens(doc, i, j) \in Nat /\ Closes(doc, i, j) \in Nat
         /\ j < i => Opens(doc, i, j) = 0 /\ Closes(doc, i, j) = 0
<1>1. IsFiniteSet(i .. j)
  BY FS_Interval
<1>2. /\ {k \in i .. j : doc[k].kind = "open"} \in SUBSET (i .. j)
      /\ {k \in i .. j : doc[k].kind = "close"} \in SUBSET (i .. j)
  OBVIOUS
<1>3. /\ IsFiniteSet({k \in i .. j : doc[k].kind = "open"})
      /\ IsFiniteSet({k \in i .. j : doc[k].kind = "close"})
  BY <1>1, <1>2, FS_Subset
<1>4. Opens(doc, i, j) \in Nat /\ Closes(doc, i, j) \in Nat
  BY <1>3, FS_CardinalityType DEF Opens, Closes
<1>5. j < i => i .. j = {}
  OBVIOUS
<1>6. j < i => Opens(doc, i, j) = 0 /\ Closes(doc, i, j) = 0
  BY <1>2, <1>5, FS_EmptySet DEF Opens, Closes
<1> QED
  BY <1>4, <1>6

\* One position more counts one tag more, or none.
LEMMA CountNext ==
  ASSUME NEW doc, NEW i \in Nat, NEW j \in Nat, i <= j + 1
  PROVE  /\ Opens(doc, i, j + 1) = Opens(doc, i, j) + (IF doc[j + 1].kind = "open" THEN 1 ELSE 0)
         /\ Closes(doc, i, j + 1) = Closes(doc, i, j) + (IF doc[j + 1].kind = "close" THEN 1 ELSE 0)
<1> DEFINE At(m, kind) == {k \in i .. m : doc[k].kind = kind}
<1>1. ASSUME NEW kind
      PROVE  Cardinality(At(j + 1, kind)) =
               Cardinality(At(j, kind)) + (IF doc[j + 1].kind = kind THEN 1 ELSE 0)
  <2>1. At(j, kind) \in SUBSET (i .. j) /\ IsFiniteSet(i .. j)
    BY FS_Interval
  <2>2. IsFiniteSet(At(j, kind)) /\ j + 1 \notin At(j, kind)
    BY <2>1, FS_Subset
  <2>3. Cardinality(At(j, kind)) \in Nat
    BY <2>2, FS_CardinalityType
  <2>4. CASE doc[j + 1].kind = kind
    <3>1. At(j + 1, kind) = At(j, kind) \cup {j + 1}
      BY <2>4
    <3> HIDE DEF At
    <3> QED
      BY <2>2, <2>3, <2>4, <3>1, FS_AddElement
  <2>5. CASE doc[j + 1].kind # kind
    <3>1. At(j + 1, kind) = At(j, kind)
      BY <2>5
    <3> HIDE DEF At
    <3> QED
      BY <2>3, <2>5, <3>1
  <2> QED
    BY <2>4, <2>5
<1> QED
  BY <1>1 DEF Opens, Closes

\* Reading on does not change what has been counted.
LEMMA CountAppend ==
  ASSUME NEW doc \in Seq(Tokens), NEW token \in Tokens,
         NEW i \in Nat, i >= 1, NEW j \in Int, j <= Len(doc)
  PROVE  /\ Opens(Append(doc, token), i, j) = Opens(doc, i, j)
         /\ Closes(Append(doc, token), i, j) = Closes(doc, i, j)
<1>1. \A k \in i .. j : Append(doc, token)[k] = doc[k]
  OBVIOUS
<1>2. /\ {k \in i .. j : Append(doc, token)[k].kind = "open"} =
           {k \in i .. j : doc[k].kind = "open"}
      /\ {k \in i .. j : Append(doc, token)[k].kind = "close"} =
           {k \in i .. j : doc[k].kind = "close"}
  BY <1>1
<1> QED
  BY <1>2 DEF Opens, Closes

\* A set of positions that is not empty has a first and a last member.
LEMMA MinAndMaxExist ==
  ASSUME NEW n \in Nat, NEW S \in SUBSET (1 .. n), S # {}
  PROVE  Min(S) \in S /\ Max(S) \in S /\ \A y \in S : Min(S) <= y /\ y <= Max(S)
<1>1. IsWellFoundedOn(OpToRel(<, Nat), Nat)
  BY NatLessThanWellFounded
<1>2. ASSUME NEW T \in SUBSET Nat, T # {} PROVE \E x \in T : \A y \in T : x <= y
  <2>1. PICK x \in T : \A y \in T : ~ (<<y, x>> \in OpToRel(<, Nat))
    BY <1>1, <1>2, WFMin
  <2>2. \A y \in T : y < x => <<y, x>> \in OpToRel(<, Nat)
    BY Zenon DEF OpToRel
  <2>3. \A y \in T : ~(y < x)
    BY <2>1, <2>2, Zenon
  <2> QED
    BY <2>3
<1>3. \E x \in S : \A y \in S : x <= y
  BY <1>2
<1>4. \E x \in S : \A y \in S : x >= y
  <2> DEFINE T == {n - k : k \in S}
  <2>1. PICK s \in S : TRUE
    OBVIOUS
  <2>2. T \in SUBSET Nat /\ n - s \in T
    OBVIOUS
  <2>3. PICK x \in T : \A y \in T : x <= y
    BY <1>2, <2>2
  <2>4. PICK k \in S : x = n - k
    OBVIOUS
  <2>5. \A y \in S : n - k <= n - y
    BY <2>3, <2>4
  <2> QED
    BY <2>5
<1>5. Min(S) \in S /\ \A y \in S : Min(S) <= y
  BY <1>3 DEF Min
<1>6. Max(S) \in S /\ \A y \in S : y <= Max(S)
  BY <1>4 DEF Max
<1> QED
  BY <1>5, <1>6

\* What Reading() does to the document.
LEMMA AppendFacts ==
  ASSUME NEW doc \in Seq(Tokens), NEW token \in Tokens
  PROVE  /\ Append(doc, token) \in Seq(Tokens) /\ Len(doc) \in Nat
         /\ Len(Append(doc, token)) = Len(doc) + 1
         /\ \A k \in 1 .. Len(doc) : Append(doc, token)[k] = doc[k]
         /\ Append(doc, token)[Len(doc) + 1] = token
OBVIOUS

\* Two tags that belong together go on doing so.
LEMMA MatchingAppend ==
  ASSUME NEW doc \in Seq(Tokens), NEW token \in Tokens,
         NEW i \in 1 .. Len(doc), NEW j \in i + 1 .. Len(doc)
  PROVE  Matching(Append(doc, token), i, j) <=> Matching(doc, i, j)
<1> DEFINE e == Append(doc, token)
<1>1. /\ e[i] = doc[i] /\ e[j] = doc[j] /\ Len(doc) \in Nat
  BY AppendFacts
<1>2. \A k \in i + 1 .. j - 1 : /\ Opens(e, i + 1, k) = Opens(doc, i + 1, k)
                                /\ Closes(e, i + 1, k) = Closes(doc, i + 1, k)
  BY <1>1, CountAppend
<1>3. /\ Opens(e, i + 1, j - 1) = Opens(doc, i + 1, j - 1)
      /\ Closes(e, i + 1, j - 1) = Closes(doc, i + 1, j - 1)
  BY <1>1, CountAppend
<1> HIDE DEF e
<1>4. Matching(e, i, j) <=> Matching(doc, i, j)
  BY <1>1, <1>2, <1>3 DEF Matching
<1> QED
  BY <1>4 DEF e

\* What the last token closes.
LEMMA MatchingLast ==
  ASSUME NEW doc \in Seq(Tokens), NEW token \in Tokens, NEW i \in 1 .. Len(doc)
  PROVE  Matching(Append(doc, token), i, Len(doc) + 1) <=>
           /\ doc[i].kind = "open" /\ token.kind = "close"
           /\ Opens(doc, i + 1, Len(doc)) = Closes(doc, i + 1, Len(doc))
           /\ \A k \in i + 1 .. Len(doc) : Closes(doc, i + 1, k) <= Opens(doc, i + 1, k)
<1> DEFINE e == Append(doc, token)
<1> DEFINE n == Len(doc)
<1>1. e[i] = doc[i] /\ e[n + 1] = token /\ n \in Nat
  BY AppendFacts
<1>2. \A k \in i + 1 .. n : /\ Opens(e, i + 1, k) = Opens(doc, i + 1, k)
                            /\ Closes(e, i + 1, k) = Closes(doc, i + 1, k)
  BY <1>1, CountAppend
<1>3. Opens(e, i + 1, n) = Opens(doc, i + 1, n) /\ Closes(e, i + 1, n) = Closes(doc, i + 1, n)
  BY <1>1, CountAppend
<1>4. (n + 1) - 1 = n
  BY <1>1
<1> HIDE DEF e, n
<1>5. Matching(e, i, n + 1) <=>
           /\ doc[i].kind = "open" /\ token.kind = "close"
           /\ Opens(doc, i + 1, n) = Closes(doc, i + 1, n)
           /\ \A k \in i + 1 .. n : Closes(doc, i + 1, k) <= Opens(doc, i + 1, k)
  BY <1>1, <1>2, <1>3, <1>4 DEF Matching
<1> QED
  BY <1>5 DEF e, n

\* A closing tag that belongs to i leaves one more closed than opened after i.
LEMMA MatchingTips ==
  ASSUME NEW doc \in Seq(Tokens), NEW i \in 1 .. Len(doc), NEW j \in i + 1 .. Len(doc),
         Matching(doc, i, j)
  PROVE  ~(Closes(doc, i + 1, j) <= Opens(doc, i + 1, j))
<1>1. i + 1 \in Nat /\ j - 1 \in Nat /\ (j - 1) + 1 = j /\ i + 1 <= (j - 1) + 1
  OBVIOUS
<1>2. doc[j].kind = "close" /\ Opens(doc, i + 1, j - 1) = Closes(doc, i + 1, j - 1)
  BY DEF Matching
<1>3. /\ Opens(doc, i + 1, (j - 1) + 1) = Opens(doc, i + 1, j - 1)
                                          + (IF doc[(j - 1) + 1].kind = "open" THEN 1 ELSE 0)
      /\ Closes(doc, i + 1, (j - 1) + 1) = Closes(doc, i + 1, j - 1)
                                           + (IF doc[(j - 1) + 1].kind = "close" THEN 1 ELSE 0)
  BY <1>1, CountNext
<1>4. /\ Opens(doc, i + 1, j) = Opens(doc, i + 1, j - 1)
      /\ Closes(doc, i + 1, j) = Closes(doc, i + 1, j - 1) + 1
      /\ Opens(doc, i + 1, j - 1) \in Nat /\ Closes(doc, i + 1, j - 1) \in Nat
  BY <1>1, <1>2, <1>3, Counting
<1> QED
  BY <1>2, <1>4

\* The last token may be one more tag of its kind and name.
LEMMA PositionsAppend ==
  ASSUME NEW doc \in Seq(Tokens), NEW token \in Tokens, NEW kind, NEW name
  PROVE  /\ token.kind = kind /\ token.name = name =>
              Positions(Append(doc, token), kind, name) = Positions(doc, kind, name) \cup {Len(doc) + 1}
         /\ ~(token.kind = kind /\ token.name = name) =>
              Positions(Append(doc, token), kind, name) = Positions(doc, kind, name)
<1> DEFINE e == Append(doc, token)
<1>1. /\ Len(e) = Len(doc) + 1 /\ Len(doc) \in Nat /\ e[Len(doc) + 1] = token
      /\ \A k \in 1 .. Len(doc) : e[k] = doc[k]
  BY AppendFacts
<1> HIDE DEF e
<1>2. 1 .. Len(e) = (1 .. Len(doc)) \cup {Len(doc) + 1}
  BY <1>1
<1>3. \A k \in 1 .. Len(e) : k \in Positions(e, kind, name) <=>
         \/ k \in Positions(doc, kind, name)
         \/ k = Len(doc) + 1 /\ token.kind = kind /\ token.name = name
  BY <1>1, <1>2 DEF Positions
<1>4. Positions(e, kind, name) \subseteq 1 .. Len(e) /\ Positions(doc, kind, name) \subseteq 1 .. Len(e)
  BY <1>2 DEF Positions
<1> QED
  BY <1>2, <1>3, <1>4 DEF e

\* Where a token is, is settled by what comes before it.
LEMMA InsideAppend ==
  ASSUME NEW doc \in Seq(Tokens), NEW token \in Tokens, NEW k \in 1 .. Len(doc) + 1, NEW tag
  PROVE  Inside(Append(doc, token), k, tag) <=> Inside(doc, k, tag)
<1> DEFINE e == Append(doc, token)
<1>1. Len(doc) \in Nat
  BY AppendFacts
<1>2. ASSUME NEW i \in 1 .. Len(doc), NEW j \in i + 1 .. k - 1
      PROVE  Matching(e, i, j) <=> Matching(doc, i, j)
  BY <1>1, MatchingAppend
<1>3. \/ Positions(e, "open", tag) = Positions(doc, "open", tag)
      \/ Positions(e, "open", tag) = Positions(doc, "open", tag) \cup {Len(doc) + 1}
  BY PositionsAppend
<1>4. Positions(doc, "open", tag) \subseteq 1 .. Len(doc)
  BY DEF Positions
<1> HIDE DEF e
<1>5. Inside(e, k, tag) <=> Inside(doc, k, tag)
  BY <1>1, <1>2, <1>3, <1>4 DEF Inside
<1> QED
  BY <1>5 DEF e

\* An element begins once more exactly when the last token opens it.
LEMMA BeginsAppend ==
  ASSUME NEW doc \in Seq(Tokens), NEW token \in Tokens, NEW name
  PROVE  /\ IsFiniteSet(Begins(doc, name)) /\ Begins(doc, name) \subseteq 1 .. Len(doc)
         /\ token.kind \in {"open", "selfclose"} /\ token.name = name =>
              Begins(Append(doc, token), name) = Begins(doc, name) \cup {Len(doc) + 1}
         /\ ~(token.kind \in {"open", "selfclose"} /\ token.name = name) =>
              Begins(Append(doc, token), name) = Begins(doc, name)
<1>1. Begins(doc, name) \in SUBSET (1 .. Len(doc)) /\ Len(doc) \in Nat
  BY DEF Begins, Positions
<1>2. IsFiniteSet(1 .. Len(doc))
  BY <1>1, FS_Interval
<1>3. IsFiniteSet(Begins(doc, name))
  BY <1>1, <1>2, FS_Subset
<1> DEFINE Was(kind) == Positions(doc, kind, name)
           Is(kind)  == Positions(Append(doc, token), kind, name)
           n == Len(doc)
<1>4. ASSUME NEW kind
      PROVE  /\ token.kind = kind /\ token.name = name => Is(kind) = Was(kind) \cup {n + 1}
             /\ ~(token.kind = kind /\ token.name = name) => Is(kind) = Was(kind)
  BY PositionsAppend
<1>5. /\ token.kind = "open" /\ token.name = name =>
           Is("open") = Was("open") \cup {n + 1} /\ Is("selfclose") = Was("selfclose")
      /\ token.kind = "selfclose" /\ token.name = name =>
           Is("open") = Was("open") /\ Is("selfclose") = Was("selfclose") \cup {n + 1}
      /\ ~(token.kind \in {"open", "selfclose"} /\ token.name = name) =>
           Is("open") = Was("open") /\ Is("selfclose") = Was("selfclose")
  BY <1>4
<1>6. /\ Begins(doc, name) = Was("open") \cup Was("selfclose")
      /\ Begins(Append(doc, token), name) = Is("open") \cup Is("selfclose")
  BY DEF Begins
<1> HIDE DEF Was, Is, n
<1>7. /\ token.kind \in {"open", "selfclose"} /\ token.name = name =>
              Begins(Append(doc, token), name) = Begins(doc, name) \cup {n + 1}
      /\ ~(token.kind \in {"open", "selfclose"} /\ token.name = name) =>
              Begins(Append(doc, token), name) = Begins(doc, name)
  BY <1>5, <1>6
<1> QED
  BY <1>1, <1>3, <1>7 DEF n

\* A lawful document stays so by what the next token is and where it stands.
LEMMA LawfulAppend ==
  ASSUME NEW doc \in Seq(Tokens), NEW token \in Tokens
  PROVE  Lawful(Append(doc, token)) <=>
           /\ Lawful(doc) /\ token.kind # "bad"
           /\ token.kind = "close" =>
                \E i \in Positions(doc, "open", token.name) :
                  Matching(Append(doc, token), i, Len(doc) + 1)
           /\ token.kind \in {"open", "selfclose"} =>
                /\ \A tag \in Fields : ~Inside(doc, Len(doc) + 1, tag)
                /\ token.name \in Fields => Begins(doc, token.name) = {}
<1> DEFINE e == Append(doc, token)
           n == Len(doc)
           Good(d, k) ==
             /\ d[k].kind # "bad"
             /\ d[k].kind = "close" =>
                  \E i \in Positions(d, "open", d[k].name) : i < k /\ Matching(d, i, k)
             /\ d[k].kind \in {"open", "selfclose"} => \A tag \in Fields : ~Inside(d, k, tag)
           Once(d) == \A tag \in Fields : Cardinality(Begins(d, tag)) <= 1
           Starts == token.kind \in {"open", "selfclose"}
<1>1. /\ Lawful(e) <=> (\A k \in 1 .. Len(e) : Good(e, k)) /\ Once(e)
      /\ Lawful(doc) <=> (\A k \in 1 .. n : Good(doc, k)) /\ Once(doc)
  BY DEF Lawful
<1>2. /\ Len(e) = n + 1 /\ n \in Nat /\ e[n + 1] = token /\ \A k \in 1 .. n : e[k] = doc[k]
      /\ 1 .. Len(e) = (1 .. n) \cup {n + 1}
  BY AppendFacts
<1>3. \A kind, name : /\ Positions(doc, kind, name) \subseteq 1 .. n
                      /\ \/ Positions(e, kind, name) = Positions(doc, kind, name)
                         \/ Positions(e, kind, name) = Positions(doc, kind, name) \cup {n + 1}
  BY PositionsAppend DEF Positions
<1>4. \A k \in 1 .. n + 1, tag \in Fields : Inside(e, k, tag) <=> Inside(doc, k, tag)
  BY InsideAppend
<1>5. ASSUME NEW i \in 1 .. n, NEW j \in 1 .. n, i < j
      PROVE  Matching(e, i, j) <=> Matching(doc, i, j)
  BY <1>2, <1>5, MatchingAppend
<1>6. \A k \in 1 .. n : Good(e, k) <=> Good(doc, k)
  <2> SUFFICES ASSUME NEW k \in 1 .. n PROVE Good(e, k) <=> Good(doc, k)
    OBVIOUS
  <2>1. e[k] = doc[k] /\ k \in 1 .. n + 1
    BY <1>2
  <2>2. \A tag \in Fields : Inside(e, k, tag) <=> Inside(doc, k, tag)
    BY <1>4, <2>1
  <2>3. ASSUME NEW name
        PROVE  (\E i \in Positions(e, "open", name) : i < k /\ Matching(e, i, k)) <=>
               (\E i \in Positions(doc, "open", name) : i < k /\ Matching(doc, i, k))
    <3> HIDE DEF e, n
    <3> QED
      BY <1>2, <1>3, <1>5
  <2> HIDE DEF e, n
  <2> QED
    BY <2>1, <2>2, <2>3
<1>7. Good(e, n + 1) <=>
        /\ token.kind # "bad"
        /\ token.kind = "close" => \E i \in Positions(doc, "open", token.name) : Matching(e, i, n + 1)
        /\ Starts => \A tag \in Fields : ~Inside(doc, n + 1, tag)
  <2>1. n + 1 \in 1 .. n + 1
    BY <1>2
  <2>2. \A tag \in Fields : Inside(e, n + 1, tag) <=> Inside(doc, n + 1, tag)
    BY <1>4, <2>1
  <2>3. (\E i \in Positions(e, "open", token.name) : i < n + 1 /\ Matching(e, i, n + 1)) <=>
        (\E i \in Positions(doc, "open", token.name) : Matching(e, i, n + 1))
    <3> HIDE DEF e, n
    <3> QED
      BY <1>2, <1>3
  <2> HIDE DEF e, n
  <2> QED
    BY <1>2, <2>2, <2>3
<1>8. Once(e) <=> Once(doc) /\ (Starts /\ token.name \in Fields => Begins(doc, token.name) = {})
  <2>1. \A tag \in Fields :
          /\ IsFiniteSet(Begins(doc, tag)) /\ Cardinality(Begins(doc, tag)) \in Nat
          /\ Begins(doc, tag) \subseteq 1 .. n
          /\ Starts /\ token.name = tag => Begins(e, tag) = Begins(doc, tag) \cup {n + 1}
          /\ ~(Starts /\ token.name = tag) => Begins(e, tag) = Begins(doc, tag)
    BY BeginsAppend, FS_CardinalityType
  <2> HIDE DEF e, n, Starts
  <2>2. ASSUME NEW tag \in Fields, Starts, token.name = tag
        PROVE  /\ Cardinality(Begins(e, tag)) = Cardinality(Begins(doc, tag)) + 1
               /\ Cardinality(Begins(doc, tag)) = 0 <=> Begins(doc, tag) = {}
    <3>1. n + 1 \notin Begins(doc, tag)
      BY <1>2, <2>1
    <3> QED
      BY <2>1, <2>2, <3>1, FS_AddElement, FS_EmptySet
  <2>3. CASE Starts /\ token.name \in Fields
    <3>1. \A tag \in Fields \ {token.name} : Begins(e, tag) = Begins(doc, tag)
      BY <2>1
    <3>2. /\ Cardinality(Begins(e, token.name)) <= 1 <=> Begins(doc, token.name) = {}
          /\ Begins(doc, token.name) = {} => Cardinality(Begins(doc, token.name)) <= 1
      BY <2>1, <2>2, <2>3
    <3> QED
      BY <2>3, <3>1, <3>2
  <2>4. CASE ~(Starts /\ token.name \in Fields)
    BY <2>1, <2>4
  <2> QED
    BY <2>3, <2>4
<1>9. Lawful(e) <=> (\A k \in 1 .. n : Good(e, k)) /\ Good(e, n + 1) /\ Once(e)
  <2> HIDE DEF e, Good, Once
  <2> QED
    BY <1>1, <1>2
<1> HIDE DEF e, n, Good, Once, Starts
<1>10. Lawful(e) <=>
           /\ Lawful(doc) /\ token.kind # "bad"
           /\ token.kind = "close" => \E i \in Positions(doc, "open", token.name) : Matching(e, i, n + 1)
           /\ Starts => /\ \A tag \in Fields : ~Inside(doc, n + 1, tag)
                        /\ token.name \in Fields => Begins(doc, token.name) = {}
  BY <1>1, <1>6, <1>7, <1>8, <1>9
<1> QED
  BY <1>10 DEF e, n, Starts

\* What the last token adds to the counts.
LEMMA CountLast ==
  ASSUME NEW doc \in Seq(Tokens), NEW token \in Tokens, NEW i \in 1 .. Len(doc) + 1
  PROVE  /\ Opens(Append(doc, token), i, Len(doc) + 1) =
              Opens(doc, i, Len(doc)) + (IF token.kind = "open" THEN 1 ELSE 0)
         /\ Closes(Append(doc, token), i, Len(doc) + 1) =
              Closes(doc, i, Len(doc)) + (IF token.kind = "close" THEN 1 ELSE 0)
         /\ Opens(doc, i, Len(doc)) \in Nat /\ Closes(doc, i, Len(doc)) \in Nat
<1> DEFINE e == Append(doc, token)
           n == Len(doc)
<1>1. n \in Nat /\ e[n + 1] = token
  BY AppendFacts
<1>2. Opens(e, i, n) = Opens(doc, i, n) /\ Closes(e, i, n) = Closes(doc, i, n)
  BY <1>1, CountAppend
<1> HIDE DEF e
<1>3. /\ Opens(e, i, n + 1) = Opens(e, i, n) + (IF e[n + 1].kind = "open" THEN 1 ELSE 0)
      /\ Closes(e, i, n + 1) = Closes(e, i, n) + (IF e[n + 1].kind = "close" THEN 1 ELSE 0)
  BY <1>1, CountNext
<1>4. Opens(doc, i, n) \in Nat /\ Closes(doc, i, n) \in Nat
  BY <1>1, Counting
<1> QED
  BY <1>1, <1>2, <1>3, <1>4 DEF e

\* An opening tag leaves one element more open, a closing tag one less.
LEMMA OpenAfterAppend ==
  ASSUME NEW doc \in Seq(Tokens), NEW token \in Tokens, NEW i \in 0 .. Len(doc), NEW count \in Nat,
         OpenAfter(doc, i, count)
  PROVE  /\ token.kind = "open" => OpenAfter(Append(doc, token), i, count + 1)
         /\ token.kind = "close" /\ count > 0 => OpenAfter(Append(doc, token), i, count - 1)
         /\ token.kind \notin {"open", "close"} => OpenAfter(Append(doc, token), i, count)
<1> DEFINE e == Append(doc, token)
           n == Len(doc)
           O == Opens(doc, i + 1, n)
           C == Closes(doc, i + 1, n)
<1>1. n \in Nat /\ Len(e) = n + 1 /\ i \in Nat /\ i + 1 \in 1 .. n + 1
  BY AppendFacts
<1>2. /\ Opens(e, i + 1, n + 1) = O + (IF token.kind = "open" THEN 1 ELSE 0)
      /\ Closes(e, i + 1, n + 1) = C + (IF token.kind = "close" THEN 1 ELSE 0)
      /\ O \in Nat /\ C \in Nat
  BY <1>1, CountLast
<1>3. O = C + count
  BY DEF OpenAfter
<1>4. \A k \in i + 1 .. n : Closes(e, i + 1, k) <= Opens(e, i + 1, k)
  <2> SUFFICES ASSUME NEW k \in i + 1 .. n PROVE Closes(e, i + 1, k) <= Opens(e, i + 1, k)
    OBVIOUS
  <2>1. Opens(e, i + 1, k) = Opens(doc, i + 1, k) /\ Closes(e, i + 1, k) = Closes(doc, i + 1, k)
    BY <1>1, CountAppend
  <2> HIDE DEF e
  <2> QED
    BY <2>1 DEF OpenAfter
<1> HIDE DEF e, n, O, C
<1>5. ASSUME NEW after \in Nat, Opens(e, i + 1, n + 1) = Closes(e, i + 1, n + 1) + after
      PROVE  OpenAfter(e, i, after)
  <2>1. Closes(e, i + 1, n + 1) <= Opens(e, i + 1, n + 1)
    BY <1>2, <1>5
  <2>2. \A k \in i + 1 .. n + 1 : k \in i + 1 .. n \/ k = n + 1
    BY <1>1
  <2> QED
    BY <1>1, <1>4, <1>5, <2>1, <2>2 DEF OpenAfter
<1>6. /\ token.kind = "open" => OpenAfter(e, i, count + 1)
      /\ token.kind = "close" /\ count > 0 => OpenAfter(e, i, count - 1)
      /\ token.kind \notin {"open", "close"} => OpenAfter(e, i, count)
  <2>1. CASE token.kind = "open"
    BY <1>2, <1>3, <1>5, <2>1
  <2>2. CASE token.kind = "close" /\ count > 0
    BY <1>2, <1>3, <1>5, <2>2
  <2>3. CASE token.kind \notin {"open", "close"}
    <3>1. Opens(e, i + 1, n + 1) = Closes(e, i + 1, n + 1) + count
      BY <1>2, <1>3, <2>3
    <3> QED
      BY <1>5, <2>3, <3>1
  <2> QED
    BY <2>1, <2>2, <2>3
<1> QED
  BY <1>6 DEF e

\* An element on the stack is not closed.
LEMMA OpenAfterUnmatched ==
  ASSUME NEW doc \in Seq(Tokens), NEW i \in 1 .. Len(doc), NEW count \in Nat,
         OpenAfter(doc, i, count), NEW j \in i + 1 .. Len(doc)
  PROVE  ~Matching(doc, i, j)
BY MatchingTips DEF OpenAfter

\* The tags that are open are those on the stack.
LEMMA InsideStacked ==
  ASSUME NEW doc \in Seq(Tokens), NEW stack \in Seq(Names), NEW at, Stacked(doc, stack, at), NEW tag
  PROVE  Inside(doc, Len(doc) + 1, tag) <=> \E d \in 1 .. Len(stack) : stack[d] = tag
<1> DEFINE n == Len(doc)
<1>1. n \in Nat /\ Len(stack) \in Nat /\ (n + 1) - 1 = n /\ \A i \in 1 .. n : i < n + 1
  OBVIOUS
<1>2. ASSUME NEW d \in 1 .. Len(stack), stack[d] = tag
      PROVE  Inside(doc, n + 1, tag)
  <2>1. /\ at[d] \in 1 .. n /\ doc[at[d]].kind = "open" /\ doc[at[d]].name = tag
        /\ OpenAfter(doc, at[d], Len(stack) - d)
    BY <1>2 DEF Stacked
  <2>2. Len(stack) - d \in Nat
    BY <1>1
  <2>3. \A j \in at[d] + 1 .. n : ~Matching(doc, at[d], j)
    BY <2>1, <2>2, OpenAfterUnmatched
  <2>4. at[d] \in Positions(doc, "open", tag)
    BY <2>1 DEF Positions
  <2> HIDE DEF n
  <2> QED
    BY <1>1, <2>1, <2>3, <2>4 DEF Inside
<1>3. ASSUME Inside(doc, n + 1, tag)
      PROVE  \E d \in 1 .. Len(stack) : stack[d] = tag
  <2> HIDE DEF n
  <2>1. PICK i \in Positions(doc, "open", tag) : \A j \in i + 1 .. n : ~Matching(doc, i, j)
    BY <1>1, <1>3 DEF Inside
  <2>2. i \in 1 .. n /\ doc[i].kind = "open" /\ doc[i].name = tag
    BY DEF Positions, n
  <2>3. PICK d \in 1 .. Len(stack) : at[d] = i
    BY <2>1, <2>2 DEF Stacked, n
  <2> QED
    BY <2>2, <2>3 DEF Stacked
<1> QED
  BY <1>2, <1>3

\* A closing tag belongs to the innermost element on the stack or to none.
LEMMA CloseStacked ==
  ASSUME NEW doc \in Seq(Tokens), NEW stack \in Seq(Names), NEW at, Stacked(doc, stack, at),
         NEW token \in Tokens, token.kind = "close"
  PROVE  (\E i \in Positions(doc, "open", token.name) : Matching(Append(doc, token), i, Len(doc) + 1))
           <=> stack # <<>> /\ stack[Len(stack)] = token.name
<1> DEFINE n == Len(doc)
           e == Append(doc, token)
           s == Len(stack)
<1>1. n \in Nat /\ s \in Nat /\ (stack # <<>> <=> s > 0)
  OBVIOUS
<1>2. ASSUME stack # <<>>, stack[s] = token.name
      PROVE  \E i \in Positions(doc, "open", token.name) : Matching(e, i, n + 1)
  <2>1. s \in 1 .. s /\ s - s = 0
    BY <1>1, <1>2
  <2>2. /\ at[s] \in 1 .. n /\ doc[at[s]].kind = "open" /\ doc[at[s]].name = token.name
        /\ OpenAfter(doc, at[s], 0)
    BY <1>2, <2>1 DEF Stacked
  <2>3. Closes(doc, at[s] + 1, n) \in Nat
    BY <1>1, <2>2, Counting
  <2>4. Matching(e, at[s], n + 1)
    BY <2>2, <2>3, MatchingLast DEF OpenAfter
  <2> QED
    BY <2>2, <2>4 DEF Positions
<1>3. ASSUME NEW i \in Positions(doc, "open", token.name), Matching(e, i, n + 1)
      PROVE  stack # <<>> /\ stack[s] = token.name
  <2>1. i \in 1 .. n /\ doc[i].kind = "open" /\ doc[i].name = token.name
    BY DEF Positions
  <2>2. /\ Opens(doc, i + 1, n) = Closes(doc, i + 1, n)
        /\ \A k \in i + 1 .. n : Closes(doc, i + 1, k) <= Opens(doc, i + 1, k)
    BY <1>3, <2>1, MatchingLast
  <2>3. \A j \in i + 1 .. n : ~Matching(doc, i, j)
    BY <2>1, <2>2, MatchingTips
  <2>4. PICK d \in 1 .. s : at[d] = i
    BY <2>1, <2>3 DEF Stacked
  <2>5. Opens(doc, i + 1, n) = Closes(doc, i + 1, n) + (s - d) /\ stack[d] = token.name
    BY <2>1, <2>4 DEF Stacked, OpenAfter
  <2>6. Closes(doc, i + 1, n) \in Nat
    BY <1>1, <2>1, Counting
  <2>7. d = s
    BY <1>1, <2>2, <2>5, <2>6
  <2> QED
    BY <1>1, <2>5, <2>7
<1> QED
  BY <1>2, <1>3

\* An opening tag that has its closing tag keeps it.
LEMMA MatchedAppend ==
  ASSUME NEW doc \in Seq(Tokens), NEW token \in Tokens, NEW i \in 1 .. Len(doc),
         \E j \in i + 1 .. Len(doc) : Matching(doc, i, j)
  PROVE  \E j \in i + 1 .. Len(doc) + 1 : Matching(Append(doc, token), i, j)
<1>1. PICK j \in i + 1 .. Len(doc) : Matching(doc, i, j)
  OBVIOUS
<1>2. Matching(Append(doc, token), i, j)
  BY <1>1, MatchingAppend
<1>3. j \in i + 1 .. Len(doc) + 1
  OBVIOUS
<1> QED
  BY <1>2, <1>3

\* A token that is no opening or closing tag leaves the stack as it is.
LEMMA StackedKeep ==
  ASSUME NEW doc \in Seq(Tokens), NEW stack \in Seq(Names), NEW at, Stacked(doc, stack, at),
         NEW token \in Tokens, token.kind \notin {"open", "close"}
  PROVE  Stacked(Append(doc, token), stack, at)
<1> DEFINE n == Len(doc)
           e == Append(doc, token)
           s == Len(stack)
<1>1. /\ n \in Nat /\ s \in Nat
      /\ Len(e) = n + 1 /\ e[n + 1] = token /\ \A k \in 1 .. n : e[k] = doc[k]
  BY AppendFacts
<1>2. at \in [1 .. s -> 1 .. n]
  BY DEF Stacked
<1>3. at \in [1 .. s -> 1 .. Len(e)]
  BY <1>1, <1>2
<1>4. ASSUME NEW d \in 1 .. s
      PROVE  e[at[d]].kind = "open" /\ e[at[d]].name = stack[d] /\ OpenAfter(e, at[d], s - d)
  <2>1. at[d] \in 1 .. n /\ at[d] \in 0 .. n /\ s - d \in Nat
    BY <1>1, <1>2
  <2>2. doc[at[d]].kind = "open" /\ doc[at[d]].name = stack[d] /\ OpenAfter(doc, at[d], s - d)
    BY DEF Stacked
  <2>3. OpenAfter(e, at[d], s - d)
    BY <2>1, <2>2, OpenAfterAppend
  <2> QED
    BY <1>1, <2>1, <2>2, <2>3
<1>5. ASSUME NEW i \in 1 .. Len(e), e[i].kind = "open"
      PROVE  \/ \E d \in 1 .. s : at[d] = i
             \/ \E j \in i + 1 .. Len(e) : Matching(e, i, j)
  <2>1. i \in 1 .. n /\ doc[i].kind = "open"
    BY <1>1, <1>5
  <2>2. \/ \E d \in 1 .. s : at[d] = i
        \/ \E j \in i + 1 .. n : Matching(doc, i, j)
    BY <2>1 DEF Stacked
  <2> QED
    BY <1>1, <2>1, <2>2, MatchedAppend
<1>6. OpenAfter(e, 0, s)
  <2>1. OpenAfter(doc, 0, s) /\ 0 \in 0 .. n
    BY <1>1 DEF Stacked
  <2> QED
    BY <1>1, <2>1, OpenAfterAppend
<1> HIDE DEF e
<1>7. Stacked(e, stack, at)
  BY <1>3, <1>4, <1>5, <1>6 DEF Stacked
<1> QED
  BY <1>7 DEF e

\* An opening tag is pushed.
LEMMA StackedPush ==
  ASSUME NEW doc \in Seq(Tokens), NEW stack \in Seq(Names), NEW at, Stacked(doc, stack, at),
         NEW token \in Tokens, token.kind = "open", token.name \in Names
  PROVE  \E new : Stacked(Append(doc, token), Append(stack, token.name), new)
<1> DEFINE n == Len(doc)
           e == Append(doc, token)
           s == Len(stack)
           more == Append(stack, token.name)
           new == [d \in 1 .. s + 1 |-> IF d <= s THEN at[d] ELSE n + 1]
<1>1. /\ n \in Nat /\ s \in Nat
      /\ Len(e) = n + 1 /\ e[n + 1] = token /\ \A k \in 1 .. n : e[k] = doc[k]
  BY AppendFacts
<1>2. /\ Len(more) = s + 1 /\ more[s + 1] = token.name /\ \A d \in 1 .. s : more[d] = stack[d]
  BY <1>1
<1>3. at \in [1 .. s -> 1 .. n]
  BY DEF Stacked
<1>4. new \in [1 .. s + 1 -> 1 .. n + 1] /\ new[s + 1] = n + 1 /\ \A d \in 1 .. s : new[d] = at[d]
  BY <1>1, <1>3
<1>5. ASSUME NEW d \in 1 .. s
      PROVE  e[at[d]].kind = "open" /\ e[at[d]].name = stack[d] /\ OpenAfter(e, at[d], (s + 1) - d)
  <2>1. at[d] \in 1 .. n /\ at[d] \in 0 .. n /\ s - d \in Nat /\ (s - d) + 1 = (s + 1) - d
    BY <1>1, <1>3
  <2>2. doc[at[d]].kind = "open" /\ doc[at[d]].name = stack[d] /\ OpenAfter(doc, at[d], s - d)
    BY DEF Stacked
  <2>3. OpenAfter(e, at[d], (s - d) + 1)
    BY <2>1, <2>2, OpenAfterAppend
  <2> QED
    BY <1>1, <2>1, <2>2, <2>3
<1>6. OpenAfter(e, n + 1, 0)
  <2>1. /\ Opens(e, (n + 1) + 1, n + 1) = 0 /\ Closes(e, (n + 1) + 1, n + 1) = 0
        /\ (n + 1) + 1 .. n + 1 = {}
    BY <1>1, Counting
  <2> HIDE DEF e
  <2> QED
    BY <1>1, <2>1 DEF OpenAfter
<1>7. ASSUME NEW i \in 1 .. n + 1, e[i].kind = "open"
      PROVE  \/ i = n + 1
             \/ \E d \in 1 .. s : at[d] = i
             \/ \E j \in i + 1 .. n + 1 : Matching(e, i, j)
  <2> SUFFICES ASSUME i # n + 1
               PROVE  \/ \E d \in 1 .. s : at[d] = i
                      \/ \E j \in i + 1 .. n + 1 : Matching(e, i, j)
    OBVIOUS
  <2>1. i \in 1 .. n /\ doc[i].kind = "open"
    BY <1>1, <1>7
  <2>2. \/ \E d \in 1 .. s : at[d] = i
        \/ \E j \in i + 1 .. n : Matching(doc, i, j)
    BY <2>1 DEF Stacked
  <2> QED
    BY <2>1, <2>2, MatchedAppend
<1>8. OpenAfter(e, 0, s + 1)
  <2>1. OpenAfter(doc, 0, s) /\ 0 \in 0 .. n
    BY <1>1 DEF Stacked
  <2> QED
    BY <1>1, <2>1, OpenAfterAppend
<1> HIDE DEF e, n, s, more, new
<1>9. ASSUME NEW d \in 1 .. s + 1
      PROVE  e[new[d]].kind = "open" /\ e[new[d]].name = more[d] /\ OpenAfter(e, new[d], (s + 1) - d)
  <2>1. CASE d \in 1 .. s
    BY <1>2, <1>4, <1>5, <2>1
  <2>2. CASE d = s + 1
    BY <1>1, <1>2, <1>4, <1>6, <2>2
  <2> QED
    BY <1>1, <2>1, <2>2
<1>10. ASSUME NEW i \in 1 .. n + 1, e[i].kind = "open"
       PROVE  \/ \E d \in 1 .. s + 1 : new[d] = i
              \/ \E j \in i + 1 .. n + 1 : Matching(e, i, j)
  <2>1. s + 1 \in 1 .. s + 1 /\ \A d \in 1 .. s : d \in 1 .. s + 1
    BY <1>1
  <2> QED
    BY <1>4, <1>7, <1>10, <2>1
<1>11. Stacked(e, more, new)
  BY <1>1, <1>2, <1>4, <1>8, <1>9, <1>10 DEF Stacked
<1> QED
  BY <1>11 DEF e, more

\* What SubSeq() takes from a sequence.
LEMMA SliceFacts ==
  ASSUME NEW S, NEW q \in Seq(S), NEW a \in 1 .. Len(q) + 1, NEW b \in a - 1 .. Len(q)
  PROVE  /\ SubSeq(q, a, b) \in Seq(S) /\ Len(SubSeq(q, a, b)) = (b - a) + 1
         /\ \A k \in 1 .. (b - a) + 1 : SubSeq(q, a, b)[k] = q[(a + k) - 1]
<1>1. a \in Int /\ b \in Int /\ \A k \in a .. b : q[k] \in S
  OBVIOUS
<1>2. /\ SubSeq(q, a, b) \in Seq(S)
      /\ Len(SubSeq(q, a, b)) = IF a <= b THEN b-a+1 ELSE 0
      /\ \A i \in 1 .. b-a+1 : SubSeq(q, a, b)[i] = q[a+i-1]
  BY <1>1, SubSeqProperties
<1> QED
  BY <1>1, <1>2

\* What pop_back() leaves of the stack.
LEMMA PopFacts ==
  ASSUME NEW q \in Seq(Names), q # <<>>
  PROVE  /\ SubSeq(q, 1, Len(q) - 1) \in Seq(Names)
         /\ Len(SubSeq(q, 1, Len(q) - 1)) = Len(q) - 1
         /\ \A d \in 1 .. Len(q) - 1 : SubSeq(q, 1, Len(q) - 1)[d] = q[d]
<1>1. /\ Len(q) \in Nat /\ 1 \in 1 .. Len(q) + 1 /\ Len(q) - 1 \in 1 - 1 .. Len(q)
      /\ ((Len(q) - 1) - 1) + 1 = Len(q) - 1 /\ \A k \in 1 .. Len(q) - 1 : (1 + k) - 1 = k
  OBVIOUS
<1> QED
  BY <1>1, SliceFacts

\* A closing tag pops what it closes.
LEMMA StackedPop ==
  ASSUME NEW doc \in Seq(Tokens), NEW stack \in Seq(Names), NEW at, Stacked(doc, stack, at),
         NEW token \in Tokens, token.kind = "close", stack # <<>>
  PROVE  \E new : Stacked(Append(doc, token), SubSeq(stack, 1, Len(stack) - 1), new)
<1> DEFINE n == Len(doc)
           e == Append(doc, token)
           s == Len(stack)
           less == SubSeq(stack, 1, s - 1)
           new == [d \in 1 .. s - 1 |-> at[d]]
<1>1. /\ n \in Nat /\ s \in Nat /\ s > 0
      /\ Len(e) = n + 1 /\ e[n + 1] = token /\ \A k \in 1 .. n : e[k] = doc[k]
  BY AppendFacts
<1>2. Len(less) = s - 1 /\ \A d \in 1 .. s - 1 : less[d] = stack[d]
  BY PopFacts
<1>3. at \in [1 .. s -> 1 .. n]
  BY DEF Stacked
<1>4. new \in [1 .. s - 1 -> 1 .. n + 1] /\ \A d \in 1 .. s - 1 : new[d] = at[d]
  BY <1>1, <1>3
<1>5. ASSUME NEW d \in 1 .. s - 1
      PROVE  e[at[d]].kind = "open" /\ e[at[d]].name = stack[d] /\ OpenAfter(e, at[d], (s - 1) - d)
  <2>1. /\ d \in 1 .. s /\ at[d] \in 1 .. n /\ at[d] \in 0 .. n
        /\ s - d \in Nat /\ s - d > 0 /\ (s - d) - 1 = (s - 1) - d
    BY <1>1, <1>3
  <2>2. doc[at[d]].kind = "open" /\ doc[at[d]].name = stack[d] /\ OpenAfter(doc, at[d], s - d)
    BY <2>1 DEF Stacked
  <2>3. OpenAfter(e, at[d], (s - d) - 1)
    BY <2>1, <2>2, OpenAfterAppend
  <2> QED
    BY <1>1, <2>1, <2>2, <2>3
<1>6. at[s] \in 1 .. n /\ Matching(e, at[s], n + 1)
  <2>1. s \in 1 .. s /\ s - s = 0
    BY <1>1
  <2>2. at[s] \in 1 .. n /\ doc[at[s]].kind = "open" /\ OpenAfter(doc, at[s], 0)
    BY <2>1 DEF Stacked
  <2>3. Closes(doc, at[s] + 1, n) \in Nat
    BY <1>1, <2>2, Counting
  <2> QED
    BY <2>2, <2>3, MatchingLast DEF OpenAfter
<1>7. ASSUME NEW i \in 1 .. n + 1, e[i].kind = "open"
      PROVE  \/ \E d \in 1 .. s - 1 : at[d] = i
             \/ \E j \in i + 1 .. n + 1 : Matching(e, i, j)
  <2>1. i \in 1 .. n /\ doc[i].kind = "open"
    BY <1>1, <1>7
  <2>2. \/ \E d \in 1 .. s : at[d] = i
        \/ \E j \in i + 1 .. n : Matching(doc, i, j)
    BY <2>1 DEF Stacked
  <2>3. CASE \E j \in i + 1 .. n : Matching(doc, i, j)
    BY <2>1, <2>3, MatchedAppend
  <2>4. ASSUME NEW d \in 1 .. s, at[d] = i, d = s
        PROVE  \E j \in i + 1 .. n + 1 : Matching(e, i, j)
    <3>1. n + 1 \in i + 1 .. n + 1
      BY <1>1, <2>1
    <3> QED
      BY <1>6, <2>4, <3>1
  <2>5. ASSUME NEW d \in 1 .. s, at[d] = i, d # s
        PROVE  \E c \in 1 .. s - 1 : at[c] = i
    <3>1. d \in 1 .. s - 1
      BY <1>1, <2>5
    <3> QED
      BY <2>5, <3>1
  <2> QED
    BY <2>2, <2>3, <2>4, <2>5
<1>8. OpenAfter(e, 0, s - 1)
  <2>1. OpenAfter(doc, 0, s) /\ 0 \in 0 .. n
    BY <1>1 DEF Stacked
  <2> QED
    BY <1>1, <2>1, OpenAfterAppend
<1> HIDE DEF e, n, s, less, new
<1>9. \A d \in 1 .. s - 1 :
        e[new[d]].kind = "open" /\ e[new[d]].name = less[d] /\ OpenAfter(e, new[d], (s - 1) - d)
  BY <1>2, <1>4, <1>5
<1>10. \A i \in 1 .. n + 1 : e[i].kind = "open" =>
         \/ \E d \in 1 .. s - 1 : new[d] = i
         \/ \E j \in i + 1 .. n + 1 : Matching(e, i, j)
  BY <1>4, <1>7
<1>11. Stacked(e, less, new)
  BY <1>1, <1>2, <1>4, <1>8, <1>9, <1>10 DEF Stacked
<1> QED
  BY <1>11 DEF e, less, s

\* The last token belongs to a field's text when it is text inside that field.
LEMMA TextAtAppend ==
  ASSUME NEW doc \in Seq(Tokens), NEW token \in Tokens, NEW tag
  PROVE  /\ IsFiniteSet(TextAt(doc, tag)) /\ TextAt(doc, tag) \subseteq 1 .. Len(doc)
         /\ token.kind = "text" /\ Inside(doc, Len(doc) + 1, tag) =>
              TextAt(Append(doc, token), tag) = TextAt(doc, tag) \cup {Len(doc) + 1}
         /\ ~(token.kind = "text" /\ Inside(doc, Len(doc) + 1, tag)) =>
              TextAt(Append(doc, token), tag) = TextAt(doc, tag)
<1> DEFINE n == Len(doc)
           e == Append(doc, token)
<1>1. /\ n \in Nat /\ Len(e) = n + 1 /\ e[n + 1] = token /\ \A k \in 1 .. n : e[k] = doc[k]
  BY AppendFacts
<1>2. TextAt(doc, tag) \in SUBSET (1 .. n) /\ IsFiniteSet(1 .. n)
  BY <1>1, FS_Interval DEF TextAt
<1>3. IsFiniteSet(TextAt(doc, tag))
  BY <1>2, FS_Subset
<1>4. \A k \in 1 .. n + 1 : Inside(e, k, tag) <=> Inside(doc, k, tag)
  BY InsideAppend
<1>5. 1 .. Len(e) = (1 .. n) \cup {n + 1} /\ n + 1 \notin 1 .. n
  BY <1>1
<1> HIDE DEF e
<1>6. \A k : k \in TextAt(e, tag) <=>
        \/ k \in TextAt(doc, tag)
        \/ k = n + 1 /\ token.kind = "text" /\ Inside(doc, n + 1, tag)
  <2> SUFFICES ASSUME NEW k \in 1 .. n + 1
               PROVE  k \in TextAt(e, tag) <=>
                        \/ k \in TextAt(doc, tag)
                        \/ k = n + 1 /\ token.kind = "text" /\ Inside(doc, n + 1, tag)
    BY <1>1, <1>2, <1>5 DEF TextAt
  <2>1. CASE k \in 1 .. n
    BY <1>1, <1>4, <1>5, <2>1 DEF TextAt
  <2>2. CASE k = n + 1
    BY <1>1, <1>4, <1>5, <2>2 DEF TextAt
  <2> QED
    BY <1>1, <2>1, <2>2
<1>7. /\ token.kind = "text" /\ Inside(doc, n + 1, tag) => TextAt(e, tag) = TextAt(doc, tag) \cup {n + 1}
      /\ ~(token.kind = "text" /\ Inside(doc, n + 1, tag)) => TextAt(e, tag) = TextAt(doc, tag)
  <2> HIDE DEF n
  <2> QED
    BY <1>6
<1> QED
  BY <1>2, <1>3, <1>7 DEF e

\* A position after all others is the last in order, and leaves the order of the others.
LEMMA RankAdd ==
  ASSUME NEW n \in Nat, NEW at \in SUBSET (1 .. n)
  PROVE  /\ Cardinality(at) \in Nat /\ Cardinality(at \cup {n + 1}) = Cardinality(at) + 1
         /\ \A k \in at : Rank(at \cup {n + 1}, k) = Rank(at, k)
         /\ Rank(at \cup {n + 1}, n + 1) = Cardinality(at) + 1
<1>1. IsFiniteSet(1 .. n)
  BY FS_Interval
<1>2. n + 1 \notin at /\ \A j \in at \cup {n + 1} : j <= n + 1
  OBVIOUS
<1>3. IsFiniteSet(at)
  BY <1>1, FS_Subset
<1>4. Cardinality(at) \in Nat /\ Cardinality(at \cup {n + 1}) = Cardinality(at) + 1
  BY <1>3, <1>2, FS_AddElement, FS_CardinalityType
<1>5. ASSUME NEW k \in at PROVE Rank(at \cup {n + 1}, k) = Rank(at, k)
  <2>1. {j \in at \cup {n + 1} : j <= k} = {j \in at : j <= k}
    OBVIOUS
  <2> QED
    BY <2>1 DEF Rank
<1>6. Rank(at \cup {n + 1}, n + 1) = Cardinality(at) + 1
  <2>1. {j \in at \cup {n + 1} : j <= n + 1} = at \cup {n + 1}
    BY <1>2
  <2> QED
    BY <1>4, <2>1 DEF Rank
<1> QED
  BY <1>4, <1>5, <1>6

\* append_required_text() collects what the document has.
LEMMA CollectedAppend ==
  ASSUME NEW doc \in Seq(Tokens), NEW token \in Tokens, NEW tag, NEW text \in Seq(Pieces),
         Collected(doc, tag, text)
  PROVE  /\ token.kind = "text" /\ Inside(doc, Len(doc) + 1, tag) /\ token.piece \in Pieces =>
              Collected(Append(doc, token), tag, Append(text, token.piece))
         /\ ~(token.kind = "text" /\ Inside(doc, Len(doc) + 1, tag)) =>
              Collected(Append(doc, token), tag, text)
<1> DEFINE n == Len(doc)
           e == Append(doc, token)
           at == TextAt(doc, tag)
           new == TextAt(e, tag)
<1>1. /\ n \in Nat /\ e[n + 1] = token /\ \A k \in 1 .. n : e[k] = doc[k]
  BY AppendFacts
<1>2. /\ at \in SUBSET (1 .. n)
      /\ token.kind = "text" /\ Inside(doc, n + 1, tag) => new = at \cup {n + 1}
      /\ ~(token.kind = "text" /\ Inside(doc, n + 1, tag)) => new = at
  BY TextAtAppend
<1>3. /\ Len(text) = Cardinality(at) /\ Len(text) \in Nat
      /\ \A k \in at : Rank(at, k) \in 1 .. Len(text) /\ text[Rank(at, k)] = doc[k].piece
      /\ \A r \in 1 .. Len(text) : \E k \in at : Rank(at, k) = r
  BY DEF Collected
<1> HIDE DEF n, e, at, new
<1>4. CASE ~(token.kind = "text" /\ Inside(doc, n + 1, tag))
  <2>1. new = at /\ \A k \in at : e[k] = doc[k]
    BY <1>1, <1>2, <1>4
  <2>2. Collected(e, tag, text)
    BY <1>3, <2>1 DEF Collected, new
  <2> QED
    BY <1>4, <2>2 DEF n, e
<1>5. CASE token.kind = "text" /\ Inside(doc, n + 1, tag) /\ token.piece \in Pieces
  <2> DEFINE more == Append(text, token.piece)
             l == Len(text)
  <2>1. /\ Len(more) = l + 1 /\ more[l + 1] = token.piece /\ l \in Nat
        /\ \A r \in 1 .. l : more[r] = text[r]
    BY <1>5
  <2>2. /\ new = at \cup {n + 1} /\ Cardinality(new) = l + 1
        /\ \A k \in at : Rank(new, k) = Rank(at, k)
        /\ Rank(new, n + 1) = l + 1
    <3>1. new = at \cup {n + 1} /\ l = Cardinality(at) /\ n \in Nat /\ at \in SUBSET (1 .. n)
      BY <1>1, <1>2, <1>3, <1>5
    <3> HIDE DEF l
    <3> QED
      BY <3>1, RankAdd
  <2>3. \A k \in at : e[k] = doc[k]
    BY <1>1, <1>2
  <2> HIDE DEF more, l
  <2>4. ASSUME NEW k \in new
        PROVE  Rank(new, k) \in 1 .. l + 1 /\ more[Rank(new, k)] = e[k].piece
    <3>1. CASE k \in at
      <4>1. Rank(new, k) \in 1 .. l /\ text[Rank(new, k)] = e[k].piece
        BY <1>3, <2>2, <2>3, <3>1 DEF l
      <4> QED
        BY <2>1, <4>1
    <3>2. CASE k = n + 1
      BY <1>1, <2>1, <2>2, <3>2
    <3> QED
      BY <2>2, <3>1, <3>2
  <2>5. ASSUME NEW r \in 1 .. l + 1 PROVE \E k \in new : Rank(new, k) = r
    <3>1. CASE r = l + 1
      BY <2>2, <3>1
    <3>2. CASE r # l + 1
      <4>1. r \in 1 .. l
        BY <2>1, <3>2
      <4>2. PICK k \in at : Rank(at, k) = r
        BY <1>3, <4>1 DEF l
      <4> QED
        BY <2>2, <4>2
    <3> QED
      BY <3>1, <3>2
  <2>6. Collected(e, tag, more)
    BY <2>1, <2>2, <2>4, <2>5 DEF Collected, new
  <2> QED
    BY <1>5, <2>6 DEF e, n, more
<1> QED
  BY <1>4, <1>5 DEF n

\* What the parser has collected is the text of the field.
LEMMA CollectedText ==
  ASSUME NEW doc, NEW tag, NEW text \in Seq(Pieces), Collected(doc, tag, text)
  PROVE  Text(doc, tag) = text
<1> DEFINE at == TextAt(doc, tag)
           Pick(r) == CHOOSE k \in at : Rank(at, k) = r
<1>1. /\ Len(text) = Cardinality(at)
      /\ \A k \in at : text[Rank(at, k)] = doc[k].piece
      /\ \A r \in 1 .. Len(text) : \E k \in at : Rank(at, k) = r
  BY DEF Collected
<1>2. ASSUME NEW r \in 1 .. Len(text) PROVE doc[Pick(r)].piece = text[r]
  <2>1. Pick(r) \in at /\ Rank(at, Pick(r)) = r
    BY <1>1
  <2> QED
    BY <1>1, <2>1
<1>3. Text(doc, tag) = [r \in 1 .. Cardinality(at) |-> doc[Pick(r)].piece]
  BY DEF Text
<1>4. text = [r \in 1 .. Len(text) |-> text[r]]
  OBVIOUS
<1> HIDE DEF at, Pick
<1> QED
  BY <1>1, <1>2, <1>3, <1>4

\* trim_ascii_whitespace() returns a part of the text.
LEMMA TrimmedType ==
  ASSUME NEW text \in Seq(Pieces)
  PROVE  Trimmed(text) \in Seq(Pieces)
<1> DEFINE solid == {k \in 1 .. Len(text) : text[k] # "blank"}
<1>1. CASE solid = {}
  BY <1>1 DEF Trimmed
<1>2. CASE solid # {}
  <2>1. Len(text) \in Nat /\ solid \in SUBSET (1 .. Len(text))
    OBVIOUS
  <2>2. Min(solid) \in solid /\ Max(solid) \in solid /\ Min(solid) <= Max(solid)
    <3> HIDE DEF solid
    <3> QED
      BY <1>2, <2>1, MinAndMaxExist
  <2>3. Trimmed(text) = SubSeq(text, Min(solid), Max(solid))
    BY <1>2 DEF Trimmed
  <2> HIDE DEF solid
  <2>4. Min(solid) \in 1 .. Len(text) /\ Max(solid) \in 1 .. Len(text)
    BY <2>1, <2>2
  <2>5. Min(solid) \in 1 .. Len(text) + 1 /\ Max(solid) \in Min(solid) - 1 .. Len(text)
    BY <2>1, <2>2, <2>4
  <2> QED
    BY <2>3, <2>5, SliceFacts
<1> QED
  BY <1>1, <1>2

\* Before the first token there is nothing wrong and nothing open.
LEMMA EmptyDocument ==
  /\ Lawful(<<>>) /\ Stacked(<<>>, <<>>, <<>>)
  /\ \A tag : Begins(<<>>, tag) = {} /\ Collected(<<>>, tag, <<>>)
<1>1. Len(<<>>) = 0 /\ 1 .. 0 = {}
  OBVIOUS
<1>2. \A tag : Begins(<<>>, tag) = {} /\ TextAt(<<>>, tag) = {}
  BY <1>1 DEF Begins, Positions, TextAt
<1>3. Lawful(<<>>)
  BY <1>1, <1>2, FS_EmptySet DEF Lawful
<1>4. Opens(<<>>, 1, 0) = 0 /\ Closes(<<>>, 1, 0) = 0
  BY Counting
<1>5. OpenAfter(<<>>, 0, 0)
  BY <1>1, <1>4 DEF OpenAfter
<1>6. <<>> \in [1 .. 0 -> 1 .. 0]
  OBVIOUS
<1>7. Stacked(<<>>, <<>>, <<>>)
  BY <1>1, <1>5, <1>6 DEF Stacked
<1>8. \A tag : Collected(<<>>, tag, <<>>)
  BY <1>1, <1>2, FS_EmptySet DEF Collected
<1> QED
  BY <1>2, <1>3, <1>7, <1>8

\* The parser starts in a state that the invariant describes.
LEMMA ParserInit ==
  XmlInit => ParserInv
<1> SUFFICES ASSUME XmlInit PROVE ParserInv
  OBVIOUS
<1>1. /\ elements = <<>> /\ seen = {} /\ fields = [tag \in Fields |-> <<>>]
      /\ verdict = "reading" /\ document = <<>>
  BY DEF XmlInit
<1>2. XmlTypeOK
  BY <1>1 DEF XmlTypeOK
<1>3. ParserDecides /\ ConfigurationIsTheDocument
  BY <1>1, EmptyDocument DEF ParserDecides, ConfigurationIsTheDocument
<1>4. Stacked(document, elements, <<>>) /\ Len(elements) = 0
  BY <1>1, EmptyDocument
<1>5. \E at \in [1 .. Len(elements) -> 1 .. Len(document)] : Stacked(document, elements, at)
  BY <1>4 DEF Stacked
<1>6. \A d \in 1 .. Len(elements) - 1 : elements[d] \notin Fields
  BY <1>4
<1>7. /\ seen = {tag \in Fields : Begins(document, tag) # {}}
      /\ \A tag \in Fields : Collected(document, tag, fields[tag])
  BY <1>1, EmptyDocument
<1> QED
  BY <1>2, <1>3, <1>5, <1>7, <1>6 DEF ParserInv, ReadingInv

\* While the parser reads, its state says of the document what the rules need.
LEMMA ReadingFacts ==
  ASSUME ParserInv, verdict = "reading"
  PROVE  /\ document \in Seq(Tokens) /\ elements \in Seq(Names) /\ fields \in [Fields -> Seq(Pieces)]
         /\ Lawful(document) /\ \E at : Stacked(document, elements, at)
         /\ \A tag \in Fields :
              Inside(document, Len(document) + 1, tag) <=> InField /\ Innermost = tag
         /\ seen = {tag \in Fields : Begins(document, tag) # {}}
         /\ \A tag \in Fields : Collected(document, tag, fields[tag])
<1>1. /\ document \in Seq(Tokens) /\ elements \in Seq(Names) /\ fields \in [Fields -> Seq(Pieces)]
      /\ Lawful(document) /\ \E at : Stacked(document, elements, at)
      /\ seen = {tag \in Fields : Begins(document, tag) # {}}
      /\ \A tag \in Fields : Collected(document, tag, fields[tag])
      /\ \A d \in 1 .. Len(elements) - 1 : elements[d] \notin Fields
  BY DEF ParserInv, ParserDecides, ReadingInv, XmlTypeOK
<1>2. ASSUME NEW tag \in Fields
      PROVE  Inside(document, Len(document) + 1, tag) <=> InField /\ Innermost = tag
  <2>1. Inside(document, Len(document) + 1, tag) <=>
          \E d \in 1 .. Len(elements) : elements[d] = tag
    BY <1>1, InsideStacked
  <2>2. \A d \in 1 .. Len(elements) : d \in 1 .. Len(elements) - 1 \/ d = Len(elements)
    BY <1>1
  <2>3. elements # <<>> <=> Len(elements) \in 1 .. Len(elements)
    BY <1>1
  <2>4. (\E d \in 1 .. Len(elements) : elements[d] = tag) <=>
          elements # <<>> /\ elements[Len(elements)] = tag
    BY <1>1, <2>2, <2>3
  <2> QED
    BY <2>1, <2>4 DEF InField, Innermost
<1> QED
  BY <1>1, <1>2

\* A parser that throws keeps the invariant if the token makes the document unlawful.
LEMMA ThrowStep ==
  ASSUME ParserInv, NEW token \in Tokens, Reading(token), Throw, ~Lawful(Append(document, token))
  PROVE  ParserInv'
<1>1. /\ verdict = "reading" /\ verdict' = "malformed" /\ document' = Append(document, token)
      /\ UNCHANGED <<elements, fields>>
  BY DEF Reading, Throw
<1>2. XmlTypeOK'
  BY <1>1, ReadingFacts DEF XmlTypeOK
<1>3. ParserDecides' /\ ConfigurationIsTheDocument'
  BY <1>1 DEF ParserDecides, ConfigurationIsTheDocument
<1> QED
  BY <1>1, <1>2, <1>3 DEF ParserInv

\* A parser that reads on keeps the invariant if its state says the same of the longer document.
LEMMA ReadOnStep ==
  ASSUME ParserInv, NEW token \in Tokens, Reading(token), UNCHANGED verdict,
         Lawful(document'), elements' \in Seq(Names), fields' \in [Fields -> Seq(Pieces)],
         \E at : Stacked(document', elements', at),
         \A d \in 1 .. Len(elements') - 1 : elements'[d] \notin Fields,
         seen' = {tag \in Fields : Begins(document', tag) # {}},
         \A tag \in Fields : Collected(document', tag, fields'[tag])
  PROVE  ParserInv'
<1>1. verdict = "reading" /\ verdict' = "reading" /\ document' = Append(document, token)
  BY DEF Reading
<1>2. XmlTypeOK'
  BY <1>1, ReadingFacts DEF XmlTypeOK
<1>3. ParserDecides' /\ ConfigurationIsTheDocument'
  BY <1>1 DEF ParserDecides, ConfigurationIsTheDocument
<1>4. \E at \in [1 .. Len(elements') -> 1 .. Len(document')] : Stacked(document', elements', at)
  BY DEF Stacked
<1>5. ReadingInv'
  BY <1>4 DEF ReadingInv
<1> QED
  BY <1>1, <1>2, <1>3, <1>5 DEF ParserInv

\* A token that opens no element leaves the elements that have appeared.
LEMMA SeenKept ==
  ASSUME ParserInv, verdict = "reading", NEW token \in Tokens, token.kind \notin {"open", "selfclose"}
  PROVE  seen = {tag \in Fields : Begins(Append(document, token), tag) # {}}
<1>1. \A tag \in Fields : Begins(Append(document, token), tag) = Begins(document, tag)
  BY ReadingFacts, BeginsAppend
<1> QED
  BY <1>1, ReadingFacts

\* A token that is no text leaves the text collected.
LEMMA FieldsKept ==
  ASSUME ParserInv, verdict = "reading", NEW token \in Tokens, token.kind # "text"
  PROVE  \A tag \in Fields : Collected(Append(document, token), tag, fields[tag])
<1> SUFFICES ASSUME NEW tag \in Fields PROVE Collected(Append(document, token), tag, fields[tag])
  OBVIOUS
<1>1. document \in Seq(Tokens) /\ fields[tag] \in Seq(Pieces) /\ Collected(document, tag, fields[tag])
  BY ReadingFacts
<1> QED
  BY <1>1, CollectedAppend

\* Text inside a field goes to that field and to no other.
LEMMA ReadTextStep ==
  ASSUME ParserInv, NEW piece \in Pieces, ReadText(piece)
  PROVE  ParserInv'
<1> DEFINE token == [kind |-> "text", piece |-> piece]
<1>1. token \in Tokens /\ token.kind = "text" /\ token.piece = piece
  BY DEF Tokens
<1>2. /\ Reading(token) /\ InField /\ UNCHANGED <<elements, seen, verdict>>
      /\ fields' = [fields EXCEPT ![Innermost] = Append(@, piece)]
  BY DEF ReadText
<1> HIDE DEF token
<1>3. verdict = "reading" /\ document' = Append(document, token)
  BY <1>2 DEF Reading
<1>4. /\ document \in Seq(Tokens) /\ fields \in [Fields -> Seq(Pieces)] /\ elements \in Seq(Names)
      /\ Lawful(document) /\ Innermost \in Fields
      /\ \A tag \in Fields : Collected(document, tag, fields[tag])
      /\ \A tag \in Fields : Inside(document, Len(document) + 1, tag) <=> Innermost = tag
      /\ \A d \in 1 .. Len(elements) - 1 : elements[d] \notin Fields
  BY <1>2, <1>3, ReadingFacts DEF ParserInv, ReadingInv, InField
<1>5. Lawful(document')
  BY <1>1, <1>3, <1>4, LawfulAppend
<1>6. \E at : Stacked(document', elements', at)
  BY <1>1, <1>2, <1>3, ReadingFacts, StackedKeep
<1>7. seen' = {tag \in Fields : Begins(document', tag) # {}}
  BY <1>1, <1>2, <1>3, SeenKept
<1>8. fields' \in [Fields -> Seq(Pieces)]
  BY <1>2, <1>4
<1>9. ASSUME NEW tag \in Fields PROVE Collected(document', tag, fields'[tag])
  <2>1. fields[tag] \in Seq(Pieces) /\ Collected(document, tag, fields[tag])
    BY <1>4
  <2>2. CASE tag = Innermost
    <3>1. fields'[tag] = Append(fields[tag], token.piece)
      BY <1>1, <1>2, <1>4, <2>2
    <3> QED
      BY <1>1, <1>3, <1>4, <2>1, <2>2, <3>1, CollectedAppend
  <2>3. CASE tag # Innermost
    <3>1. fields'[tag] = fields[tag]
      BY <1>2, <1>4, <2>3
    <3> QED
      BY <1>1, <1>3, <1>4, <2>1, <2>3, <3>1, CollectedAppend
  <2> QED
    BY <2>2, <2>3
<1> QED
  BY <1>1, <1>2, <1>4, <1>5, <1>6, <1>7, <1>8, <1>9, ReadOnStep

\* Comments and text outside the fields say nothing about the document.
LEMMA ReadAsideStep ==
  ASSUME ParserInv, ReadAside
  PROVE  ParserInv'
<1> DEFINE token == [kind |-> "aside"]
<1>1. token \in Tokens /\ token.kind = "aside"
  BY DEF Tokens
<1>2. Reading(token) /\ UNCHANGED <<elements, seen, fields, verdict>>
  BY DEF ReadAside
<1> HIDE DEF token
<1>3. verdict = "reading" /\ document' = Append(document, token)
  BY <1>2 DEF Reading
<1>4. /\ document \in Seq(Tokens) /\ fields \in [Fields -> Seq(Pieces)] /\ elements \in Seq(Names)
      /\ Lawful(document)
      /\ \A d \in 1 .. Len(elements) - 1 : elements[d] \notin Fields
  BY <1>3, ReadingFacts DEF ParserInv, ReadingInv
<1>5. Lawful(document')
  BY <1>1, <1>3, <1>4, LawfulAppend
<1>6. \E at : Stacked(document', elements', at)
  BY <1>1, <1>2, <1>3, ReadingFacts, StackedKeep
<1>7. seen' = {tag \in Fields : Begins(document', tag) # {}}
  BY <1>1, <1>2, <1>3, SeenKept
<1>8. \A tag \in Fields : Collected(document', tag, fields'[tag])
  BY <1>1, <1>2, <1>3, FieldsKept
<1> QED
  BY <1>1, <1>2, <1>4, <1>5, <1>6, <1>7, <1>8, ReadOnStep

\* Markup that cannot be read cannot be mended.
LEMMA ReadBadStep ==
  ASSUME ParserInv, ReadBad
  PROVE  ParserInv'
<1> DEFINE token == [kind |-> "bad"]
<1>1. token \in Tokens /\ token.kind = "bad"
  BY DEF Tokens
<1>2. Reading(token) /\ Throw
  BY DEF ReadBad
<1> HIDE DEF token
<1>3. verdict = "reading"
  BY <1>2 DEF Reading
<1>4. ~Lawful(Append(document, token))
  BY <1>1, <1>3, ReadingFacts, LawfulAppend
<1> QED
  BY <1>1, <1>2, <1>4, ThrowStep

\* A closing tag is accepted exactly when it closes the innermost element.
LEMMA ReadCloseStep ==
  ASSUME ParserInv, NEW name \in Names, ReadClose(name)
  PROVE  ParserInv'
<1> DEFINE token == [kind |-> "close", name |-> name]
<1>1. token \in Tokens /\ token.kind = "close" /\ token.name = name
  BY DEF Tokens
<1>2. Reading(token)
  BY DEF ReadClose
<1>3. \/ /\ elements # <<>> /\ Innermost = name
         /\ elements' = SubSeq(elements, 1, Len(elements) - 1)
         /\ UNCHANGED <<seen, fields, verdict>>
      \/ (elements # <<>> => Innermost # name) /\ Throw
  BY DEF ReadClose
<1> HIDE DEF token
<1>4. verdict = "reading" /\ document' = Append(document, token)
  BY <1>2 DEF Reading
<1>5. /\ document \in Seq(Tokens) /\ fields \in [Fields -> Seq(Pieces)] /\ elements \in Seq(Names)
      /\ Lawful(document)
      /\ \A d \in 1 .. Len(elements) - 1 : elements[d] \notin Fields
  BY <1>4, ReadingFacts DEF ParserInv, ReadingInv
<1>6. PICK at : Stacked(document, elements, at)
  BY <1>4, ReadingFacts
<1>7. Lawful(Append(document, token)) <=> elements # <<>> /\ Innermost = name
  BY <1>1, <1>5, <1>6, LawfulAppend, CloseStacked DEF Innermost
<1>8. CASE (elements # <<>> => Innermost # name) /\ Throw
  BY <1>1, <1>2, <1>7, <1>8, ThrowStep
<1>9. CASE /\ elements # <<>> /\ Innermost = name
           /\ elements' = SubSeq(elements, 1, Len(elements) - 1)
           /\ UNCHANGED <<seen, fields, verdict>>
  <2>1. /\ elements' \in Seq(Names) /\ Len(elements') = Len(elements) - 1
        /\ \A d \in 1 .. Len(elements) - 1 : elements'[d] = elements[d]
    BY <1>5, <1>9, PopFacts
  <2>2. \A d \in 1 .. Len(elements') - 1 : elements'[d] \notin Fields
    BY <1>5, <2>1
  <2>3. \E new : Stacked(document', elements', new)
    BY <1>1, <1>4, <1>5, <1>6, <1>9, StackedPop
  <2>4. seen' = {tag \in Fields : Begins(document', tag) # {}}
    BY <1>1, <1>4, <1>9, SeenKept
  <2>5. \A tag \in Fields : Collected(document', tag, fields'[tag])
    BY <1>1, <1>4, <1>9, FieldsKept
  <2>6. Lawful(document') /\ fields' \in [Fields -> Seq(Pieces)] /\ UNCHANGED verdict
    BY <1>4, <1>5, <1>7, <1>9
  <2> QED
    BY <1>1, <1>2, <2>1, <2>2, <2>3, <2>4, <2>5, <2>6, ReadOnStep
<1> QED
  BY <1>3, <1>8, <1>9

\* An opening tag is accepted exactly when it is in no field and its field is new.
LEMMA ReadOpenStep ==
  ASSUME ParserInv, NEW name \in Names, NEW kind \in {"open", "selfclose"}, ReadOpen(name, kind)
  PROVE  ParserInv'
<1> DEFINE token == [kind |-> kind, name |-> name]
<1>1. token \in Tokens /\ token.kind = kind /\ token.name = name
  BY DEF Tokens
<1>2. Reading(token)
  BY DEF ReadOpen
<1>3. \/ /\ MayOpen(name) /\ seen' = seen \cup ({name} \cap Fields)
         /\ elements' = IF kind = "selfclose" THEN elements ELSE Append(elements, name)
         /\ UNCHANGED <<fields, verdict>>
      \/ ~MayOpen(name) /\ Throw
  BY DEF ReadOpen
<1> HIDE DEF token
<1>4. verdict = "reading" /\ document' = Append(document, token)
  BY <1>2 DEF Reading
<1>5. /\ document \in Seq(Tokens) /\ fields \in [Fields -> Seq(Pieces)] /\ elements \in Seq(Names)
      /\ Lawful(document) /\ seen = {tag \in Fields : Begins(document, tag) # {}}
      /\ \A d \in 1 .. Len(elements) - 1 : elements[d] \notin Fields
      /\ \A tag \in Fields :
           Inside(document, Len(document) + 1, tag) <=> InField /\ Innermost = tag
  BY <1>4, ReadingFacts DEF ParserInv, ReadingInv
<1>6. PICK at : Stacked(document, elements, at)
  BY <1>4, ReadingFacts
<1>7. Lawful(Append(document, token)) <=> MayOpen(name)
  <2>1. Lawful(Append(document, token)) <=>
          /\ \A tag \in Fields : ~Inside(document, Len(document) + 1, tag)
          /\ name \in Fields => Begins(document, name) = {}
    BY <1>1, <1>5, LawfulAppend
  <2>2. InField <=> \E tag \in Fields : Inside(document, Len(document) + 1, tag)
    BY <1>5 DEF InField
  <2>3. name \in seen <=> name \in Fields /\ Begins(document, name) # {}
    BY <1>5
  <2> QED
    BY <2>1, <2>2, <2>3 DEF MayOpen
<1>8. CASE ~MayOpen(name) /\ Throw
  BY <1>1, <1>2, <1>7, <1>8, ThrowStep
<1>9. CASE /\ MayOpen(name) /\ seen' = seen \cup ({name} \cap Fields)
           /\ elements' = IF kind = "selfclose" THEN elements ELSE Append(elements, name)
           /\ UNCHANGED <<fields, verdict>>
  <2>1. elements' \in Seq(Names)
    BY <1>5, <1>9
  <2>2. \A d \in 1 .. Len(elements) : elements[d] \notin Fields
    <3>1. elements # <<>> => elements[Len(elements)] \notin Fields
      BY <1>9 DEF MayOpen, InField, Innermost
    <3>2. \A d \in 1 .. Len(elements) :
            d \in 1 .. Len(elements) - 1 \/ (d = Len(elements) /\ elements # <<>>)
      BY <1>5
    <3> QED
      BY <1>5, <3>1, <3>2
  <2>3. \A d \in 1 .. Len(elements') - 1 : elements'[d] \notin Fields
    <3>1. CASE kind = "selfclose"
      BY <1>5, <1>9, <3>1
    <3>2. CASE kind = "open"
      <4>1. elements' = Append(elements, name)
        BY <1>9, <3>2
      <4>2. /\ Len(elements') - 1 = Len(elements)
            /\ \A d \in 1 .. Len(elements) : elements'[d] = elements[d]
        BY <1>5, <4>1
      <4> QED
        BY <2>2, <4>2
    <3> QED
      BY <3>1, <3>2
  <2>4. \E new : Stacked(document', elements', new)
    <3>1. CASE kind = "selfclose"
      BY <1>1, <1>4, <1>5, <1>6, <1>9, <3>1, StackedKeep
    <3>2. CASE kind = "open"
      <4>1. elements' = Append(elements, token.name)
        BY <1>1, <1>9, <3>2
      <4> QED
        BY <1>1, <1>4, <1>5, <1>6, <3>2, <4>1, StackedPush
    <3> QED
      BY <3>1, <3>2
  <2>5. seen' = {tag \in Fields : Begins(document', tag) # {}}
    <3>1. ASSUME NEW tag \in Fields PROVE Begins(document', tag) # {} <=> tag = name \/ tag \in seen
      <4>1. /\ name = tag => Begins(document', tag) = Begins(document, tag) \cup {Len(document) + 1}
            /\ name # tag => Begins(document', tag) = Begins(document, tag)
        BY <1>1, <1>4, <1>5, BeginsAppend
      <4> QED
        BY <1>5, <4>1
    <3>2. seen \subseteq Fields
      BY <1>5
    <3> QED
      BY <1>9, <3>1, <3>2
  <2>6. \A tag \in Fields : Collected(document', tag, fields'[tag])
    BY <1>1, <1>4, <1>9, FieldsKept
  <2>7. Lawful(document') /\ fields' \in [Fields -> Seq(Pieces)] /\ UNCHANGED verdict
    BY <1>4, <1>5, <1>7, <1>9
  <2> QED
    BY <1>1, <1>2, <2>1, <2>3, <2>4, <2>5, <2>6, <2>7, ReadOnStep
<1> QED
  BY <1>3, <1>8, <1>9

\* The spellings parse_force_unit() and parse_torque_unit() know, after normalisation, are the
\* units of the document.
LEMMA SpellingsAreUnits ==
  ASSUME NEW kind \in {"force", "torque"}, NEW value
  PROVE  ParseUnit(kind, value) # {} <=> value \in Units(kind)
<1>1. CASE kind = "force"
  BY <1>1 DEF ParseUnit, Units, ForceSpellings
<1>2. CASE kind = "torque"
  <2>1. ParseUnit(kind, value) # {} <=>
          NormalizeTorqueSpelling(value) \in TorqueSpellings \ {"unknown"}
    BY <1>2 DEF ParseUnit
  <2>2. CASE value = "Nm" \/ value = "Nmm" \/ value = "kg-cm"
    BY <1>2, <2>1, <2>2 DEF NormalizeTorqueSpelling, TorqueSpellings, Units
  <2>3. CASE value # "Nm" /\ value # "Nmm" /\ value # "kg-cm"
    <3>1. NormalizeTorqueSpelling(value) = value
      BY <2>3 DEF NormalizeTorqueSpelling
    <3> QED
      BY <1>2, <2>1, <2>3, <3>1 DEF TorqueSpellings, Units
  <2> QED
    BY <2>2, <2>3
<1> QED
  BY <1>1, <1>2

\* The checks of a value at the end of the document are those of the document.
LEMMA ValuesAgree ==
  ASSUME NEW kind \in {"name", "count", "force", "torque"}, NEW value \in Seq(Pieces)
  PROVE  GoodContent(kind, value) <=>
           value # <<>> /\ Len(value) <= MaximumLength /\ GoodValue(kind, value)
<1>1. Len(value) \in Nat /\ MaximumLength \in Nat /\ (value # <<>> <=> Len(value) >= 1)
  BY XmlAssumption
<1>2. Len(value) \in 1 .. MaximumLength <=> value # <<>> /\ Len(value) <= MaximumLength
  BY <1>1
<1>3. CASE kind = "name"
  BY <1>2, <1>3 DEF GoodContent, GoodValue
<1>4. CASE kind = "count"
  <2>1. ASSUME value # <<>>
        PROVE  {value[k] : k \in DOMAIN value} = {"digit"} <=>
                 \A k \in 1 .. Len(value) : value[k] = "digit"
    <3>1. DOMAIN value = 1 .. Len(value) /\ 1 \in 1 .. Len(value)
      BY <1>1, <2>1
    <3> QED
      BY <3>1
  <2>2. GoodContent(kind, value) <=>
          Len(value) \in 1 .. MaximumLength /\ {value[k] : k \in DOMAIN value} = {"digit"}
    BY <1>4 DEF GoodContent
  <2>3. GoodValue(kind, value) <=> \A k \in 1 .. Len(value) : value[k] = "digit"
    BY <1>4 DEF GoodValue
  <2> QED
    BY <1>2, <2>1, <2>2, <2>3
<1>5. CASE kind \in {"force", "torque"}
  <2>1. GoodContent(kind, value) <=>
          Len(value) \in 1 .. MaximumLength /\ \E unit \in Units(kind) : value = <<unit>>
    BY <1>5 DEF GoodContent
  <2>2. GoodValue(kind, value) <=> Len(value) = 1 /\ value[1] \in Units(kind)
    BY <1>5, SpellingsAreUnits DEF GoodValue
  <2>3. (\E unit \in Units(kind) : value = <<unit>>) <=> Len(value) = 1 /\ value[1] \in Units(kind)
    <3>1. Len(value) = 1 => value = <<value[1]>>
      OBVIOUS
    <3>2. \A unit : Len(<<unit>>) = 1 /\ <<unit>>[1] = unit
      OBVIOUS
    <3> QED
      BY <3>1, <3>2
  <2> QED
    BY <1>2, <2>1, <2>2, <2>3
<1> QED
  BY <1>3, <1>4, <1>5

\* At its end a document is accepted exactly when it is complete.
LEMMA EndOfDocumentStep ==
  ASSUME ParserInv, EndOfDocument
  PROVE  ParserInv'
<1>1. /\ verdict = "reading" /\ verdict' \in {"accepted", "refused"}
      /\ UNCHANGED <<elements, seen, fields, document>>
      /\ verdict' = "accepted" <=> elements = <<>> /\ \A tag \in Fields : Acceptable(tag)
      /\ verdict' = "accepted" => configuration' = [tag \in Fields |-> Field(tag)]
  BY DEF EndOfDocument
<1>2. /\ document \in Seq(Tokens) /\ fields \in [Fields -> Seq(Pieces)] /\ elements \in Seq(Names)
      /\ Lawful(document) /\ seen = {tag \in Fields : Begins(document, tag) # {}}
      /\ \A tag \in Fields : Collected(document, tag, fields[tag])
  BY <1>1, ReadingFacts
<1>3. ASSUME NEW tag \in Fields
      PROVE  /\ Trimmed(fields[tag]) = Content(document, tag)
             /\ Content(document, tag) \in Seq(Pieces)
  <2>1. fields[tag] \in Seq(Pieces) /\ Collected(document, tag, fields[tag])
    BY <1>2
  <2>2. Text(document, tag) = fields[tag]
    BY <2>1, CollectedText
  <2> QED
    BY <2>1, <2>2, TrimmedType DEF Content
<1>4. ASSUME NEW tag \in Fields
      PROVE  Acceptable(tag) <=> IF Begins(document, tag) = {} THEN Kinds[tag] = "name"
                                 ELSE GoodContent(Kinds[tag], Content(document, tag))
  <2>1. Kinds[tag] \in {"name", "count", "force", "torque"}
    BY XmlAssumption DEF Fields
  <2>2. CASE Begins(document, tag) = {}
    <3>1. tag \notin seen
      BY <1>2, <2>2
    <3>2. Kinds[tag] = "name" => Field(tag) = DefaultName
      BY <3>1 DEF Field
    <3>3. DefaultName # <<>> /\ Len(DefaultName) <= MaximumLength
      BY XmlAssumption DEF DefaultName
    <3> QED
      BY <2>2, <3>1, <3>2, <3>3 DEF Acceptable, GoodValue
  <2>3. CASE Begins(document, tag) # {}
    <3>1. tag \in seen /\ Field(tag) = Content(document, tag)
      BY <1>2, <1>3, <2>3 DEF Field
    <3> QED
      BY <1>3, <2>1, <2>3, <3>1, ValuesAgree DEF Acceptable
  <2> QED
    BY <2>2, <2>3
<1>5. elements = <<>> <=> Opens(document, 1, Len(document)) = Closes(document, 1, Len(document))
  <2>1. PICK at : Stacked(document, elements, at)
    BY <1>1, ReadingFacts
  <2>2. Opens(document, 1, Len(document)) = Closes(document, 1, Len(document)) + Len(elements)
    BY <2>1 DEF Stacked, OpenAfter
  <2>3. Closes(document, 1, Len(document)) \in Nat /\ Len(elements) \in Nat
    BY <1>2, Counting
  <2>4. elements = <<>> <=> Len(elements) = 0
    BY <1>2
  <2> QED
    BY <2>2, <2>3, <2>4
<1>6. verdict' = "accepted" <=> Complete(document)
  BY <1>1, <1>4, <1>5 DEF Complete
<1>7. ParserDecides'
  BY <1>1, <1>2, <1>6 DEF ParserDecides
<1>8. ASSUME verdict' = "accepted", NEW tag \in Fields
      PROVE  configuration'[tag] =
               IF Begins(document, tag) = {} THEN DefaultName ELSE Content(document, tag)
  <2>1. configuration'[tag] = Field(tag) /\ Acceptable(tag)
    BY <1>1, <1>8
  <2>2. CASE Begins(document, tag) = {}
    BY <1>2, <1>4, <2>1, <2>2 DEF Field
  <2>3. CASE Begins(document, tag) # {}
    BY <1>2, <1>3, <2>1, <2>3 DEF Field
  <2> QED
    BY <2>2, <2>3
<1>9. ConfigurationIsTheDocument'
  BY <1>1, <1>8 DEF ConfigurationIsTheDocument
<1>10. XmlTypeOK'
  BY <1>1, <1>2 DEF XmlTypeOK
<1> QED
  BY <1>1, <1>7, <1>9, <1>10 DEF ParserInv

\* Every step of the parser keeps the invariant.
LEMMA ParserNext ==
  ParserInv /\ (XmlNext \/ UNCHANGED xmlVars) => ParserInv'
<1>1. ASSUME ParserInv, UNCHANGED xmlVars PROVE ParserInv'
  BY <1>1 DEF xmlVars, ParserInv, XmlTypeOK, ParserDecides, ConfigurationIsTheDocument, ReadingInv
<1>2. ASSUME ParserInv, XmlNext PROVE ParserInv'
  BY <1>2, ReadTextStep, ReadAsideStep, ReadBadStep, ReadCloseStep, ReadOpenStep, EndOfDocumentStep
     DEF XmlNext
<1> QED
  BY <1>1, <1>2

\* Everything discovery does to the parser is a step of the parser.
LEMMA ParserInvariant ==
  Spec => []ParserInv
<1>1. Init => ParserInv
  BY ParserInit DEF Init
<1>2. [Next]_allVars => XmlNext \/ UNCHANGED xmlVars
  BY DEF Next, Construct, ConfigurationForSession, BeginTransfer, AppendResponse, Performed, Parse,
     allVars
<1>3. ParserInv /\ [Next]_allVars => ParserInv'
  BY <1>2, ParserNext
<1> QED
  BY <1>1, <1>3, PTL DEF Spec

\* parse_sensor_configuration(), which reads a document once and keeps a stack, throws while
\* reading at the first token that no continuation can mend and at no other, and accepts at
\* the end exactly the complete documents: of any length and depth, for any set of fields.
THEOREM ParserIsRight ==
  Spec => []ParserDecides
BY ParserInvariant, PTL DEF ParserInv

\* Every value of a configuration the parser accepts is the text of the one element of that
\* name, and the product name is the generic one exactly when the document gives none.
THEOREM ConfigurationFromDocument ==
  Spec => []ConfigurationIsTheDocument
BY ParserInvariant, PTL DEF ParserInv

-----------------------------------------------------------------------------
(* The Config and the response *)

USE DiscoveryAssumption

\* What the constructor accepted is kept until discover_sensor() looks at it.
OptionsInv == phase \in {"made", "discover"} => ValidateOptions

\* The buffer holds every byte handed over until one does not fit or cannot be stored.
ResponseInv ==
  /\ response \in [bytes : Nat, too_large : BOOLEAN, write_failed : BOOLEAN]
  /\ response.bytes <= MaximumResponseBytes
  /\ ~response.too_large /\ ~response.write_failed => response.bytes = sent
  /\ phase # "transfer" => response = NoResponse /\ sent = 0

DiscoveryInv == OptionsInv /\ ResponseInv

\* Whatever validate(Config) lets pass, validate_options() lets pass: the first rounds up and
\* compares with >=, the second compares with >.
LEMMA TimeoutsAgree ==
  ASSUME NEW now, NEW d \in Nat, RequireSafeHttpTimeout(now, d)
  PROVE  TimeoutMilliseconds(d)
<1>1. d >= Tick /\ Tick \in Nat \ {0} /\ LongMax \in Nat /\ Milliseconds(d) < LongMax
  BY DEF RequireSafeHttpTimeout, RequireSafeTimeout
<1>2. Milliseconds(d) \in Int
  BY DEF Milliseconds
<1> QED
  BY <1>1, <1>2 DEF TimeoutMilliseconds

LEMMA DiscoveryInit ==
  Init => DiscoveryInv
BY DEF Init, DiscoveryInv, OptionsInv, ResponseInv, NoResponse

LEMMA DiscoveryNext ==
  DiscoveryInv /\ [Next]_allVars => DiscoveryInv'
<1> SUFFICES ASSUME DiscoveryInv, [Next]_allVars PROVE DiscoveryInv'
  OBVIOUS
<1>1. OptionsInv /\ ResponseInv
  BY DEF DiscoveryInv
<1>2. CASE UNCHANGED allVars
  BY <1>1, <1>2 DEF DiscoveryInv, OptionsInv, ResponseInv, ValidateOptions, allVars, discoveryVars
<1>3. ASSUME NEW now \in Instants, NEW config \in Configs, phase = "unmade", Construct(now, config)
      PROVE  DiscoveryInv'
  <2>1. UNCHANGED <<response, sent>> /\ phase' \in {"made", "refused"}
    BY <1>3 DEF Construct
  <2>2. ResponseInv'
    BY <1>1, <1>3, <2>1 DEF ResponseInv
  <2>3. CASE Validate(now, config)
    <3>1. options' = [field \in DOMAIN NoOptions |-> config[field]]
      BY <1>3, <2>3 DEF Construct
    <3>2. DOMAIN NoOptions = {"host", "http_port", "connect", "total", "override"}
      BY DEF NoOptions
    <3>3. /\ options'.host = config.host /\ options'.http_port = config.http_port
          /\ options'.connect = config.connect /\ options'.total = config.total
      BY <3>1, <3>2
    <3>4. config.connect \in Nat /\ config.total \in Nat
      BY DEF Configs
    <3>5. /\ config.host # "blank" /\ SafePort(config.http_port)
          /\ TimeoutMilliseconds(config.connect) /\ TimeoutMilliseconds(config.total)
      BY <2>3, <3>4, TimeoutsAgree DEF Validate
    <3> QED
      BY <2>2, <3>3, <3>5 DEF DiscoveryInv, OptionsInv, ValidateOptions
  <2>4. CASE ~Validate(now, config)
    BY <1>3, <2>2, <2>4 DEF Construct, DiscoveryInv, OptionsInv
  <2> QED
    BY <2>3, <2>4
<1>4. CASE ConfigurationForSession
  BY <1>1, <1>4 DEF ConfigurationForSession, DiscoveryInv, OptionsInv, ResponseInv, ValidateOptions
<1>5. CASE BeginTransfer
  BY <1>1, <1>5 DEF BeginTransfer, DiscoveryInv, OptionsInv, ResponseInv
<1>6. ASSUME NEW count \in Chunks, AppendResponse(count) PROVE DiscoveryInv'
  <2>1. /\ phase = "transfer" /\ phase' = "transfer" /\ sent' = sent + count /\ count \in Nat
        /\ ~response.too_large /\ ~response.write_failed
    BY <1>6 DEF AppendResponse, Receiving
  <2>2. /\ response.bytes \in Nat /\ response.bytes = sent
        /\ response \in [bytes : Nat, too_large : BOOLEAN, write_failed : BOOLEAN]
        /\ response.bytes <= MaximumResponseBytes /\ MaximumResponseBytes \in Nat
    BY <1>1, <2>1 DEF ResponseInv
  <2>3. OptionsInv'
    BY <2>1 DEF OptionsInv
  <2>4. CASE Fits(count) /\ response' = [response EXCEPT !.bytes = @ + count]
    <3>1. /\ response' \in [bytes : Nat, too_large : BOOLEAN, write_failed : BOOLEAN]
          /\ response'.bytes = response.bytes + count
      BY <2>1, <2>2, <2>4
    <3>2. response'.bytes <= MaximumResponseBytes /\ response'.bytes = sent'
      BY <2>1, <2>2, <2>4, <3>1 DEF Fits
    <3> QED
      BY <2>1, <2>3, <3>1, <3>2 DEF DiscoveryInv, ResponseInv
  <2>5. CASE response' = [response EXCEPT !.too_large = TRUE]
    <3>1. /\ response' \in [bytes : Nat, too_large : BOOLEAN, write_failed : BOOLEAN]
          /\ response'.bytes = response.bytes /\ response'.too_large = TRUE
      BY <2>2, <2>5
    <3> QED
      BY <2>1, <2>2, <2>3, <3>1 DEF DiscoveryInv, ResponseInv
  <2>6. CASE response' = [response EXCEPT !.write_failed = TRUE]
    <3>1. /\ response' \in [bytes : Nat, too_large : BOOLEAN, write_failed : BOOLEAN]
          /\ response'.bytes = response.bytes /\ response'.write_failed = TRUE
      BY <2>2, <2>6
    <3> QED
      BY <2>1, <2>2, <2>3, <3>1 DEF DiscoveryInv, ResponseInv
  <2> QED
    BY <1>6, <2>4, <2>5, <2>6 DEF AppendResponse
<1>7. ASSUME NEW whole \in BOOLEAN, NEW status \in Statuses, Performed(whole, status)
      PROVE  DiscoveryInv'
  BY <1>7 DEF Performed, DiscoveryInv, OptionsInv, ResponseInv, NoResponse
<1>8. CASE Parse
  <2>1. phase = "parse" /\ phase' \in {"parse", "configured", "failed"} /\ UNCHANGED <<response, sent>>
    BY <1>8 DEF Parse
  <2> QED
    BY <1>1, <2>1 DEF DiscoveryInv, OptionsInv, ResponseInv
<1> QED
  BY <1>2, <1>3, <1>4, <1>5, <1>6, <1>7, <1>8 DEF Next

LEMMA DiscoveryInvariant ==
  Spec => []DiscoveryInv
BY DiscoveryInit, DiscoveryNext, PTL DEF Spec

\* Discovery never refuses the HTTP options that the constructor has accepted, whenever it did,
\* for every pair of limits of the HTTP timer and the clock.
THEOREM ValidationsAgree ==
  Spec => []ValidatedConfigIsUsable
<1>1. Init => ValidatedConfigIsUsable
  BY DEF Init, ValidatedConfigIsUsable
<1>2. DiscoveryInv /\ ValidatedConfigIsUsable /\ [Next]_allVars => ValidatedConfigIsUsable'
  <2> SUFFICES ASSUME DiscoveryInv, ValidatedConfigIsUsable, [Next]_allVars
               PROVE  ValidatedConfigIsUsable'
    OBVIOUS
  <2>1. CASE BeginTransfer
    BY <2>1 DEF BeginTransfer, DiscoveryInv, OptionsInv, ValidatedConfigIsUsable
  <2>2. CASE ~BeginTransfer
    BY <2>2 DEF Next, Construct, ConfigurationForSession, AppendResponse, Performed, Parse,
       ValidatedConfigIsUsable, allVars, discoveryVars
  <2> QED
    BY <2>1, <2>2
<1> QED
  BY <1>1, <1>2, DiscoveryInvariant, PTL DEF Spec

\* discover_sensor() parses a response only when the buffer has all of it, and never one above
\* the limit, however append_response() got it.
THEOREM WholeResponsesParsed ==
  Spec => OnlyWholeResponsesParsed
<1> DEFINE Whole == phase = "transfer" /\ phase' = "parse" =>
                      response.bytes = sent /\ sent <= MaximumResponseBytes
<1>1. DiscoveryInv /\ [Next]_allVars => [Whole]_allVars
  <2> SUFFICES ASSUME DiscoveryInv, Next, phase = "transfer", phase' = "parse"
               PROVE  response.bytes = sent /\ sent <= MaximumResponseBytes
    BY DEF allVars, discoveryVars
  <2>1. PICK whole \in BOOLEAN, status \in Statuses : Performed(whole, status)
    BY DEF Next, Construct, ConfigurationForSession, BeginTransfer, AppendResponse, Parse
  <2>2. ~response.too_large /\ ~response.write_failed
    BY <2>1 DEF Performed
  <2> QED
    BY <2>2 DEF DiscoveryInv, ResponseInv
<1> QED
  BY <1>1, DiscoveryInvariant, PTL DEF Spec, OnlyWholeResponsesParsed

=============================================================================
