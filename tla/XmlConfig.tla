------------------------------ MODULE XmlConfig ------------------------------
(***************************************************************************)
(* parse_sensor_configuration(): the parser of the sensor's configuration  *)
(* as a machine that reads one token of the document at a time, with its   *)
(* stack of open elements, the fields seen and their text.                 *)
(*                                                                         *)
(* A token is what one round of the loop reads: an opening, closing or     *)
(* self-closing tag, text or CDATA of a field, an aside (a comment, a      *)
(* processing instruction, text outside the fields) or "bad" (markup that  *)
(* is not terminated, empty or not supported).  Text is a sequence of      *)
(* pieces: white space, a digit, or the spelling of a unit.                *)
(***************************************************************************)
EXTENDS Integers, Sequences, FiniteSets, FiniteSetsExt

CONSTANTS Kinds,          \* what the value of each field of kRequiredTags is: see below
          OtherNames,     \* names of other elements
          Pieces,         \* pieces of text
          MaximumLength,  \* kMaximumFieldLength, in pieces
          MaxTokens       \* bound: tokens of a document

ASSUME XmlAssumption ==
  /\ \A tag \in DOMAIN Kinds : Kinds[tag] \in {"name", "count", "force", "torque"}
  /\ DOMAIN Kinds \cap OtherNames = {}
  /\ MaximumLength \in Nat \ {0} /\ MaxTokens \in Nat

VARIABLES
  elements,        \* the names of the open elements, innermost last
  seen,            \* fields that have appeared
  fields,          \* the text of each field
  configuration,   \* what parse_sensor_configuration() returns
  verdict,         \* "reading", "malformed" (thrown while reading), "refused", "accepted"
  document         \* history: the tokens read

xmlVars == <<elements, seen, fields, configuration, verdict, document>>

Fields == DOMAIN Kinds
Names  == Fields \cup OtherNames

NoConfiguration == [tag \in Fields |-> <<>>]

XmlInit ==
  /\ elements = <<>> /\ seen = {} /\ fields = [tag \in Fields |-> <<>>]
  /\ configuration = NoConfiguration /\ verdict = "reading" /\ document = <<>>

-----------------------------------------------------------------------------
(* Units *)

ForceSpellings  == {"unknown", "lbf", "N", "klbf", "kN", "kgf"}
TorqueSpellings == {"unknown", "lbf-in", "lbf-ft", "N-m", "N-mm", "kgf-cm", "kN-m"}

NormalizeTorqueSpelling(value) ==
  CASE value = "Nm" -> "N-m" [] value = "Nmm" -> "N-mm" [] value = "kg-cm" -> "kgf-cm"
    [] OTHER -> value

\* The unit a spelling stands for: none, or one other than Unknown.
ParseUnit(kind, value) ==
  (IF kind = "force" THEN {value} \cap ForceSpellings
   ELSE {NormalizeTorqueSpelling(value)} \cap TorqueSpellings) \ {"unknown"}

-----------------------------------------------------------------------------
(* Reading *)

Innermost == elements[Len(elements)]

InField == elements # <<>> /\ Innermost \in Fields

Reading(token) ==
  /\ verdict = "reading" /\ Len(document) < MaxTokens
  /\ document' = Append(document, token)
  /\ UNCHANGED configuration

Throw == verdict' = "malformed" /\ UNCHANGED <<elements, seen, fields>>

\* append_required_text(): text and CDATA count inside a field.
ReadText(piece) ==
  /\ Reading([kind |-> "text", piece |-> piece]) /\ InField
  /\ fields' = [fields EXCEPT ![Innermost] = Append(@, piece)]
  /\ UNCHANGED <<elements, seen, verdict>>

\* A comment, a processing instruction, or text outside the fields.
ReadAside == Reading([kind |-> "aside"]) /\ UNCHANGED <<elements, seen, fields, verdict>>

ReadBad == Reading([kind |-> "bad"]) /\ Throw

ReadClose(name) ==
  /\ Reading([kind |-> "close", name |-> name])
  /\ \/ elements # <<>> /\ Innermost = name
        /\ elements' = SubSeq(elements, 1, Len(elements) - 1)
        /\ UNCHANGED <<seen, fields, verdict>>
     \/ (elements # <<>> => Innermost # name) /\ Throw

\* Fault injection: fields may hold other elements.
MayOpenAnywhere(name) == name \notin seen

\* A field has text only, and appears once.
MayOpen(name) == ~InField /\ name \notin seen

ReadOpen(name, kind) ==
  /\ Reading([kind |-> kind, name |-> name])
  /\ \/ /\ MayOpen(name)
        /\ seen' = seen \cup ({name} \cap Fields)
        /\ elements' = IF kind = "selfclose" THEN elements ELSE Append(elements, name)
        /\ UNCHANGED <<fields, verdict>>
     \/ ~MayOpen(name) /\ Throw

-----------------------------------------------------------------------------
(* The end of the document *)

\* trim_ascii_whitespace()
Trimmed(text) ==
  LET solid == {k \in 1 .. Len(text) : text[k] # "blank"}
  IN IF solid = {} THEN <<>> ELSE SubSeq(text, Min(solid), Max(solid))

\* Only the display name may be missing.
DefaultName == <<"ATI Net F/T">>

\* Fault injection: the generic name also stands in for an empty one.
FieldOrDefault(tag) ==
  IF Kinds[tag] = "name" /\ Trimmed(fields[tag]) = <<>> THEN DefaultName ELSE Trimmed(fields[tag])

Field(tag) == IF tag \notin seen /\ Kinds[tag] = "name" THEN DefaultName ELSE Trimmed(fields[tag])

\* A count is digits and nothing else; they stand for a number that is finite, positive and
\* not too small for validate(), every other text for one that is refused.
GoodValue(kind, value) ==
  \/ kind = "name"
  \/ kind = "count" /\ \A k \in 1 .. Len(value) : value[k] = "digit"
  \/ kind \in {"force", "torque"} /\ Len(value) = 1 /\ ParseUnit(kind, value[1]) # {}

Acceptable(tag) ==
  /\ tag \in seen \/ Kinds[tag] = "name"
  /\ Field(tag) # <<>> /\ Len(Field(tag)) <= MaximumLength
  /\ GoodValue(Kinds[tag], Field(tag))

EndOfDocument ==
  /\ verdict = "reading"
  /\ IF elements = <<>> /\ \A tag \in Fields : Acceptable(tag)
     THEN verdict' = "accepted" /\ configuration' = [tag \in Fields |-> Field(tag)]
     ELSE verdict' = "refused" /\ UNCHANGED configuration
  /\ UNCHANGED <<elements, seen, fields, document>>

XmlNext ==
  \/ \E piece \in Pieces : ReadText(piece)
  \/ ReadAside \/ ReadBad
  \/ \E name \in Names : ReadClose(name) \/ ReadOpen(name, "open") \/ ReadOpen(name, "selfclose")
  \/ EndOfDocument

-----------------------------------------------------------------------------
(* The reference: what makes a document good, said of the document as a whole *)

Positions(doc, kind, name) ==
  {i \in 1 .. Len(doc) : doc[i].kind = kind /\ doc[i].name = name}

Begins(doc, name) == Positions(doc, "open", name) \cup Positions(doc, "selfclose", name)

Opens(doc, i, j)  == Cardinality({k \in i .. j : doc[k].kind = "open"})
Closes(doc, i, j) == Cardinality({k \in i .. j : doc[k].kind = "close"})

\* Tags i and j belong together: what is between them is balanced.
Matching(doc, i, j) ==
  /\ doc[i].kind = "open" /\ doc[j].kind = "close"
  /\ Opens(doc, i + 1, j - 1) = Closes(doc, i + 1, j - 1)
  /\ \A k \in i + 1 .. j - 1 : Closes(doc, i + 1, k) <= Opens(doc, i + 1, k)

Inside(doc, k, tag) ==
  \E i \in Positions(doc, "open", tag) : i < k /\ \A j \in i + 1 .. k - 1 : ~Matching(doc, i, j)

\* Nothing read so far is wrong, whatever comes.
Lawful(doc) ==
  /\ \A k \in 1 .. Len(doc) :
       /\ doc[k].kind # "bad"
       /\ doc[k].kind = "close" =>
            \E i \in Positions(doc, "open", doc[k].name) : i < k /\ Matching(doc, i, k)
       /\ doc[k].kind \in {"open", "selfclose"} => \A tag \in Fields : ~Inside(doc, k, tag)
  /\ \A tag \in Fields : Cardinality(Begins(doc, tag)) <= 1

TextAt(doc, tag) == {k \in 1 .. Len(doc) : doc[k].kind = "text" /\ Inside(doc, k, tag)}

\* Which member of a set of positions k is, in their order.
Rank(at, k) == Cardinality({j \in at : j <= k})

\* The text inside a field, piece by piece.
Text(doc, tag) ==
  LET at == TextAt(doc, tag)
  IN [r \in 1 .. Cardinality(at) |-> doc[CHOOSE k \in at : Rank(at, k) = r].piece]

Content(doc, tag) == Trimmed(Text(doc, tag))

Units(kind) ==
  IF kind = "force" THEN {"lbf", "N", "klbf", "kN", "kgf"}
  ELSE {"lbf-in", "lbf-ft", "N-m", "Nm", "N-mm", "Nmm", "kgf-cm", "kg-cm", "kN-m"}

GoodContent(kind, content) ==
  /\ Len(content) \in 1 .. MaximumLength
  /\ CASE kind = "name"  -> TRUE
       [] kind = "count" -> {content[k] : k \in DOMAIN content} = {"digit"}
       [] OTHER -> \E unit \in Units(kind) : content = <<unit>>

\* The document gives each field that is there a value that can be used, and leaves
\* no calibration field out.
Complete(doc) ==
  /\ Opens(doc, 1, Len(doc)) = Closes(doc, 1, Len(doc))
  /\ \A tag \in Fields :
       IF Begins(doc, tag) = {} THEN Kinds[tag] = "name"
       ELSE GoodContent(Kinds[tag], Content(doc, tag))

(***************************************************************************)
(* The one-pass parser with its stack decides what the document as a whole *)
(* says: it throws while reading only at the first token that no           *)
(* continuation can mend, and at the end accepts exactly the documents     *)
(* that are complete.                                                      *)
(***************************************************************************)
ParserDecides ==
  /\ verdict = "malformed" <=> ~Lawful(document)
  /\ verdict \in {"accepted", "refused"} => (verdict = "accepted" <=> Complete(document))

(***************************************************************************)
(* A configuration is never put together from two places: every value is   *)
(* the text of the one element of that name, and the product name is the   *)
(* generic one exactly when the sensor does not give one.                  *)
(***************************************************************************)
ConfigurationIsTheDocument ==
  verdict = "accepted" =>
    \A tag \in Fields :
      configuration[tag] =
        IF Begins(document, tag) = {} THEN DefaultName ELSE Content(document, tag)

=============================================================================
