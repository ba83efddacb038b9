---------------------------- MODULE RuntimeConfig ----------------------------
(***************************************************************************)
(* Loading the startup configuration (src/coloursorter/config/runtime.py): *)
(* the parser of its YAML subset, a stack machine that takes one line at a *)
(* time, and what the validated mapping is used for.                       *)
(*                                                                         *)
(* A line is its indentation, its form and its key: "map" is `key:`, "list"*)
(* `key: []`, "scalar" `key: value`, "item" `- value`; "other" is every    *)
(* line without a key or a value the parser wants.                         *)
(***************************************************************************)
EXTENDS Integers, SequencesExt

CONSTANTS
  Indents, LineKeys, (* what a line may be made of                         *)
  MaxLines,          (* bound: lines of a document                         *)
  MaxDepth,          (* MAX_YAML_NESTING_DEPTH                             *)
  Providers          (* detection.provider                                 *)

ASSUME ConfigAssumption == Indents \subseteq Nat /\ MaxDepth \in Nat

VARIABLES
  document,   \* the lines read so far
  stack,      \* [indent, line] of the mappings and lists still open
  parents,    \* per line read, the line it was put under, Root for none
  loading     \* reading, parsed, loaded or refused

configVars == <<document, stack, parents, loading>>

Root     == 0
KeyForms == {"map", "list", "scalar"}

Lines == [indent : Indents, form : KeyForms, key : LineKeys]
           \cup [indent : Indents, form : {"item", "other"}, key : {"-"}]

ConfigInit ==
  /\ document = <<>>
  /\ stack = <<[indent |-> -1, line |-> Root]>> /\ parents = <<>> /\ loading = "reading"

-----------------------------------------------------------------------------
Position == Len(parents) + 1

Kind(line) == IF line = Root THEN "map" ELSE document[line].form

\* Mutant: a mapping with the line's own indentation stays open.
OpenThrough(line) ==
  SubSeq(stack, 1, CHOOSE n \in 1..Len(stack) :
                     /\ n = 1 \/ stack[n].indent <= line.indent
                     /\ \A m \in n + 1..Len(stack) : line.indent < stack[m].indent)

\* What is left when the top has been popped as often as it may be; the root
\* stays.
StillOpen(line) ==
  SubSeq(stack, 1, CHOOSE n \in 1..Len(stack) :
                     /\ n = 1 \/ stack[n].indent < line.indent
                     /\ \A m \in n + 1..Len(stack) : line.indent <= stack[m].indent)

\* The checks of a line, all of which raise; a key that is there already
\* under the same parent is one of them.
Refused(line, open) ==
  \/ line.indent % 2 # 0
  \/ Len(open) > MaxDepth
  \/ line.form = "other"
  \/ line.form = "item" /\ Kind(Last(open).line) # "list"
  \/ /\ line.form \in KeyForms
     /\ \/ Kind(Last(open).line) # "map"
        \/ \E i \in 1..Len(parents) : parents[i] = Last(open).line /\ document[i].key = line.key

ReadLine ==
  /\ loading = "reading" /\ Len(document) < MaxLines
  /\ \E line \in Lines :
       /\ document' = Append(document, line)
       /\ LET open == StillOpen(line) IN
            IF Refused(line, open) THEN loading' = "refused" /\ UNCHANGED <<stack, parents>>
            ELSE /\ parents' = Append(parents, Last(open).line)
                 /\ stack' = IF line.form \in {"map", "list"}
                             THEN Append(open, [indent |-> line.indent, line |-> Position]) ELSE open
                 /\ UNCHANGED loading

EndOfDocument ==
  /\ loading = "reading"
  /\ loading' = "parsed" /\ UNCHANGED <<document, stack, parents>>

-----------------------------------------------------------------------------
(* from_dict: the fields the models read.                                  *)

\* What the checks of a field may find; each raises the same exception.  An
\* optional field that is not there has its default, which is no flaw.
Flaws == {"missing", "type", "control_character", "not_finite", "range", "enumeration", "dependency"}

Payloads == [flaws : {{}} \cup {{flaw} : flaw \in Flaws}, mode : {"live", "replay"},
             recipes : {"listed", "missing"}, staleness : {"off", "on"}, provider : Providers]

\* Whether one of the profiles is the one for the active recipes.
ProfileListed(payload) == payload.recipes = "listed"

\* from_dict refuses recipes without a profile once the profiles are read.
Accepted(payload) == payload.flaws = {} /\ ProfileListed(payload)

\* A configuration that is loaded leaves nothing of its text behind.
LoadFields(payload) ==
  /\ loading = "parsed"
  /\ loading' = IF Accepted(payload) THEN "loaded" ELSE "refused"
  /\ document' = <<>> /\ parents' = <<>> /\ stack' = <<>>

-----------------------------------------------------------------------------
(* What indentation means: a line belongs to the last line above it that   *)
(* opens a block and is indented less, unless the block has been left.     *)

Opens(i)      == document[i].form \in {"map", "list"}
Encloses(i, j) ==
  /\ i < j /\ Opens(i)
  /\ \A k \in i + 1..j : document[i].indent < document[k].indent

Enclosing(j) == {i \in 1..j - 1 : Encloses(i, j)}

Innermost(blocks) == IF blocks = {} THEN Root
                     ELSE CHOOSE i \in blocks : \A k \in blocks : k <= i

BlockOf(j) == Innermost(Enclosing(j))

WellPlaced(j) ==
  /\ document[j].indent % 2 = 0
  /\ Cardinality(Enclosing(j)) < MaxDepth
  /\ document[j].form # "other"
  /\ document[j].form = "item" <=> Kind(BlockOf(j)) = "list"
  /\ document[j].form \in KeyForms =>
       \A i \in 1..j - 1 : BlockOf(i) = BlockOf(j) => document[i].key # document[j].key

\* The stack machine of _parse_simple_yaml puts every line where its
\* indentation says, and refuses a document at the first line for which
\* that is nowhere, for every document up to the bound.
ParserNests ==
  /\ loading \in {"reading", "parsed"} =>
       \A j \in 1..Len(parents) : WellPlaced(j) /\ parents[j] = BlockOf(j)
  /\ loading = "refused" /\ document # <<>> => ~WellPlaced(Position)
=============================================================================
