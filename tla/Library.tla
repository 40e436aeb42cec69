------------------------------ MODULE Library ------------------------------
(***************************************************************************)
(* What the kickoff reads off the customer's blob and the catalog, and     *)
(* what its opener then says: context.py, catalog.py, and the opener of    *)
(* runtime._kickoff.                                                       *)
(*                                                                         *)
(* A blob maps the dotted paths the readers try to what is found there.    *)
(* A text is a word and how it is spelt.  The catalog is the list the      *)
(* gateway forwards, in the gateway's order.                               *)
(***************************************************************************)
EXTENDS Naturals, Sequences, FiniteSets, SequencesExt, Functions

CONSTANTS
  IndustryPaths,   \* the paths of _industry_value, in the order tried
  LeadTypePaths,   \* those of lead_type
  SummaryPaths,    \* those of icp_summary's explicit field
  SeedPaths,       \* those of its seeds
  Values,          \* what each path may hold
  Entries,         \* the entries a catalog may gain
  MaxEntries       \* how many entries a catalog may have

VARIABLES blob, catalog

libraryVars == <<blob, catalog>>

Paths == Range(IndustryPaths) \cup Range(LeadTypePaths)
           \cup Range(SummaryPaths) \cup Range(SeedPaths)

Word(word, spelling) == [kind |-> "text", word |-> word, spelling |-> spelling]
Spellings == {"plain", "cased", "spaced", "hyphened"}
Spaces    == Word("", "spaced")   \* nothing but white space
OtherType == [kind |-> "number"]
Seeds     == [kind |-> "list"]    \* a non-empty list or object
Nothing   == [kind |-> "nothing"] \* absent, None, "", [] or {}
CatchAll  == "other"              \* the words of _PLACEHOLDER_VERTICALS

Texts == [kind : {"text"}, word : STRING, spelling : Spellings]

ASSUME LibraryAssumption ==
  /\ {IndustryPaths, LeadTypePaths, SummaryPaths, SeedPaths} \subseteq Seq(STRING)
  /\ \A p \in Paths :
       Nothing \in Values[p] /\ Values[p] \subseteq Texts \cup {Seeds, OtherType, Nothing}
  /\ \A e \in Entries : e.valid => e.slug \in Nat
  /\ MaxEntries \in Nat

----------------------------------------------------------------------------
(* context.py                                                              *)

(* _first: the first path that holds anything.                             *)
First(paths) ==
  LET found == {i \in DOMAIN paths : blob[paths[i]] # Nothing}
  IN  IF found = {} THEN Nothing ELSE blob[paths[Min(found)]]

(* _first_str: another type reads as absent, and hides what comes later.   *)
FirstStr(paths) ==
  IF First(paths).kind = "text" THEN First(paths) ELSE Nothing

IndustryValue == FirstStr(IndustryPaths)

(* strip and casefold before the comparison.                               *)
IndustryIsPlaceholder ==
  /\ IndustryValue.kind = "text"
  /\ IndustryValue.word = CatchAll /\ IndustryValue.spelling # "hyphened"

(* Mutant: the industry as the blob has it.                                *)
RawVertical == IndustryValue

Vertical == IF IndustryIsPlaceholder THEN Nothing ELSE IndustryValue

LeadType == FirstStr(LeadTypePaths)

(* Mutant: the reader before a string was accepted as a shape.             *)
IcpFromStructures ==
  IF First(SummaryPaths).kind = "text" THEN First(SummaryPaths)
  ELSE IF First(SeedPaths).kind = "list" THEN First(SeedPaths) ELSE Nothing

IcpSummary ==
  LET explicit == First(SummaryPaths)
      seeds    == First(SeedPaths)
  IN  IF explicit.kind = "text" THEN explicit
      ELSE IF seeds.kind = "list" \/ (seeds.kind = "text" /\ seeds # Spaces) THEN seeds
      ELSE Nothing

----------------------------------------------------------------------------
(* catalog.py                                                              *)

(* An entry that does not validate is skipped.                             *)
Malformed == [valid |-> FALSE]
Skill(slug, vertical, leadType, skillType, active) ==
  [valid |-> TRUE, slug |-> slug, vertical |-> vertical, leadType |-> leadType,
   skillType |-> skillType, active |-> active]

NoMatch == Malformed

(* _norm: case and white space carry no meaning, punctuation may.          *)
Norm(value) ==
  IF value.kind # "text" \/ value.word = "" THEN Nothing
  ELSE Word(value.word, IF value.spelling = "hyphened" THEN "hyphened" ELSE "plain")

DefaultSkillType == Word("customer", "plain")

(* The places of the hits.                                                 *)
Match(candidates, vertical, leadType) ==
  {i \in DOMAIN candidates :
     LET e == candidates[i]
     IN  /\ Norm(vertical) # Nothing /\ Norm(leadType) # Nothing
         /\ e.valid /\ e.active
         /\ Norm(e.vertical) = Norm(vertical)
         /\ Norm(e.leadType) = Norm(leadType)
         /\ Norm(e.skillType) = Norm(DefaultSkillType)}

(* sorted by slug, which keeps the order of equals; the first is proposed. *)
SortedBefore(i, j) ==
  \/ catalog[i].slug < catalog[j].slug
  \/ catalog[i].slug = catalog[j].slug /\ i <= j

BestMatch ==
  LET hits == Match(catalog, Vertical, LeadType)
  IN  IF hits = {} THEN NoMatch
      ELSE catalog[CHOOSE i \in hits : \A j \in hits : SortedBefore(i, j)]

----------------------------------------------------------------------------
(* _kickoff                                                                *)

(* A vertical of white space is a vertical to `if ctx.vertical`.           *)
Opener ==
  IF BestMatch # NoMatch THEN "connect?"
  ELSE IF Vertical # Nothing THEN "none found"
  ELSE "could not check"

----------------------------------------------------------------------------
(* Between two sessions the org's onboarding moves on and skills are made. *)

OnboardingSaves ==
  /\ \E p \in Paths : \E v \in Values[p] : blob' = [blob EXCEPT ![p] = v]
  /\ UNCHANGED catalog

CatalogGains ==
  /\ Len(catalog) < MaxEntries
  /\ \E e \in Entries, n \in 1 .. Len(catalog) + 1 : catalog' = InsertAt(catalog, n, e)
  /\ UNCHANGED blob

LibraryNext == OnboardingSaves \/ CatalogGains

LibraryInit == blob = [p \in Paths |-> Nothing] /\ catalog = <<>>

LibrarySpec == LibraryInit /\ [][LibraryNext]_libraryVars

----------------------------------------------------------------------------
(* What the opener promises.                                               *)

(* Two texts are one word but for case and white space.                    *)
SameWord(a, b) ==
  /\ a.kind = "text" /\ b.kind = "text" /\ a.word # "" /\ a.word = b.word
  /\ a.spelling = "hyphened" <=> b.spelling = "hyphened"

Fits(entry) ==
  /\ entry.valid /\ entry.active
  /\ SameWord(entry.vertical, FirstStr(IndustryPaths))
  /\ SameWord(entry.leadType, FirstStr(LeadTypePaths))
  /\ SameWord(entry.skillType, DefaultSkillType)

(* The library verdict is true.  A skill is recommended only if it is      *)
(* active and fits on every key, the industry is no catch-all, and no      *)
(* fitting skill has a smaller slug, so the gateway's order decides        *)
(* nothing; none is reported found only if none fits; and nothing could be *)
(* checked only without an industry (catalog.py:92-129, context.py:112-173,*)
(* runtime.py:132-180).                                                    *)
VerdictIsTrue ==
  LET fitting  == {e \in Range(catalog) : Fits(e)}
      industry == FirstStr(IndustryPaths)
      catchAll == \E s \in Spellings \ {"hyphened"} : industry = Word(CatchAll, s)
  IN  CASE Opener = "connect?" ->
             /\ ~catchAll
             /\ BestMatch \in fitting
             /\ \A e \in fitting : BestMatch.slug <= e.slug
        [] Opener = "none found" -> ~catchAll /\ fitting = {}
        [] Opener = "could not check" -> catchAll \/ industry = Nothing

(* An ICP the org gave in any shape the gateway has sent, at any path, is  *)
(* not reported unknown, unless a path holds white space or a number,      *)
(* which hide what follows them (context.py:182-252).                      *)
IcpIsReported ==
  (\A p \in Range(SummaryPaths) \cup Range(SeedPaths) : blob[p] \notin {Spaces, OtherType}) =>
    (IcpSummary = Nothing <=>
       /\ \A p \in Range(SeedPaths) : blob[p] = Nothing
       /\ First(SummaryPaths).kind # "text")
=============================================================================
