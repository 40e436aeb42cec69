--------------------------- MODULE DocumentProofs ---------------------------
(***************************************************************************)
(* What the readers of the blob, of the catalog and of the contract files  *)
(* promise, proved for every value a path may hold, every catalog and      *)
(* every pair of files.                                                    *)
(***************************************************************************)
EXTENDS Library, Prompt, WellFoundedInduction, TLAPS

(* A least element, said of a set of numbers.                              *)
LEMMA LeastNat ==
  ASSUME NEW S \in SUBSET Nat, S # {}
  PROVE  \E m \in S : \A n \in S : m <= n
<1> DEFINE R == OpToRel(<, Nat)
<1>1. IsWellFoundedOn(R, Nat)
  BY NatLessThanWellFounded
<1>2. \A m, n \in Nat : <<m, n>> \in R <=> m < n
  BY Zenon DEF OpToRel
<1> HIDE DEF R
<1>3. PICK m \in S : \A n \in S : ~(<<n, m>> \in R)
  BY <1>1, WFMin, Zenon
<1>4. ASSUME NEW n \in S PROVE m <= n
  <2>1. m \in Nat /\ n \in Nat
    OBVIOUS
  <2>2. ~(n < m)
    BY <1>2, <1>3, <2>1
  <2>3. QED BY <2>1, <2>2
<1>5. QED BY <1>4

LEMMA MinIsLeast ==
  ASSUME NEW S \in SUBSET Nat, S # {}
  PROVE  Min(S) \in S /\ \A n \in S : Min(S) <= n
BY LeastNat DEF Min

----------------------------------------------------------------------------
(* The blob and the catalog.                                               *)

LibraryTypeOK ==
  /\ DOMAIN blob = Paths /\ \A p \in Paths : blob[p] \in Values[p]
  /\ catalog \in Seq(Entries)

LEMMA InsertAtType ==
  ASSUME NEW S, NEW s \in Seq(S), NEW n \in 1 .. Len(s) + 1, NEW e \in S
  PROVE  InsertAt(s, n, e) \in Seq(S)
<1>1. SubSeq(s, 1, n - 1) \in Seq(S) /\ SubSeq(s, n, Len(s)) \in Seq(S)
  OBVIOUS
<1>2. QED BY <1>1 DEF InsertAt

LEMMA LibraryStepType == LibraryTypeOK /\ [LibraryNext]_libraryVars => LibraryTypeOK'
<1> SUFFICES ASSUME LibraryTypeOK, [LibraryNext]_libraryVars PROVE LibraryTypeOK'
  OBVIOUS
<1>1. CASE OnboardingSaves
  BY <1>1 DEF OnboardingSaves, LibraryTypeOK
<1>2. CASE CatalogGains
  BY <1>2, InsertAtType DEF CatalogGains, LibraryTypeOK
<1>3. CASE UNCHANGED libraryVars
  BY <1>3 DEF libraryVars, LibraryTypeOK
<1>4. QED BY <1>1, <1>2, <1>3 DEF LibraryNext

(* Whatever the organisation saves and makes, the blob holds at each path  *)
(* what that path may hold, and the catalog is a list of entries           *)
(* (context.py:90-101, catalog.py:77-89).                                  *)
THEOREM LibraryTypeCorrect == LibrarySpec => []LibraryTypeOK
<1>1. LibraryInit => LibraryTypeOK
  BY LibraryAssumption DEF LibraryInit, LibraryTypeOK
<1>2. QED BY <1>1, LibraryStepType, PTL DEF LibrarySpec

(* What is found first is held by a path that was tried, and nothing is    *)
(* found only where no path holds anything.                                *)
LEMMA FirstFinds ==
  ASSUME LibraryTypeOK, NEW paths \in Seq(STRING), Range(paths) \subseteq Paths
  PROVE  /\ First(paths) \in Texts \cup {Seeds, OtherType, Nothing}
         /\ First(paths) = Nothing <=> \A p \in Range(paths) : blob[p] = Nothing
         /\ First(paths) # Nothing => \E p \in Range(paths) : First(paths) = blob[p]
<1> DEFINE found == {i \in DOMAIN paths : blob[paths[i]] # Nothing}
<1>1. \A i \in DOMAIN paths : paths[i] \in Range(paths)
  BY DEF Range
<1>2. \A p \in Range(paths) : \E i \in DOMAIN paths : p = paths[i]
  BY DEF Range
<1>3. First(paths) = IF found = {} THEN Nothing ELSE blob[paths[Min(found)]]
  BY DEF First
<1>4. found \in SUBSET Nat
  OBVIOUS
<1>5. found # {} => Min(found) \in found
  BY <1>4, MinIsLeast
<1>6. \A p \in Range(paths) : blob[p] \in Texts \cup {Seeds, OtherType, Nothing}
  BY LibraryAssumption DEF LibraryTypeOK
<1>7. CASE found = {}
  BY <1>1, <1>2, <1>3, <1>7
<1>8. CASE found # {}
  <2>1. Min(found) \in DOMAIN paths /\ blob[paths[Min(found)]] # Nothing
    BY <1>5, <1>8
  <2>2. First(paths) = blob[paths[Min(found)]]
    BY <1>3, <1>8
  <2> HIDE DEF found
  <2>3. QED BY <1>1, <1>6, <2>1, <2>2
<1>9. QED BY <1>7, <1>8

LEMMA PathsTried ==
  \A paths \in {IndustryPaths, LeadTypePaths, SummaryPaths, SeedPaths} :
    paths \in Seq(STRING) /\ Range(paths) \subseteq Paths
BY LibraryAssumption DEF Paths

LEMMA TextRead ==
  ASSUME LibraryTypeOK, NEW paths \in {IndustryPaths, LeadTypePaths, SummaryPaths, SeedPaths}
  PROVE  FirstStr(paths) \in Texts \cup {Nothing}
<1>1. First(paths) \in Texts \cup {Seeds, OtherType, Nothing}
  BY FirstFinds, PathsTried
<1>2. Seeds.kind # "text" /\ OtherType.kind # "text"
  BY DEF Seeds, OtherType
<1>3. QED BY <1>1, <1>2 DEF FirstStr

(* Two values normalise alike, and to something, only if they are one word.*)
LEMMA NormIsWord ==
  ASSUME NEW a, NEW b
  PROVE  /\ (Norm(a) = Norm(b) /\ Norm(b) # Nothing) <=> SameWord(a, b)
         /\ Norm(b) = Nothing <=> b.kind # "text" \/ b.word = ""
<1>1. \A w, s : Word(w, s) # Nothing
  BY DEF Word, Nothing
<1>2. \A v, w, s, t : Word(v, s) = Word(w, t) <=> v = w /\ s = t
  BY DEF Word
<1>3. \A v : Norm(v) = Nothing <=> v.kind # "text" \/ v.word = ""
  BY <1>1 DEF Norm
<1>4. CASE Norm(a) # Nothing /\ Norm(b) # Nothing
  <2> DEFINE Spelt(v) == IF v.spelling = "hyphened" THEN "hyphened" ELSE "plain"
  <2>1. Norm(a) = Word(a.word, Spelt(a)) /\ Norm(b) = Word(b.word, Spelt(b))
    BY <1>4 DEF Norm
  <2>2. Norm(a) = Norm(b) <=> a.word = b.word /\ Spelt(a) = Spelt(b)
    BY <1>2, <2>1
  <2>3. Spelt(a) = Spelt(b) <=> (a.spelling = "hyphened" <=> b.spelling = "hyphened")
    OBVIOUS
  <2>4. QED BY <1>3, <1>4, <2>2, <2>3 DEF SameWord
<1>5. CASE ~(Norm(a) # Nothing /\ Norm(b) # Nothing)
  BY <1>3, <1>5 DEF SameWord
<1>6. QED BY <1>3, <1>4, <1>5

(* The catch-all is recognised in every spelling but a hyphened one.       *)
LEMMA PlaceholderIsCatchAll ==
  LibraryTypeOK =>
    (IndustryIsPlaceholder <=>
       \E s \in Spellings \ {"hyphened"} : FirstStr(IndustryPaths) = Word(CatchAll, s))
<1> SUFFICES ASSUME LibraryTypeOK
             PROVE  IndustryIsPlaceholder <=>
                      \E s \in Spellings \ {"hyphened"} :
                        FirstStr(IndustryPaths) = Word(CatchAll, s)
  OBVIOUS
<1>1. IndustryValue \in Texts \cup {Nothing} /\ IndustryValue = FirstStr(IndustryPaths)
  BY TextRead DEF IndustryValue
<1>2. ASSUME IndustryIsPlaceholder
      PROVE  \E s \in Spellings \ {"hyphened"} : IndustryValue = Word(CatchAll, s)
  <2>1. /\ IndustryValue.kind = "text" /\ IndustryValue.word = CatchAll
        /\ IndustryValue.spelling # "hyphened"
    BY <1>2 DEF IndustryIsPlaceholder
  <2>2. IndustryValue \in Texts
    BY <1>1, <2>1 DEF Nothing
  <2>3. /\ IndustryValue.spelling \in Spellings \ {"hyphened"}
        /\ IndustryValue = Word(CatchAll, IndustryValue.spelling)
    BY <2>1, <2>2 DEF Texts, Word
  <2>4. QED BY <2>3
<1>3. ASSUME NEW s \in Spellings \ {"hyphened"}, IndustryValue = Word(CatchAll, s)
      PROVE  IndustryIsPlaceholder
  BY <1>3 DEF IndustryIsPlaceholder, Word
<1>4. QED BY <1>1, <1>2, <1>3

(* Without a catch-all the hits are the places of the skills that fit;     *)
(* with one there are none.                                                *)
LEMMA HitsFit ==
  /\ IndustryIsPlaceholder => Match(catalog, Vertical, LeadType) = {}
  /\ ~IndustryIsPlaceholder =>
       Match(catalog, Vertical, LeadType) = {i \in DOMAIN catalog : Fits(catalog[i])}
<1>1. CASE IndustryIsPlaceholder
  <2>1. Vertical = Nothing /\ Norm(Nothing) = Nothing
    BY <1>1 DEF Vertical, Norm, Nothing
  <2>2. QED BY <1>1, <2>1 DEF Match
<1>2. CASE ~IndustryIsPlaceholder
  <2> DEFINE industry == FirstStr(IndustryPaths)
             lead == FirstStr(LeadTypePaths)
  <2>1. Vertical = industry /\ LeadType = lead
    BY <1>2 DEF Vertical, IndustryValue, LeadType
  <2>2. Norm(DefaultSkillType) # Nothing
    BY DEF Norm, DefaultSkillType, Word, Nothing
  <2> HIDE DEF industry, lead
  <2>3. \A e :
          (/\ Norm(industry) # Nothing /\ Norm(lead) # Nothing
           /\ Norm(e.vertical) = Norm(industry) /\ Norm(e.leadType) = Norm(lead)
           /\ Norm(e.skillType) = Norm(DefaultSkillType))
          <=> /\ SameWord(e.vertical, industry) /\ SameWord(e.leadType, lead)
              /\ SameWord(e.skillType, DefaultSkillType)
    BY <2>2, NormIsWord
  <2>4. QED BY <1>2, <2>1, <2>3 DEF Match, Fits, industry, lead
<1>3. QED BY <1>1, <1>2

(* One hit comes first, and none has a smaller slug.                       *)
LEMMA FirstHit ==
  ASSUME LibraryTypeOK, Match(catalog, Vertical, LeadType) # {}
  PROVE  \E i \in Match(catalog, Vertical, LeadType) :
           /\ BestMatch = catalog[i]
           /\ \A j \in Match(catalog, Vertical, LeadType) : catalog[i].slug <= catalog[j].slug
<1> DEFINE hits  == Match(catalog, Vertical, LeadType)
           slugs == {catalog[i].slug : i \in hits}
           least == {i \in hits : catalog[i].slug = Min(slugs)}
<1>1. hits \subseteq DOMAIN catalog /\ \A i \in hits : catalog[i].valid
  BY DEF Match
<1>2. hits \in SUBSET Nat /\ \A i \in hits : catalog[i] \in Entries
  BY <1>1 DEF LibraryTypeOK
<1>3. \A i \in hits : catalog[i].slug \in Nat
  BY <1>1, <1>2, LibraryAssumption
<1> HIDE DEF hits
<1>4. slugs \in SUBSET Nat /\ slugs # {}
  BY <1>3 DEF hits
<1>5. Min(slugs) \in slugs /\ \A n \in slugs : Min(slugs) <= n
  BY <1>4, MinIsLeast
<1>6. least \in SUBSET Nat /\ least # {}
  BY <1>2, <1>5
<1>7. Min(least) \in least /\ \A n \in least : Min(least) <= n
  BY <1>6, MinIsLeast
<1>8. ASSUME NEW j \in hits PROVE SortedBefore(Min(least), j)
  <2>1. Min(slugs) <= catalog[j].slug /\ catalog[j].slug \in Nat /\ Min(slugs) \in Nat
    BY <1>3, <1>4, <1>5
  <2>2. catalog[Min(least)].slug = Min(slugs)
    BY <1>7
  <2>3. catalog[j].slug = Min(slugs) => Min(least) <= j
    BY <1>7
  <2> HIDE DEF slugs, least
  <2>4. QED BY <2>1, <2>2, <2>3 DEF SortedBefore
<1> DEFINE i == CHOOSE k \in hits : \A j \in hits : SortedBefore(k, j)
<1>9. i \in hits /\ \A j \in hits : SortedBefore(i, j)
  <2>1. Min(least) \in hits
    BY <1>7
  <2> HIDE DEF least
  <2>2. QED BY <1>8, <2>1
<1>10. BestMatch = catalog[i]
  BY DEF BestMatch, hits
<1> HIDE DEF i
<1>11. \A j \in hits : catalog[i].slug <= catalog[j].slug
  BY <1>3, <1>9 DEF SortedBefore
<1>12. QED BY <1>9, <1>10, <1>11 DEF hits

LEMMA VerdictHolds == LibraryTypeOK => VerdictIsTrue
<1> SUFFICES ASSUME LibraryTypeOK PROVE VerdictIsTrue
  OBVIOUS
<1> DEFINE fitting  == {e \in Range(catalog) : Fits(e)}
           industry == FirstStr(IndustryPaths)
           catchAll == \E s \in Spellings \ {"hyphened"} : industry = Word(CatchAll, s)
           hits     == Match(catalog, Vertical, LeadType)
<1>1. catchAll <=> IndustryIsPlaceholder
  BY PlaceholderIsCatchAll
<1>2. Vertical = IF catchAll THEN Nothing ELSE industry
  BY <1>1 DEF Vertical, IndustryValue
<1>3. /\ catchAll => hits = {}
      /\ ~catchAll => hits = {i \in DOMAIN catalog : Fits(catalog[i])}
  BY <1>1, HitsFit
<1>4. ~catchAll => fitting = {catalog[i] : i \in hits}
  BY <1>3 DEF Range
<1> HIDE DEF catchAll, industry
<1>5. CASE hits = {}
  <2>1. BestMatch = NoMatch
    BY <1>5 DEF BestMatch
  <2>2. Opener = IF Vertical # Nothing THEN "none found" ELSE "could not check"
    BY <2>1 DEF Opener
  <2>3. ~catchAll => fitting = {}
    BY <1>4, <1>5
  <2> HIDE DEF fitting, hits
  <2>4. QED BY <1>2, <2>2, <2>3 DEF VerdictIsTrue, fitting, industry, catchAll
<1>6. CASE hits # {}
  <2>1. PICK i \in hits : /\ BestMatch = catalog[i]
                          /\ \A j \in hits : catalog[i].slug <= catalog[j].slug
    BY <1>6, FirstHit
  <2>2. ~catchAll
    BY <1>3, <1>6
  <2>3. BestMatch \in fitting /\ \A e \in fitting : BestMatch.slug <= e.slug
    BY <1>4, <2>1, <2>2
  <2>4. BestMatch # NoMatch
    BY <2>3 DEF Fits, NoMatch, Malformed
  <2>5. Opener = "connect?"
    BY <2>4 DEF Opener
  <2> HIDE DEF fitting, hits
  <2>6. QED BY <2>2, <2>3, <2>5 DEF VerdictIsTrue, fitting, industry, catchAll
<1>7. QED BY <1>5, <1>6

LEMMA IcpHolds == LibraryTypeOK => IcpIsReported
<1> SUFFICES ASSUME LibraryTypeOK,
                    \A p \in Range(SummaryPaths) \cup Range(SeedPaths) :
                      blob[p] \notin {Spaces, OtherType}
             PROVE  IcpSummary = Nothing <=>
                      /\ \A p \in Range(SeedPaths) : blob[p] = Nothing
                      /\ First(SummaryPaths).kind # "text"
  BY DEF IcpIsReported
<1>1. /\ First(SeedPaths) \in Texts \cup {Seeds, OtherType, Nothing}
      /\ First(SeedPaths) = Nothing <=> \A p \in Range(SeedPaths) : blob[p] = Nothing
      /\ First(SeedPaths) # Nothing => \E p \in Range(SeedPaths) : First(SeedPaths) = blob[p]
  BY FirstFinds, PathsTried
<1>2. OtherType # Nothing /\ Spaces # Nothing
  BY DEF OtherType, Spaces, Word, Nothing
<1>3. First(SeedPaths) \notin {Spaces, OtherType}
  BY <1>1, <1>2
<1>4. CASE First(SummaryPaths).kind = "text"
  BY <1>4 DEF IcpSummary, Nothing
<1>5. CASE First(SummaryPaths).kind # "text"
  <2>1. IcpSummary = IF First(SeedPaths).kind \in {"list", "text"}
                     THEN First(SeedPaths) ELSE Nothing
    BY <1>3, <1>5 DEF IcpSummary
  <2>2. First(SeedPaths).kind \in {"list", "text"} <=> First(SeedPaths) # Nothing
    BY <1>1, <1>3 DEF Texts, Seeds, Nothing
  <2>3. QED BY <1>1, <1>5, <2>1, <2>2
<1>6. QED BY <1>4, <1>5

(* Whatever the blob and the catalog hold, a skill is recommended only if  *)
(* it fits and none that fits has a smaller slug, and the opener says that *)
(* none was found only if none fits (catalog.py:92-129, context.py:112-173,*)
(* runtime.py:132-180).                                                    *)
THEOREM VerdictTrue == LibrarySpec => []VerdictIsTrue
BY VerdictHolds, LibraryTypeCorrect, PTL

(* An ICP the org gave is not reported unknown (context.py:182-252).       *)
THEOREM IcpReported == LibrarySpec => []IcpIsReported
BY IcpHolds, LibraryTypeCorrect, PTL

----------------------------------------------------------------------------
(* The contract files.                                                     *)

(* What is known of a prompt that was composed.                            *)
Holds(p) ==
  /\ p.files.fields \in FieldFiles /\ p.files.schema \in SchemaFiles
  /\ p.rules = Rules(p.files.fields) /\ Sound(p.rules)
  /\ SectionShapes(p.files.schema).ok
  /\ p.prefix = Prefix(p.files, p.blob)

(* The file a prompt was composed from stays in the cache for its lint.    *)
PromptInv ==
  /\ disk.fields \in FieldFiles \cup {Unreadable} /\ disk.schema \in SchemaFiles
  /\ DOMAIN cached = {"fields", "schema"}
  /\ cached["fields"] \in FieldFiles \cup {NotLoaded}
  /\ cached["schema"] \in SchemaFiles \cup {NotLoaded}
  /\ Composed(prompt) => Holds(prompt) /\ cached["fields"] = prompt.files.fields
  /\ Composed(before) => before.prefix = Prefix(before.files, before.blob)
  /\ enforced # NoRules => Composed(prompt) /\ enforced = prompt.rules

LEMMA PromptStarts == PromptInit => PromptInv
BY DEF PromptInit, PromptInv, Composed

(* What is loaded is readable or the error it was.                         *)
LEMMA LoadType ==
  ASSUME PromptInv
  PROVE  /\ disk["fields"] = disk.fields /\ disk["schema"] = disk.schema
         /\ Load("fields") \in FieldFiles \cup {Unreadable}
         /\ Load("schema") \in SchemaFiles
         /\ cached["fields"] # NotLoaded => Load("fields") = cached["fields"]
BY DEF PromptInv, Load

LEMMA CacheKeeps ==
  ASSUME PromptInv, NEW names \in SUBSET {"fields", "schema"}, Cache(names)
  PROVE  /\ DOMAIN cached' = {"fields", "schema"}
         /\ cached'["fields"] \in FieldFiles \cup {NotLoaded}
         /\ cached'["schema"] \in SchemaFiles \cup {NotLoaded}
         /\ ("fields" \in names /\ Load("fields") # Unreadable) =>
              cached'["fields"] = Load("fields")
         /\ cached["fields"] # NotLoaded => cached'["fields"] = cached["fields"]
<1>1. /\ cached' = [n \in {"fields", "schema"} |->
                     IF n \in names /\ Load(n) # Unreadable THEN Load(n) ELSE cached[n]]
  BY DEF Cache, PromptInv
<1>2. QED BY <1>1, LoadType, FilesAssumption DEF PromptInv

LEMMA RememberKeeps ==
  ASSUME PromptInv, Remember
  PROVE  Composed(before') => before'.prefix = Prefix(before'.files, before'.blob)
BY DEF PromptInv, Remember, Holds

LEMMA ComposeTurnInv == PromptInv /\ ComposeTurn => PromptInv'
<1> SUFFICES ASSUME PromptInv, ComposeTurn PROVE PromptInv'
  OBVIOUS
<1> DEFINE files == [fields |-> Load("fields"), schema |-> Load("schema")]
<1>1. PICK b \in Blobs, task \in Tasks :
        prompt' = IF Unreadable \in {files.fields, files.schema} THEN Raised
                  ELSE Compose(files, b, task)
  BY DEF ComposeTurn
<1>2. Composed(prompt') => Holds(prompt') /\ cached'["fields"] = prompt'.files.fields
  <2>1. SUFFICES ASSUME Composed(prompt')
                 PROVE  Holds(prompt') /\ cached'["fields"] = prompt'.files.fields
    OBVIOUS
  <2>2. /\ Unreadable \notin {files.fields, files.schema}
        /\ prompt' = Compose(files, b, task) /\ prompt' # Raised
    BY <1>1, <2>1 DEF Composed
  <2>3. files.fields \in FieldFiles /\ files.schema \in SchemaFiles
    BY <2>2, LoadType
  <2>4. cached'["fields"] = files.fields
    BY <2>2, CacheKeeps DEF ComposeTurn
  <2> HIDE DEF files
  <2>5. Holds(prompt') /\ prompt'.files = files
    BY <2>2, <2>3 DEF Compose, Holds
  <2>6. QED BY <2>4, <2>5
<1>3. /\ DOMAIN cached' = {"fields", "schema"}
      /\ cached'["fields"] \in FieldFiles \cup {NotLoaded}
      /\ cached'["schema"] \in SchemaFiles \cup {NotLoaded}
  BY CacheKeeps DEF ComposeTurn
<1>4. Composed(before') => before'.prefix = Prefix(before'.files, before'.blob)
  BY RememberKeeps DEF ComposeTurn
<1>5. QED BY <1>2, <1>3, <1>4 DEF ComposeTurn, PromptInv

LEMMA LintTurnInv == PromptInv /\ LintTurn => PromptInv'
<1> SUFFICES ASSUME PromptInv, LintTurn PROVE PromptInv'
  OBVIOUS
<1>1. /\ Holds(prompt) /\ cached["fields"] = prompt.files.fields
      /\ cached["fields"] # NotLoaded
  BY FilesAssumption DEF LintTurn, PromptInv, Holds
<1>2. enforced' = prompt.rules
  BY <1>1, LoadType DEF LintTurn, Holds
<1>3. /\ DOMAIN cached' = {"fields", "schema"}
      /\ cached'["schema"] \in SchemaFiles \cup {NotLoaded}
      /\ cached'["fields"] = cached["fields"]
  BY <1>1, CacheKeeps DEF LintTurn
<1>4. QED BY <1>1, <1>2, <1>3 DEF LintTurn, PromptInv

LEMMA PromptStepInv == PromptInv /\ [PromptNext]_promptVars => PromptInv'
<1> SUFFICES ASSUME PromptInv, [PromptNext]_promptVars PROVE PromptInv'
  OBVIOUS
<1>1. CASE Repin
  BY <1>1 DEF Repin, PromptInv
<1>2. CASE Restart
  <2>1. ~Composed(prompt') /\ enforced' = NoRules
    BY <1>2 DEF Restart, Composed
  <2>2. QED BY <1>2, <2>1, RememberKeeps DEF Restart, PromptInv
<1>3. CASE UNCHANGED promptVars
  BY <1>3 DEF promptVars, PromptInv
<1>4. QED BY <1>1, <1>2, <1>3, ComposeTurnInv, LintTurnInv DEF PromptNext

(* A file that was composed from is still the one the cache hands out, and *)
(* a prefix is a function of the files and of the customer alone           *)
(* (contracts.py:24-29, prompt.py:513-525, 578-612).                       *)
THEOREM PromptInvHolds == PromptSpec => []PromptInv
BY PromptStarts, PromptStepInv, PTL DEF PromptSpec

(* What the prompt taught is every rule of the file it was read from, and  *)
(* what the lint of the turn judges by, whatever is deployed in between    *)
(* (contracts.py:24-29, 47-201; prompt.py:496-560).                        *)
THEOREM TaughtEnforced == PromptSpec => []TaughtIsEnforced
<1>1. PromptInv => TaughtIsEnforced
  <2> SUFFICES ASSUME PromptInv, enforced # NoRules
               PROVE  enforced = prompt.rules /\ Complete(prompt.files.fields, enforced)
    BY DEF TaughtIsEnforced
  <2>1. /\ enforced = Rules(prompt.files.fields) /\ Sound(enforced)
        /\ enforced = prompt.rules
    BY DEF PromptInv, Holds
  <2> DEFINE file == prompt.files.fields
  <2>2. ContextFieldKeys(file).ok /\ ConfigPositions(file).ok /\ RuntimePopulated(file).ok
    BY <2>1 DEF Rules, Sound
  <2> HIDE DEF file
  <2>3. Complete(file, Rules(file))
    BY <2>2 DEF Complete, Rules, ContextFieldKeys, ConfigPositions, RuntimePopulated,
         Returned, Raised
  <2>4. QED BY <2>1, <2>3 DEF file
<1>2. QED BY <1>1, PromptInvHolds, PTL

(* The prefix the provider caches is the same on the next turn and in the  *)
(* next process (prompt.py:115-125, 513-525).                              *)
THEOREM PrefixStable == PromptSpec => []PrefixIsStable
<1>1. PromptInv => PrefixIsStable
  BY DEF PromptInv, PrefixIsStable, Holds
<1>2. QED BY <1>1, PromptInvHolds, PTL

----------------------------------------------------------------------------
(* The shapes of the sections.                                             *)

(* The keys that may be named below a node.                                *)
Named(schema, node) ==
  LET keys == DOMAIN Properties(schema, node)
  IN  IF "context_ref" \in keys THEN {} ELSE keys

Child(schema, node, k) == Properties(schema, node)[k]

Flag(node) == IF node.forbidden THEN "never" ELSE "key"

(* The renderer and the schema agree on what is below a regular node.      *)
LEMMA RegularKeys ==
  ASSUME NEW schema, NEW node, Regular(schema, node)
  PROVE  /\ KeysBelow(schema, node) = Named(schema, node)
         /\ \A k \in Named(schema, node) :
              PropsBelow(schema, node)[k] = Child(schema, node, k)
<1>1. DOMAIN <<>> = {}
  OBVIOUS
<1>2. CASE node.ref # NoRef
  <2>1. Properties(schema, node) = Deref(schema, node.ref)
    BY <1>2 DEF Properties, Regular
  <2>2. CASE ~node.wrapped
    BY <1>2, <2>1, <2>2 DEF PropsBelow, KeysBelow, Named, Child
  <2>3. CASE node.wrapped
    <3>1. PropsBelow(schema, node) = <<>>
      BY <1>2, <2>3 DEF PropsBelow
    <3>2. Named(schema, node) = {}
      BY <1>1, <1>2, <2>1, <2>3 DEF Named, Regular
    <3>3. QED BY <1>1, <3>1, <3>2 DEF KeysBelow
  <2>4. QED BY <2>2, <2>3
<1>3. CASE node.ref = NoRef
  <2>1. Properties(schema, node) = PropsBelow(schema, node)
    BY <1>3 DEF Properties, PropsBelow, Regular
  <2>2. QED BY <2>1 DEF KeysBelow, Named, Child
<1>4. QED BY <1>2, <1>3

LEMMA UpToThree ==
  ASSUME NEW l \in 1 .. 3, NEW n \in 0 .. l
  PROVE  n = 0 \/ n = 1 \/ n = 2 \/ n = 3
OBVIOUS

(* The nodes on a path of up to three keys.                                *)
LEMMA NodesOnPath ==
  ASSUME NEW schema, NEW node, NEW path, Len(path) \in 1 .. 3
  PROVE  LET at == NodesOn(schema, node, path)
         IN  /\ at[0] = node
             /\ \A n \in 1 .. Len(path) : at[n] = Child(schema, at[n - 1], path[n])
<1> DEFINE Walk(f) == f = [n \in 0 .. Len(path) |->
                             IF n = 0 THEN node ELSE Properties(schema, f[n - 1])[path[n]]]
           one   == Properties(schema, node)[path[1]]
           two   == Properties(schema, one)[path[2]]
           three == Properties(schema, two)[path[3]]
           walk  == [n \in 0 .. Len(path) |->
                       IF n = 0 THEN node ELSE IF n = 1 THEN one
                       ELSE IF n = 2 THEN two ELSE three]
<1>1. Walk(walk)
  <2>1. ASSUME NEW n \in 0 .. Len(path)
        PROVE  walk[n] = IF n = 0 THEN node ELSE Properties(schema, walk[n - 1])[path[n]]
    <3>1. n = 0 \/ n = 1 \/ n = 2 \/ n = 3
      BY UpToThree
    <3>2. CASE n = 0
      BY <3>2
    <3>3. CASE n = 1
      <4>1. walk[0] = node /\ walk[1] = one
        BY <3>3
      <4>2. QED BY <3>3, <4>1
    <3>4. CASE n = 2
      <4>1. walk[1] = one /\ walk[2] = two
        BY <3>4
      <4>2. QED BY <3>4, <4>1
    <3>5. CASE n = 3
      <4>1. walk[2] = two /\ walk[3] = three
        BY <3>5
      <4>2. QED BY <3>5, <4>1
    <3>6. QED BY <3>1, <3>2, <3>3, <3>4, <3>5
  <2>2. QED BY <2>1
<1> HIDE DEF walk
<1> DEFINE at == NodesOn(schema, node, path)
<1>2. Walk(at)
  BY <1>1 DEF NodesOn
<1> HIDE DEF at
<1>3. at[0] = node /\ \A n \in 1 .. Len(path) : at[n] = Properties(schema, at[n - 1])[path[n]]
  BY <1>2
<1>4. QED BY <1>3 DEF at, Child

(* What the schema declares, for each length of path.                      *)
LEMMA DeclaresKeys ==
  ASSUME NEW schema, NEW node, NEW path, Len(path) \in 1 .. 3
  PROVE  LET one == Child(schema, node, path[1])
             two == Child(schema, one, path[2])
         IN  Declares(schema, node, path) <=>
               /\ path[1] \in Named(schema, node)
               /\ Len(path) > 1 => ~one.forbidden /\ path[2] \in Named(schema, one)
               /\ Len(path) > 2 => ~two.forbidden /\ path[3] \in Named(schema, two)
<1> DEFINE at == NodesOn(schema, node, path)
           one == Child(schema, node, path[1])
           two == Child(schema, one, path[2])
<1>1. at[0] = node /\ \A n \in 1 .. Len(path) : at[n] = Child(schema, at[n - 1], path[n])
  BY NodesOnPath
<1>2. Declares(schema, node, path) <=>
        \A n \in 1 .. Len(path) :
          path[n] \in Named(schema, at[n - 1]) /\ (n < Len(path) => ~at[n].forbidden)
  BY DEF Declares, Named
<1> HIDE DEF at
<1>3. at[1] = one /\ (Len(path) > 1 => at[2] = two)
  BY <1>1
<1>4. Len(path) = 1 \/ Len(path) = 2 \/ Len(path) = 3
  OBVIOUS
<1> HIDE DEF one, two
<1>5. CASE Len(path) = 1
  BY <1>1, <1>2, <1>3, <1>5
<1>6. CASE Len(path) = 2
  <2>1. 1 .. Len(path) = {1, 2}
    BY <1>6
  <2>2. QED BY <1>1, <1>2, <1>3, <1>6, <2>1
<1>7. CASE Len(path) = 3
  <2>1. 1 .. Len(path) = {1, 2, 3}
    BY <1>7
  <2>2. QED BY <1>1, <1>2, <1>3, <1>7, <2>1
<1>8. QED BY <1>4, <1>5, <1>6, <1>7 DEF one, two

(* Paths of up to four names.                                              *)
LEMMA SamePath ==
  ASSUME NEW K, NEW a \in Seq(K), NEW b \in Seq(K), Len(a) = Len(b),
         \A i \in 1 .. Len(a) : a[i] = b[i]
  PROVE  a = b
OBVIOUS

LEMMA AppendToOne ==
  ASSUME NEW s, NEW k
  PROVE  Append(<<>>, s) = <<s>> /\ Append(<<s>>, k) = <<s, k>>
<1> DEFINE K == {s, k}
           a == Append(<<s>>, k)
           b == <<s, k>>
           c == Append(<<>>, s)
           d == <<s>>
<1>1. /\ a \in Seq(K) /\ Len(a) = 2 /\ a[1] = s /\ a[2] = k
      /\ b \in Seq(K) /\ Len(b) = 2 /\ b[1] = s /\ b[2] = k
      /\ c \in Seq(K) /\ Len(c) = 1 /\ c[1] = s
      /\ d \in Seq(K) /\ Len(d) = 1 /\ d[1] = s
  OBVIOUS
<1> HIDE DEF K, a, b, c, d
<1>2. /\ \A i \in 1 .. 2 : i = 1 \/ i = 2
      /\ \A i \in 1 .. 1 : i = 1
  OBVIOUS
<1>3. a = b /\ c = d
  BY <1>1, <1>2, SamePath
<1>4. QED BY <1>3 DEF a, b, c, d

LEMMA AppendToTwo ==
  ASSUME NEW s, NEW k, NEW m
  PROVE  Append(<<s, k>>, m) = <<s, k, m>>
<1> DEFINE K == {s, k, m}
           a == Append(<<s, k>>, m)
           b == <<s, k, m>>
<1>1. /\ a \in Seq(K) /\ Len(a) = 3 /\ a[1] = s /\ a[2] = k /\ a[3] = m
      /\ b \in Seq(K) /\ Len(b) = 3 /\ b[1] = s /\ b[2] = k /\ b[3] = m
  OBVIOUS
<1> HIDE DEF K, a, b
<1>2. \A i \in 1 .. 3 : i = 1 \/ i = 2 \/ i = 3
  OBVIOUS
<1>3. a = b
  BY <1>1, <1>2, SamePath
<1>4. QED BY <1>3 DEF a, b

LEMMA AppendToThree ==
  ASSUME NEW s, NEW k, NEW m, NEW n
  PROVE  Append(<<s, k, m>>, n) = <<s, k, m, n>>
<1> DEFINE K == {s, k, m, n}
           a == Append(<<s, k, m>>, n)
           b == <<s, k, m, n>>
<1>1. /\ a \in Seq(K) /\ Len(a) = 4 /\ a[1] = s /\ a[2] = k /\ a[3] = m /\ a[4] = n
      /\ b \in Seq(K) /\ Len(b) = 4 /\ b[1] = s /\ b[2] = k /\ b[3] = m /\ b[4] = n
  OBVIOUS
<1> HIDE DEF K, a, b
<1>2. \A i \in 1 .. 4 : i = 1 \/ i = 2 \/ i = 3 \/ i = 4
  OBVIOUS
<1>3. a = b
  BY <1>1, <1>2, SamePath
<1>4. QED BY <1>3 DEF a, b

(* The first name of a path, and what is behind it.                        *)
LEMMA FirstOfPath ==
  ASSUME NEW K, NEW s, NEW q \in Seq(K)
  PROVE  Below(s, q)[1] = s
BY DEF Below

LEMMA RestOfPath ==
  ASSUME NEW K, NEW s, NEW q \in Seq(K)
  PROVE  Tail(Below(s, q)) = q
<1> DEFINE p == Below(s, q)
           S == K \cup {s}
<1>1. p \in Seq(S) /\ Len(p) = Len(q) + 1 /\ \A i \in 1 .. Len(q) : p[i + 1] = q[i]
  BY DEF Below
<1>2. /\ Tail(p) \in Seq(S) /\ Len(Tail(p)) = Len(q)
      /\ \A i \in 1 .. Len(q) : Tail(p)[i] = p[i + 1]
  BY <1>1
<1>3. q \in Seq(S)
  OBVIOUS
<1> HIDE DEF p, S
<1>4. Tail(p) = q
  BY <1>1, <1>2, <1>3, SamePath
<1>5. QED BY <1>4 DEF p

LEMMA PathBehind ==
  ASSUME NEW K, NEW s, NEW n \in 1 .. 3, NEW q \in [1 .. n -> K]
  PROVE  /\ q \in Seq(K) /\ Len(q) = n
         /\ Below(s, q)[1] = s /\ Tail(Below(s, q)) = q
         /\ n = 1 => Below(s, q) = <<s, q[1]>>
         /\ n = 2 => Below(s, q) = <<s, q[1], q[2]>>
         /\ n = 3 => Below(s, q) = <<s, q[1], q[2], q[3]>>
<1> DEFINE p == Below(s, q)
           S == K \cup {s}
<1>1. q \in Seq(K) /\ Len(q) = n
  OBVIOUS
<1>2. /\ p \in Seq(S) /\ Len(p) = n + 1 /\ p[1] = s
      /\ \A i \in 1 .. n : p[i + 1] = q[i]
  BY <1>1 DEF Below
<1>3. Tail(p) = q
  <2>1. Tail(p) \in Seq(S) /\ Len(Tail(p)) = n /\ \A i \in 1 .. n : Tail(p)[i] = p[i + 1]
    BY <1>2
  <2>2. q \in Seq(S)
    BY <1>1
  <2> HIDE DEF p, S
  <2>3. QED BY <1>1, <1>2, <2>1, <2>2, SamePath
<1> HIDE DEF p
<1>4. ASSUME n = 1 PROVE p = <<s, q[1]>>
  <2>1. q[1] \in K /\ p[2] = q[1]
    BY <1>2, <1>4
  <2>2. /\ <<s, q[1]>> \in Seq(S) /\ Len(<<s, q[1]>>) = 2
        /\ <<s, q[1]>>[1] = s /\ <<s, q[1]>>[2] = q[1]
    BY <2>1
  <2>3. \A i \in 1 .. 2 : i = 1 \/ i = 2
    OBVIOUS
  <2> HIDE DEF S
  <2>4. QED BY <1>2, <1>4, <2>1, <2>2, <2>3, SamePath
<1>5. ASSUME n = 2 PROVE p = <<s, q[1], q[2]>>
  <2>1. q[1] \in K /\ q[2] \in K /\ p[2] = q[1] /\ p[3] = q[2]
    BY <1>2, <1>5
  <2>2. /\ <<s, q[1], q[2]>> \in Seq(S) /\ Len(<<s, q[1], q[2]>>) = 3
        /\ <<s, q[1], q[2]>>[1] = s /\ <<s, q[1], q[2]>>[2] = q[1]
        /\ <<s, q[1], q[2]>>[3] = q[2]
    BY <2>1
  <2>3. \A i \in 1 .. 3 : i = 1 \/ i = 2 \/ i = 3
    OBVIOUS
  <2> HIDE DEF S
  <2>4. QED BY <1>2, <1>5, <2>1, <2>2, <2>3, SamePath
<1>6. ASSUME n = 3 PROVE p = <<s, q[1], q[2], q[3]>>
  <2>1. /\ q[1] \in K /\ q[2] \in K /\ q[3] \in K
        /\ p[2] = q[1] /\ p[3] = q[2] /\ p[4] = q[3]
    BY <1>2, <1>6
  <2>2. /\ <<s, q[1], q[2], q[3]>> \in Seq(S) /\ Len(<<s, q[1], q[2], q[3]>>) = 4
        /\ <<s, q[1], q[2], q[3]>>[1] = s /\ <<s, q[1], q[2], q[3]>>[2] = q[1]
        /\ <<s, q[1], q[2], q[3]>>[3] = q[2] /\ <<s, q[1], q[2], q[3]>>[4] = q[3]
    BY <2>1
  <2>3. \A i \in 1 .. 4 : i = 1 \/ i = 2 \/ i = 3 \/ i = 4
    OBVIOUS
  <2> HIDE DEF S
  <2>4. QED BY <1>2, <1>6, <2>1, <2>2, <2>3, SamePath
<1>7. QED BY <1>1, <1>2, <1>3, <1>4, <1>5, <1>6 DEF p

LEMMA BehindOne ==
  ASSUME NEW K, NEW s, NEW q \in [1 .. 1 -> K]
  PROVE  Below(s, q) = <<s, q[1]>>
BY PathBehind

LEMMA BehindTwo ==
  ASSUME NEW K, NEW s, NEW q \in [1 .. 2 -> K]
  PROVE  Below(s, q) = <<s, q[1], q[2]>>
BY PathBehind

LEMMA BehindThree ==
  ASSUME NEW K, NEW s, NEW q \in [1 .. 3 -> K]
  PROVE  Below(s, q) = <<s, q[1], q[2], q[3]>>
BY PathBehind

(* The line that tells of the node at the end of a path, and the paths of  *)
(* which there is one.                                                     *)
Told(schema, path) ==
  LET one   == schema.sections[path[1]].props[path[2]]
      two   == Child(schema, one, path[3])
      three == Child(schema, two, path[4])
  IN  IF Len(path) = 1 THEN [path |-> path, flag |-> "unavailable", hint |-> "none"]
      ELSE IF Len(path) = 2
        THEN [path |-> path, flag |-> "key", hint |-> TypeHint(schema, one)]
      ELSE IF Len(path) = 3
        THEN [path |-> path, flag |-> Flag(two), hint |-> TypeHint(schema, two)]
      ELSE [path |-> path, flag |-> Flag(three), hint |-> TypeHint(schema, three)]

TaughtOf(schema, s, path) ==
  IF schema.sections[s].form = "malformed" THEN path = <<s>>
  ELSE \E k \in DOMAIN schema.sections[s].props :
         LET one == schema.sections[s].props[k]
         IN  \/ path = <<s, k>>
             \/ \E m \in Named(schema, one) :
                  \/ path = <<s, k, m>>
                  \/ /\ ~Child(schema, one, m).forbidden
                     /\ \E n \in Named(schema, Child(schema, one, m)) : path = <<s, k, m, n>>

LEMMA KeyLinesTold ==
  ASSUME NEW schema, NEW node, Regular(schema, node), NEW path, NEW l
  PROVE  l \in KeyLines(schema, node, path) <=>
           \E k \in Named(schema, node) :
             l = [path |-> Append(path, k), flag |-> Flag(Child(schema, node, k)),
                  hint |-> TypeHint(schema, Child(schema, node, k))]
<1> DEFINE below == PropsBelow(schema, node)
           L(k) == [path |-> Append(path, k), flag |-> Flag(below[k]),
                    hint |-> TypeHint(schema, below[k])]
<1>1. /\ KeysBelow(schema, node) = Named(schema, node)
      /\ \A k \in Named(schema, node) : below[k] = Child(schema, node, k)
  BY RegularKeys
<1>2. KeyLines(schema, node, path) = {L(k) : k \in Named(schema, node)}
  BY <1>1 DEF KeyLines, Line, Flag
<1> HIDE DEF below
<1>3. QED BY <1>1, <1>2

LEMMA NestedLinesTold ==
  ASSUME NEW schema, NEW node, Regular(schema, node), NEW path, NEW l,
         \A m \in Named(schema, node) : Regular(schema, Child(schema, node, m))
  PROVE  l \in NestedLines(schema, node, path) <=>
           \E m \in Named(schema, node) :
             LET two == Child(schema, node, m)
             IN  \/ l = [path |-> Append(path, m), flag |-> Flag(two),
                         hint |-> TypeHint(schema, two)]
                 \/ /\ ~two.forbidden
                    /\ \E n \in Named(schema, two) :
                         l = [path |-> Append(Append(path, m), n),
                              flag |-> Flag(Child(schema, two, n)),
                              hint |-> TypeHint(schema, Child(schema, two, n))]
<1> DEFINE below == PropsBelow(schema, node)
           C(m) == Child(schema, node, m)
<1>1. /\ KeysBelow(schema, node) = Named(schema, node)
      /\ \A m \in Named(schema, node) : below[m] = C(m)
  BY RegularKeys
<1>2. l \in NestedLines(schema, node, path) <=>
        \/ l \in KeyLines(schema, node, path)
        \/ \E m \in Named(schema, node) :
             ~below[m].forbidden /\ l \in KeyLines(schema, below[m], Append(path, m))
  BY <1>1 DEF NestedLines
<1>3. l \in NestedLines(schema, node, path) <=>
        \/ l \in KeyLines(schema, node, path)
        \/ \E m \in Named(schema, node) :
             ~C(m).forbidden /\ l \in KeyLines(schema, C(m), Append(path, m))
  <2> HIDE DEF below, C
  <2>1. QED BY <1>1, <1>2
<1>4. l \in KeyLines(schema, node, path) <=>
        \E m \in Named(schema, node) :
          l = [path |-> Append(path, m), flag |-> Flag(C(m)), hint |-> TypeHint(schema, C(m))]
  BY KeyLinesTold
<1>5. \A m \in Named(schema, node) :
        l \in KeyLines(schema, C(m), Append(path, m)) <=>
          \E n \in Named(schema, C(m)) :
            l = [path |-> Append(Append(path, m), n), flag |-> Flag(Child(schema, C(m), n)),
                 hint |-> TypeHint(schema, Child(schema, C(m), n))]
  <2> SUFFICES ASSUME NEW m \in Named(schema, node)
               PROVE  l \in KeyLines(schema, C(m), Append(path, m)) <=>
                        \E n \in Named(schema, C(m)) :
                          l = [path |-> Append(Append(path, m), n),
                               flag |-> Flag(Child(schema, C(m), n)),
                               hint |-> TypeHint(schema, Child(schema, C(m), n))]
    OBVIOUS
  <2> DEFINE two == C(m)
             behind == Append(path, m)
  <2>1. Regular(schema, two)
    OBVIOUS
  <2> HIDE DEF two, behind
  <2>2. l \in KeyLines(schema, two, behind) <=>
          \E n \in Named(schema, two) :
            l = [path |-> Append(behind, n), flag |-> Flag(Child(schema, two, n)),
                 hint |-> TypeHint(schema, Child(schema, two, n))]
    BY <2>1, KeyLinesTold
  <2>3. QED BY <2>2 DEF two, behind
<1>6. QED BY <1>3, <1>4, <1>5

(* A section's lines are those of the paths taught of it.                  *)
LEMMA SectionLinesTold ==
  ASSUME NEW schema, WellFormed(schema), NEW s \in Shaped,
         schema.sections[s].form \in {"malformed", "object"}, NEW l
  PROVE  l \in SectionLines(schema, s) <=>
           \E path : TaughtOf(schema, s, path) /\ l = Told(schema, path)
<1>1. CASE schema.sections[s].form = "malformed"
  <2>1. SectionLines(schema, s) = {[path |-> <<s>>, flag |-> "unavailable", hint |-> "none"]}
    BY <1>1, AppendToOne DEF SectionLines, Line
  <2>2. Told(schema, <<s>>) = [path |-> <<s>>, flag |-> "unavailable", hint |-> "none"]
    BY DEF Told
  <2>3. \A path : TaughtOf(schema, s, path) <=> path = <<s>>
    BY <1>1 DEF TaughtOf
  <2>4. QED BY <2>1, <2>2, <2>3
<1>2. CASE schema.sections[s].form = "object"
  <2> DEFINE props == schema.sections[s].props
             One(k) == props[k]
             Two(k, m) == Child(schema, One(k), m)
             Three(k, m, n) == Child(schema, Two(k, m), n)
             L1(k) == [path |-> <<s, k>>, flag |-> "key", hint |-> TypeHint(schema, One(k))]
             L2(k, m) == [path |-> <<s, k, m>>, flag |-> Flag(Two(k, m)),
                          hint |-> TypeHint(schema, Two(k, m))]
             L3(k, m, n) == [path |-> <<s, k, m, n>>, flag |-> Flag(Three(k, m, n)),
                             hint |-> TypeHint(schema, Three(k, m, n))]
  <2>1. \A k \in DOMAIN props :
          Regular(schema, One(k)) /\ \A m \in Named(schema, One(k)) : Regular(schema, Two(k, m))
    BY <1>2 DEF WellFormed, Named, Child
  <2>2. l \in SectionLines(schema, s) <=>
          \E k \in DOMAIN props : l = L1(k) \/ l \in NestedLines(schema, One(k), <<s, k>>)
    BY <1>2, AppendToOne DEF SectionLines, Line
  <2>3. \A k \in DOMAIN props :
          l \in NestedLines(schema, One(k), <<s, k>>) <=>
            \E m \in Named(schema, One(k)) :
              \/ l = L2(k, m)
              \/ ~Two(k, m).forbidden /\ \E n \in Named(schema, Two(k, m)) : l = L3(k, m, n)
    <3> SUFFICES ASSUME NEW k \in DOMAIN props
                 PROVE  l \in NestedLines(schema, One(k), <<s, k>>) <=>
                          \E m \in Named(schema, One(k)) :
                            \/ l = L2(k, m)
                            \/ ~Two(k, m).forbidden
                               /\ \E n \in Named(schema, Two(k, m)) : l = L3(k, m, n)
      OBVIOUS
    <3>1. Regular(schema, One(k)) /\ \A m \in Named(schema, One(k)) : Regular(schema, Two(k, m))
      BY <2>1
    <3>2. \A m, n : /\ Append(<<s, k>>, m) = <<s, k, m>>
                    /\ Append(<<s, k, m>>, n) = <<s, k, m, n>>
      BY AppendToTwo, AppendToThree
    <3> DEFINE one == One(k)
               path == <<s, k>>
    <3> HIDE DEF one, path
    <3>3. Regular(schema, one)
          /\ \A m \in Named(schema, one) : Regular(schema, Child(schema, one, m))
      BY <3>1 DEF one
    <3>4. l \in NestedLines(schema, one, path) <=>
            \E m \in Named(schema, one) :
              LET two == Child(schema, one, m)
              IN  \/ l = [path |-> Append(path, m), flag |-> Flag(two),
                          hint |-> TypeHint(schema, two)]
                  \/ /\ ~two.forbidden
                     /\ \E n \in Named(schema, two) :
                          l = [path |-> Append(Append(path, m), n),
                               flag |-> Flag(Child(schema, two, n)),
                               hint |-> TypeHint(schema, Child(schema, two, n))]
      BY <3>3, NestedLinesTold
    <3>5. QED BY <3>2, <3>4 DEF one, path
  <2>4. \A path : TaughtOf(schema, s, path) <=>
          \E k \in DOMAIN props :
            \/ path = <<s, k>>
            \/ \E m \in Named(schema, One(k)) :
                 \/ path = <<s, k, m>>
                 \/ ~Two(k, m).forbidden /\ \E n \in Named(schema, Two(k, m)) : path = <<s, k, m, n>>
    BY <1>2 DEF TaughtOf
  <2>5. \A k : Told(schema, <<s, k>>) = L1(k)
    BY DEF Told
  <2>6. \A k, m : Told(schema, <<s, k, m>>) = L2(k, m)
    BY DEF Told
  <2>7. \A k, m, n : Told(schema, <<s, k, m, n>>) = L3(k, m, n)
    BY DEF Told
  <2> HIDE DEF L1, L2, L3, One, Two, Three, props
  <2>8. l \in SectionLines(schema, s) <=>
          \E k \in DOMAIN props :
            \/ l = L1(k)
            \/ \E m \in Named(schema, One(k)) :
                 \/ l = L2(k, m)
                 \/ ~Two(k, m).forbidden /\ \E n \in Named(schema, Two(k, m)) : l = L3(k, m, n)
    BY <2>2, <2>3
  <2>9. ASSUME l \in SectionLines(schema, s)
        PROVE  \E path : TaughtOf(schema, s, path) /\ l = Told(schema, path)
    <3>1. PICK k \in DOMAIN props :
            \/ l = L1(k)
            \/ \E m \in Named(schema, One(k)) :
                 \/ l = L2(k, m)
                 \/ ~Two(k, m).forbidden /\ \E n \in Named(schema, Two(k, m)) : l = L3(k, m, n)
      BY <2>8, <2>9
    <3>2. CASE l = L1(k)
      BY <2>4, <2>5, <3>2
    <3>3. ASSUME NEW m \in Named(schema, One(k)), l = L2(k, m)
          PROVE  TaughtOf(schema, s, <<s, k, m>>) /\ l = Told(schema, <<s, k, m>>)
      BY <2>4, <2>6, <3>3
    <3>4. ASSUME NEW m \in Named(schema, One(k)), ~Two(k, m).forbidden,
                 NEW n \in Named(schema, Two(k, m)), l = L3(k, m, n)
          PROVE  TaughtOf(schema, s, <<s, k, m, n>>) /\ l = Told(schema, <<s, k, m, n>>)
      BY <2>4, <2>7, <3>4
    <3>5. QED BY <3>1, <3>2, <3>3, <3>4
  <2>10. ASSUME NEW path, TaughtOf(schema, s, path), l = Told(schema, path)
         PROVE  l \in SectionLines(schema, s)
    <3>1. PICK k \in DOMAIN props :
            \/ path = <<s, k>>
            \/ \E m \in Named(schema, One(k)) :
                 \/ path = <<s, k, m>>
                 \/ ~Two(k, m).forbidden /\ \E n \in Named(schema, Two(k, m)) : path = <<s, k, m, n>>
      BY <2>4, <2>10
    <3>2. QED BY <2>5, <2>6, <2>7, <2>8, <2>10, <3>1
  <2>11. QED BY <2>9, <2>10
<1>3. QED BY <1>1, <1>2

(* What is taught of a section, for each length of path.                   *)
LEMMA TaughtKeys ==
  ASSUME NEW schema, NEW s, schema.sections[s].form = "object", NEW a, NEW b, NEW c
  PROVE  LET one == schema.sections[s].props[a]
             two == Child(schema, one, b)
         IN  /\ TaughtOf(schema, s, <<s, a>>) <=> a \in DOMAIN schema.sections[s].props
             /\ TaughtOf(schema, s, <<s, a, b>>) <=>
                  a \in DOMAIN schema.sections[s].props /\ b \in Named(schema, one)
             /\ TaughtOf(schema, s, <<s, a, b, c>>) <=>
                  /\ a \in DOMAIN schema.sections[s].props /\ b \in Named(schema, one)
                  /\ ~two.forbidden /\ c \in Named(schema, two)
<1> DEFINE props == schema.sections[s].props
           One(k) == props[k]
           Two(k, m) == Child(schema, One(k), m)
<1>1. \A path : TaughtOf(schema, s, path) <=>
        \E k \in DOMAIN props :
          \/ path = <<s, k>>
          \/ \E m \in Named(schema, One(k)) :
               \/ path = <<s, k, m>>
               \/ ~Two(k, m).forbidden /\ \E n \in Named(schema, Two(k, m)) : path = <<s, k, m, n>>
  BY DEF TaughtOf
<1> HIDE DEF Two, One, props
<1>2. TaughtOf(schema, s, <<s, a>>) <=> a \in DOMAIN props
  BY <1>1
<1>3. TaughtOf(schema, s, <<s, a, b>>) <=> a \in DOMAIN props /\ b \in Named(schema, One(a))
  BY <1>1
<1>4. TaughtOf(schema, s, <<s, a, b, c>>) <=>
        /\ a \in DOMAIN props /\ b \in Named(schema, One(a))
        /\ ~Two(a, b).forbidden /\ c \in Named(schema, Two(a, b))
  BY <1>1
<1>5. QED BY <1>2, <1>3, <1>4 DEF Two, One, props

(* What is taught of a section is what the schema declares below it.       *)
LEMMA TaughtIsDeclared ==
  ASSUME NEW schema, WellFormed(schema), NEW s \in Shaped,
         schema.sections[s].form = "object",
         NEW K, NEW n \in 1 .. 3, NEW q \in [1 .. n -> K]
  PROVE  Declares(schema, schema.sections[s], q) <=> TaughtOf(schema, s, Below(s, q))
<1> DEFINE section == schema.sections[s]
           one == Child(schema, section, q[1])
           two == Child(schema, one, q[2])
<1>1. Properties(schema, section) = section.props /\ "context_ref" \notin DOMAIN section.props
  BY DEF WellFormed, Properties
<1>2. Named(schema, section) = DOMAIN section.props /\ one = section.props[q[1]]
  BY <1>1 DEF Named, Child
<1>3. Len(q) = n
  BY PathBehind
<1>4. Declares(schema, section, q) <=>
        /\ q[1] \in Named(schema, section)
        /\ n > 1 => ~one.forbidden /\ q[2] \in Named(schema, one)
        /\ n > 2 => ~two.forbidden /\ q[3] \in Named(schema, two)
  BY <1>3, DeclaresKeys
<1>5. q[1] \in DOMAIN section.props => ~one.forbidden
  BY <1>2 DEF WellFormed
<1>6. /\ TaughtOf(schema, s, <<s, q[1]>>) <=> q[1] \in DOMAIN section.props
      /\ TaughtOf(schema, s, <<s, q[1], q[2]>>) <=>
           q[1] \in DOMAIN section.props /\ q[2] \in Named(schema, one)
      /\ TaughtOf(schema, s, <<s, q[1], q[2], q[3]>>) <=>
           /\ q[1] \in DOMAIN section.props /\ q[2] \in Named(schema, one)
           /\ ~two.forbidden /\ q[3] \in Named(schema, two)
  BY <1>2, TaughtKeys
<1>7. CASE n = 1
  <2>1. Below(s, q) = <<s, q[1]>>
    BY <1>7, BehindOne
  <2> HIDE DEF section, one, two
  <2>2. QED BY <1>2, <1>4, <1>6, <1>7, <2>1 DEF section
<1>8. CASE n = 2
  <2>1. Below(s, q) = <<s, q[1], q[2]>>
    BY <1>8, BehindTwo
  <2> HIDE DEF section, one, two
  <2>2. QED BY <1>2, <1>4, <1>5, <1>6, <1>8, <2>1 DEF section
<1>9. CASE n = 3
  <2>1. Below(s, q) = <<s, q[1], q[2], q[3]>>
    BY <1>9, BehindThree
  <2> HIDE DEF section, one, two
  <2>2. QED BY <1>2, <1>4, <1>5, <1>6, <1>9, <2>1 DEF section
<1>10. QED BY <1>7, <1>8, <1>9

(* A path is its first name and what is behind it.                         *)
LEMMA PathSplits ==
  ASSUME NEW K, NEW path \in Seq(K), Len(path) \in 2 .. 4
  PROVE  /\ Len(path) - 1 \in 1 .. 3
         /\ Tail(path) \in [1 .. Len(path) - 1 -> K]
         /\ path = Below(path[1], Tail(path))
<1>1. /\ Len(path) - 1 \in 1 .. 3 /\ Tail(path) \in Seq(K) /\ Len(Tail(path)) = Len(path) - 1
      /\ \A i \in 1 .. Len(path) - 1 : Tail(path)[i] = path[i + 1]
  OBVIOUS
<1> DEFINE b == Below(path[1], Tail(path))
           t == Tail(path)
<1>2. b \in Seq(K) /\ Len(b) = Len(path) /\ \A i \in 1 .. Len(path) : b[i] = path[i]
  BY <1>1 DEF Below
<1> HIDE DEF b, t
<1>3. path = b
  BY <1>2, SamePath
<1>4. t \in [1 .. Len(path) - 1 -> K]
  <2>1. t \in Seq(K) /\ Len(t) = Len(path) - 1
    BY <1>1 DEF t
  <2>2. t \in [1 .. Len(t) -> K]
    BY <2>1
  <2>3. QED BY <2>1, <2>2
<1>5. QED BY <1>1, <1>3, <1>4 DEF b, t

LEMMA TaughtLength ==
  ASSUME NEW schema, NEW s, schema.sections[s].form = "object",
         NEW path, TaughtOf(schema, s, path)
  PROVE  path \in Seq(Range(path)) /\ Len(path) \in 2 .. 4 /\ path[1] = s
<1>1. \/ \E k : path = <<s, k>>
      \/ \E k, m : path = <<s, k, m>>
      \/ \E k, m, n : path = <<s, k, m, n>>
  BY DEF TaughtOf
<1>2. ASSUME NEW S, path \in Seq(S) PROVE path \in Seq(Range(path))
  BY <1>2 DEF Range
<1>3. ASSUME NEW k, path = <<s, k>>
      PROVE  path \in Seq({s, k}) /\ Len(path) \in 2 .. 4 /\ path[1] = s
  BY <1>3
<1>4. ASSUME NEW k, NEW m, path = <<s, k, m>>
      PROVE  path \in Seq({s, k, m}) /\ Len(path) \in 2 .. 4 /\ path[1] = s
  BY <1>4
<1>5. ASSUME NEW k, NEW m, NEW n, path = <<s, k, m, n>>
      PROVE  path \in Seq({s, k, m, n}) /\ Len(path) \in 2 .. 4 /\ path[1] = s
  BY <1>5
<1>6. QED BY <1>1, <1>2, <1>3, <1>4, <1>5

(* The lines of a schema that composes, each told by its own path.         *)
LEMMA LinesTold ==
  ASSUME NEW schema, WellFormed(schema), SectionShapes(schema).ok, NEW l
  PROVE  l \in SectionShapes(schema).value <=>
           \E s \in Shaped : \E path : TaughtOf(schema, s, path) /\ l = Told(schema, path)
<1>1. /\ \A s \in Shaped : ~Unratified(schema, s)
      /\ SectionShapes(schema).value = UNION {SectionLines(schema, s) : s \in Shaped}
  BY DEF SectionShapes, Returned, Raised
<1>2. \A s \in Shaped : schema.sections[s].form \in {"malformed", "object"}
  BY <1>1 DEF WellFormed, Unratified
<1>3. ASSUME NEW s \in Shaped
      PROVE  l \in SectionLines(schema, s) <=>
               \E path : TaughtOf(schema, s, path) /\ l = Told(schema, path)
  BY <1>2, SectionLinesTold
<1>4. QED BY <1>1, <1>3

LEMMA PathInReach ==
  ASSUME NEW schema, NEW K, NEW s \in Shaped, schema.sections[s].form = "object",
         NEW q \in UNION {[1 .. n -> K] : n \in 1 .. 3}
  PROVE  Below(s, q) \in KeyPaths(schema, K)
<1> DEFINE reach == UNION {[1 .. n -> K] : n \in 1 .. 3}
           open  == {t \in Shaped : schema.sections[t].form = "object"}
<1>1. KeyPaths(schema, K) = {Below(t, path) : t \in open, path \in reach}
  BY DEF KeyPaths
<1>2. s \in open
  OBVIOUS
<1> HIDE DEF open, reach
<1>3. QED BY <1>1, <1>2 DEF reach

LEMMA TaughtIsShaped ==
  ASSUME NEW schema, WellFormed(schema), NEW s \in Shaped,
         schema.sections[s].form = "object",
         NEW p, TaughtOf(schema, s, p), NEW K, Range(p) \subseteq K
  PROVE  p \in KeyPaths(schema, K) /\ Shapes(schema, p)
<1>1. p \in Seq(Range(p)) /\ Len(p) \in 2 .. 4 /\ p[1] = s
  BY TaughtLength
<1>2. p \in Seq(K)
  BY <1>1
<1> DEFINE q == Tail(p)
           n == Len(p) - 1
<1>3. n \in 1 .. 3 /\ q \in [1 .. n -> K] /\ p = Below(s, q)
  BY <1>1, <1>2, PathSplits
<1>4. Shapes(schema, p) <=> Declares(schema, schema.sections[s], q)
  BY <1>1 DEF Shapes
<1> HIDE DEF q, n
<1>5. Declares(schema, schema.sections[s], q)
  BY <1>3, TaughtIsDeclared
<1>6. q \in UNION {[1 .. m -> K] : m \in 1 .. 3}
  BY <1>3
<1>7. p \in KeyPaths(schema, K)
  BY <1>3, <1>6, PathInReach
<1>8. QED BY <1>4, <1>5, <1>7

LEMMA ShapedIsTaught ==
  ASSUME NEW schema, WellFormed(schema), NEW K, NEW p \in KeyPaths(schema, K),
         Shapes(schema, p)
  PROVE  \E s \in Shaped : TaughtOf(schema, s, p)
<1>1. PICK s \in {t \in Shaped : schema.sections[t].form = "object"},
           q \in UNION {[1 .. n -> K] : n \in 1 .. 3} : p = Below(s, q)
  BY DEF KeyPaths
<1>2. PICK n \in 1 .. 3 : q \in [1 .. n -> K]
  BY <1>1
<1>3. q \in Seq(K)
  BY <1>2
<1>4. Below(s, q)[1] = s
  BY <1>3, FirstOfPath, Zenon
<1>5. Tail(Below(s, q)) = q
  BY <1>3, RestOfPath, Zenon
<1>6. Declares(schema, schema.sections[s], q)
  BY <1>1, <1>4, <1>5 DEF Shapes
<1>7. TaughtOf(schema, s, p)
  BY <1>1, <1>2, <1>6, TaughtIsDeclared
<1>8. QED BY <1>7

LEMMA ShapesHold == PromptInv => ShapesAreTaught
<1> SUFFICES ASSUME PromptInv PROVE ShapesAreTaught
  OBVIOUS
<1> DEFINE lines  == prompt.prefix[5]
           schema == prompt.files.schema
           known  == KeysIn(schema) \cup NamesIn(lines)
           paths  == {l.path : l \in lines}
           shaped == {p \in KeyPaths(schema, known) : Shapes(schema, p)}
           Taught(p) == \E s \in Shaped : TaughtOf(schema, s, p)
<1>1. CASE ~Composed(prompt)
  BY <1>1 DEF ShapesAreTaught
<1>2. CASE Composed(prompt)
  <2>1. WellFormed(schema) /\ SectionShapes(schema).ok /\ lines = SectionShapes(schema).value
    BY <1>2, SchemaAssumption DEF PromptInv, Holds, Prefix
  <2>2. (paths = shaped \cup ClosedPaths(schema) /\ \A l, m \in lines : l.path = m.path => l = m)
          => ShapesAreTaught
    BY DEF ShapesAreTaught
  <2>3. \A p \in paths : Range(p) \subseteq known
    BY DEF NamesIn
  <2> HIDE DEF lines, schema, known
  <2>4. \A s \in Shaped : schema.sections[s].form \in {"malformed", "object"}
    BY <2>1 DEF SectionShapes, WellFormed, Unratified, Raised
  <2>5. \A l : l \in lines <=> \E p : Taught(p) /\ l = Told(schema, p)
    BY <2>1, LinesTold
  <2>6. \A p : Told(schema, p).path = p
    BY DEF Told
  <2>7. \A l \in lines : Taught(l.path) /\ l = Told(schema, l.path)
    BY <2>5, <2>6
  <2>8. \A p : p \in paths <=> Taught(p)
    BY <2>5, <2>6
  <2>9. ASSUME NEW p, Taught(p) PROVE p \in shaped \cup ClosedPaths(schema)
    <3>1. PICK s \in Shaped : TaughtOf(schema, s, p)
      BY <2>9
    <3>2. CASE schema.sections[s].form = "malformed"
      BY <3>1, <3>2 DEF TaughtOf, ClosedPaths
    <3>3. CASE schema.sections[s].form = "object"
      <4>1. Range(p) \subseteq known
        BY <2>3, <2>8, <2>9
      <4>2. p \in KeyPaths(schema, known) /\ Shapes(schema, p)
        BY <2>1, <3>1, <3>3, <4>1, TaughtIsShaped
      <4>3. QED BY <4>2
    <3>4. QED BY <2>4, <3>2, <3>3
  <2>10. \A p \in shaped : Taught(p)
    BY <2>1, ShapedIsTaught
  <2>11. \A p \in ClosedPaths(schema) : Taught(p)
    BY DEF TaughtOf, ClosedPaths
  <2> HIDE DEF paths, shaped, Taught
  <2>12. paths = shaped \cup ClosedPaths(schema)
    BY <2>8, <2>9, <2>10, <2>11
  <2>13. \A l, m \in lines : l.path = m.path => l = m
    BY <2>7
  <2>14. QED BY <2>2, <2>12, <2>13
<1>3. QED BY <1>1, <1>2

(* Of every schema that is as well formed as the pinned one, a composed    *)
(* prompt teaches each key within its reach once, a forbidden one as       *)
(* forbidden and with nothing below it, and nothing else                   *)
(* (prompt.py:323-495).                                                    *)
THEOREM ShapesTaught == PromptSpec => []ShapesAreTaught
BY ShapesHold, PromptInvHolds, PTL
=============================================================================
