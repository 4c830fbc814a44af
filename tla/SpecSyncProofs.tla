--------------------------- MODULE SpecSyncProofs ---------------------------
(***************************************************************************)
(* The pipeline for every catalog of documents, every set of hand-written  *)
(* entries and every bound: names are unique, and what a sync that ended   *)
(* well leaves fits together, whatever went wrong before it.               *)
(***************************************************************************)
EXTENDS SpecSync, FiniteSetTheorems, TLAPS

(* Of the entry that classify gives a destructive name, or of its beginning. *)
Closed == {"destructive", Absent, "unreadable"}

(* A key that the scan sees comes once, and what nobody wrote by hand is    *)
(* what classify says, or its beginning.                                    *)
Sound(file, written) ==
  /\ \A a, b \in file : a.key = "plain" /\ b.key = "plain" /\ a.op = b.op => a = b
  /\ written \subseteq file
  /\ \A b \in file \ written :
       /\ b.key \in {"plain", "cut"}
       /\ PartsOf(b.op) \cap DestructiveParts # {} => b.entry.class \in Closed

FileInv == Sound(policy, human)

From(stages) == pc \in stages \/ outcome = "ok"

ToClassify == {"bulk-classify", "codegen-skill", "go-test", "classify-check"}
ToSkill    == {"codegen-skill", "go-test", "classify-check"}

(* What the stages behind make have left, up to its end. *)
StageInv ==
  /\ pc # "idle" => outcome = "none"
  /\ From({"codegen-json"} \cup ToClassify) => Loads(spec) /\ goIndex = Index(spec)
  /\ From(ToClassify) => jsonIndex = goIndex
  /\ From(ToSkill) => NamesOf(jsonIndex) \subseteq NamesIn(policy)
  /\ From({"go-test", "classify-check"}) =>
       Parsed(policy) # Malformed /\ skill = SkillRows(jsonIndex, Parsed(policy))
  /\ pc \in {"discover", "fetch", "diff"} => diffed = FALSE
  /\ From({"codegen", "codegen-json"} \cup ToClassify) /\ mode = "merge" /\ diffed =>
       NamesOf(Index(spec)) \ NamesOf(Index(head)) \subseteq report.added

IInv == TypeOK /\ FileInv /\ StageInv
-----------------------------------------------------------------------------
(* Two endpoints with one name before pass 4 have one method: pass 1 has    *)
(* told others apart.                                                       *)
LEMMA SameMethod ==
  ASSUME NEW doc, IsDoc(doc), NEW e \in doc, NEW f \in doc,
         Methodical(doc, e) = Methodical(doc, f)
  PROVE  e.method = f.method /\ Base(e) = Base(f)
<1>1. Base(e) = Base(f)
  BY DEF Methodical
<1>2. SUFFICES ASSUME e.method # f.method PROVE FALSE
  BY <1>1
<1>3. lower[e.method] = lower[f.method]
  BY <1>1, <1>2 DEF Methodical
<1>4. e.method \in Methods /\ f.method \in Methods
  BY DEF IsDoc, IsEndpoint
<1> QED
  BY <1>2, <1>3, <1>4 DEF lower, Methods

(* Of two rows with one name the one with the later path has more rows      *)
(* before it.                                                               *)
LEMMA LaterHasMore ==
  ASSUME NEW doc, IsDoc(doc), NEW e \in doc, NEW f \in doc, e.path < f.path,
         Suffixed(doc, e) = Suffixed(doc, f)
  PROVE  OpName(doc, e).alt # OpName(doc, f).alt
<1>1. e.path \in Nat /\ f.path \in Nat
  BY DEF IsDoc, IsEndpoint
<1>2. IsFiniteSet(Earlier(doc, f))
  <2>1. IsFiniteSet(doc) /\ Earlier(doc, f) \in SUBSET doc
    BY DEF IsDoc, Earlier
  <2> QED
    BY <2>1, FS_Subset
<1>3. Earlier(doc, e) \in SUBSET Earlier(doc, f)
  <2>1. ASSUME NEW g \in Earlier(doc, e) PROVE g \in Earlier(doc, f)
    <3>1. g \in doc /\ g.path < e.path /\ Suffixed(doc, g) = Suffixed(doc, e) /\ g.path \in Nat
      BY <2>1 DEF Earlier, IsDoc, IsEndpoint
    <3>2. g.path < f.path
      BY <1>1, <3>1
    <3> QED
      BY <3>1, <3>2 DEF Earlier
  <2> QED
    BY <2>1
<1>4. e \in Earlier(doc, f) /\ e \notin Earlier(doc, e)
  BY <1>1 DEF Earlier
<1>5. Cardinality(Earlier(doc, e)) # Cardinality(Earlier(doc, f))
  BY <1>2, <1>3, <1>4, FS_Subset
<1> QED
  BY <1>5 DEF OpName

(* A document never gives two endpoints one name. *)
THEOREM OpNameIsUnique ==
  ASSUME NEW doc, IsDoc(doc), NEW e \in doc, NEW f \in doc,
         OpName(doc, e) = OpName(doc, f)
  PROVE  e = f
<1>1. Suffixed(doc, e) = Suffixed(doc, f) /\ OpName(doc, e).alt = OpName(doc, f).alt
  BY DEF OpName
<1>2. Methodical(doc, e) = Methodical(doc, f)
  <2>1. Base(e) = Base(f) /\ Suffixed(doc, e).method = Suffixed(doc, f).method
    BY <1>1 DEF Suffixed, Methodical
  <2> QED
    BY <2>1 DEF Suffixed, Methodical
<1>3. e.method = f.method
  BY <1>2, SameMethod
<1>4. e.path \in Nat /\ f.path \in Nat
  BY DEF IsDoc, IsEndpoint
<1>5. ~(e.path < f.path) /\ ~(f.path < e.path)
  BY <1>1, LaterHasMore
<1>6. e.path = f.path
  BY <1>4, <1>5
<1> QED
  BY <1>3, <1>6 DEF IsDoc

(* The rows of a directory are those of its documents. *)
LEMMA IndexRows ==
  ASSUME NEW files, NEW s \in Sections, files[s] \in Catalog[s] \cup {NoFile}
  PROVE  Rows[files[s]] = extractOps(files[s])
BY DEF Rows

(* Nor does an index of several documents: a name begins with its section.  *)
LEMMA IndexIsUnique ==
  ASSUME NEW files \in Trees, NEW a \in Index(files), NEW b \in Index(files), a.op = b.op
  PROVE  a = b
<1>0. \A s \in Sections : Rows[files[s]] = extractOps(files[s])
  BY IndexRows DEF Trees
<1>1. PICK s \in Sections : a \in extractOps(files[s])
  BY <1>0 DEF Index
<1>2. PICK t \in Sections : b \in extractOps(files[t])
  BY <1>0 DEF Index
<1>3. PICK e \in files[s] : a = [op |-> OpName(files[s], e), at |-> e]
  BY <1>1 DEF extractOps
<1>4. PICK f \in files[t] : b = [op |-> OpName(files[t], f), at |-> f]
  BY <1>2 DEF extractOps
<1>5. files[s] \in Catalog[s] /\ files[t] \in Catalog[t]
  BY <1>3, <1>4 DEF Trees, NoFile
<1>6. e.section = s /\ f.section = t /\ IsDoc(files[s])
  BY <1>3, <1>4, <1>5, CatalogAssumption
<1>7. OpName(files[s], e) = OpName(files[t], f)
  BY <1>3, <1>4
<1>8. Base(e) = Base(f)
  BY <1>7 DEF OpName, Suffixed, Methodical
<1>9. s = t
  BY <1>6, <1>8 DEF Base
<1> QED
  BY <1>3, <1>4, <1>6, <1>7, <1>9, OpNameIsUnique
-----------------------------------------------------------------------------
LEMMA LoadedIsATree ==
  ASSUME TypeOK, Loads(spec)
  PROVE  spec \in Trees
<1>1. \A s \in Sections : spec[s] \in Catalog[s] \cup {NoFile}
  BY DEF TypeOK, Loads
<1>2. spec \in [Sections -> UNION {Catalog[s] \cup {NoFile} : s \in Sections}]
  BY <1>1 DEF TypeOK
<1> QED
  BY <1>1, <1>2 DEF Trees

LEMMA ClassifyIsAnEntry ==
  ASSUME NEW op, NEW method
  PROVE  classify(op, method) \in Entries
BY DEF classify, ByMethod, Destructive, Entry, Entries, Classes, Approvals, NoThreshold,
       BulkThreshold, Absent

LEMMA HeuristicsAreAFile ==
  ASSUME NEW index
  PROVE  IsFile({Heuristic(row) : row \in index})
<1> SUFFICES ASSUME NEW row \in index
             PROVE  LET b == Heuristic(row)
                    IN /\ b = Block(b.op, b.entry, b.key) /\ b.entry \in Entries
                       /\ b.key = "plain"
  BY DEF IsFile, Keys, Styles
<1>1. Heuristic(row) = Block(row.op, classify(row.op, row.at.method), "plain")
  BY DEF Heuristic
<1>2. classify(row.op, row.at.method) \in Entries
  BY ClassifyIsAnEntry
<1> QED
  BY <1>1, <1>2 DEF Block

LEMMA InitType == Init => TypeOK
<1> SUFFICES ASSUME Init PROVE TypeOK
  OBVIOUS
<1>1. tenant \in Trees
  BY CatalogAssumption DEF Init, Trees
<1>2. spec \in [Sections -> UNION {Catalog[s] \cup {NoFile, Torn} : s \in Sections}]
  BY <1>1 DEF Init, Trees
<1>3. \A s \in Sections : spec[s] \in Catalog[s] \cup {NoFile, Torn}
  BY <1>1 DEF Init, Trees
<1>4. goIndex \in Indexes /\ jsonIndex \in Indexes
  BY <1>1 DEF Init, Indexes
<1>5. IsFile(policy) /\ IsFile(human)
  BY HeuristicsAreAFile DEF Init, buildPolicyYAML, IsFile
<1>6. attempt \in 0..Retries /\ changes \in 0..MaxChanges
      /\ edits \in 0..MaxEdits /\ faults \in 0..MaxFaults
  BY BoundsAssumption DEF Init
<1> QED
  BY <1>1, <1>2, <1>3, <1>4, <1>5, <1>6 DEF Init, TypeOK, Stages

LEMMA EditIsTyped ==
  ASSUME TypeOK, NEW file, NEW written, IsFile(file), IsFile(written), Edit(file, written)
  PROVE  TypeOK'
<1>1. IsFile(policy)' /\ IsFile(human)'
  BY DEF Edit, IsFile
<1>2. edits' \in 0..MaxEdits
  BY BoundsAssumption DEF TypeOK, Edit
<1>3. UNCHANGED <<tenant, spec, goIndex, jsonIndex, skill, head, review, pc, run, changes, faults>>
  BY DEF Edit
<1> QED
  BY <1>1, <1>2, <1>3 DEF TypeOK, Edit, run, review

LEMMA MergeIsAFile ==
  ASSUME NEW file, IsFile(file), NEW index, NEW prune
  PROVE  IsFile(mergePolicy(file, index, prune))
<1> DEFINE added == {Heuristic(row) : row \in {r \in index : KeyText(r.op, "plain") \notin existingOps(file)}}
<1>1. IsFile(added)
  BY HeuristicsAreAFile
<1>2. mergePolicy(file, index, prune) \subseteq file \cup added
  BY DEF mergePolicy, removeEntriesByOp
<1> HIDE DEF added
<1> QED
  BY <1>1, <1>2 DEF IsFile

LEMMA StumpsAreBlocks ==
  ASSUME NEW file, IsFile(file), NEW b \in file, NEW stump \in Stumps(b)
  PROVE  /\ stump = Block(stump.op, stump.entry, stump.key) /\ stump.op = b.op
         /\ stump.entry \in Entries \cup {Unreadable} /\ stump.key \in Keys
         /\ stump.key = "cut" => stump.entry = Unreadable
         /\ stump.key \in {b.key, "cut"} \/ (b.key = "inline" /\ stump.key = "plain")
         /\ stump.entry.class \in {b.entry.class, Absent, "unreadable"}
<1>1. /\ b.entry \in Entries \cup {Unreadable} /\ b.key \in Keys
      /\ b.key = "cut" => b.entry = Unreadable
  BY DEF IsFile
<1>2. Blank \in Entries /\ Blank.class = Absent /\ Unreadable.class = "unreadable"
  BY DEF Blank, Unreadable, Entry, Entries, NoThreshold, Approvals
<1>3. ASSUME NEW e \in CutEntries(b.entry)
      PROVE  /\ e \in Entries \cup {Unreadable} /\ e.class \in {b.entry.class, Absent}
             /\ b.entry = Unreadable => e = Unreadable
  <2>1. CASE b.entry = Unreadable
    BY <1>3, <2>1 DEF CutEntries
  <2>2. CASE b.entry # Unreadable
    <3>1. b.entry \in Entries
      BY <1>1, <2>2
    <3>2. {n \div 10 : n \in b.entry.threshold} \in SUBSET Nat /\ b.entry.threshold \in SUBSET Nat
      BY <3>1 DEF Entries
    <3>3. b.entry.class \in Classes \cup {Absent} /\ b.entry.approval \in Approvals
      BY <3>1 DEF Entries
    <3>4. \/ e = Blank \/ e = Entry(b.entry.class, Absent, NoThreshold)
          \/ \E t \in {NoThreshold, {n \div 10 : n \in b.entry.threshold}, b.entry.threshold} :
               e = Entry(b.entry.class, b.entry.approval, t)
      BY <1>3, <2>2 DEF CutEntries
    <3> QED
      BY <1>2, <2>2, <3>2, <3>3, <3>4 DEF Entry, Entries, NoThreshold, Approvals
  <2> QED
    BY <2>1, <2>2
<1>4. \/ stump \in {Block(b.op, Unreadable, b.key), Block(b.op, Unreadable, "cut")}
      \/ \E e \in CutEntries(b.entry) : stump = Block(b.op, e, b.key)
      \/ b.key = "inline" /\ stump = Block(b.op, Blank, "plain")
  BY DEF Stumps
<1> QED
  BY <1>1, <1>2, <1>3, <1>4 DEF Block, Keys, Styles

(* A file cut short is a part of the file, and perhaps a stump.             *)
LEMMA CutShort ==
  ASSUME NEW file, NEW n, NEW f \in CutFiles(file, n)
  PROVE  \/ f \subseteq file
         \/ \E b \in file : \E stump \in Stumps(b), kept \in SUBSET Before(file, b) :
              f = kept \cup {stump}
BY DEF CutFiles

LEMMA CutIsAFile ==
  ASSUME NEW file, IsFile(file), NEW n, NEW f \in CutFiles(file, n)
  PROVE  IsFile(f)
<1>1. CASE f \subseteq file
  BY <1>1 DEF IsFile
<1>2. ASSUME NEW b \in file, NEW stump \in Stumps(b), NEW kept \in SUBSET Before(file, b),
             f = kept \cup {stump}
      PROVE  IsFile(f)
  <2>1. IsFile(kept)
    BY DEF Before, IsFile
  <2>2. IsFile({stump})
    BY StumpsAreBlocks DEF IsFile
  <2> QED
    BY <1>2, <2>1, <2>2 DEF IsFile
<1> QED
  BY <1>1, <1>2, CutShort

LEMMA HeadStumpFacts ==
  /\ IsFile({HeadStump}) /\ HeadStump.key = "cut" /\ HeadStump.entry.class = "unreadable"
BY DEF HeadStump, IsFile, Block, Keys, Unreadable, Entry

LEMMA KillKeepsFiles ==
  ASSUME TypeOK, Kill
  PROVE  IsFile(policy') /\ IsFile(human')
<1>0. IsFile(policy) /\ IsFile(human)
  BY DEF TypeOK
<1>1. CASE UNCHANGED <<policy, human>>
  BY <1>0, <1>1
<1>2. CASE policy' \in CutPolicies /\ human' \subseteq policy'
  <2> DEFINE merged == mergePolicy(policy, jsonIndex, FALSE)
  <2>1. IsFile(merged) /\ IsFile(buildPolicyYAML(jsonIndex))
    BY <1>0, MergeIsAFile, HeuristicsAreAFile DEF buildPolicyYAML
  <2> HIDE DEF merged
  <2>2. IsFile(merged \ policy)
    BY <2>1 DEF IsFile
  <2>3. \/ policy' = {HeadStump}
        \/ policy' \in CutFiles(policy, MaxKept)
        \/ \E f \in CutFiles(merged \ policy, MaxKept) : policy' = policy \cup f
        \/ policy' \in CutFiles(buildPolicyYAML(jsonIndex), MaxKept)
    BY <1>2 DEF CutPolicies, merged
  <2>4. IsFile(policy')
    <3>1. \A f \in CutFiles(merged \ policy, MaxKept) : IsFile(policy \cup f)
      <4>1. \A f \in CutFiles(merged \ policy, MaxKept) : IsFile(f)
        BY <2>2, CutIsAFile
      <4> QED
        BY <1>0, <4>1 DEF IsFile
    <3> QED
      BY <1>0, <2>1, <2>3, <3>1, CutIsAFile, HeadStumpFacts
  <2> QED
    BY <1>2, <2>4 DEF IsFile
<1> QED
  BY <1>1, <1>2 DEF Kill, tree

LEMMA NextCases ==
  ASSUME [Next]_vars
  PROVE  \/ UNCHANGED vars
         \/ Make \/ Kill \/ Prune \/ Commit
         \/ \E s \in Sections : \E doc \in Catalog[s] : TenantChange(s, doc)
         \/ \E b \in policy, entry \in Overrides, key \in Styles : HandEdit(b, entry, key)
         \/ \E b \in policy : HandRemove(b)
         \/ \E target \in {"merge", "regenerate"} : Start(target)
BY DEF Next, Outside

LEMMA InHandIsLeft ==
  ASSUME TypeOK, pc = "fetch"
  PROVE  InHand \in todo /\ InHand \in Sections
BY DEF TypeOK, InHand

(* The variables that a step leaves alone keep their types. *)
LEMMA FilesKeepTypes ==
  ASSUME TypeOK, UNCHANGED tree
  PROVE  /\ spec' \in [Sections -> UNION {Catalog[s] \cup {NoFile, Torn} : s \in Sections}]
         /\ \A s \in Sections : spec'[s] \in Catalog[s] \cup {NoFile, Torn}
         /\ goIndex' \in Indexes \cup {{}} /\ jsonIndex' \in Indexes \cup {{}}
         /\ IsFile(policy')
BY DEF TypeOK, tree

LEMMA FetchedIsTyped ==
  ASSUME TypeOK, NEW s \in Sections, NEW doc \in Catalog[s] \cup {NoFile, Torn},
         spec' = [spec EXCEPT ![s] = doc]
  PROVE  /\ spec' \in [Sections -> UNION {Catalog[t] \cup {NoFile, Torn} : t \in Sections}]
         /\ \A t \in Sections : spec'[t] \in Catalog[t] \cup {NoFile, Torn}
BY DEF TypeOK

LEMMA MakeIsTyped ==
  ASSUME TypeOK, StageInv, Make
  PROVE  TypeOK'
<1> USE DEF Stages
<1>1. CASE Discover
  BY <1>1, BoundsAssumption, FilesKeepTypes DEF Discover, Step, bounds, review, Listed, TypeOK
<1>2. ASSUME NEW from, NEW result \in {"ok", "failed"}, End(from, result) PROVE TypeOK'
  BY <1>2, FilesKeepTypes DEF End, TypeOK, run, review, bounds
<1>3. CASE DiscoverFails \/ FetchFails \/ CodegenFails \/ CodegenSkillFails \/ GoTestFails
           \/ ClassifyCheck
  BY <1>2, <1>3 DEF DiscoverFails, FetchFails, CodegenFails, CodegenSkillFails, GoTestFails,
     ClassifyCheck
<1>4. CASE FetchOne
  <2>1. InHand \in todo /\ InHand \in Sections
    BY <1>4, InHandIsLeft DEF FetchOne, Step
  <2>2. tenant[InHand] \in Catalog[InHand] \cup {NoFile, Torn}
    BY <2>1 DEF TypeOK, Trees
  <2>3. /\ spec' \in [Sections -> UNION {Catalog[t] \cup {NoFile, Torn} : t \in Sections}]
        /\ \A t \in Sections : spec'[t] \in Catalog[t] \cup {NoFile, Torn}
    BY <1>4, <2>1, <2>2, FetchedIsTyped DEF FetchOne
  <2>4. todo' \subseteq Sections /\ (pc' = "fetch" => todo' # {}) /\ pc' \in Stages
    BY <1>4, <2>1 DEF FetchOne, Step, AfterFetch, TypeOK
  <2>5. attempt' \in 0..Retries
    BY <1>4, BoundsAssumption DEF FetchOne
  <2> QED
    BY <1>4, <2>3, <2>4, <2>5 DEF FetchOne, Step, bounds, review, TypeOK
<1>5. CASE Retry
  <2>1. attempt' \in 0..Retries
    <3>1. attempt < Retries /\ attempt' = attempt + 1
      BY <1>5 DEF Retry
    <3>2. attempt \in 0..Retries
      BY DEF TypeOK
    <3> QED
      BY <3>1, <3>2, BoundsAssumption
  <2> QED
    BY <1>5, <2>1, FilesKeepTypes DEF Retry, Step, bounds, review, TypeOK
<1>6. CASE Diff \/ DiffBlind \/ DiffFails \/ DiffDies \/ GoTest
  <2>1. faults' \in 0..MaxFaults
    BY <1>6, BoundsAssumption DEF Diff, DiffBlind, DiffFails, DiffDies, GoTest, Step, bounds, review, TypeOK
  <2> QED
    BY <1>6, <2>1, FilesKeepTypes DEF Diff, DiffBlind, DiffFails, DiffDies, GoTest, Step, review, bounds, run, TypeOK
<1>7. CASE CodegenGo
  <2>1. Index(spec) \in Indexes
    BY <1>7, LoadedIsATree DEF CodegenGo, Indexes
  <2> QED
    BY <1>7, <2>1 DEF CodegenGo, Step, bounds, review, run, TypeOK
<1>8. CASE CodegenJSON
  <2>1. Loads(spec)
    BY <1>8 DEF CodegenJSON, Step, StageInv, From
  <2>2. Index(spec) \in Indexes
    BY <2>1, LoadedIsATree DEF Indexes
  <2> QED
    BY <1>8, <2>2 DEF CodegenJSON, Step, bounds, review, run, TypeOK
<1>9. CASE BulkClassify
  <2>1. IsFile(policy')
    <3>1. IsFile(mergePolicy(policy, jsonIndex, FALSE)) /\ IsFile(buildPolicyYAML(jsonIndex))
      BY MergeIsAFile, HeuristicsAreAFile DEF TypeOK, buildPolicyYAML
    <3> QED
      BY <1>9, <3>1 DEF BulkClassify
  <2>2. IsFile(human')
    BY <1>9 DEF BulkClassify, TypeOK, IsFile
  <2> QED
    BY <1>9, <2>1, <2>2 DEF BulkClassify, Step, bounds, review, run, TypeOK
<1>10. CASE CodegenSkill
  BY <1>10 DEF CodegenSkill, Step, bounds, review, run, TypeOK
<1> QED
  BY <1>1, <1>3, <1>4, <1>5, <1>6, <1>7, <1>8, <1>9, <1>10 DEF Make

LEMMA TypeStep ==
  ASSUME TypeOK, StageInv, [Next]_vars
  PROVE  TypeOK'
<1>1. CASE UNCHANGED vars
  BY <1>1, FilesKeepTypes DEF vars, run, review, bounds, TypeOK
<1>2. CASE Make
  BY <1>2, MakeIsTyped
<1>3. CASE Kill
  <2>1. faults' \in 0..MaxFaults
    <3>1. faults < MaxFaults /\ faults' = faults + 1
      BY <1>3 DEF Kill
    <3>2. faults \in 0..MaxFaults
      BY DEF TypeOK
    <3> QED
      BY <3>1, <3>2, BoundsAssumption
  <2>2. IsFile(policy') /\ IsFile(human')
    BY <1>3, KillKeepsFiles
  <2>3. goIndex' \in Indexes \cup {{}} /\ jsonIndex' \in Indexes \cup {{}}
    BY <1>3 DEF Kill, TypeOK, tree
  <2>4. /\ spec' \in [Sections -> UNION {Catalog[t] \cup {NoFile, Torn} : t \in Sections}]
        /\ \A t \in Sections : spec'[t] \in Catalog[t] \cup {NoFile, Torn}
    <3>1. CASE pc = "fetch" /\ spec' = [spec EXCEPT ![InHand] = Torn]
      BY <3>1, InHandIsLeft, FetchedIsTyped
    <3>2. CASE spec' = spec
      BY <3>2 DEF TypeOK
    <3> QED
      BY <1>3, <3>1, <3>2 DEF Kill, tree
  <2> QED
    BY <1>3, <2>1, <2>2, <2>3, <2>4 DEF Kill, TypeOK, run, review, Stages
<1>4. CASE Prune
  <2>1. IsFile(mergePolicy(policy, jsonIndex, TRUE))
    BY MergeIsAFile DEF TypeOK
  <2>2. IsFile(removeEntriesByOp(human, Orphans(policy, jsonIndex)))
    BY DEF TypeOK, IsFile, removeEntriesByOp
  <2> QED
    BY <1>4, <2>1, <2>2, EditIsTyped DEF Prune
<1>5. CASE Commit
  <2>1. Loads(spec)
    BY <1>5 DEF Commit, StageInv, From
  <2>2. spec \in Trees
    BY <2>1, LoadedIsATree
  <2> QED
    BY <1>5, <2>2, FilesKeepTypes DEF Commit, TypeOK, run, review, bounds, Stages
<1>6. ASSUME NEW s \in Sections, NEW doc \in Catalog[s], TenantChange(s, doc)
      PROVE  TypeOK'
  <2>1. tenant' \in Trees
    BY <1>6 DEF TenantChange, TypeOK, Trees
  <2>2. changes' \in 0..MaxChanges
    BY <1>6, BoundsAssumption DEF TenantChange, TypeOK
  <2> QED
    BY <1>6, <2>1, <2>2, FilesKeepTypes DEF TenantChange, TypeOK, run, review
<1>7. ASSUME NEW b \in policy, NEW entry \in Overrides, NEW key \in Styles,
             HandEdit(b, entry, key)
      PROVE  TypeOK'
  <2> DEFINE block == Block(b.op, entry, key)
  <2>1. IsFile({block})
    BY CatalogAssumption DEF IsFile, Block, Keys, Styles
  <2>2. IsFile((policy \ {b}) \cup {block}) /\ IsFile((human \ {b}) \cup {block})
    BY <2>1 DEF TypeOK, IsFile
  <2> QED
    BY <1>7, <2>2, EditIsTyped DEF HandEdit
<1>8. ASSUME NEW b \in policy, HandRemove(b)
      PROVE  TypeOK'
  <2>1. IsFile(policy \ {b}) /\ IsFile(human \ {b})
    BY DEF TypeOK, IsFile
  <2> QED
    BY <1>8, <2>1, EditIsTyped DEF HandRemove
<1>9. ASSUME NEW target \in {"merge", "regenerate"}, Start(target)
      PROVE  TypeOK'
  BY <1>9, FilesKeepTypes DEF Start, TypeOK, bounds, Stages
<1> QED
  BY <1>1, <1>2, <1>3, <1>4, <1>5, <1>6, <1>7, <1>8, <1>9, NextCases
-----------------------------------------------------------------------------
LEMMA HeuristicFacts ==
  ASSUME NEW row
  PROVE  /\ Heuristic(row).op = row.op /\ Heuristic(row).key = "plain"
         /\ PartsOf(row.op) \cap DestructiveParts # {} => Heuristic(row).entry.class \in Closed
BY DEF Heuristic, Block, classify, Destructive, Entry, Closed

LEMMA IndexesAreUnique ==
  ASSUME NEW index \in Indexes \cup {{}}, NEW a \in index, NEW b \in index, a.op = b.op
  PROVE  a = b
<1>1. PICK files \in Trees : index = Index(files)
  BY DEF Indexes
<1> QED
  BY <1>1, IndexIsUnique

(* Merging adds keys that the scan has not seen, each once. *)
LEMMA MergeIsSound ==
  ASSUME NEW file, NEW written, Sound(file, written), NEW index \in Indexes \cup {{}}
  PROVE  /\ Sound(mergePolicy(file, index, FALSE), written)
         /\ Sound(mergePolicy(file, index, TRUE), removeEntriesByOp(written, Orphans(file, index)))
<1> DEFINE new == {r \in index : KeyText(r.op, "plain") \notin existingOps(file)}
           added == {Heuristic(row) : row \in new}
           merged == file \cup added
<1>1. \A b \in added : \E row \in new :
        /\ b = Heuristic(row) /\ b.op = row.op /\ b.key = "plain"
        /\ PartsOf(b.op) \cap DestructiveParts # {} => b.entry.class \in Closed
  BY HeuristicFacts
<1>2. \A a, b \in added : a.op = b.op => a = b
  BY <1>1, IndexesAreUnique
<1>3. \A a \in file, b \in added : a.key = "plain" => a.op # b.op
  <2>1. \A a \in file : a.key = "plain" => KeyText(a.op, "plain") \in existingOps(file)
    BY DEF existingOps
  <2> QED
    BY <1>1, <2>1
<1>4. \A a, b \in merged : a.key = "plain" /\ b.key = "plain" /\ a.op = b.op => a = b
  BY <1>2, <1>3 DEF Sound
<1>5. written \subseteq merged
  BY DEF Sound
<1>6. \A b \in merged \ written :
        /\ b.key \in {"plain", "cut"}
        /\ PartsOf(b.op) \cap DestructiveParts # {} => b.entry.class \in Closed
  BY <1>1 DEF Sound
<1>7. mergePolicy(file, index, FALSE) = merged
  BY DEF mergePolicy
<1>8. mergePolicy(file, index, TRUE) = removeEntriesByOp(merged, Orphans(file, index))
  BY DEF mergePolicy
<1> HIDE DEF merged
<1>9. Sound(merged, written)
  BY <1>4, <1>5, <1>6 DEF Sound
<1>10. Sound(removeEntriesByOp(merged, Orphans(file, index)),
             removeEntriesByOp(written, Orphans(file, index)))
  BY <1>4, <1>5, <1>6 DEF Sound, removeEntriesByOp
<1> QED
  BY <1>7, <1>8, <1>9, <1>10

LEMMA RewriteIsSound ==
  ASSUME NEW index \in Indexes \cup {{}}
  PROVE  Sound(buildPolicyYAML(index), {})
<1>1. \A b \in buildPolicyYAML(index) : \E row \in index :
        /\ b = Heuristic(row) /\ b.op = row.op /\ b.key = "plain"
        /\ PartsOf(b.op) \cap DestructiveParts # {} => b.entry.class \in Closed
  BY HeuristicFacts DEF buildPolicyYAML
<1>2. \A a, b \in buildPolicyYAML(index) : a.op = b.op => a = b
  BY <1>1, IndexesAreUnique
<1> QED
  BY <1>1, <1>2 DEF Sound

LEMMA EditIsSound ==
  ASSUME Sound(policy, human), Parsed(policy) # Malformed, NEW b \in policy,
         NEW entry, NEW key
  PROVE  Sound((policy \ {b}) \cup {Block(b.op, entry, key)},
               (human \ {b}) \cup {Block(b.op, entry, key)})
<1> DEFINE block == Block(b.op, entry, key)
<1>1. \A x, y \in policy : x.op = y.op => x = y
  BY DEF Parsed
<1>2. block.op = b.op
  BY DEF Block
<1> HIDE DEF block
<1>3. Sound((policy \ {b}) \cup {block}, (human \ {b}) \cup {block})
  BY <1>1, <1>2 DEF Sound
<1> QED
  BY <1>3 DEF block

(* A file cut short, with what is left of a maintainer's blocks.            *)
LEMMA CutIsSound ==
  ASSUME NEW file, NEW written, IsFile(file), Sound(file, written), NEW n,
         NEW f \in CutFiles(file, n), NEW rest \in SUBSET f,
         \A b \in f : (\E h \in written : b = h \/ b \in Stumps(h)) => b \in rest
  PROVE  Sound(f, rest)
<1>1. CASE f \subseteq file
  BY <1>1 DEF Sound
<1>2. ASSUME NEW b \in file, NEW stump \in Stumps(b), NEW kept \in SUBSET Before(file, b),
             f = kept \cup {stump}
      PROVE  Sound(f, rest)
  <2>1. /\ stump.op = b.op
        /\ stump.key \in {b.key, "cut"} \/ (b.key = "inline" /\ stump.key = "plain")
        /\ stump.entry.class \in {b.entry.class, Absent, "unreadable"}
    BY StumpsAreBlocks
  <2>2. \A c \in kept : c \in file /\ ~(c.op = b.op /\ c.key = "plain")
    BY DEF Before
  <2>3. \A x, y \in f : x.key = "plain" /\ y.key = "plain" /\ x.op = y.op => x = y
    BY <1>2, <2>1, <2>2 DEF Sound
  <2>4. \A c \in kept \ rest : c \in file \ written
    BY <1>2, <2>2
  <2>5. stump \notin rest => b \notin written
    BY <1>2
  <2>6. stump \notin rest =>
          /\ stump.key \in {"plain", "cut"}
          /\ PartsOf(stump.op) \cap DestructiveParts # {} => stump.entry.class \in Closed
    BY <2>1, <2>5 DEF Sound, Closed
  <2>7. \A c \in f \ rest :
          /\ c.key \in {"plain", "cut"}
          /\ PartsOf(c.op) \cap DestructiveParts # {} => c.entry.class \in Closed
    BY <1>2, <2>4, <2>6 DEF Sound
  <2> QED
    BY <2>3, <2>7 DEF Sound
<1>3. \/ f \subseteq file
      \/ \E b \in file : \E stump \in Stumps(b), kept \in SUBSET Before(file, b) :
           f = kept \cup {stump}
  BY CutShort
<1> QED
  BY <1>1, <1>2, <1>3

LEMMA KillIsSound ==
  ASSUME IInv, Kill
  PROVE  Sound(policy', human')
<1>0. /\ Sound(policy, human) /\ IsFile(policy)
      /\ jsonIndex \in Indexes \cup {{}}
  BY DEF IInv, FileInv, TypeOK
<1>1. CASE UNCHANGED <<policy, human>>
  BY <1>0, <1>1
<1> DEFINE rest == {b \in policy' : \E h \in human : b = h \/ b \in Stumps(h)}
<1>2. CASE policy' = {HeadStump} /\ human' \subseteq policy'
  BY <1>2, HeadStumpFacts DEF Sound, Closed
<1>3. CASE policy' \in CutFiles(policy, MaxKept) /\ human' = rest
  BY <1>0, <1>3, CutIsSound
<1>4. CASE policy' \in CutFiles(buildPolicyYAML(jsonIndex), MaxKept) /\ human' = {}
  <2>1. Sound(buildPolicyYAML(jsonIndex), {}) /\ IsFile(buildPolicyYAML(jsonIndex))
    BY <1>0, RewriteIsSound, HeuristicsAreAFile DEF buildPolicyYAML
  <2>2. {} \in SUBSET policy'
    OBVIOUS
  <2> QED
    BY <1>4, <2>1, <2>2, CutIsSound
<1>5. ASSUME NEW f \in CutFiles(mergePolicy(policy, jsonIndex, FALSE) \ policy, MaxKept),
             policy' = policy \cup f, human' = rest
      PROVE  Sound(policy', human')
  <2> DEFINE added == mergePolicy(policy, jsonIndex, FALSE) \ policy
  <2>1. /\ Sound(mergePolicy(policy, jsonIndex, FALSE), human)
        /\ IsFile(mergePolicy(policy, jsonIndex, FALSE))
    BY <1>0, MergeIsSound, MergeIsAFile
  <2>2. /\ \A a \in policy, b \in added : a.key = "plain" /\ b.key = "plain" => a.op # b.op
        /\ IsFile(added) /\ Sound(added, {}) /\ \A b \in added : b.key = "plain"
    <3>1. policy \subseteq mergePolicy(policy, jsonIndex, FALSE)
      BY DEF mergePolicy
    <3>2. \A b \in added : b.key = "plain"
      BY HeuristicFacts DEF mergePolicy
    <3> QED
      BY <1>0, <2>1, <3>1, <3>2 DEF Sound, IsFile
  <2>3. {} \in SUBSET f
    OBVIOUS
  <2>4. f \in CutFiles(added, MaxKept)
    BY <1>5
  <2>5. /\ \A b \in f : b.key \in {"plain", "cut"} /\ \E c \in added : c.op = b.op
    <3>1. CASE f \subseteq added
      BY <2>2, <3>1
    <3>2. ASSUME NEW b \in added, NEW stump \in Stumps(b), NEW kept \in SUBSET Before(added, b),
                 f = kept \cup {stump}
          PROVE  \A x \in f : x.key \in {"plain", "cut"} /\ \E c \in added : c.op = x.op
      <4>1. stump.op = b.op /\ stump.key \in {"plain", "cut"}
        BY <2>2, StumpsAreBlocks
      <4>2. kept \subseteq added
        BY DEF Before
      <4> HIDE DEF added
      <4> QED
        BY <2>2, <3>2, <4>1, <4>2
    <3> QED
      BY <2>4, <3>1, <3>2, CutShort
  <2> HIDE DEF added
  <2>6. Sound(f, {})
    BY <2>2, <2>3, <2>4, CutIsSound
  <2>7. \A a \in policy, b \in f : a.key = "plain" /\ b.key = "plain" => a.op # b.op
    BY <2>2, <2>5
  <2>8. \A a, b \in policy' : a.key = "plain" /\ b.key = "plain" /\ a.op = b.op => a = b
    BY <1>0, <1>5, <2>6, <2>7 DEF Sound
  <2>9. human \subseteq rest
    BY <1>0, <1>5 DEF Sound
  <2>10. \A b \in policy' \ human' :
           /\ b.key \in {"plain", "cut"}
           /\ PartsOf(b.op) \cap DestructiveParts # {} => b.entry.class \in Closed
    BY <1>0, <1>5, <2>6, <2>9 DEF Sound
  <2> QED
    BY <1>5, <2>8, <2>10 DEF Sound
<1>6. \/ UNCHANGED <<policy, human>>
      \/ policy' \in CutPolicies /\ human' = (IF mode = "merge" THEN rest ELSE {})
  BY DEF Kill, tree
<1>7. ASSUME policy' \in CutPolicies, human' = (IF mode = "merge" THEN rest ELSE {})
      PROVE  \/ policy' = {HeadStump} /\ human' \subseteq policy'
             \/ policy' \in CutFiles(policy, MaxKept) /\ human' = rest
             \/ /\ \E f \in CutFiles(mergePolicy(policy, jsonIndex, FALSE) \ policy, MaxKept) :
                     policy' = policy \cup f
                /\ human' = rest
             \/ policy' \in CutFiles(buildPolicyYAML(jsonIndex), MaxKept) /\ human' = {}
  BY <1>7 DEF CutPolicies
<1> HIDE DEF rest
<1> QED
  BY <1>1, <1>2, <1>3, <1>4, <1>5, <1>6, <1>7

LEMMA FileStep ==
  ASSUME IInv, [Next]_vars
  PROVE  FileInv'
<1>0. /\ Sound(policy, human)
      /\ Sound(policy', human') => FileInv'
  BY DEF IInv, FileInv
<1> SUFFICES Sound(policy', human')
  BY <1>0
<1>x. jsonIndex \in Indexes \cup {{}}
  BY DEF IInv, TypeOK
<1>1. CASE UNCHANGED <<policy, human>>
  BY <1>0, <1>1
<1>2. CASE BulkClassify
  <2>1. /\ Sound(mergePolicy(policy, jsonIndex, FALSE), human)
        /\ Sound(buildPolicyYAML(jsonIndex), {})
    BY <1>0, <1>x, MergeIsSound, RewriteIsSound
  <2>2. CASE policy' = mergePolicy(policy, jsonIndex, FALSE) /\ human' = human
    BY <2>1, <2>2
  <2>3. CASE policy' = buildPolicyYAML(jsonIndex) /\ human' = {}
    BY <2>1, <2>3
  <2> QED
    BY <1>2, <2>2, <2>3 DEF BulkClassify
<1>3. CASE Make
  BY <1>1, <1>2, <1>3 DEF Make, Discover, DiscoverFails, FetchOne, Retry, FetchFails, Diff,
     DiffBlind, DiffFails, DiffDies, CodegenGo, CodegenJSON, CodegenFails, CodegenSkill, CodegenSkillFails, GoTest, GoTestFails,
     ClassifyCheck, End, tree
<1>4. CASE Kill
  BY <1>4, KillIsSound
<1>5. CASE Prune
  <2>1. Sound(mergePolicy(policy, jsonIndex, TRUE),
              removeEntriesByOp(human, Orphans(policy, jsonIndex)))
    BY <1>0, <1>x, MergeIsSound
  <2>2. /\ policy' = mergePolicy(policy, jsonIndex, TRUE)
        /\ human' = removeEntriesByOp(human, Orphans(policy, jsonIndex))
    BY <1>5 DEF Prune, Edit
  <2> QED
    BY <2>1, <2>2
<1>6. ASSUME NEW b \in policy, NEW entry \in Overrides, NEW key \in Styles,
             HandEdit(b, entry, key)
      PROVE  Sound(policy', human')
  BY <1>0, <1>6, EditIsSound DEF HandEdit, Edit
<1>7. ASSUME NEW b \in policy, HandRemove(b)
      PROVE  Sound(policy', human')
  BY <1>0, <1>7 DEF HandRemove, Edit, Sound
<1>8. CASE Commit \/ UNCHANGED vars
  BY <1>1, <1>8 DEF Commit, tree, vars
<1>9. ASSUME NEW s \in Sections, NEW doc \in Catalog[s], TenantChange(s, doc)
      PROVE  Sound(policy', human')
  BY <1>1, <1>9 DEF TenantChange, tree
<1>10. ASSUME NEW target, Start(target)
       PROVE  Sound(policy', human')
  BY <1>1, <1>10 DEF Start, tree
<1> QED
  BY <1>3, <1>4, <1>5, <1>6, <1>7, <1>8, <1>9, <1>10, NextCases

(* What StageInv speaks of. *)
held == <<spec, goIndex, jsonIndex, policy, skill, head, review, mode>>

LEMMA IdleIsHeld ==
  ASSUME pc' = "idle", outcome' # "ok"
  PROVE  StageInv'
BY DEF StageInv, From, ToClassify, ToSkill

LEMMA EarlyIsHeld ==
  ASSUME pc' \in {"discover", "fetch", "diff"}, outcome' = "none", diffed' = FALSE
  PROVE  StageInv'
BY DEF StageInv, From, ToClassify, ToSkill

LEMMA MakeKeepsStages ==
  ASSUME IInv, Make
  PROVE  StageInv'
<1>1. StageInv /\ TypeOK
  BY DEF IInv
<1>2. CASE Discover \/ Retry
  BY <1>1, <1>2, EarlyIsHeld DEF Discover, Retry, Step, review, StageInv
<1>3. CASE FetchOne
  <2>1. outcome' = "none" /\ mode' = mode /\ diffed' = FALSE
    BY <1>1, <1>3 DEF FetchOne, Step, review, StageInv
  <2>2. CASE pc' # "codegen"
    BY <1>3, <2>1, <2>2, EarlyIsHeld DEF FetchOne, Step, AfterFetch
  <2>3. CASE pc' = "codegen"
    <3>1. mode' # "merge"
      BY <1>3, <2>1, <2>3 DEF FetchOne, Step, AfterFetch
    <3> QED
      BY <2>1, <2>3, <3>1 DEF StageInv, From, ToClassify, ToSkill
  <2> QED
    BY <2>2, <2>3
<1>4. CASE DiscoverFails \/ FetchFails \/ CodegenFails \/ CodegenSkillFails \/ GoTestFails
  BY <1>4, IdleIsHeld DEF DiscoverFails, FetchFails, CodegenFails, CodegenSkillFails,
     GoTestFails, End
<1>5. CASE Diff \/ DiffBlind
  <2>1. /\ pc' = "codegen" /\ outcome' = "none" /\ UNCHANGED <<spec, head>>
        /\ \E known \in SUBSET Sections : report' = diffSpecs(loadSpecsFromGit(known), spec)
    <3>1. CASE Diff
      <4>1. head \in Trees
        BY <1>1 DEF TypeOK
      <4>2. loadSpecsFromGit(Sections) = head
        BY <4>1 DEF loadSpecsFromGit, Trees
      <4> QED
        BY <1>1, <3>1, <4>2 DEF Diff, Step, tree, StageInv
    <3>2. CASE DiffBlind
      BY <1>1, <3>2 DEF DiffBlind, tree, StageInv
    <3> QED
      BY <1>5, <3>1, <3>2
  <2>2. ASSUME NEW known \in SUBSET Sections
        PROVE  Index(loadSpecsFromGit(known)) \subseteq Index(head)
    <3>1. \A s \in Sections : loadSpecsFromGit(known)[s] \in {head[s], {}}
      BY DEF loadSpecsFromGit, NoFile
    <3>2. \A s \in Sections : Rows[NoFile] = {}
      BY DEF Rows, extractOps, NoFile
    <3>3. ASSUME NEW row \in Index(loadSpecsFromGit(known)) PROVE row \in Index(head)
      <4>1. PICK s \in Sections : /\ loadSpecsFromGit(known)[s] # Torn
                                 /\ row \in Rows[loadSpecsFromGit(known)[s]]
        BY <3>3 DEF Index
      <4>2. loadSpecsFromGit(known)[s] = head[s]
        BY <3>1, <3>2, <4>1 DEF NoFile
      <4> QED
        BY <4>1, <4>2 DEF Index
    <3> QED
      BY <3>3
  <2>3. NamesOf(Index(spec)) \ NamesOf(Index(head)) \subseteq report'.added
    BY <2>1, <2>2 DEF diffSpecs, NamesOf
  <2> QED
    BY <2>1, <2>3 DEF StageInv, From, ToClassify, ToSkill
<1>12. CASE DiffFails \/ DiffDies
  BY <1>1, <1>12 DEF DiffFails, DiffDies, Step, review, StageInv, From, ToClassify, ToSkill
<1>6. CASE CodegenGo
  BY <1>1, <1>6 DEF CodegenGo, Step, run, review, StageInv, From, ToClassify, ToSkill, Loads
<1>7. CASE CodegenJSON
  BY <1>1, <1>7 DEF CodegenJSON, Step, run, review, StageInv, From, ToClassify, ToSkill, Loads
<1>8. CASE BulkClassify
  <2>1. NamesOf(jsonIndex) \subseteq NamesIn(mergePolicy(policy, jsonIndex, FALSE))
    <3>1. ASSUME NEW row \in jsonIndex
          PROVE  row.op \in NamesIn(mergePolicy(policy, jsonIndex, FALSE))
      <4>1. CASE KeyText(row.op, "plain") \in existingOps(policy)
        <5>1. PICK b \in policy : KeyText(b.op, b.key) = KeyText(row.op, "plain")
          BY <4>1 DEF existingOps
        <5>2. b.op = row.op /\ b \in mergePolicy(policy, jsonIndex, FALSE)
          BY <5>1 DEF KeyText, mergePolicy
        <5> QED
          BY <5>2 DEF NamesIn
      <4>2. CASE KeyText(row.op, "plain") \notin existingOps(policy)
        BY <4>2, HeuristicFacts DEF mergePolicy, NamesIn
      <4> QED
        BY <4>1, <4>2
    <3> QED
      BY <3>1 DEF NamesOf
  <2>2. NamesOf(jsonIndex) \subseteq NamesIn(buildPolicyYAML(jsonIndex))
    BY HeuristicFacts DEF NamesOf, NamesIn, buildPolicyYAML
  <2>3. NamesOf(jsonIndex) \subseteq NamesIn(policy')
    BY <1>8, <2>1, <2>2 DEF BulkClassify
  <2> QED
    BY <1>1, <1>8, <2>3 DEF BulkClassify, Step, run, review, StageInv, From, ToClassify, ToSkill, Loads
<1>9. CASE CodegenSkill
  BY <1>1, <1>9 DEF CodegenSkill, Step, run, review, StageInv, From, ToClassify, ToSkill, Loads
<1>10. CASE GoTest
  BY <1>1, <1>10 DEF GoTest, Step, tree, run, review, StageInv, From, ToClassify, ToSkill, Loads
<1>11. CASE ClassifyCheck
  BY <1>1, <1>11 DEF ClassifyCheck, End, tree, run, review, StageInv, From, ToClassify, ToSkill, Loads
<1> QED
  BY <1>2, <1>3, <1>4, <1>5, <1>6, <1>7, <1>8, <1>9, <1>10, <1>11, <1>12 DEF Make

LEMMA StageStep ==
  ASSUME IInv, [Next]_vars
  PROVE  StageInv'
<1>1. StageInv
  BY DEF IInv
<1>2. CASE UNCHANGED <<held, pc, outcome>>
  BY <1>1, <1>2 DEF held, review, StageInv, From, Loads
<1>3. CASE Make
  BY <1>3, MakeKeepsStages
<1>4. CASE Kill \/ Prune \/ Commit
  BY <1>4, IdleIsHeld DEF Kill, Prune, Edit, Commit
<1>5. ASSUME NEW s \in Sections, NEW doc \in Catalog[s], TenantChange(s, doc)
      PROVE  StageInv'
  BY <1>2, <1>5 DEF TenantChange, held, tree, run, review
<1>6. ASSUME NEW b, NEW entry, NEW key, HandEdit(b, entry, key) \/ HandRemove(b)
      PROVE  StageInv'
  BY <1>6, IdleIsHeld DEF HandEdit, HandRemove, Edit
<1>7. ASSUME NEW target, Start(target)
      PROVE  StageInv'
  BY <1>7, EarlyIsHeld DEF Start
<1>8. CASE UNCHANGED vars
  BY <1>2, <1>8 DEF vars, held, tree, run, review
<1> QED
  BY <1>3, <1>4, <1>5, <1>6, <1>7, <1>8, NextCases

LEMMA InitInv == Init => IInv
<1> SUFFICES ASSUME Init PROVE IInv
  OBVIOUS
<1>1. TypeOK
  BY InitType
<1>2. FileInv
  <2>1. goIndex \in Indexes \cup {{}} /\ human = {}
    BY <1>1 DEF Init, TypeOK
  <2>2. Sound(policy, human)
    BY <2>1, RewriteIsSound DEF Init
  <2> QED
    BY <2>2 DEF FileInv
<1>3. StageInv
  BY DEF Init, StageInv, From, ToClassify, ToSkill
<1> QED
  BY <1>1, <1>2, <1>3 DEF IInv

(* The inductive invariant.                                                 *)
THEOREM Inductive == Spec => []IInv
<1>1. Init => IInv
  BY InitInv
<1>2. IInv /\ [Next]_vars => IInv'
  BY TypeStep, FileStep, StageStep DEF IInv
<1> QED
  BY <1>1, <1>2, PTL DEF Spec

(* Every file keeps its shape, and an index is always made of documents the *)
(* tenant served: codegen never mixes two of one section.                   *)
THEOREM TypeCorrect == Spec => []TypeOK
<1>1. IInv => TypeOK
  BY DEF IInv
<1> QED
  BY <1>1, Inductive, PTL

(* No two endpoints share a command (NamesAreUnique), for every catalog.    *)
THEOREM NamesStayUnique == Spec => []NamesAreUnique
<1>1. IInv => NamesAreUnique
  BY IndexesAreUnique DEF IInv, TypeOK, NamesAreUnique
<1> QED
  BY <1>1, Inductive, PTL

(* No endpoint of a fetched document is lost on the way to the index.       *)
THEOREM NothingIsMissed == Spec => []NothingMissed
<1>1. ASSUME IInv, outcome = "ok"
      PROVE  {row.at : row \in goIndex} = UNION {spec[s] : s \in Sections}
  <2>1. Loads(spec) /\ goIndex = Index(spec)
    BY <1>1 DEF IInv, StageInv, From
  <2>0. \A s \in Sections : spec[s] # Torn /\ Rows[spec[s]] = extractOps(spec[s])
    BY <1>1, <2>1, IndexRows DEF IInv, TypeOK, Loads
  <2>2. \A s \in Sections : \A e \in spec[s] : \E row \in Index(spec) : row.at = e
    <3>1. ASSUME NEW s \in Sections, NEW e \in spec[s]
          PROVE  \E row \in Index(spec) : row.at = e
      <4> DEFINE row == [op |-> OpName(spec[s], e), at |-> e]
      <4>1. row \in extractOps(spec[s])
        BY DEF extractOps
      <4>2. row \in Index(spec)
        BY <2>0, <4>1 DEF Index
      <4> QED
        BY <4>2
    <3> QED
      BY <3>1
  <2>3. \A row \in Index(spec) : \E s \in Sections : row.at \in spec[s]
    BY <2>0 DEF Index, extractOps
  <2> QED
    BY <2>1, <2>2, <2>3
<1>2. IInv => NothingMissed
  BY <1>1 DEF NothingMissed
<1> QED
  BY <1>2, Inductive, PTL

(* The entries a document parses to are those of the file's blocks.         *)
LEMMA ParsedEntries ==
  ASSUME Parsed(policy) # Malformed
  PROVE  /\ Parsed(policy).kind = "document" /\ Parsed(policy).default = builtinDefault
         /\ DOMAIN Parsed(policy).entries = NamesIn(policy)
         /\ \A b \in policy : Parsed(policy).entries[b.op] = b.entry
<1>1. \A a, b \in policy : a.op = b.op => a = b
  BY DEF Parsed
<1>2. Parsed(policy) = Document(builtinDefault,
         [op \in NamesIn(policy) |-> (CHOOSE b \in policy : b.op = op).entry])
  BY DEF Parsed
<1>3. \A b \in policy : (CHOOSE c \in policy : c.op = b.op) = b
  BY <1>1
<1>4. /\ Parsed(policy).kind = "document" /\ Parsed(policy).default = builtinDefault
      /\ Parsed(policy).entries =
           [op \in NamesIn(policy) |-> (CHOOSE b \in policy : b.op = op).entry]
  BY <1>2 DEF Document
<1>5. \A b \in policy : b.op \in NamesIn(policy)
  BY DEF NamesIn
<1> DEFINE at(op) == (CHOOSE b \in policy : b.op = op).entry
<1>6. \A b \in policy : at(b.op) = b.entry
  BY <1>3
<1>7. Parsed(policy).entries = [op \in NamesIn(policy) |-> at(op)]
  BY <1>4
<1> HIDE DEF at
<1> QED
  BY <1>4, <1>5, <1>6, <1>7

(* After a sync that ended well the files agree, whatever failed before.    *)
THEOREM SyncedTreesAgree == Spec => []SyncedTreeAgrees
<1>1. IInv => SyncedTreeAgrees
  BY ParsedEntries DEF IInv, StageInv, From, SyncedTreeAgrees
<1> QED
  BY <1>1, Inductive, PTL

(* No new command is missing from the report that is to be reviewed.        *)
THEOREM ReportIsComplete == Spec => []ReportNamesTheNew
<1>1. IInv => ReportNamesTheNew
  BY DEF IInv, StageInv, From, ReportNamesTheNew
<1> QED
  BY <1>1, Inductive, PTL

(* What a maintainer wrote survives every merge, and is in force.           *)
THEOREM OverridesAlwaysSurvive == Spec => []OverridesSurvive
<1>1. ASSUME IInv, NEW b \in human
      PROVE  b \in policy /\ (Parsed(policy) # Malformed => Classify(Parsed(policy), b.op) = b.entry)
  <2>1. b \in policy
    BY <1>1 DEF IInv, FileInv, Sound
  <2> QED
    BY <2>1, ParsedEntries DEF Classify, NamesIn
<1>2. IInv => OverridesSurvive
  BY <1>1 DEF OverridesSurvive
<1> QED
  BY <1>2, Inductive, PTL

(* The pipeline writes no key twice that its scan sees: a policy that does  *)
(* not parse ends in mid-line, or holds a maintainer's key that the scan    *)
(* misses.                                                                  *)
THEOREM MergesStayParsable == Spec => []MergeKeepsItParsable
<1>1. IInv => MergeKeepsItParsable
  <2> SUFFICES ASSUME IInv, Parsed(policy) = Malformed,
                      \A b \in policy : b.entry # Unreadable
               PROVE  \E a, b \in policy : a # b /\ a.op = b.op /\ a \in human /\ a.key # "plain"
    BY DEF MergeKeepsItParsable
  <2>1. PICK a \in policy, b \in policy : a # b /\ a.op = b.op
    BY DEF Parsed, Document, Malformed
  <2>2. \A c \in policy : c.key # "cut"
    BY DEF IInv, TypeOK, IsFile
  <2>3. a.key # "plain" \/ b.key # "plain"
    BY <2>1 DEF IInv, FileInv, Sound
  <2>4. \A c \in policy : c.key # "plain" => c \in human
    BY <2>2 DEF IInv, FileInv, Sound
  <2> QED
    BY <2>1, <2>3, <2>4
<1> QED
  BY <1>1, Inductive, PTL

(* The command is asked about whichever policy the loader falls back to.    *)
LEMMA InForce ==
  loadActivePolicy(<<Parsed(policy)>>) =
    (IF Parsed(policy) = Malformed THEN Embedded ELSE Parsed(policy))
<1>1. Parsed(policy) # Missing
  <2>1. CASE Parsed(policy) = Malformed
    BY <2>1 DEF Malformed, Missing
  <2>2. CASE Parsed(policy) # Malformed
    BY <2>2, ParsedEntries DEF Missing
  <2> QED
    BY <2>1, <2>2
<1>2. DOMAIN <<Parsed(policy)>> = {1} /\ <<Parsed(policy)>>[1] = Parsed(policy)
  OBVIOUS
<1>3. Load(Parsed(policy)) = Parsed(policy)
  BY <1>1 DEF Load
<1> QED
  BY <1>2, <1>3 DEF loadActivePolicy

(* A destructive name is gated, or refused, at every moment (RiskyIsGated). *)
THEOREM RiskyAlwaysGated == Spec => []RiskyIsGated
<1>1. ASSUME IInv, NEW row \in goIndex,
             PartsOf(row.op) \cap DestructiveParts # {}, row.op \notin NamesIn(human)
      PROVE  LET e == Classify(loadActivePolicy(<<Parsed(policy)>>), row.op)
             IN e.class = Absent \/ IsDestructive(e)
  <2>1. CASE Parsed(policy) = Malformed
    BY <1>1, <2>1, InForce, EmbeddedAssumption DEF Classify
  <2>2. CASE Parsed(policy) # Malformed
    <3>1. CASE row.op \in NamesIn(policy)
      <4>1. PICK b \in policy : b.op = row.op
        BY <3>1 DEF NamesIn
      <4>2. b \notin human
        BY <1>1, <4>1 DEF NamesIn
      <4>3. b.entry.class = Absent \/ IsDestructive(b.entry)
        <5>1. b.entry.class \in Closed
          BY <1>1, <4>1, <4>2 DEF IInv, FileInv, Sound
        <5>2. b.entry # Unreadable /\ b.entry \in Entries \cup {Unreadable}
          BY <1>1, <2>2, <4>1 DEF IInv, TypeOK, IsFile, Parsed
        <5> QED
          BY <5>1, <5>2 DEF Closed, Entries, Classes, Absent, IsDestructive
      <4> QED
        BY <2>2, <3>1, <4>1, <4>3, InForce, ParsedEntries DEF Classify
    <3>2. CASE row.op \notin NamesIn(policy)
      <4>1. Classify(Parsed(policy), row.op) = DefaultOf(Parsed(policy))
        BY <2>2, <3>2, ParsedEntries DEF Classify
      <4>2. IsDestructive(DefaultOf(Parsed(policy)))
        BY <2>2, ParsedEntries DEF DefaultOf, builtinDefault, Entry, IsDestructive, Absent
      <4> QED
        BY <2>2, <4>1, <4>2, InForce
    <3> QED
      BY <3>1, <3>2
  <2> QED
    BY <2>1, <2>2
<1>2. IInv => RiskyIsGated
  BY <1>1 DEF RiskyIsGated, RequiresApproval
<1> QED
  BY <1>2, Inductive, PTL
-----------------------------------------------------------------------------
(* What README.md promises of every sync, and a merge does not keep (an old *)
(* entry outlives a change of method): here for make sync-specs-regenerate. *)

(* From bulk-classify on the policy is the one made from scratch.           *)
RewriteInv ==
  mode = "regenerate" /\ From(ToSkill) => policy = buildPolicyYAML(jsonIndex) /\ human = {}

LEMMA InitRewrite == Init => RewriteInv
BY DEF Init, RewriteInv

LEMMA RewriteStep ==
  ASSUME IInv, RewriteInv, [Next]_vars
  PROVE  RewriteInv'
<1> USE DEF RewriteInv, From, ToSkill
<1>1. StageInv
  BY DEF IInv
<1>2. ASSUME pc' \notin ToSkill, outcome' # "ok" PROVE RewriteInv'
  BY <1>2
<1>3. CASE UNCHANGED <<mode, policy, jsonIndex, human, pc, outcome>>
  BY <1>3
<1>4. CASE Make
  <2>1. CASE Discover \/ FetchOne \/ Retry \/ Diff \/ DiffBlind \/ DiffFails \/ DiffDies \/ CodegenGo \/ CodegenJSON
    BY <1>1, <1>2, <2>1 DEF Discover, FetchOne, Retry, Diff, DiffBlind, DiffFails, DiffDies, CodegenGo, CodegenJSON, Step,
       AfterFetch, StageInv
  <2>2. CASE DiscoverFails \/ FetchFails \/ CodegenFails \/ CodegenSkillFails \/ GoTestFails
    BY <1>2, <2>2 DEF DiscoverFails, FetchFails, CodegenFails, CodegenSkillFails, GoTestFails, End
  <2>3. CASE BulkClassify
    BY <2>3 DEF BulkClassify, Step, run
  <2>4. CASE CodegenSkill \/ GoTest \/ ClassifyCheck
    BY <2>4 DEF CodegenSkill, GoTest, ClassifyCheck, Step, End, tree, run
  <2> QED
    BY <1>4, <2>1, <2>2, <2>3, <2>4 DEF Make
<1>5. CASE Kill \/ Prune \/ Commit
  BY <1>2, <1>5 DEF Kill, Prune, Edit, Commit
<1>6. ASSUME NEW s \in Sections, NEW doc \in Catalog[s], TenantChange(s, doc)
      PROVE  RewriteInv'
  BY <1>3, <1>6 DEF TenantChange, tree, run
<1>7. ASSUME NEW b, NEW entry, NEW key, HandEdit(b, entry, key) \/ HandRemove(b)
      PROVE  RewriteInv'
  BY <1>2, <1>7 DEF HandEdit, HandRemove, Edit
<1>8. ASSUME NEW target, Start(target)
      PROVE  RewriteInv'
  BY <1>2, <1>8 DEF Start
<1>9. CASE UNCHANGED vars
  BY <1>3, <1>9 DEF vars, tree, run
<1> QED
  BY <1>4, <1>5, <1>6, <1>7, <1>8, <1>9, NextCases

(* After a regenerating sync that ended well every command is judged by the *)
(* name and the method it has now, and no entry is anybody's opinion.       *)
JudgedAfresh ==
  outcome = "ok" /\ mode = "regenerate" =>
    /\ human = {}
    /\ \A row \in goIndex :
         Classify(Parsed(policy), row.op) = classify(row.op, row.at.method)

(* So it gives no new API surface a free pass: the promise of README.md:15, *)
(* which a merging sync can break (NoFreePass, the run free_pass), is kept  *)
(* by make sync-specs-regenerate for every catalog, also when what an       *)
(* earlier, killed run left had to be repaired.                             *)
THEOREM RegenerateJudgesAfresh ==
  Spec => []JudgedAfresh /\ [](mode = "regenerate" => NoFreePass)
<1>1. IInv /\ RewriteInv => JudgedAfresh
  <2> SUFFICES ASSUME IInv, RewriteInv, outcome = "ok", mode = "regenerate"
               PROVE  /\ human = {}
                      /\ \A row \in goIndex :
                           Classify(Parsed(policy), row.op) = classify(row.op, row.at.method)
    BY DEF JudgedAfresh
  <2>1. policy = buildPolicyYAML(jsonIndex) /\ human = {}
    BY DEF RewriteInv, From
  <2>2. Parsed(policy) # Malformed /\ jsonIndex = goIndex
    BY DEF IInv, StageInv, From
  <2>3. ASSUME NEW row \in goIndex
        PROVE  Classify(Parsed(policy), row.op) = classify(row.op, row.at.method)
    <3>1. Heuristic(row) \in policy
      BY <2>1, <2>2 DEF buildPolicyYAML
    <3>2. /\ Heuristic(row).op = row.op
          /\ Heuristic(row).entry = classify(row.op, row.at.method)
      BY DEF Heuristic, Block
    <3>3. Parsed(policy).entries[row.op] = classify(row.op, row.at.method)
      BY <2>2, <3>1, <3>2, ParsedEntries
    <3>4. row.op \in DOMAIN Parsed(policy).entries
      BY <2>2, <3>1, <3>2, ParsedEntries DEF NamesIn
    <3> QED
      BY <3>3, <3>4, <2>2, ParsedEntries DEF Classify
  <2> QED
    BY <2>1, <2>3
<1>2. JudgedAfresh => (mode = "regenerate" => NoFreePass)
  BY DEF JudgedAfresh, NoFreePass
<1>3. IInv /\ RewriteInv /\ [Next]_vars => RewriteInv'
  BY RewriteStep
<1> QED
  BY <1>1, <1>2, <1>3, InitRewrite, Inductive, PTL DEF Spec
-----------------------------------------------------------------------------
(* How many steps make can still take: what is behind a stage is not seen   *)
(* again, and a section costs its tries.                                    *)
Place == [s \in Stages |->
  CASE s = "idle"          -> 0
    [] s = "classify-check" -> 1
    [] s = "go-test"       -> 2
    [] s = "codegen-skill" -> 3
    [] s = "bulk-classify" -> 4
    [] s = "codegen-json"  -> 5
    [] s = "codegen"       -> 6
    [] s = "discover"      -> 8
    [] OTHER               -> 7]

Tries == Retries + 1

Left ==
  CASE pc = "fetch"    -> 7 + (Cardinality(todo) * Tries - attempt)
    [] pc = "discover" -> 8 + Cardinality(Sections) * Tries
    [] OTHER           -> Place[pc]

LEMMA ProductGrows ==
  ASSUME NEW m \in Nat, NEW n \in Nat, m <= n
  PROVE  m * Tries \in Nat /\ m * Tries <= n * Tries /\ (m + 1) * Tries = m * Tries + Tries
BY BoundsAssumption DEF Tries

LEMMA TodoIsFinite ==
  ASSUME IsFiniteSet(Sections), TypeOK
  PROVE  /\ IsFiniteSet(todo) /\ Cardinality(todo) \in Nat
         /\ Cardinality(Sections) \in Nat /\ Cardinality(Listed) \in Nat
         /\ Cardinality(Listed) <= Cardinality(Sections)
         /\ todo # {} => Cardinality(todo) > 0
<1>1. todo \in SUBSET Sections /\ Listed \in SUBSET Sections
  BY DEF TypeOK, Listed
<1>2. /\ IsFiniteSet(todo) /\ IsFiniteSet(Listed)
      /\ Cardinality(Listed) <= Cardinality(Sections)
  BY <1>1, FS_Subset
<1> QED
  BY <1>2, FS_CardinalityType, FS_EmptySet

LEMMA LeftTyped ==
  ASSUME IsFiniteSet(Sections), TypeOK
  PROVE  Left \in Nat /\ (pc = "fetch" => Left > 7) /\ (pc = "idle" => Left = 0)
<1>1. CASE pc = "fetch"
  <2>1. Cardinality(todo) \in Nat /\ Cardinality(todo) > 0
    BY <1>1, TodoIsFinite DEF TypeOK
  <2>2. (Cardinality(todo) - 1) * Tries \in Nat
        /\ Cardinality(todo) * Tries = (Cardinality(todo) - 1) * Tries + Tries
    <3>1. Cardinality(todo) - 1 \in Nat /\ (Cardinality(todo) - 1) + 1 = Cardinality(todo)
      BY <2>1
    <3> QED
      BY <3>1, ProductGrows
  <2>3. Tries \in Nat /\ attempt \in Nat /\ attempt < Tries
    BY BoundsAssumption DEF Tries, TypeOK
  <2>4. Left = 7 + (Cardinality(todo) * Tries - attempt)
    BY <1>1 DEF Left, Place, Stages
  <2> QED
    BY <1>1, <2>2, <2>3, <2>4
<1>2. CASE pc = "discover"
  <2>1. Cardinality(Sections) * Tries \in Nat
    BY TodoIsFinite, ProductGrows
  <2>2. Left = 8 + Cardinality(Sections) * Tries
    BY <1>2 DEF Left, Place, Stages
  <2> QED
    BY <1>2, <2>1, <2>2
<1>3. CASE pc \notin {"fetch", "discover"}
  BY <1>3 DEF Left, Place, Stages, TypeOK
<1> QED
  BY <1>1, <1>2, <1>3

LEMMA Places ==
  /\ Place \in [Stages -> 0..8]
  /\ Place["idle"] = 0 /\ Place["classify-check"] = 1 /\ Place["go-test"] = 2
  /\ Place["codegen-skill"] = 3 /\ Place["bulk-classify"] = 4
  /\ Place["codegen-json"] = 5 /\ Place["codegen"] = 6 /\ Place["diff"] = 7
BY DEF Place, Stages

(* A stage that hands over to a later one, or ends make. *)
LEMMA LaterIsLess ==
  ASSUME IsFiniteSet(Sections), TypeOK, pc # "idle",
         \/ pc' = "idle"
         \/ /\ {pc, pc'} \subseteq Stages \ {"discover", "fetch"}
            /\ Place[pc'] < Place[pc]
         \/ /\ pc = "fetch" /\ pc' \in {"diff", "codegen"}
  PROVE  Left' < Left
<1>1. Left' = Place[pc'] /\ Place[pc'] \in Nat
  BY DEF Left, Place, Stages
<1>2. Left \in Nat
  BY LeftTyped
<1>3. CASE pc' = "idle"
  <2>1. Place[pc'] = 0
    BY <1>3, Places
  <2>2. Left > 0
    <3>1. CASE pc \in {"fetch", "discover"}
      BY <3>1, LeftTyped, TodoIsFinite, ProductGrows DEF Left
    <3>2. CASE pc \notin {"fetch", "discover"}
      <4>1. Left = Place[pc]
        BY <3>2 DEF Left
      <4>2. pc \in Stages \ {"idle"}
        BY DEF TypeOK
      <4> QED
        BY <3>2, <4>1, <4>2, Places DEF Stages
    <3> QED
      BY <3>1, <3>2
  <2> QED
    BY <1>1, <1>2, <2>1, <2>2
<1>4. CASE pc = "fetch" /\ pc' \in {"diff", "codegen"}
  <2>1. Left > 7
    BY <1>4, LeftTyped
  <2>2. Place[pc'] \in 0..7
    BY <1>4, Places
  <2> QED
    BY <1>1, <1>2, <2>1, <2>2
<1>5. CASE pc # "fetch" /\ pc # "discover" /\ Place[pc'] < Place[pc]
  <2>1. Left = Place[pc]
    BY <1>5 DEF Left
  <2> QED
    BY <1>1, <1>5, <2>1
<1> QED
  BY <1>3, <1>4, <1>5

LEMMA MakeIsCounted ==
  ASSUME IsFiniteSet(Sections), TypeOK, Make
  PROVE  Left' < Left
<1>1. CASE Discover
  <2>1. pc = "discover" /\ pc' = "fetch" /\ todo' = Listed /\ attempt' = 0
    BY <1>1 DEF Discover, Step
  <2>2. Cardinality(Listed) * Tries <= Cardinality(Sections) * Tries
        /\ Cardinality(Listed) * Tries \in Nat
        /\ Cardinality(Sections) * Tries \in Nat
    BY TodoIsFinite, ProductGrows
  <2>3. Left' = 7 + Cardinality(Listed) * Tries /\ Left = 8 + Cardinality(Sections) * Tries
    BY <2>1, <2>2 DEF Left, Place, Stages
  <2> QED
    BY <2>2, <2>3
<1>2. CASE FetchOne
  <2>1. pc = "fetch" /\ InHand \in todo /\ todo' = todo \ {InHand} /\ attempt' = 0
    BY <1>2, InHandIsLeft DEF FetchOne, Step
  <2>2. CASE todo = {InHand}
    <3>1. pc' \in {"diff", "codegen"}
      BY <1>2, <2>2 DEF FetchOne, Step, AfterFetch
    <3> QED
      BY <2>1, <3>1, LaterIsLess
  <2>3. CASE todo # {InHand}
    <3> DEFINE n == Cardinality(todo')
    <3>1. n \in Nat /\ Cardinality(todo) = n + 1
      BY <2>1, TodoIsFinite, FS_RemoveElement, FS_CardinalityType, FS_Subset
    <3> HIDE DEF n
    <3>2. n * Tries \in Nat /\ (n + 1) * Tries = n * Tries + Tries
      BY <3>1, ProductGrows
    <3>3. pc' = "fetch"
      BY <1>2, <2>3 DEF FetchOne, Step
    <3>4. Left' = 7 + n * Tries
      BY <2>1, <3>2, <3>3 DEF Left, Place, Stages, n
    <3>5. Left = 7 + ((n + 1) * Tries - attempt)
      BY <2>1, <3>1 DEF Left, Place, Stages
    <3>6. attempt \in Nat /\ attempt < Tries /\ Tries \in Nat
      BY BoundsAssumption DEF Tries, TypeOK
    <3> QED
      BY <3>2, <3>4, <3>5, <3>6
  <2> QED
    BY <2>2, <2>3
<1>3. CASE Retry
  <2>1. pc = "fetch" /\ pc' = "fetch" /\ todo' = todo /\ attempt' = attempt + 1
    BY <1>3 DEF Retry, Step
  <2>2. Cardinality(todo) * Tries \in Nat /\ attempt \in Nat
    BY TodoIsFinite, ProductGrows, BoundsAssumption DEF TypeOK
  <2>3. /\ Left = 7 + (Cardinality(todo) * Tries - attempt)
        /\ Left' = 7 + (Cardinality(todo) * Tries - (attempt + 1))
    BY <2>1 DEF Left, Place, Stages
  <2> QED
    BY <2>2, <2>3
<1>4. CASE Diff \/ DiffBlind \/ DiffFails \/ DiffDies \/ CodegenGo \/ CodegenJSON \/ BulkClassify \/ CodegenSkill \/ GoTest
  <2>1. \/ pc = "diff" /\ pc' = "codegen"
        \/ pc = "codegen" /\ pc' = "codegen-json"
        \/ pc = "codegen-json" /\ pc' = "bulk-classify"
        \/ pc = "bulk-classify" /\ pc' = "codegen-skill"
        \/ pc = "codegen-skill" /\ pc' = "go-test"
        \/ pc = "go-test" /\ pc' = "classify-check"
    BY <1>4 DEF Diff, DiffBlind, DiffFails, DiffDies, CodegenGo, CodegenJSON, BulkClassify, CodegenSkill, GoTest, Step
  <2>2. Place[pc'] < Place[pc] /\ {pc, pc'} \subseteq Stages \ {"discover", "fetch"}
    BY <2>1, Places DEF Stages
  <2> QED
    BY <2>1, <2>2, LaterIsLess
<1>5. ASSUME NEW from, NEW result, from # "idle", End(from, result) PROVE Left' < Left
  BY <1>5, LaterIsLess DEF End
<1> QED
  BY <1>1, <1>2, <1>3, <1>4, <1>5 DEF Make, DiscoverFails, FetchFails, CodegenFails,
     CodegenSkillFails, GoTestFails, ClassifyCheck

Counted == Left \in Nat

(* A make that was started takes a bounded number of steps, whatever the    *)
(* tenant answers and wherever a stage fails: each lowers a number that     *)
(* only starting make again raises.  With the scheduling that SyncEnds      *)
(* assumes, this is why it ends.                                            *)
THEOREM StepsRunOut ==
  ASSUME IsFiniteSet(Sections)
  PROVE  Spec => /\ []Counted
                 /\ [][/\ Make => Left' < Left
                       /\ Left' > Left => \E target \in {"merge", "regenerate"} : Start(target)]_vars
<1>1. Spec => []Counted
  <2>1. TypeOK => Counted
    BY LeftTyped DEF Counted
  <2> QED
    BY <2>1, TypeCorrect, PTL
<1>2. ASSUME TypeOK, Counted, Counted', Next
      PROVE  /\ Make => Left' < Left
             /\ Left' > Left => \E target \in {"merge", "regenerate"} : Start(target)
  <2>0. Left \in Nat /\ Left' \in Nat
    BY <1>2 DEF Counted
  <2>1. Make => Left' < Left
    BY <1>2, MakeIsCounted
  <2>2. CASE Kill
    <3>1. Left' < Left
      BY <1>2, <2>2, LaterIsLess DEF Kill
    <3> QED
      BY <2>0, <2>2, <3>1 DEF Make
  <2>3. CASE Outside /\ ~Kill
    <3>1. UNCHANGED <<pc, todo, attempt>>
      BY <2>3 DEF Outside, Prune, Commit, TenantChange, HandEdit, HandRemove, Edit, run
    <3>2. Left' = Left
      BY <3>1 DEF Left
    <3> QED
      BY <2>0, <2>1, <3>2
  <2> QED
    BY <1>2, <2>0, <2>1, <2>2, <2>3 DEF Next
<1> QED
  BY <1>1, <1>2, TypeCorrect, PTL DEF Spec
=============================================================================
