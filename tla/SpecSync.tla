------------------------------ MODULE SpecSync ------------------------------
(***************************************************************************)
(* make sync-specs and make sync-specs-regenerate (Makefile, cmd/ws1-build)*)
(* over the files of the maintainer's clone, while the tenant's API        *)
(* changes, the maintainer edits operations.policy.yaml by hand, and any   *)
(* stage can fail or be killed with the file it writes cut short.           *)
(***************************************************************************)
EXTENDS PolicyFile

CONSTANTS
  Sections,    \* the API sections a tenant can have
  Catalog,     \* per section: the documents the tenant may serve for it
  Committed,   \* what the clone, and the tenant, may start with
  Torn,        \* a file cut short, of which nothing can be read
  Pinned,      \* <<operation, method>> that a test of the repository expects
  Overrides,   \* entries a maintainer writes by hand
  Retries,     \* fetch --retries
  MaxChanges, MaxEdits, MaxFaults, \* bounds of the model, for each kind of event
  MaxEvents,   \* bound: all of these together
  MaxKept      \* bound: the blocks a cut write of the policy leaves of those it writes

NoFile == {}   \* a section without a document, or without a file for it

ASSUME CatalogAssumption ==
  /\ \A s \in Sections : \A doc \in Catalog[s] :
       IsDoc(doc) /\ \A e \in doc : e.section = s
  /\ \A s \in Sections : Torn \notin Catalog[s] \cup {NoFile}
  /\ Committed \subseteq [Sections -> UNION {Catalog[s] : s \in Sections}]
  /\ \A files \in Committed, s \in Sections : files[s] \in Catalog[s]
  /\ Overrides \subseteq Entries

ASSUME BoundsAssumption ==
  {Retries, MaxChanges, MaxEdits, MaxFaults, MaxEvents, MaxKept} \subseteq Nat

(* The document compiled into the binary was once made by bulk-classify.    *)
ASSUME EmbeddedAssumption ==
  /\ Embedded.kind = "document"
  /\ IsDestructive(DefaultOf(Embedded))
  /\ \A op \in DOMAIN Embedded.entries :
       PartsOf(op) \cap DestructiveParts # {} => IsDestructive(Embedded.entries[op])

VARIABLES
  tenant,      \* the document served for each section
  spec,        \* spec/<section>.json
  goIndex,     \* internal/generated/ops_index.go; {} when truncated
  jsonIndex,   \* internal/generated/ops_index.json; {} when truncated
  policy,      \* operations.policy.yaml
  skill,       \* skills/ws1-uem/reference/operation-index.md
  head,        \* spec/ as last committed
  report,      \* .build/diff-report.json, of this make or of an earlier one
  diffed,      \* history: this make wrote it
  pc, mode,    \* the stage make is in, and which of the two targets runs
  todo,        \* discovered sections that fetch has not written
  attempt,     \* failed tries of fetchOne for the section in hand
  outcome,     \* how the last make ended; "none" once the tree was touched
  human,       \* history: the blocks of policy that a maintainer wrote
  changes, edits, faults  \* counters of the bounds

tree   == <<spec, goIndex, jsonIndex, policy, skill>>
run    == <<mode, todo, attempt>>
review == <<report, diffed>>
bounds == <<changes, edits, faults>>
vars   == <<tenant, tree, head, review, pc, run, outcome, human, bounds>>

(* Bound: upgrades, edits and faults together. *)
Eventful == changes + edits + faults < MaxEvents

Stages == {"idle", "discover", "fetch", "diff", "codegen", "codegen-json",
           "bulk-classify", "codegen-skill", "go-test", "classify-check"}

(* The rows of each document there is. *)
Rows == [doc \in UNION {Catalog[s] \cup {NoFile} : s \in Sections} |-> extractOps(doc)]

(* loadSpecs and extractOps over a directory. *)
Index(files) == UNION {Rows[files[s]] : s \in {t \in Sections : files[t] # Torn}}

Loads(files) == \A s \in Sections : files[s] # Torn

(* The difference of two directories.  NoReport: the file is not there. *)
diffSpecs(old, new) == [added   |-> NamesOf(Index(new)) \ NamesOf(Index(old)),
                        removed |-> NamesOf(Index(old)) \ NamesOf(Index(new))]

NoReport == [added |-> {}, removed |-> {}]

Init ==
  /\ tenant \in Committed
  /\ spec = tenant /\ head = tenant
  /\ goIndex = Index(spec) /\ jsonIndex = goIndex
  /\ policy = buildPolicyYAML(goIndex)
  /\ skill = SkillRows(goIndex, Parsed(policy))
  /\ report = NoReport /\ diffed = FALSE
  /\ pc = "idle" /\ mode = "merge" /\ todo = {} /\ attempt = 0
  /\ outcome = "none" /\ human = {}
  /\ changes = 0 /\ edits = 0 /\ faults = 0
-----------------------------------------------------------------------------
Step(from, to) == pc = from /\ pc' = to /\ UNCHANGED <<outcome, bounds, tenant, head>>

(* A stage that returns an error ends make. *)
End(from, result) ==
  /\ pc = from /\ pc' = "idle"
  /\ outcome' = result
  /\ UNCHANGED <<tenant, tree, head, review, run, human, bounds>>

(* make sync-specs, or make sync-specs-regenerate. *)
Start(target) ==
  /\ pc = "idle" /\ pc' = "discover"
  /\ mode' = target /\ outcome' = "none" /\ diffed' = FALSE
  /\ UNCHANGED <<tenant, tree, head, report, todo, attempt, human, bounds>>

Listed == {s \in Sections : tenant[s] # NoFile}

(* discover: the sections linked from the tenant's help page. *)
Discover ==
  /\ Step("discover", "fetch")
  /\ Listed # {}
  /\ todo' = Listed /\ attempt' = 0
  /\ UNCHANGED <<tree, review, mode, human>>

(* No answer, a refusal, or a page without sections. *)
DiscoverFails == End("discover", "failed")

(* fetch goes through the sections in the order of the page. *)
InHand == CHOOSE s \in todo : TRUE

AfterFetch == IF mode = "merge" THEN "diff" ELSE "codegen"

(* fetchAllSections: a valid document replaces the section's file.  The     *)
(* file of a section that is no longer listed stays.                        *)
FetchOne ==
  /\ Step("fetch", IF todo = {InHand} THEN AfterFetch ELSE "fetch")
  /\ tenant[InHand] # NoFile
  /\ spec' = [spec EXCEPT ![InHand] = tenant[InHand]]
  /\ todo' = todo \ {InHand} /\ attempt' = 0
  /\ UNCHANGED <<goIndex, jsonIndex, policy, skill, review, mode, human>>

(* Mutant: the loop has no end. *)
MutRetry ==
  /\ Step("fetch", "fetch")
  /\ attempt' = IF attempt < Retries THEN attempt + 1 ELSE 0
  /\ UNCHANGED <<tree, review, mode, todo, human>>

(* Mutant: one try too many. *)
MutRetryBound ==
  /\ Step("fetch", "fetch")
  /\ attempt <= Retries
  /\ attempt' = attempt + 1
  /\ UNCHANGED <<tree, review, mode, todo, human>>

(* fetchOne: no answer or a 5xx, and tries left. *)
Retry ==
  /\ Step("fetch", "fetch")
  /\ attempt < Retries
  /\ attempt' = attempt + 1
  /\ UNCHANGED <<tree, review, mode, todo, human>>

(* The last try failed, a 4xx, or a document of the wrong shape. *)
FetchFails == End("fetch", "failed")

(* Mutant: the baseline is what was generated last, not what is in HEAD.    *)
MutDiff ==
  /\ Step("diff", "codegen")
  /\ Loads(spec)
  /\ report' = [added |-> NamesOf(Index(spec)) \ NamesOf(goIndex),
                removed |-> NamesOf(goIndex) \ NamesOf(Index(spec))]
  /\ diffed' = TRUE
  /\ UNCHANGED <<tree, run, human>>

(* The baseline: of head what git still shows and loadSpec still reads.     *)
loadSpecsFromGit(known) == [s \in Sections |-> IF s \in known THEN head[s] ELSE NoFile]

(* diff, against HEAD. *)
Diff ==
  /\ Step("diff", "codegen")
  /\ Loads(spec)
  /\ report' = diffSpecs(head, spec) /\ diffed' = TRUE
  /\ UNCHANGED <<tree, run, human>>

(* git fails, or what it shows cannot be kept: diff passes over it.         *)
DiffBlind ==
  /\ pc = "diff" /\ pc' = "codegen"
  /\ Loads(spec)
  /\ Eventful /\ faults < MaxFaults /\ faults' = faults + 1
  /\ \E known \in SUBSET Sections : report' = diffSpecs(loadSpecsFromGit(known), spec)
  /\ diffed' = TRUE
  /\ UNCHANGED <<tenant, tree, head, run, outcome, human, changes, edits>>

(* A document that does not load: diff fails, and make goes on.             *)
DiffFails ==
  /\ Step("diff", "codegen")
  /\ ~Loads(spec)
  /\ UNCHANGED <<tree, review, run, human>>

(* It also fails without room for the baseline or for the report, or when   *)
(* it is killed; it may have truncated the report by then.                  *)
DiffDies ==
  /\ pc = "diff" /\ pc' = "codegen"
  /\ Eventful /\ faults < MaxFaults /\ faults' = faults + 1
  /\ report' \in {report, Torn}
  /\ UNCHANGED <<tenant, tree, head, diffed, run, outcome, human, changes, edits>>

(* codegen-cli writes two files. *)
CodegenGo ==
  /\ Step("codegen", "codegen-json")
  /\ Loads(spec)
  /\ goIndex' = Index(spec)
  /\ UNCHANGED <<spec, jsonIndex, policy, skill, review, run, human>>

(* Mutant: the sidecar is left alone when its names are still right. *)
MutCodegenJSON ==
  /\ Step("codegen-json", "bulk-classify")
  /\ jsonIndex' = IF NamesOf(jsonIndex) = NamesOf(Index(spec)) THEN jsonIndex ELSE Index(spec)
  /\ UNCHANGED <<spec, goIndex, policy, skill, review, run, human>>

CodegenJSON ==
  /\ Step("codegen-json", "bulk-classify")
  /\ jsonIndex' = Index(spec)
  /\ UNCHANGED <<spec, goIndex, policy, skill, review, run, human>>

CodegenFails == ~Loads(spec) /\ End("codegen", "failed")

(* bulk-classify: merge, or rewrite from scratch. *)
BulkClassify ==
  /\ Step("bulk-classify", "codegen-skill")
  /\ IF mode = "merge"
     THEN policy' = mergePolicy(policy, jsonIndex, FALSE) /\ UNCHANGED human
     ELSE policy' = buildPolicyYAML(jsonIndex) /\ human' = {}
  /\ UNCHANGED <<spec, goIndex, jsonIndex, skill, review, run>>

(* codegen-skill reads the index and the merged policy. *)
CodegenSkill ==
  /\ Step("codegen-skill", "go-test")
  /\ Parsed(policy) # Malformed
  /\ skill' = SkillRows(jsonIndex, Parsed(policy))
  /\ UNCHANGED <<spec, goIndex, jsonIndex, policy, review, run, human>>

CodegenSkillFails == Parsed(policy) = Malformed /\ End("codegen-skill", "failed")

(* go build refuses a map literal with a key twice; TestExtractOpsFromReal- *)
(* Spec expects some names to keep their methods.                           *)
Builds == \A a, b \in goIndex : a.op = b.op => a = b

TestsPass == \A p \in Pinned : \E row \in Index(spec) : row.op = p[1] /\ row.at.method = p[2]

GoTest ==
  /\ Step("go-test", "classify-check")
  /\ Builds /\ TestsPass
  /\ UNCHANGED <<tree, review, run, human>>

GoTestFails == ~(Builds /\ TestsPass) /\ End("go-test", "failed")

(* classify-check: every operation has a key in the policy; orphans pass.   *)
Classified ==
  /\ Parsed(policy) # Malformed
  /\ NamesOf(jsonIndex) \subseteq NamesIn(policy)

ClassifyCheck == End("classify-check", IF Classified THEN "ok" ELSE "failed")

Make ==
  \/ Discover \/ DiscoverFails \/ FetchOne \/ Retry \/ FetchFails
  \/ Diff \/ DiffBlind \/ DiffFails \/ DiffDies
  \/ CodegenGo \/ CodegenJSON \/ CodegenFails \/ BulkClassify
  \/ CodegenSkill \/ CodegenSkillFails \/ GoTest \/ GoTestFails \/ ClassifyCheck
-----------------------------------------------------------------------------
(* The text that bulk-classify was writing, cut short: of a merge the text  *)
(* that was there comes first.                                              *)
CutPolicies ==
  {{HeadStump}} \cup
  IF mode = "merge"
  THEN CutFiles(policy, MaxKept) \cup
       {policy \cup f : f \in CutFiles(mergePolicy(policy, jsonIndex, FALSE) \ policy, MaxKept)}
  ELSE CutFiles(buildPolicyYAML(jsonIndex), MaxKept)

(* Make is killed, or the disk is full: os.WriteFile truncates the file and *)
(* then fills it.                                                           *)
Kill ==
  /\ pc # "idle" /\ Eventful /\ faults < MaxFaults
  /\ faults' = faults + 1
  /\ pc' = "idle" /\ outcome' = "failed"
  /\ \/ UNCHANGED <<tree, report, human>>
     \/ /\ pc = "fetch"
        /\ spec' = [spec EXCEPT ![InHand] = Torn]
        /\ UNCHANGED <<goIndex, jsonIndex, policy, skill, report, human>>
     \/ /\ pc = "diff" /\ report' = Torn
        /\ UNCHANGED <<tree, human>>
     \/ /\ pc = "codegen" /\ goIndex' = {}
        /\ UNCHANGED <<spec, jsonIndex, policy, skill, report, human>>
     \/ /\ pc = "codegen-json" /\ jsonIndex' = {}
        /\ UNCHANGED <<spec, goIndex, policy, skill, report, human>>
     \/ /\ pc = "bulk-classify" /\ policy' \in CutPolicies
        /\ human' = IF mode = "merge"
                    THEN {b \in policy' : \E h \in human : b = h \/ b \in Stumps(h)}
                    ELSE {}
        /\ UNCHANGED <<spec, goIndex, jsonIndex, skill, report>>
     \/ /\ pc = "codegen-skill" /\ skill' = {}
        /\ UNCHANGED <<spec, goIndex, jsonIndex, policy, report, human>>
  /\ UNCHANGED <<tenant, head, diffed, run, changes, edits>>

(* The tenant is upgraded: another document for a section, or none.         *)
TenantChange(s, doc) ==
  /\ Eventful /\ changes < MaxChanges /\ doc # tenant[s]
  /\ tenant' = [tenant EXCEPT ![s] = doc]
  /\ changes' = changes + 1
  /\ UNCHANGED <<tree, head, review, pc, run, outcome, human, edits, faults>>

(* What a maintainer does to the policy between two runs of make.           *)
Edit(file, written) ==
  /\ pc = "idle" /\ Eventful /\ edits < MaxEdits
  /\ policy' = file /\ human' = written
  /\ edits' = edits + 1 /\ outcome' = "none"
  /\ UNCHANGED <<tenant, spec, goIndex, jsonIndex, skill, head, review, pc, run, changes, faults>>

(* An entry is replaced by hand, with its key written in any of the ways    *)
(* that are the same to YAML.                                               *)
HandEdit(b, entry, key) ==
  /\ Parsed(policy) # Malformed
  /\ LET block == Block(b.op, entry, key)
     IN Edit((policy \ {b}) \cup {block}, (human \ {b}) \cup {block})

HandRemove(b) == Edit(policy \ {b}, human \ {b})

(* bulk-classify --prune. *)
Prune ==
  /\ jsonIndex # {}
  /\ LET pruned == mergePolicy(policy, jsonIndex, TRUE)
     IN Edit(pruned, removeEntriesByOp(human, Orphans(policy, jsonIndex)))

(* The maintainer commits what a successful sync left. *)
Commit ==
  /\ pc = "idle" /\ outcome = "ok"
  /\ head' = spec /\ outcome' = "none"
  /\ UNCHANGED <<tenant, tree, review, pc, run, human, bounds>>

Outside ==
  \/ Kill \/ Prune \/ Commit
  \/ \E s \in Sections : \E doc \in Catalog[s] : TenantChange(s, doc)
  \/ \E b \in policy, entry \in Overrides, key \in Styles : HandEdit(b, entry, key)
  \/ \E b \in policy : HandRemove(b)

Next == Make \/ Outside \/ \E target \in {"merge", "regenerate"} : Start(target)

(* A stage that runs ends: each request has a timeout and the rest is local *)
(* work.  Nobody has to start make.                                         *)
Spec == Init /\ [][Next]_vars /\ WF_vars(Make)
-----------------------------------------------------------------------------
(* Every set of files a fetch can leave, and every index made of one. *)
Trees == {files \in [Sections -> UNION {Catalog[s] \cup {NoFile} : s \in Sections}] :
            \A s \in Sections : files[s] \in Catalog[s] \cup {NoFile}}
Indexes == {Index(files) : files \in Trees}

IsFile(file) ==
  \A b \in file : /\ b = Block(b.op, b.entry, b.key)
                  /\ b.entry \in Entries \cup {Unreadable} /\ b.key \in Keys
                  /\ b.key = "cut" => b.entry = Unreadable

TypeOK ==
  /\ tenant \in Trees /\ head \in Trees
  /\ spec \in [Sections -> UNION {Catalog[s] \cup {NoFile, Torn} : s \in Sections}]
  /\ \A s \in Sections : spec[s] \in Catalog[s] \cup {NoFile, Torn}
  /\ goIndex \in Indexes \cup {{}} /\ jsonIndex \in Indexes \cup {{}}
  /\ IsFile(policy) /\ IsFile(human) /\ diffed \in BOOLEAN
  /\ pc \in Stages /\ mode \in {"merge", "regenerate"}
  /\ todo \subseteq Sections /\ (pc = "fetch" => todo # {})
  /\ attempt \in 0..Retries
  /\ outcome \in {"none", "ok", "failed"}
  /\ changes \in 0..MaxChanges /\ edits \in 0..MaxEdits /\ faults \in 0..MaxFaults

(* Two endpoints never get one name, whatever the tenant serves: the index  *)
(* is a map literal and the policy speaks of names (disambiguateCollisions).*)
NamesAreUnique ==
  \A index \in {goIndex, jsonIndex} : \A a, b \in index : a.op = b.op => a = b

(* After a sync that ended well every endpoint of every fetched document is *)
(* a command: naming drops none of them (extractOps, deduplication).        *)
NothingMissed ==
  outcome = "ok" => {row.at : row \in goIndex} = UNION {spec[s] : s \in Sections}

(* After a sync that ended well, also one that repaired what killed ones    *)
(* left, the two indexes agree, the policy parses and has an entry for      *)
(* every command, and the skill's table shows those entries.                *)
SyncedTreeAgrees ==
  outcome = "ok" =>
    /\ jsonIndex = goIndex
    /\ Parsed(policy) # Malformed
    /\ NamesOf(goIndex) \subseteq DOMAIN Parsed(policy).entries
    /\ skill = SkillRows(goIndex, Parsed(policy))

(* A command that HEAD does not have is named in the report the maintainer  *)
(* is told to review, however many syncs lie between, and also when git     *)
(* shows only a part of HEAD (diffSpecs).  Where diff itself failed make    *)
(* does not look, and the report is an older one, or cut short, or none.    *)
ReportNamesTheNew ==
  outcome = "ok" /\ mode = "merge" /\ diffed =>
    NamesOf(goIndex) \ NamesOf(Index(head)) \subseteq report.added

(* What a maintainer wrote stays in the file, and in force while the file   *)
(* parses, until it is edited, pruned or regenerated: no number of merges,  *)
(* failed or killed runs touches it (mergePolicy).  Of a write that is cut  *)
(* short this is true of what is left.                                      *)
OverridesSurvive ==
  \A b \in human :
    /\ b \in policy
    /\ Parsed(policy) # Malformed => Classify(Parsed(policy), b.op) = b.entry

(* A policy stops parsing for two reasons only: a write that was cut short  *)
(* ended in mid-line, or a key that a maintainer wrote by hand, in a way    *)
(* that the scan of a merge misses, comes twice.  However many merges, kills *)
(* and edits there were, none wrote twice a key that the scan sees.         *)
MergeKeepsItParsable ==
  Parsed(policy) = Malformed =>
    \/ \E b \in policy : b.entry = Unreadable
    \/ \E a, b \in policy : a # b /\ a.op = b.op /\ a \in human /\ a.key # "plain"

(* A command with a destructive name asks for approval, or is refused, at   *)
(* every moment: in the middle of a sync, after a killed one, with a policy *)
(* that does not parse or that ends in mid-entry, unless a maintainer said  *)
(* otherwise.  Its name outlives its method.                                *)
RiskyIsGated ==
  \A row \in goIndex :
    PartsOf(row.op) \cap DestructiveParts # {} /\ row.op \notin NamesIn(human) =>
      LET e == Classify(loadActivePolicy(<<Parsed(policy)>>), row.op)
      IN e.class = Absent \/ RequiresApproval(e, 1)

(* README.md:15: new API surface never gets a free pass.  An operation that *)
(* classify would call destructive asks for approval after a sync, unless a *)
(* maintainer wrote its entry.                                              *)
NoFreePass ==
  outcome = "ok" =>
    \A row \in goIndex :
      IsDestructive(classify(row.op, row.at.method)) /\ row.op \notin NamesIn(human)
        => IsDestructive(Classify(Parsed(policy), row.op))

(* Make ends, whatever the tenant answers and wherever it fails: the tries  *)
(* of a fetch are counted.                                                  *)
SyncEnds == pc # "idle" ~> pc = "idle"
=============================================================================
