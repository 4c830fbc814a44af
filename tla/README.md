# ws1-uem-agent in TLA+

`ws1` is a command-line agent for Workspace ONE UEM. Every operation of the
UEM API is a generated command; the commands that change something pass
through a gate (privilege, snapshot, approval in the user's browser, a second
look at the resource) before they are sent, and leave a row in a hash-chained
audit log afterwards. `ws1-build` is the maintainer's tool that makes those
commands, and the policy that says which of them must ask, from the tenant's
API documents. This directory holds models of both and of what they are made
of, TLC configurations that check them, and TLAPS proofs about them.
Line numbers are those of the repository at the commit it is kept beside.

## 1. Inventory

| Component | State it keeps | Operations | Shares with others |
|---|---|---|---|
| Browser approval, `internal/approval` | `server.decided`, `decision`, `done`, the listener, a timer | `Begin`, `Wait`, `Cancel`, `Run`; handlers for the page, approve and deny; `FreshnessCheck` | called by the gate; written to by browser tabs |
| Audit log, `internal/audit`, `cmd/ws1/audit.go` | `audit.log`, one mutex per `Logger` | `Append`, `Tail`, `Verify` | one file, every process |
| Policy and privilege, `internal/policy`, `cmd/ws1/escalate.go`, `ops.go`, `auth/profile.go` | none: documents read at start | `Load`, `Classify`, `RequiresApproval`, `escalateForDangerousCommand`, `Can` | read by the gate |
| Generated command, `cmd/ws1/sections.go`, `snapshot.go`, `apiclient.go` | local variables of one process | `runOp`, `executeRead`, `runStateChangingOp` | all of the above, the tenant |
| API client, `internal/api`, `auth/oauth.go` | a cached token under a mutex | `Do` (one retry after a 429), `Token` | the tenant, the token service |
| Configuration store, `internal/auth` | `profiles.yaml`, the active-profile file, the group file, secrets in a keychain or on disk | `SaveProfile`, `SetActive`, `SwitchActive`, `SetOG`, `SaveClientSecret` and their readers | files, every process |
| Setup wizard, `cmd/ws1/setup.go` | options, an in-memory list of profiles | `RunSetup` | configuration store, audit log |
| Envelope, `internal/envelope` | none | constructors, `ExitCode` | every command; read by the agent, which decides by it what to do next |
| Build pipeline, `cmd/ws1-build`, `Makefile` | `spec/`, the two operation indexes, `operations.policy.yaml`, the skill's table, the diff report | `discover`, `fetch`, `diff`, `codegen-cli`, `bulk-classify`, `codegen-skill`, `classify-check` | the tenant, the maintainer's edits, git; produces the index and the policy of the gate |
| Status, doctor, banner, tables; mock tenant; generated index | none | print; answer; table | - |

What is hard in it:

* **Processes that share files with no lock between them.** `audit.log`,
  `profiles.yaml` and the active-profile file are read, computed on and
  written back by independent processes.
* **Goroutines.** Each request to the approval server is handled by its own
  goroutine, also after `Wait` has picked its outcome; the `select` of `Wait`
  may find several cases ready; the zero value of `decision` is "approved".
* **A resource that changes underneath.** What the user approved is a
  snapshot; the tenant moves on.
* **Lost answers, retries, crashes.** A request can be carried out without the
  process learning of it, and a process can die between request and audit row.
* **Fail-closed defaults that are merged from several places.** A missing
  policy entry, a malformed file, a dangerous command name in an argument.
* **A generated tree that is kept by hand as well.** The pipeline rewrites six
  files one after the other, from a tenant that may change meanwhile and next
  to a maintainer's edits; it can fail or be killed between and within any
  two, and the next run starts from what that left.
* **A listing that spans commands.** Each page is a process of its own; what
  is listed changes between them, and only the numbers in the envelope tell
  the agent whether to go on.

The list of hazards, each with its line and the properties aimed at it, is in
`PROJECT.json`.

What makes each component correct: the verdict of an approval is what the user
clicked first and `Wait` always returns; the chain of an audit log that nobody
touched verifies and one that was touched does not; nothing that must ask is
carried out unasked, whichever rule demands it; what is approved is looked at
again before it is sent; what the caller is told about the operation is true
and stays true; each audit row stands for one operation that was carried out;
every command ends; every endpoint of the tenant becomes one command with one
name and one policy entry, and what a maintainer wrote into the policy stays;
a walk through a listing ends and misses only what was moved under it.

## 2. Modules

| Module | Models | How |
|---|---|---|
| `Decision` | abstract: what an approval request promises | `Say` at most once, `Settle` at most once, a verdict that approves or denies is what was said |
| `Approval` | `internal/approval/server.go` | one action per handler and per statement of `Wait` that another goroutine can come between; implements `Decision` |
| `AuditChain` | rows, hashes, `Verify` | pure operators over a sequence of rows |
| `AuditLog` | `Logger.Append` by several callers | lock, read, write as three steps, every error path, edits by hand; extends `AuditChain` |
| `SerialLog` | abstract: what `Append` promises | each call adds one row behind the last one in a single step and returns it, or fails and adds nothing |
| `Policy` | policy documents, escalation, privilege | pure operators |
| `GatedCall` | abstract: what a generated command promises | carried out at most once, not before consent, and what is told is true |
| `StateChange` | `runOp`, `executeRead`, `runStateChangingOp` and what they call | extends `Policy` and `AuditChain`, takes the steps of `Decision` for the approval; implements `GatedCall` per invocation |
| `ConfigStore` | `internal/auth`: the files and the keychain | one operator per write a file sees: the truncation and the filling are two |
| `Setup` | `ws1 setup`, `profile add`, `profile use`, `og use`, `og clear` as processes | one action per step another process can come between; extends `ConfigStore` |
| `ApiClient` | `Client.Do`, `OAuthClient.Token` of one process | in time: a tick, and one action per request, answer, timer and decision |
| `OpNames` | `openapi.go`: tags, verbs, `disambiguateCollisions`, `extractOps` | pure operators from a document (a set of endpoints) to rows |
| `PolicyFile` | `bulk_classify.go`, the loaders of the policy | the file as text that is merged and parsed: a set of blocks; extends `OpNames` and `Policy` |
| `SpecSync` | `make sync-specs` and `sync-specs-regenerate` with the `ws1-build` commands they run | one action per stage and per way it fails; the tenant, the maintainer and kills beside them; extends `PolicyFile` |
| `Listing` | `executeRead` with its pagination fields, the exit codes, the mock tenant's search, the agent that walks it | one action per command and per decision of the agent |
| `MC...` | the instances TLC checks | |
| `...Proofs`, `StateChangeRefinement` | theorems | extend the module they are about; the second extends `StateChangeProofs` |

How the state corresponds to the code:

* **`Approval`.** `signal` runs under `server.mu`, and nothing reads
  `decision` without it, so its three assignments are one step and
  `done` is closed exactly when `decided` holds. A request of a tab is two
  steps: the server accepts it (`Connect`), its handler runs (`Handle...`).
  `phase` is the position of the goroutine that called `Begin`: `CloseListener`
  and `ShutdownReturns` are the two halves of `http.Server.Shutdown`, between
  and after which handlers still run. `clicks` is a history variable.
* **`AuditLog`.** A line of the file is a row or `Torn`. A hash is the hashed
  record itself (SHA-256 is taken to be injective); `Genesis` is the all-zero
  hash. `LoggerOf` says which caller uses which `Logger`: callers in one
  process share one, two processes never do. `overlap` and `edited` are
  history variables.
* **`Policy`.** A field a YAML document leaves out is `Absent`. The threshold,
  a pointer in Go, is a set of at most one number.
* **`StateChange`.** `pc[i]` is the step of `runStateChangingOp` invocation `i`
  is at, in the numbering of its doc comment. A resource is a version number,
  or `Gone`; a snapshot is a version, `Empty` (a 200 without a body) or `None`
  (no GET operation can be derived). `wire` is the request as the server sees
  it: it may be applied after the process has given up or died. The
  active-profile file reads as `Absent` while `os.WriteFile` rewrites it.
  `executeRead` sends and receives with the same actions as step 5.
* **`ConfigStore`, `Setup`.** `profiles` is `profiles.yaml` as a function from
  names to client ids (tenant, region and URLs are one with the client id), or
  `Torn` when it does not parse; an empty file reads as no profile, as it does
  in `LoadProfiles`. A write that a full disk cuts short (`CutProfiles`) leaves
  a beginning of the text: nothing that parses, or some of the entries, the
  last one perhaps with a client id that lost its end (`CutId`, one value for
  all of them). Later runs read, offer and save such an id like any other. Two
  writes that overlap can leave the end of the longer text behind the shorter
  (`Overlaid`). `secrets` maps the keychain's accounts, name and client id
  together, to whether the token endpoint accepts what is stored; of the secret
  files a cut or a kill leaves an empty or shortened one, which is not accepted
  (`SpoilSecret`). `pc[p]` is where process `p` is in `RunSetup`,
  `configureOneProfile`, `SaveProfile`, `SetOG` and `SwitchActive`; `doc[p]` is
  the slice of profiles `SaveProfile` has read and will write. The steps before
  anything is written - flags, the terminal check, tenant and region - are
  `Start` and `Refuse`; the smoke test writes nothing and is left out. `saved`,
  `overlap`, `torn`, `half` and `alone` are history variables: what
  `SaveProfile` was called with, whether calls overlapped or were cut short,
  the accounts whose profile a process wrote, in whole or in part, and did not
  come to store the secret of, and whether a process had company.
* **`ApiClient`.** `now` counts seconds; `Tick` is held back while a timeout or
  the retry's timer is due, which is how an HTTP client's `Timeout` and
  `time.After` bound what may happen. A token carries the life its answer
  states, when the client obtained it and when the endpoint lets it expire. A
  token without a life or an access token is `Nil`, as `Expired` has it.
  `Overflow` stands for a `Retry-After` whose product with a second wraps
  modulo 2^64: it can come out as any wait up to the cap, a fraction of a
  second (0) included. `asked`, `limited` and `good` are history variables. `StateChange` has the
  same calls without time, and with their effects on the tenant.
* **`OpNames`, `PolicyFile`.** A name keeps the parts its text is joined from
  apart (`section.tag.verb`, method, path suffix, alt number), taking no part
  to contain a dot; `path` is the rank of the path template in sorted order,
  all that pass 4 depends on. A dangerous substring is a part in
  `DestructiveParts` or `BulkParts`. A block of the policy is the operation as
  YAML reads it, the entry, and how the key is written: as `formatPolicyEntry`
  does it, with something behind its colon, in quotes, with a space before its
  colon, or cut before the colon. That is where the two line scans of the merge
  and the YAML parser differ: `existingOps` sees only keys that end their line,
  and sees quotes and spaces as parts of the name (`KeyText`);
  `removeEntriesByOp` trims the spaces and keeps the quotes (`Trimmed`); `Parsed`
  takes all styles for the same key and refuses a key that comes twice. A write
  that is cut short leaves some of the blocks and the beginning of one more
  (`CutFiles`, `Stumps`): an entry without its last fields, with a threshold
  that lost digits, or text in mid-line that does not parse (`Unreadable`).
* **`SpecSync`.** `pc` is the stage of the recipe; a stage's action is all that
  its command reads and writes. `codegen-cli` is two, one for each file it
  writes. `Kill` leaves the file that is being written truncated or, of the
  policy and the report, cut; `End` is any non-zero exit, after which make
  stops. The report stays from one make to the next. `diff` is the one stage
  whose failure make ignores: it fails on a document that does not load
  (`DiffFails`), for want of room or by a kill (`DiffDies`, the report kept or
  cut), and where git shows only a part of HEAD it goes on with that
  (`DiffBlind`). `human` (the blocks a maintainer wrote), `diffed` (this make
  wrote the report) and `outcome` (how the last make ended) are history
  variables.
* **`Listing`.** An answer is the map of the numbers it has among `Total`,
  `Page` and `PageSize`; `shape` says which, fixed per search as it is per
  endpoint. `envelope` is the exit code and the pagination fields of the last
  command. `shown`, `original` and `shifts` are history variables.

## 3. Runs

| Run | Instance | What it shows |
|---|---|---|
| `approval` | 2 tabs, 2 requests each | the verdict is the first click; a reload tells it; the listener is closed when `Wait` returns; `Wait` returns; `Approval` implements `Decision` |
| `audit` | 3 callers, 2 Loggers, 3 rows, 1 edit or torn write | the chain breaks only by overlap or tampering; rows form a tree even then; an edit is reported for ever; no error path keeps the mutex |
| `audit_race` (violated) | as `audit`, no edits | the mutex of a Logger does not serialize two processes: a file nobody edited does not verify |
| `statechange` | 1 invocation; 7 commands, 4 pairs of policy files, 3 profiles, 1 profile switch, 2 changes of the resource | nothing that must ask is carried out unapproved; nothing else asks; the read-only profile changes nothing; each invocation implements `GatedCall` and ends |
| `statechange_pair` | 2 invocations on 1 resource | a stale approval is not used, also when the other invocation made it stale; audit rows are true and unique |
| `setup` | 7 pairs of commands, 2 profiles, 2 client ids and one cut short, 1 group, 1 fault | `profiles.yaml` loses a profile only by overlap or a cut write; a profile without a secret is the work of a process still at it, of one that gave up, or of a cut write; the active profile is configured and is switched at a terminal only; setup that reports success leaves what it was asked for; every command ends |
| `api_client` | 20 seconds, timeouts of 2, a margin of 4, a cap of 3, tokens that live 0, 3, 4 or 7 | no request arrives with an expired token; a call ends in bounded time; a 429 is waited out where its `Retry-After` is a number that a Duration holds |
| `unvalidated` (violated) | as `setup` | setup keeps credentials the token endpoint has refused |
| `unaudited` (violated) | as `statechange` | an operation can take effect and leave no row |
| `sync` | 2 sections, 4 and 3 documents, 2 clones, 2 tries, 2 events out of 1 upgrade of the tenant, 2 edits of the policy and 1 fault; 1 block kept before a cut | names are unique and no endpoint is missed; after a sync that ended well index, sidecar, policy and skill table agree, also one that repairs what a killed one left; the report, where `diff` did its work, names what is new; hand-written entries survive; a policy that does not parse was cut or has a key by hand that the scan misses; a dangerous name asks or is refused at every moment; make ends |
| `free_pass` (violated) | as `sync` | an entry made for a GET stays in force for the DELETE that takes over its name |
| `listing` | up to 4 items at the start, pages of 1 to 3, 4 shapes of answer, 2 changes, 2 failures | only a removal hides an item and only an addition repeats one; no page too many is asked for; the walk ends |

The bounds, and why they are enough. Two tabs let a click lose to another, a
third request reload the page, and one be in flight when the listener closes;
the server has no state per tab, so more tabs add nothing but interleavings.
Three rows are the least that has a row after the row after an edit. Two
Loggers with two and one callers give both kinds of contention. One invocation
suffices for what no other invocation can disturb; two are run where they
meet, on the resource and in the log. Two changes of a resource let a drift
precede and follow the approval. The commands are one of each kind: a read, a
write under its threshold, a write that a policy file makes ask, a dispatcher
with a dangerous command, a destructive one, its dry run, and one no policy
knows; the policy files cover a missing, a malformed, a stricter and a laxer
document in both positions. Two processes are what it takes to meet in a
file; the pairs of `MCSetup` put together each two writers of a file and a
writer with the reader of it, and leave out pairs that share no file. A
profile that is already there (`operator`, under `c1`) or none are the two
kinds of start; one of two client ids is the one that is there, the other is
new. Time in `api_client` is scaled down: 2, 4, 3 and 1 stand for the 30, 60, 30
and 2 seconds of the code, in the same order of size, and 20 is room for the
longest call (11) before or after others; the tokens are one that is no good,
one that a slow call outlives, one of exactly the margin and one that is used
again. One kill, full disk or locked keychain is enough to stop any step, as
nothing recovers by itself. The documents of `sync` are the least that reach
each pass of `disambiguateCollisions`: one operationId on two methods, on two
paths with different parameters, and on three with the same one; a dangerous
name under POST and GET; an endpoint with no tag, no operationId and no
parameter name. One upgrade is what makes a name change its meaning, one kill
what leaves a truncated file for the next sync, one edit the entry to keep and
a second the prune that may drop it. `MaxEvents` bounds the three together, in the
guards: each two of them meet in every order and with any number of syncs
between them, and all three together are left to the theorems. A cut write
leaves at most one whole block of those it writes (`MaxKept`) and the beginning
of another, which is enough for every outcome the properties tell apart:
nothing, a document that parses with an entry missing, a torn entry, a torn
line.
Four items in pages of one to three are every way in which a total fills its
last page; two changes let one item come and one go. Seven pages is more than
any walk needs that ends; only the endless ones (answers without `Page`) reach
it, and there the model stops. The theorems of section 5 hold without any of
these bounds.

Fairness. `Wait` and `Begin` are consecutive statements of one goroutine, the
timer is the runtime's, the listener is closed at once and `Shutdown` returns
after two seconds at the latest: each is weakly fair, and so is each accepted
handler. No fairness makes a user click or a context end. A call of `Append`
that holds the mutex runs to its end, since nothing in it blocks. An
invocation is weakly fair as a whole (`Advance`): every wait in it is bounded
by the approval timer, the client's timeout or the cap on `Retry-After`. The
tenant is not fair: it need never answer. A configuring process is weakly fair
in the steps that wait for nobody (its token request has a timeout). That the
user answers is not assumed by the specification; `EndsWhenAnswered` states it
as its hypothesis. `Make` is weakly fair once started: a request of `discover`
or `fetch` has a timeout, the tries are counted and the rest is local; nobody
has to start it. `Walk` is weakly fair: a command ends (`DoIsBounded`), and the
agent is taken to go on; those who change the listing are not fair.
`listing` switches the deadlock check off because a finished walk is over.

Each property of a passing run has a mutant: a plausible bug of one
definition (listed in `PROJECT.json`, named `Mut...` beside the definition)
under which TLC finds the property violated.

## 4. Where the code and its words differ

1. `audit.go:41` calls concurrent appends "strictly serialized via mu"; the
   mutex is per `Logger`, and every process makes its own. Two commands that
   finish together write two rows with one number, and `ws1 audit verify`
   fails (`audit_race`).
2. `README.md:17` says every state-changing call appends a row; one whose
   answer is lost or does not parse does not (`unaudited`).
3. `setup.go:285` says `configureOneProfile` validates credentials and then
   persists them; it persists first. After three refusals setup fails and
   what was refused stays, in place of an entry that worked (`unvalidated`).
4. `README.md:15` says "New API surface never gets a free pass". The merge of
   `bulk-classify` knows operations by name alone: one that turns from GET to
   DELETE keeps the entry of class read, no report mentions it and
   `classify-check` passes (`free_pass`).

Also seen while modelling, without a run of their own.

The gate: `audit.go:3` says tampering "breaks the chain at every subsequent
entry"; only the next row fails, and an edit of the last row is not seen.
`policy.go:89` says the approval mode forces the approval flow; `runOp` routes
on the class first, so an entry of class read never asks, whatever its mode.
`targetCountFor` is 1 for every generated command, so a threshold of one or
more never asks. `og.go:10-12`, `og.go:64` and `error.go:49-51` say that a
command without an organization group is refused with `TENANT_REQUIRED`; only
`og current` emits it (`cmd/ws1/og.go:59`), the generated commands go on
without one (`apiclient.go:28`). `exit.go:19` counts APPROVAL_DENIED among what "agent or user
retries", `error.go:37` tells the agent to stop.

The API client: `client.go:83-84` says that a 429 makes it "sleep up to
MaxRetryAfterWait honoring the Retry-After header". The number of seconds is
multiplied before it is compared with the cap (`client.go:245`), and the product
wraps: 18446744074 seconds come out as 0.29, and the request is sent again
almost at once. The model has this (`RetryWaits`); `HonoursRetryAfter` speaks of
the numbers a `Duration` holds.

Files: the page shown after a click names that button even when an earlier
click won or the time was up; two overlapping calls of `SaveProfile` lose one
of the two profiles or leave one text over the other; a cut write can lose all
of them, because a `profiles.yaml` left empty reads as one with no profile, or
leave the last one with a client id that lost its end and has no secret, which
the next setup offers as the one to keep; `setup` for
`operator` alone makes `operator` active even where `ro` is configured and
was active.

Listings: `has_more` counts pages from 0, as the mock tenant does, while the
example in `skills/ws1-uem/concepts/02-api-surface.md` shows `"page": 1` for a
first page: against a tenant that counts from 1 the last page is not asked
for. An answer without `PageSize` says `has_more: false`; one without `Page`
says the same of every page, and the walk does not end. An answer whose total
has another name (`TotalResults`) has no pagination fields at all.

The pipeline: of a policy that a kill or a full disk cut, the merge takes what
is left for the whole, and the overrides behind the cut are gone without a
word. A key that is written by hand with something after its colon
(`mdmv1.x.y: {class: read}`, also every line of a file with CRLF ends), in
quotes, or with a space before its colon is not seen by the merge, added again,
and then the policy does not parse. `bulk_classify.go:27` says that `--prune`
drops entries "whose ops no longer appear in the index"; it also drops every
entry with a quoted key, whose operation may well be there
(`bulk_classify.go:156`). `Makefile:91` ends every sync with "Review
.build/diff-report.json", but line 83 ignores a failure of `diff` and nothing
removes an older report: that file may be the one of an earlier sync, cut
short, or missing, beside commands HEAD does not have. Where git cannot show a
document of HEAD, all its operations are reported as added. A
path that sorts before the others of its name moves every `altN`, and with it
the overrides written for them. The header of the policy promises that
entries marked `# manual:` survive a regeneration; `--regenerate` reads
nothing of the old file. `classify_check.go:16` says new operations must be
hand-classified before a build can succeed; `bulk-classify` has filled them in
two stages earlier, so the check can only fail on a policy that does not
parse. `removeEntriesByOp` stops at a blank line within an entry and leaves
its rest. The file of a section the tenant no longer lists stays in `spec/`,
and its commands with it. `diff` never fills `changed`. No stage writes the
policy that is compiled into the binary (`policy.go:22`).

## 5. Proofs

All proofs hold for every value of the constants that satisfies the
module's named assumption, and all are checked by `tlapm` to the last leaf.

**`ApprovalProofs`.** `TypeCorrect` is inductive as it stands. The invariant
`IInv` adds what the properties leave out: `decided` holds exactly when
`clicks` is not empty, `decision` is then `clicks[1]`, the `outcome` is set
only after the `select`, and a page that shows a word shows `clicks[1]`. Since
`clicks` only grows at its end, its head never changes, and from that
`VerdictIsFirstClick`, `ReloadIsFirstClick` and `ClosedOnReturn` follow.
`Implements` maps `said` to `decision` once decided and `verdict` to
`outcome`: `HandleClick` is `Say` or a stutter, `WakeWith` is `Settle`,
everything else stutters.

**`AuditLogProofs`.** The invariant ties each caller to the file: a tail read
is `Genesis` or a row of the file, a returned row is in the file, and while
there is no overlap the links hold. It is conditional on `edits = 0`, which no
step restores. `ChainIsWhole`, `RowsAreATree` and `ReturnedRowsStay` follow.
`OneLoggerVerifies` assumes that all callers share a Logger and adds mutual
exclusion: the caller past `tailOne` is the holder, so its tail is still the
last row when it writes, and no overlap ever happens. `SerialUntilOverlap` compares
the file and the callers' answers with `SerialLog`: only `WriteRow` is visible,
and it is `Add` as long as the tail in hand is the file's last row (`overlap`
says when it no longer was); a call in progress has not answered (`Waiting`).
With one Logger, `OneLoggerIsSerial` gets the refinement `Serial!Spec` for a
file that is not edited. With several it is false, which is `audit_race`.

**`StateChangeProofs`.** `NothingUnapproved` goes by two facts carried through
the steps: the entry of an invocation past `idle` is the escalated entry of
the policy in force, and an invocation at or after `send` either need not ask
or has the verdict "approved", which `Settle` gives only to what the user
said. Lemmas show that the policy `loadActivePolicy` finds is the one found
by hand (`InForce`), that the merge of `__default__` is fail-closed field by
field, and hence that `MustAsk` implies `NeedsApproval`. `NothingStale`
carries that an invocation approved on a version and sent has the same version
in `recheck`.

**`StateChangeRefinement`.** `Implements` is `KeepsPromise`: each invocation
implements `GatedCall`, with `needs` mapped to `MustAsk`, `consent` to the
verdict "approved" and `told` to the code. The earlier invariants give the
guard of `Apply`; those of `Tell` need a third one: nothing is told before the
end (`Silent`), a dry run never gets to its request (`NotDry`), and while a
request is on its way the caller has been told nothing certain (`Open`), so
that no later arrival makes a lie of what was told. `AsksDecide` says that the
approval inside each invocation is a behaviour of `Decision`, which `Approval`
implements: the gate is proved against the promise of the server, not against
its workings. `StepsRunOut` gives each place of an invocation a number that
every move lowers (11 at the start, 0 at the end; the one retry is paid for by
counting `tries`).

**`SetupProofs`.** The invariant has three parts beside the types. `Kept`:
while calls of `SaveProfile` have neither overlapped nor been cut, at most one
process is past its read, what it is about to write is what was saved plus its
own profile, and the file is empty exactly during its write. `Backed`: every
pair of profile and client id, in the file or in what a process has read, is
`Vouched` for - stored, given up, owned by a process about to store it, or cut
short in a write; `Vouched` never shrinks (`VouchedStays`), which is why it
survives overlaps, and the texts that a cut or an overlap leaves
(`CutProfiles`, `Overlaid`) have no pairs but those of the two texts and cut
ones.
`Checked`: a process past the check of `SwitchActive` has a profile that was
saved, and is at a terminal. `SavesAreKept`, `SecretBehindProfile`,
`ActiveIsConfigured` and `OnlyTerminalSwitches` follow. `UsableAfterSetup`
(`SetupLeavesItUsable`) has an invariant of its own, `JInv`, about a setup that
ran alone: the profiles it is done with are in the file with an accepted secret
(`Ready`, read through the text about to be written while the file is
truncated), the one in hand is as far as its step says (`Current`), the group is
the one picked (`Grouped`). It rests on nobody else being inside a command
(`Solos`) and on the command line naming no profile twice, so that finishing
one profile undoes none before it. `StepsRunOut` is a measure again: profiles
left, then attempts left, then the place in the attempt.

**`ApiClientProofs`.** The invariant keeps accounts of time. `Lasting`: a token
expires at most one timeout earlier than its age tells, because its answer
took no longer; so one that passes `Expired` has the margin less a timeout
left, and that is the timeout its request may take. This is where
`Margin >= 2 * Timeout` is used, which 60 and 30 satisfy exactly: raising the
client's timeout alone would break `ValidOnArrival`. `Budget` gives each place
in a call its share of the bound of `DoIsBounded`, which holds of every
`Retry-After`, those that wrap included; `Patient` carries the wait from the 429
to the second request, for the numbers a `Duration` holds.

**`SpecSyncProofs`.** `NamesAreUnique` rests on a lemma about `OpName` for
every document: two rows of one name have the same suffix class and the same
number of earlier paths in it, and a smaller set of earlier paths is a proper
subset of a larger, so their paths are equal; then their methods are, or pass
1 would have told them apart. Rows of different sections differ in the first
part. The invariant adds what each stage may rely on: behind `codegen` the Go
index is that of `spec/`, behind `codegen-json` the sidecar is too, behind
`bulk-classify` every name of it is in the policy, behind `codegen-skill` the
table shows the policy; the report, where this make's `diff` wrote it
(`diffed`), has every name that is in these very files and not in HEAD, since
nothing touches either while make runs, and what git fails to show of HEAD only
makes it longer. `FileInv` is about the policy at every moment and is stated for
any file (`Sound`): hand-written blocks are in it, a key that the scan sees
comes once (the rows a merge adds have names of their own), and what nobody
wrote by hand is destructive, refused or unreadable where the name is dangerous.
`CutIsSound` says that whatever a cut write leaves of a sound file is sound:
some of its blocks and the beginning of one, and the beginning of an entry of
class destructive has that class, or none, with which no command runs.
`OverridesAlwaysSurvive`, `MergesStayParsable` and `RiskyAlwaysGated` follow; the
last also from the embedded document, which is in force when the file does not
parse and of which `EmbeddedAssumption` says that `bulk-classify` once made it.
`RegenerateJudgesAfresh` is the other side of `free_pass`: from `bulk-classify`
on, `sync-specs-regenerate` has the policy made from the very index that is
compiled in (`RewriteInv`), nothing touches either before the tree is touched
again, and with unique names each command gets what `classify` says of its
present name and method. So `NoFreePass` holds of that target for every
catalog, and what breaks it is the merge alone. `StepsRunOut` counts stages,
sections and tries; it assumes finitely many sections.

**`ListingProofs`.** `OrderInv` relates what was shown to the place the walk
has reached in what is listed now (`Behind`): while nothing was removed, all
that was matched at the start is still listed, and what of it lies before that
place has been shown; while nothing was added, nothing was shown twice and
nothing beyond that place was shown. An addition only pushes items on, a
removal only pulls them back, so each half survives the other kind of change.
`ToldInv` says what the last `has_more` means for the list as it is now.

**The rest of the gate.** `NothingAskedInVain`, `ReadersOnlyRead` and
`RowsAreTrue` are three more invariants of `StateChange`: an approval page opens
only behind `NeedsApproval`; the profile of credentials and capability agree
until a switch; and each row has its invocation past its request, applied once.
`EditsAreReported` says for `AuditLog` that the first edit of an unbroken file
breaks the link behind the edited line, and that rows appended later leave
that break where it is.

Every invariant and action property of every passing run is stated by a
theorem. Out of the provers' reach and left to TLC is liveness (`WaitReturns`,
`LoggerIsFreed`, `Terminates`, `EndsWhenAnswered`, `SyncEnds`, `WalkEnds`).
Where the part of it that is not about fairness is an invariant or a measure,
that part is proved: whoever waits for an approval has a timer running
(`WaitIsTimed`), a Logger that is taken is in the hands of a call that has not
returned (`NoMutexIsLeft`), and the steps that `Terminates`, `EndsWhenAnswered`
and `SyncEnds` schedule run out (`StepsRunOut` in three modules). What the runs
add is that a process that is not at its end has a step to take. Type
correctness of `Approval`, `AuditLog`, `ApiClient` and `Listing`,
`ReturnedRowIsInFile` of `AuditLog`, the refinement of `SerialLog` and the
measures are proved for every instance and need no run. The operators of
`OpNames` are checked on the documents of `sync` and proved to give unique
names; that they give the names of the Go code is a matter of reading both.

## 6. Plan, and what is not modelled

Done, in this order: the approval server, the audit log, the policy, the
generated command that composes them, the configuration store with the
processes that write it, the API client, the build pipeline, listings with the
envelope; then the proofs of every safety property, and of the refinements of
`Decision`, `GatedCall` and `SerialLog`. What is left to gain is in the parts
below.

Not modelled, and why:

* `internal/generated/ops_index.go` (17 347 of the repository's 25 658 lines of
  code) is a table the pipeline writes: `SpecSync` models how its rows come
  about, `StateChange` takes from a row whether it has a snapshot operation and
  whether its method is GET.
* Banner, tables, status, doctor, `ops list/search/describe`: they print.
* The spinner: one goroutine that paints a line; `Done` closes `stop` under a
  `sync.Once` and waits for the goroutine, so there is nothing to interleave.
* The mock tenant beyond its searches: a test double, of which `StateChange`
  describes what a client sees.
* In the pipeline: `spec/VERSION` and `.build/sections.json` as files of their
  own, the parsing of the help page, the replacement of example secrets, blank
  lines within a hand-written entry, a `--prune` whose own write is cut. The
  order of entries in the policy and in `profiles.yaml`: a cut write keeps any
  of them, not only the first. A threshold that is cut is one digit short; a
  class or a mode cut short is one nobody knows and counts as none. A cut in the head of the
  policy that still parses leaves a default that is no less strict than the
  built-in one, and is modelled as that.
* In the configuration store: overlapping writes of the group file (`SetOG`
  against `SetOG`, with its removal), of which the last is taken to win, and
  `WS1_FORCE_INTERACTIVE` (`tty.go:16`), which makes a process count as one at a
  terminal.
* The bulk counts and async fields of the envelope: no command sets them.
* The organization group within a command (it is shown and recorded, nothing is
  decided by it), HTML, the user interface of the browser.
