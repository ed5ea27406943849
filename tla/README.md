# A formal model of k8s-lsp

`k8s-lsp` is a language server for Kubernetes manifests: it holds the open
YAML files of an editor, validates them against JSON schemas (embedded ones and
those of CRDs it discovers), and answers hover and completion from those files,
the schemas and, if the user enables it, the names of resources in a live
cluster. This directory holds TLA+ modules of that program, the configurations
TLC checks them with and the proofs TLAPS checks. All paths below are relative
to the repository; line numbers are in `PROJECT.json`, under `map`.

## 1. Inventory

| part | state | operations | talks to |
|---|---|---|---|
| document store, `k8s-lsp-core/src/snapshot.rs` | revision (u64), map from URI to `Document`, one mutex | `upsert`, `remove`, `snapshot`, `refs_by_kind` | parser, called by every handler |
| server, `k8s-lsp-server/src/main.rs` | `cluster_enabled`; the handlers tower-lsp is polling | `initialize`, `did_open`, `did_change`, `did_close`, `hover`, `completion`, `execute_command` | store, registry, cluster state, editor |
| schema registry, `k8s-lsp-schema/src/registry.rs` | parse cache and dynamic schemas, a mutex each | `lookup`, `insert_dynamic` (`has` and `dynamic_len` are called from tests only) | handlers read, CRD loaders write |
| cluster state, `k8s-lsp-cluster/src/lib.rs` | index of names, last error, behind a tokio `RwLock` | `refresh`, `snapshot`, `last_error` | Kubernetes API; completion reads |
| CRD sources, `k8s-lsp-cluster/src/lib.rs` | the schemas found so far | `list_crds`, `load_crds_from_paths` | Kubernetes API, files; both insert into the registry |
| YAML stream parser, `k8s-lsp-parser/src/lib.rs` | none | `parse`, `position_to_offset`, `path_at` | pure |
| schema walk, completion, hover, validator, `k8s-lsp-schema/src/` | none | `schema_at_path`, `fields_at`, `render_hover`, `validate` | pure |
| embedded schemas, `assets/schemas`; fuzz target; transcripts | data | | |

How they interact. tower-lsp reads the editor's messages from a pipe and starts
a handler for each, in order. The handlers share the store, the registry and
the cluster state. `initialize` and the command `k8s-lsp.refreshCluster` spawn
tasks that run beside the handlers: a refresh of the cluster index, a loader of
the cluster's CRDs, a loader of CRD files. Diagnostics are not answers but
notifications that the server sends when an edit has been handled.

What is hard about it, and what makes each part correct:

* *Ordering of handlers and publications.* `publish_diagnostics` reads the
  store a second time after the `upsert` of its own handler, validates part by
  part with separate lookups, and tags the result with the version it was
  called with. Correct: the version on a publication is that of the text it was
  computed from, the editor never sees an older result after a newer one, and
  when all is quiet what it shows is the outcome of its latest edit.
* *State held across an await.* `completion` takes a snapshot, then waits for
  the lock of the cluster index. Correct: it answers from the files as they
  were when it was asked for, once.
* *Overlapping refreshes.* Nothing stops a second refresh while the first waits
  for the network. Correct: a reader sees one whole index, of names that
  existed during the refresh that stored it; nobody waits for the network with
  the lock in hand; every refresh ends.
* *Lookups between locks.* A lookup reads the parse cache, parses and fills it,
  or reads the dynamic schemas, each under a lock of its own, while two loaders
  insert. Correct: to its caller it is one step, and a loader's bad input costs
  no sound CRD its schema.
* *Three readers of one schema.* Hover, completion and validator each have code
  of their own for combinators, two of them for `$ref`. Correct: they agree
  about the value under the cursor where their rules are the same.
* *Limits.* Texts over 10 MiB leave the store; at most four handlers run; the
  revision wraps.
* *Pure algorithms* over text and schemas: splitting a stream into documents,
  finding the path at the cursor, finding the line of an issue, sorting and
  deduplicating names, merging combinators, following `$ref`.

`PROJECT.json` lists the components with what is modelled of each, and the
hazards, each at the line where it bites, with the properties that watch it.

## 2. Modules

| module | models | state and actions |
|---|---|---|
| `DocumentStore` | `DocumentStore`, `Document`, `refs_by_kind` | `revision`, `documents`; one operator per locked section. A text is opaque: `Parse[t]` gives the identities the parser finds in it. |
| `NameOffers` | `refs_by_kind` as the list it builds: pushed, sorted, deduplicated | operators on the store of `LspServer`, which it extends |
| `AtomicRegistry` | the dynamic schemas, and `lookup` as one step | `dynamic`; `Lookup` (embedded schemas win), `InsertDynamic` |
| `RegistryCalls` | what `SchemaRegistry` promises its callers | `call` of each caller; `Ask`, `Answer`, `Return`, `Insert` |
| `SchemaRegistry` | `SchemaRegistry` in detail | `cache`, `lookup` of each caller; one action per locked section; implements `RegistryCalls` |
| `CrdSources` | `list_crds`, `load_crds_from_paths` and the tasks that call them | `files`, `crds`; composed with `SchemaRegistry` |
| `ClusterIndex` | what `ClusterState` promises | `index`, `refreshing`; `Spawn`, `Commit`, `Abandon` |
| `LspServer` | the `Backend` and the editor | composes the three above; one action per handler or per stretch of a handler between two points where something else may run |
| `ClusterState` | `ClusterState` in detail | the lock with its queue of waiters, refreshes request by request, timeouts, readers; implements `ClusterIndex` |
| `SplitDocuments` | `split_documents`, `parse`, `scan_identity`, `position_to_offset`; the server's `part_at`, `byte_to_line` and `locate_path` | `start`, `lineStart`, `ranges` of the scan; one action per line (`LineBreak`, `EndOfText`), operators for the rest |
| `PathAt` | `path_at` and its helpers | `stack` of columns and segments; `ReadLine` per line above the cursor, `ReadCursorLine` for its own |
| `JsonSchema` | schema nodes and `resolve_ref` | `schema`; operators |
| `SchemaWalk` | `schema_at_path`, `fields_at`, the server's fallback to ObjectMeta | `left` of the path, `todo` and `passed` of the recursion; one action per call of the recursion |
| `Validate` | `validate` | `doc`, `unchecked`, `issues`; one action per call of `walk` |
| `SchemaUse` | the three readers of a schema together | composes the two above: diagnostics first, then requests |
| `MCLspServer`, `MCClusterState`, `MCCrdSources`, `MCSchemaUse`, `MCSplitDocuments`, `MCPathAt` | | the values TLC needs |
| `LspServerProofs`, `ServerAnswersProofs`, `ServerDiagnosticsProofs`, `ClusterStateProofs`, `SchemaRegistryProofs`, `SchemaWalkProofs`, `SplitDocumentsProofs`, `PathAtProofs` | | theorems and proofs |

### LspServer

*Scheduling.* `main` awaits `Server::serve`, and tower-lsp polls all handlers
from that one task, starting them in the order of the messages. Hence a handler
runs without another handler in between until it waits. The only wait that
lasts is `self.cluster.snapshot().await` in `completion`; a publication counts
as sent when it is in the channel to the editor. `current` is the handler being
polled, `parked` the completions waiting. Tasks given to `tokio::spawn` run on
other threads, so their steps (`FinishRefresh`, `LoaderListed`, `LoaderInsert`)
interleave with everything, also between the lookups of two parts
(`DiagnosePart`).

*The editor.* `log` is every message it has sent and `taken` how many have
reached a handler; it opens, changes and closes files in the order the protocol
allows and asks only about open files. Its version numbers are places in `log`,
so they grow. `outbox` is the channel back, `shown` what the editor displays.

*Abstractions.* The cursor is a part and a place (a field name, a value that
names a resource of some kind, another value) chosen by the editor; how they are
computed from the text is the parser's business. A publication records the
document and the schema of each part instead of the issues, which are a function
of them. A completion that may read the cluster always parks, although an
uncontended lock would let it go on at once: that run is the one where
`ResumeCompletion` comes next. `$/cancelRequest`, `shutdown` and `exit` are not
modelled.

The names that `refs_by_kind` offers are a set in `LspServer`. `NameOffers`
builds the list: the documents come in the order of a `HashMap`, so every order
of the files is considered. A reference stands for the place it was pushed from,
and of the stable sort only what `dedup` depends on is kept: which reference
comes right before which (`RightBefore`), those that compare equal standing side
by side in the order they were pushed in. `OfferedOnce` relates list and set.

### SchemaRegistry and CrdSources

`lookup` takes the cache's lock, releases it, parses, takes it again to fill the
cache, or takes the other lock to read a dynamic schema: one action each, for
several callers at once. The server itself has one thread that looks schemas up;
the registry is shared through an `Arc` and its locks are meant for more, and a
loader inserts between any two of those steps. `RegistryCalls` has one instant
in every call at which the answer is that of `AtomicRegistry!Lookup`.
An embedded text that cannot be parsed is a key whose `Bundle` is `NoSchema`.

`CrdSources` has the two tasks of `initialize` that feed the registry. A CRD is a
group, a kind and versions, each with a schema or none (`Crds`; `CrdAssumption`
says that the keys it makes are keys). A file is `Unreadable` or a stream of
documents: a CRD, another value, one with a syntax error. `serde_yaml`'s
iterator is outside the repository; the model lets it yield the next document
after a syntax error or end the stream, so that nothing is claimed of what
stands behind one. An iterator that repeated its error for ever would keep the
loader from ending and shows as stuttering only: `SoundFilesLoaded` is about a
loader that has finished, and that it finishes is not claimed. `contents` is what the files hold and
`listed` what the cluster answered with, both for the properties only.

### SchemaWalk, Validate, SchemaUse

A schema is a graph of nodes with the members the code looks at. `step` and
`collect_properties` are recursive over combinators, depth first: `todo` is what
is left of the recursion, `passed` the nodes it has been through since the last
segment. `Resolve` follows `$ref` as often as the code does (`MaxRefs`).
Candidates are the fields of `passed`, the first of each name, which is what
the stable sort and `dedup_by` leave. A user who accepts a candidate and hovers
over it (`Accept`) relates the two walks.

The validator's value is a map from the place of each value in it to its type.
The places form a tree (`DocAssumption`): what
has members is a mapping, what has elements a sequence, and a tagged value hides
what is inside it, which the validator does not walk (`InTagged`). `MetaRoot` is
the embedded ObjectMeta, a node apart from the `Root` of a file's schema, as no
kind is registered for it. `SchemaUse` lets the validator finish before
requests come, as a text is diagnosed before anything is asked about it. The
properties that compare readers name the schemas on which they should agree:
`RefsSettle`, that no chain of `$ref` is longer than the code follows, and
`Plain`, a schema without `$ref`, combinators and schemas for additional
fields, the three things the validator reads by rules of its own.

### ClusterState

A refresh connects, sends its list requests one after another, queues for the
write lock and stores. The network is the environment: each request is answered,
fails, or is answered by its timer only; the cluster changes at any time
(`ClusterChange`). tokio's lock serves waiters in the order they came. `source`
and `witness` are history variables: who stored the index, and what existed at
some moment and throughout each refresh. `missed` records the kinds whose list
failed, which the code forgets.

### SplitDocuments

The code scans bytes and decides at every newline and at the end of the text;
a step here is one such decision. A line has a length and a class, the class
being what the parser can tell of it: a separator (bare, with a comment, with a
value), a terminator, a line that breaks the YAML, one with a kind, another
field, a comment, a blank. `lines` is the text read so far with the offset each
line begins at. The identity of a resource is reduced to its kind. `Readable`
says when `serde_yaml`, which is outside the repository, accepts a range as one
document; `KindOf` is the key of a readable value and, for a range that cannot
be read, what `scan_identity` keeps, the last kind line of all. Lengths are in
bytes and characters are single bytes.

The reference for `split_documents` is its own comment: a separator is `---`
alone or with a comment, `...` ends a document (`Separators`, `SameDocument`).
The code has one more kind of separator, `--- value`, and does not look at `...`
before the last line. `LinesKept` says what the code keeps of the comment's
documents all the same: lines that a separator parts share no range, and the
lines of one document share one, unless a `--- value` line, which the code drops
as if it were a separator, is between them; that line excepted, none is lost.
What it does not keep, that `...` ends a document, is run `terminator`.

`locate_path` looks at the lines of a part and at nothing else, so `heads` gives
for a line the keys it begins with, be it a field, a line of a block scalar or
one that cannot be read. `Locate` counts line breaks before the part, by bytes,
and adds the place of the first such line in the part; `IssueShownInItsPart`
says that the sum is the number of that line.

The difference between UTF-16 columns and bytes, which the parser declares a
limitation, is not in the model.

### PathAt

A line is an indentation and a shape: `key:`, `- value`, `- key:`, a text, a
comment, a blank. `ProcessLine` pops and pushes what `process_line` does; on the
cursor's line the stack is first cut to `IntendedIndent`. `nodes` records the
places where keys and items begin, and the reference definition `OpenNodes` is
computed from it alone: YAML's rule that a node is open until another begins at
its column or to the left of it, the items of a sequence at the column of their
key excepted. `FlushSequence` says that this exception has occurred; the code
does not know it, so the properties that hold are stated without it and run
`flush_sequence` shows what it does to the path. The model does not look inside
block scalars, flow collections or quoted keys, and neither does the code: they
are lines of text to both, and the reference is about the lines as the code
classifies them.

## 3. Runs

| run | question | result |
|---|---|---|
| `edits` | two files, three texts (one oversize, one with a reference twice and with two kinds), up to four edits and requests in every order, two handlers at once, completions parked and an index that changes: do store, diagnostics and the names offered follow the editor, are answers computed from the right text, once, and does a revision identify the documents? | holds |
| `background` | the cluster enabled and not, every request, both loaders inserting while files are validated, a refresh that may hang: does anything contact the cluster unless enabled, does a schema ever get lost, are requests answered and edits shown? | holds |
| `registry` | two callers between their locked sections, files with every sort of document, a cluster list, an embedded schema that cannot be parsed: is a lookup one step to its caller, does bad input cost sound CRDs their schemas, does the cluster's loader end? | holds |
| `schema` | three hundred schemas, four values, nine paths: do completion, hover and validator find the nodes the schema means and agree? | holds |
| `refresh` | two overlapping refreshes, a reader, two kinds, a changing cluster, a network that may never answer: is the index whole and of its refresh, does the cache implement `ClusterIndex`, does a refresh end, does a completion get the index? | holds |
| `split` | texts of up to five lines of eleven sorts: are ranges apart, do lines keep to their documents, does a broken document stay alone, is the cursor in one part, is an issue shown in its own? | holds |
| `path` | up to four lines at three columns, every cursor on the last: is the path that of the open nodes? | holds |
| `metadata`, `combinators`, `soft_failures`, `terminator`, `flush_sequence` | does the code do what its comments and its README say? | it does not, section 6 |

*Bounds, and why they are enough.* Four messages suffice for every order of
opening, changing, closing and reopening one file, and of edits of two files
around each other. Two handlers at once give a parked completion beside a
handler at work, and the full house in which nothing more is taken; the number
is a constant of the theorems. Texts differ in what the properties tell apart:
oversize, without part, without identity, in a kustomization file, with several
parts of several kinds; run `edits` has those that its ten properties need, run
`background` the others. `RevisionModulus` stands for 2^64 and is larger than the
number of messages: `SnapshotFaithful` is about revisions that have not wrapped.
Two refreshes are what it takes to overlap, two kinds to leave an index half
full. Of the shapes of the option that enables the cluster, run
`background` has two, `true` and `{ enabled = true }`; the others
are read by the same lines and end in one of the same two states. Two callers
are what it takes to fill the cache twice; the files of run `registry` have a
CRD before and behind a syntax error, an unreadable file between two others,
two versions of one CRD and one under an embedded key. The schemas of run
`schema` are the combinations of five shapes for the root, five and four for
the two nodes below it and three for one below those, so that each member stands
at the end of each other; `MaxRefs = 2` stands for the code's eight and lets a
chain be longer than the limit. Five lines give a document between two others with room for a broken
line in it; four lines at three columns give a node, its child, a sibling of
either and a line that leaves both. Both parsers are proved for any length
besides. `MaxMessages`, `MaxBatch`, `Requests`, `ClusterOptions`, `FileSets`,
`ClusterLists`, `Schemas`, `Docs` and `Paths` are bounds, named as such where
they are declared. Deadlock is checked in every run; `Finished` and `Answered`
(or the cluster that changes, or the lookups that go on, for ever) mark the
states where there is rightly nothing left to do.

*Fairness.* `LspServer!Fairness`, of the specification of run `background`: the server task is polled while it has work
(`HandlerStep`), a waiter of the index lock gets it (one condition per request,
because the lock is fair and never held across I/O, which is what
`ReadersNeverWaitOnNetwork` shows of `ClusterState`), and the editor reads its
pipe. Nothing is assumed of the editor's sending, of loaders or of refreshes: a
refresh may hang for ever and requests are answered still. `ClusterState`:
`LocalFairness`, of the specification of run `refresh`, is that of the runtime,
for whoever holds or is granted the lock; `TimerFairness`, that timers fire, is
the premise of `RefreshTerminates` alone. `CrdSources!Fairness`: the timers of
`list_crds` fire and a loader that has something to insert is polled; nothing
is assumed of reading files, and nothing claimed of when that ends. Nothing is
ever assumed of the network.

*Mutants.* Every property of a passing run has a mutant in `PROJECT.json`: an
operator beside the one it changes, marked "Mutant" in the module, under which
the run must fail.

## 4. Theorems

For all values of the constants that satisfy the named assumptions:

* `LspServerProofs!TypeSafety`, `HandlersApart`: `TypeOK` and `HandlersOK` hold.
  The inductive invariant `TypeInv` has both and adds that `parked` is finite, without which its
  cardinality says nothing. `HandlersOK` is needed for the types themselves:
  that `TakeSnapshot` finds a document with parts and that a resumed completion
  still has its part depend on which message a handler works for.
* `LspServerProofs!StoreMirrors`: the store is what the editor's messages make
  it. Assumes `MaxBatch <= 1`, that is, one content change per notification:
  the code looks at the first only, and with two the statement is false. The
  argument: of the edits of a file among the first n + 1 messages the newest is
  either the one just taken or the newest among the first n (`EditorDocsStep`),
  and messages sent later change nothing of that (`EditorDocsStable`).
* `ServerAnswersProofs!Offline`: `OfflineUnlessEnabled`. `EnabledInv` adds that
  `cluster_enabled` is what the option says once `initialize` has run and false
  before, and that nothing of the cluster is under way while it is false.
* `ServerAnswersProofs!AnsweredOnce`: `OneAnswerPerRequest`, inductive beside the
  types: a completion is parked or answered, never both.
* `ServerAnswersProofs!AnswersFromAskedText` (assumes `MaxBatch <= 1`):
  `AnswersUseAskedText`. `AskedInv` says of the completions still parked what
  the property says of answers.
* `ServerAnswersProofs!RevisionsFaithful` (assumes `MaxMessages <
  RevisionModulus`): `SnapshotFaithful`. `RevisionInv` bounds the revision by the
  messages taken, so that it has not wrapped, and compares every snapshot taken
  with the present store.
* `ServerAnswersProofs!OffersOnce`: `OfferedOnce`, for any order of any number of
  files (`FilesInv`: there are finitely many). Of the places of one reference the
  first in its file is kept, for what comes right before it is another reference
  (`LeastPlace`); of a later one the greatest place before it in the same file
  and of the same key is right before it and equal to it (`LastPlace`,
  `KeptOnce`). That the sort does not compare files is why the second part needs
  that a file is visited once (`OrderOneToOne`).
* `ServerDiagnosticsProofs!DiagnosticsInOrder`: `ShownInOrder`. `OrderInv` says
  that publications on their way are in the order of their edits, behind those
  shown and before those to come. It needs `WorkInv`: the second read of the
  store in `publish_diagnostics` finds the document the handler has stored.
* `ServerDiagnosticsProofs!DiagnosticsSettle`: `DiagnosticsAgree`. `OutcomeInv`
  says of every file that has been edited: its edit is in hand, or the last that
  the server has told the editor about it (`Told`: the last publication on its
  way or, with none, what is shown) is the outcome of its latest edit.
* `ServerDiagnosticsProofs!DiagnosticsVersioned` (assumes `MaxBatch <= 1`):
  `DiagnosticsMatchVersion`. `MatchInv` says the same of publications under way.
* `ServerDiagnosticsProofs!SchemasKept`: `SchemasNotForgotten`. A loader may
  insert between the lookups of two parts of one file, so a publication is not
  judged by one state of the registry. `ForgetInv` says that what was found is
  in the registry still (`Found`; only a loader changes it, `RegistryStep`, and
  it only grows, `RegistryGrows`), and that of two publications, shown or on
  their way, the later has found what the earlier had.
* `SchemaRegistryProofs!Consistent`: `RegistryInv`, that the cache holds embedded
  schemas only, each under its key, and that a lookup is in the right one of the
  two maps.
* `SchemaRegistryProofs!Implements`: `SchemaRegistry` implements `RegistryCalls`,
  for any number of callers. The instant of a call is the step that gets its
  result: a hit in the cache, the end of a parse, the read of the dynamic map.
  `RegistryInv` is why the first two are what `Lookup` says at that instant.
* `SchemaRegistryProofs!OnlyDefined`, `Loaded`, `LoadersConsistent`,
  `LoadersImplement`: with the two loaders beside the lookups. `LoaderInv` has the
  types of the lists (`LoaderTypes`), where the file loader stands in the files
  (`Position`), that all that is gathered or registered is from a CRD
  (`FromCrds`), and `Kept`, which says of every definition in front of a syntax
  error that has been read: it waits in the list with nothing of an earlier CRD
  behind it (`Waits`), or it has been inserted, its key holds it or a later
  definition, and nothing of an earlier CRD is still to come (`Entered`). The
  second half of each is needed because an insert of an earlier definition of the
  key would take its place. `SoundFilesLoaded` is `Kept` with the list empty.
* `SchemaWalkProofs!WalkTypes`: types, and that a walk at the end of its path has
  a node. `ResolveType` is by the least place of a chain that is no node.
* `SchemaWalkProofs!CompletionComplete`, `SearchComplete`: `OffersMergedFields`
  and `GivesUpOnlyUnknown`, for any schema, cyclic ones too, on the premise the
  properties have (`RefsSettle`). `SearchInv`: the children of what is passed
  have been passed or are ahead (`PassedClosed`), so what is passed when nothing
  is ahead is closed and holds `Merged(node)` (`PassedAll`). That a walk ends is
  not claimed.
* `SchemaWalkProofs!AcceptedShown`: `AcceptedIsHovered`, on the same premise.
  Hover and completion take the same steps as long as both have a segment to
  take, so `RetraceInv` keeps of a completion where its search has led from its
  beginning, and of the hover after it that its search, but for the last segment,
  has still to get there. "Leads to" (`Leads`) is membership in every set closed
  under the one next step (`OnStep`), which `LeadsOn` and `LeadsFrom` extend at
  either end without counting. The last segment is then taken at the first node
  that has it, which is the one the candidate is from (`TowardsFound`), or one
  with a schema for additional fields. A completion answered by ObjectMeta has
  found no field in the schema itself, where the hover finds none either and
  falls back like it (`Spent`, `TowardsEnd`).
* `SchemaWalkProofs!TypesOfHover`, `FieldsOfCompletion`: `TypesAgree` and
  `FieldsAgree`, for any document and any schema that is `Plain`. A path leads to
  one node (`LedToOne`). `ValidateInv` says that the validator is only ever at
  pairs of a value and the node its path leads to (`Pair`), that an issue is one
  of a pair, and that every pair has had its issues reported or has a value on
  the way to it still to be walked; so when nothing is left the issues are
  exactly those of the pairs (`ExactIssues`). `PlainWalk` says that hover and
  completion are at the node their segments lead to, too (`PairsHere`).
* `SchemaWalkProofs!WalkAlone`: beside the validator a walk is a behaviour of
  `WalkSpec`, so what is said of that holds of `SchemaUse`.
* `ClusterStateProofs!TypeSafety`: types, with `NextInRange`: a refresh that
  may still ask has a kind to ask for, and one about to store has asked for all.
* `ClusterStateProofs!Implements`: `ClusterState` implements `ClusterIndex`. A
  spawned refresh maps to a member of `refreshing` until it stores or records
  its error; `StoreResources` is `Commit`, `SetError` is `Abandon`, and the
  requests, the lock and the readers are stutters.
* `ClusterStateProofs!StoredIndexWithinRefresh`: `IndexWithinRefresh`. The
  property says nothing of a refresh under way, so `IndexInv` strengthens it to
  `Within` (of every refresh, for the kinds it has asked for), `Watched` (the
  witness encloses what exists now, which is what the next list returns) and
  `SourceOK` (the stored index is what its refresh found).
* `SplitDocumentsProofs!Separation`: `RangesApart`. `SplitInv` adds that the
  current document begins after every range found, by a gap: a range ends
  where its marker begins, the next begins behind the newline of that marker,
  and a marker has three bytes (`LineAssumption`).
* `SplitDocumentsProofs!CursorHasOnePart`: it follows that `part_at`, which
  counts the end of a part as inside it and takes the first that fits, has one
  candidate at most.
* `SplitDocumentsProofs!EveryLineKept`: `LinesKept`. `ContentInv` says where the
  lines are (`Layout`), that the current document begins behind the last marker
  (`StartAtMarker`), that a range lies between two markers or the ends of the
  text (`BetweenMarkers`), and that what is read is in a range or in the current
  document (`Covered`). Two lines are then in one range just if no marker is
  between them (`RangesBetweenMarkers`, `MarkersBetween`), markers being what the
  code takes for one; the property is about the comment's separators, so the
  lines with a value behind the dashes are the exception it names.
* `SplitDocumentsProofs!PartsStandAlone`, `CursorFindsPart`: `BrokenStaysAlone`
  and `CursorInItsPart` follow, the one from `LinesKept`, the other from
  `CursorHasOnePart`. `TypeSafety`: `TypeOK`.
* `SplitDocumentsProofs!IssueStaysInPart`: `IssueShownInItsPart`. `Adjacent` says
  that one byte, the break, stands between two lines, so that between the
  beginnings of two lines there are as many breaks as lines (`BreaksBetween`),
  and that a range, which begins at 0 or one byte behind a marker, begins where
  one of its lines does (`FirstLine`). The breaks before the part and those in
  front of the line in it then add up to the line's number.
* `PathAtProofs!TypeSafety`: the columns on the stack grow, whatever the lines.
* `PathAtProofs!OpenPath`, `PathBelowOpenNodes`, `PathToCursor`: the three
  properties of run `path`. `PathInv` says of `OpenOf(nodes)`, the nodes that
  columns alone leave open, what the properties say of `OpenNodes`:
  `PushOpens` and `OpenAppend` show that a node has the same effect on the
  stack and in the text, `OpenByColumn` that the two sets are the same where no
  sequence is written at the column of its key. `LastPosition` gives pop_to's
  `CHOOSE` its value.

Model-checked only: liveness under fairness, which is out of the prover's reach
(`EveryRequestAnswered`, `EditsEventuallyShown`, `RefreshTerminates`,
`ReadersNeverWaitOnNetwork`, `ClusterLoaderEnds`). Every invariant and every
refinement of the passing runs is a theorem.

What `DocAssumption`, `CrdAssumption` and the others ask of the constants TLC
evaluates in the runs; `AbsentAssumption` says that `None` is not a name.
`RefsSettle` and `Plain` are no assumptions but premises inside the properties,
and run `schema` has schemas on both sides of each.

## 5. Not modelled

What could still be added, in order of worth:

1. The end of a session: `shutdown` and `exit` while a loader still reads files
   or a completion is parked. tower-lsp decides most of it.
2. Wide characters: columns in UTF-16 units taken as bytes. Every text here is
   of single-byte characters.
3. Combinators that lead back to themselves through `$ref`: `step` would recurse
   for ever on a segment it does not know. The theorems about `SchemaWalk` are
   about every state of a walk on such a schema, the instances have none.

Left out for good: rendering of markdown (`hover.rs`: text made of one node,
which `SchemaWalk` finds), ranges and log messages, reading the kubeconfig and
the wire protocol, the contents of the embedded schemas, which are data
(`Bundle` stands for them), and the fuzz target and transcripts, which drive the
parts above.

## 6. Findings

* `metadata`: `is_metadata_path` wants a segment below `metadata`, so directly
  below it, where its fields are typed, completion offers nothing though the
  README says that `metadata.*` falls back to ObjectMeta.
* `combinators`: the first combinator child that has `properties` takes the place
  of the node, so the fields the node declares itself are not walked and the
  type of their values is not checked; the comment of the validator says that it
  reports type mismatches and walks descendants transparently.
* `terminator`: `...` is looked at on the last line only, so it does not end a
  document that another one follows, and the two become one unreadable range;
  the comment says that it is "treated as a terminator for the current doc".
* `soft_failures`: a list that fails is logged, not "stored in `last_error`",
  and the refresh clears `last_error` at its end.
* `flush_sequence`: `- name:` at the column of `containers:` takes that key off
  the path, though the path is to lead "from the document root".

Seen while reading, and contained in the models without a property:

* `did_change` keeps the first of several content changes; the comment there
  argues from FULL sync that the first one is the whole document, yet the
  protocol applies all of them in order and the last full text is the file's
  (`MaxBatch`; the theorems that need it assume one change);
* the README configures `cluster = false`, but only an object
  `{ enabled = true }` enables the cluster; `true` is taken as disabled
  (`LspServer`, `ClusterEnabledFrom`);
* a comment above a `---` is a part of its own, and the fallback by file name
  wants exactly one part, so such a kustomization file is not recognized
  (`DocumentStore`; README.md:47, `snapshot.rs:30-31`);
* README.md:45 names completion of enum values, which no code offers;
* `locate_path` shows an issue at the first line of the part that begins with the
  last key of its path, whatever its parents, a line of a block scalar included
  (`SplitDocuments`, `Locate`);
* the validator looks at no combinator child without `properties` and at none
  nested in another (`Validate`, `ResolveCombinator`, `Holders`);
* after a refresh that cannot connect the old index remains, not the "empty
  cluster state" of `k8s-lsp-cluster/src/lib.rs:5-6` (`ClusterIndex`, `Abandon`);
* a line `--- value` counts as a separator and the value is lost
  (`SplitDocuments`, `IsSeparator`; parser `lib.rs:23-24` knows a bare `---` and
  one with a comment only);
* with the cursor in the indentation of a line with a key, the key's parents are
  cut from the path and the key itself is kept (`PathAt`, `ReadCursorLine`;
  `CursorOnNode` holds from the line's first character on);
* nothing publishes diagnostics again when a CRD loader finishes, so a file
  opened before keeps what it was shown until its next edit; "periodically
  refreshed" (`k8s-lsp-cluster/src/lib.rs`) describes no code, a refresh runs at
  startup and on command only; when cluster and files both bring a CRD, the later
  insert wins.
