# SourceRAG, specified

SourceRAG indexes the files of a Git or SVN repository into a Qdrant collection
and answers questions about the code from it. The collection holds vectors and
metadata only: the text of a search hit is read from the repository, at the
revision stored with the hit ("VCS is the proof store", ADR-002). This directory
holds TLA+ models of the code under `src/`, the TLC configurations that check
them on small instances, and TLAPS proofs of what holds for instances of every
size. Paths below are relative to the repository's `src/` directory.

- [The system](#the-system)
- [The models](#the-models)
- [The runs](#the-runs)
- [What is proved](#what-is-proved)
- [What is not modelled](#what-is-not-modelled)
- [Plan](#plan)

## The system

| Component | State | Operations | What makes it correct |
|---|---|---|---|
| Indexing handler (`SourceRAG.Application/Indexing/IndexRepositoryHandler.cs`) | locals of each invocation: revisions, the list of files, the place in it, counters | `Handle` for an incremental or a full request, `FullReindexAsync` with resume, `ProcessFileAsync` | what the state file says is indexed is in the collection, whatever was cut off |
| Git provider, reindex strategy (`Infrastructure/Vcs/Git`) | none; reads the working copy's repository | `GetCurrentRevision`, `GetFilesAtHeadAsync`, `GetChangedFilesSinceAsync`, content, blame | the reads of one run agree on the revision |
| SVN provider, strategy (`Infrastructure/Vcs/Svn`) | none; reads server and working copy | the same | the merged log tells what became of each file, and what is recorded as indexed has been read |
| State store (`Infrastructure/Vcs/State/FileIndexStateStore.cs`) | `.sourcerag-state.json` and its `.tmp` in the repository | last revision and checkpoint: get, set, save, clear | each read sees a whole record, no write is lost |
| Vector store (`Infrastructure/VectorStore/QdrantVectorStore.cs`) | a Qdrant collection | ensure, upsert, delete by path, search, count | one point per chunk; collection and payload index exist before use |
| Chunkers (`Infrastructure/Chunking`) | none | `Chunk` | the lines of a chunk are the lines its words are on |
| Chat query (`Application/Query/ChatQueryHandler.cs`) | none | embed, search, read each hit's file at its revision, complete | each hit can be resolved |
| Status query (`Application/Status/GetIndexStatusHandler.cs`) | none; four reads | `Handle` | the four reads describe one state |
| Local providers (`Infrastructure/Embedding/Local`, `Infrastructure/Llm/Local`) | weights, embedder or executor, semaphores | lazy initialisation, inference, disposal | initialised once, before use, and never disposed while in use |
| Remote providers (`Infrastructure/Embedding/Api`, `Infrastructure/Llm/Api`) | none | one HTTP request each | - |
| Hosts (`SourceRAG.Api`, `SourceRAG.McpHost`) | none | start-up, endpoints, MCP tools | the collection is ready before the first request |
| Web client (`SourceRAG.Web`) | status and messages of the panel and the chat page | polling, buttons, sending | what the user sees and may press follows the server |
| Reconnect dialogue (`SourceRAG.Web/Components/Layout/ReconnectModal.razor.js`) | the dialog, a listener of the tab's visibility, calls awaited | Blazor's events, retry, resume | a user whose connection is lost gets back, and no session that works is thrown away |

Calls go from the hosts through MediatR to the handlers, from there to the
providers and stores. There is no lock and no queue between requests: two
`POST /index` requests, or one and a call of the MCP tool `index_repository`,
which runs in another process, are two invocations of the handler at once. They
share the collection and the state file. The working copy belongs to the user,
who commits, pulls and checks out while a run is under way. Every `await` may
end in an exception or a cancellation, and the process may be killed; nothing is
rolled back.

What is hard to get right here, and hardly tested, is listed in `PROJECT.json`
under `hazards`: runs that are cut off and resumed, runs side by side, HEAD
moving between two reads, the state file being read, changed and written back by
two processes, the panel polling meanwhile, retries that overlap, hosts that start
side by side.

## The models

### IndexRepository

`IndexRepository.tla` is the core: the handler, the Git provider it reads, the
collection and the state file it writes.

| Variable | Stands for |
|---|---|
| `head` | the commit HEAD points at |
| `indexState` | the record in `.sourcerag-state.json`: last indexed revision, checkpoint |
| `points` | the collection; a point is a path, a revision and a chunk, the parts of its id |
| `job` | the local variables of each invocation of the handler, `pc` the next await |

One action is one await of the handler together with the code up to the next
(`GetChangedFilesSince`, `GetCurrentRevision`, `GetCheckpoint`, `GetFilesAtHead`,
`DeleteFile`, `DeleteOldPath`, `TakeFile`, `ReadFile`, `UpsertChunk`, ...). A method
of the state store that reads the record, changes it and writes it back is two
actions, because another process may write in between (`ReadStateToSave` and
`SaveCheckpoint`, `ReadStateToClear` and `ClearCheckpoint`). `ReadFileThrows` is
what the Git provider does with a submodule in a diff and with a file without a
line to blame. `Abort` ends a job at any await: an exception of Qdrant or the
embedding provider, a cancelled request, a killed host. `MoveHead` is the user.

The history is a constant: `Tree[r][p]` is what commit `r` has at path `p`.
Commits are numbered so that a history may be called linear, paths so that
`Commit.Tree` has an order; contents are opaque, `Chunks` says which chunks a
content yields and `SymbolName` which of them have a symbol. The rename detection
of libgit2 is any pairing of removed with added paths. Three data abstractions
are made: authors, messages and line numbers are left out; all files of a
listing are chunked (`PlainTextChunker.CanHandle` is always true); the branch
name, which is only stamped on points, is left out.

### StateStore and StateRegister

`StateStore.tla` opens the state file's box: inodes with contents, the two names
`final` and `temp` that refer to them, and calls that are between opening,
serialising, moving and deserialising. A file that is open stays what it was
when its name is moved. `CreateTemp` is `FileMode.Create`, which empties an
existing file; `FileShare.None` keeps two streams from writing one file, but
does not keep a writer from emptying the file another has finished and not yet
moved. `Abort` closes the streams and leaves the files.

`StateRegister.tla` is the abstract specification: a register that is written at
one moment and read at one moment. `StateStore` implements it with
`value <- ContentOf(final)`, a write taking effect when the file is moved, a read
when the file is opened. `IndexRepository` uses the register's granularity, a
read and a write of the record as one step each, and the refinement is what
makes this sound as long as one process writes.

### StatusPanel

`StatusPanel.tla` is the status panel of the web client with the server behind
it: runs, seen through the state file (`run`, `state`); `GetIndexStatusHandler`,
which reads the state file once for the last revision and again for the
checkpoint (`load`); the panel's fields (`shown`, `failed`, `working`, `timer`),
its `ReindexAsync` calls (`request`); and what the browser has rendered (`page`),
which lags behind. A step of the panel is the code between two awaits, since all
of it runs in the renderer's synchronisation context. The timer does not wait for
the poll before, so polls overlap and answers may be reordered. `RequestFails` is an
error status or the HTTP client's time-out; the run at the server may go on. A run
counts files instead of naming them, and the methods of the state store are one
step, because nothing the panel shows depends on more.

### ReconnectModal

`ReconnectModal.tla` is the script of the reconnect dialogue with the Blazor client
that raises its events and answers its calls.

| Variable | Stands for |
|---|---|
| `open`, `class` | `reconnectModal`: whether it is shown as a modal, and its class `components-reconnect-...`, which Blazor sets |
| `listening` | `retryWhenDocumentBecomesVisible` listens to `visibilitychange` |
| `page` | the page with its handlers, or the browser loading it again |
| `call` | what each invocation of `retry` and `resume` awaits |
| `visible`, `reachable`, `circuit` | the tab, the network, and what the server still has of the session |

A step is what the browser does in one task: an event with its handlers, or the
answer to a call with the code up to the next `await`. `HandleReconnectStateChanged` is
the handler of Blazor's four events; `Retry` is `retry` up to its first await,
entered from the button (`ClickRetry`) and from the tab (`ShowTab`); each answer is an
action: `ReconnectSucceeds`, `ReconnectRefused`, `ResumeCircuit`, `ResumeRefused`,
`RetryCatch`, `ResumeCatch`. Nothing keeps a retry from being started while
another is awaited, so `Call` has several members.

Taken from what the script relies on, and external: a lost connection raises
`show`; Blazor tries again by itself and then raises `hide`, `rejected` or, at last,
`failed`; a paused circuit raises `show` with the class `paused`; a successful
`reconnect` or `resumeCircuit` raises `hide`; a call that cannot reach the server
throws, perhaps late; the server may store or drop a circuit that has no
connection at any time, and what is stored can be resumed once.

### SvnIndex

`SvnIndex.tla` is the SVN provider and strategy with the runs that use them. What is
different from Git is that two places are mixed: the log and the list of files are
the server's, at its HEAD; the revision that files are read at and that is recorded
is the working copy's, which `svn update` moves (`Update`).

| Variable | Stands for |
|---|---|
| `repository` | the server: for each revision its tree, the changed paths as the log gives them, how far each path's history goes back, and whether the files it made have a line to blame |
| `workingCopy` | the revision of `RepositoryPath` |
| `last`, `checkpoint` | the record in `.sourcerag-state.json` |
| `points` | the collection, a file with all its chunks at a time |
| `job` | the run: its revisions and what is left of its loop |

Paths are files and directories; `Above[p]` is the directories `p` lies in. A commit
changes a path itself, which for a directory is its properties, deletes it with what
lies below, adds or replaces it (`CommitPath`), or copies or moves it, with all or some
of what lies below it (`CommitCopy`). Whatever happens below a directory, the log has
the one entry of the directory, as SVN's has. `Changes` is
`GetChangedFilesSinceAsync`: each path once, its later entry in the earlier one's
place, directories among them, for the code does not look at the kind of a changed
node; `GetFilesAtHead`, the list of a full run, does. A file can be read (`Readable`) if the
path has the revision, the path at HEAD has a history that reaches back to it, and
blame tells at least one line, as `client.Write` and `GetBlameAsync` need; a directory
never can. Otherwise the run throws (`ProcessFileThrows`). The handler is coarser here
than in `IndexRepository`: one run at a time, all chunks of a file and an update of the
state file a step each.

### Hosts

`Hosts.tla` is the start-up of the API and the MCP host, which are processes with
one Qdrant between them, and the questions they answer with a local model.
`CollectionExists`, `CreateCollection` and `CreatePayloadIndex` are the three awaits of
`EnsureCollectionAsync`, between which the other host may do anything and the process
may end; Qdrant refuses to create a collection twice (`CreateCollectionThrows`), which
ends the host. A question waits for `_initLock`, makes the executor unless it is
there, waits for `_inferenceLock` and infers; the check outside the lock
(`CheckInitialized`) is a step of its own, and a question may be cancelled while it
waits or fail at any step. `executor` names the request that made it, so that a
second executor is another one.

### PlainTextChunker

`PlainTextChunker.tla` is `Chunk` with the lines that `ChatQueryHandler` cuts out of a
file for a chunk. A text is a sequence of *kinds* of characters: letters, blanks,
newlines, and white space that `Split` does not split at. `WordStarts`, `CountLines` and
`Skip` say what `Split`, `CountLines` and the two inner loops compute; the outer loop of
`CharOffsetOfWord` is a recursive function; the loop of `Chunk` is the action
`NextWindow`. `LineOf`, the line a word is on, is the reference the lines are
compared with.

## The runs

A module `MC...` defines the instances of its component.

| Run | Checks | Shows |
|---|---|---|
| `ReconnectOverlap` | `TypeOK`, `AlwaysAnotherTry`, `DialogWhileAway`, `Rejoins`, `ReloadOnlyWhenOvertaken` | three retries and resumes that overlap, a server that is lost, paused and restarted: after Blazor has given up there is always a further try, the dialog is there exactly while the session is away, the user gets back to a working page, and a session that lives is reloaded only by a call that another one's successful resume has overtaken |
| `IndexOneJob` | `TypeOK`, `IndexedIsSearchable`, `CheckpointIsKnownGood`, `DeletedFilesPurged`, `CommitIsComplete` | one job at a time, cut off anywhere and started again in either mode, while HEAD advances: files unchanged since the last indexed revision are searchable at all times, what a checkpoint skips is in the store, a run that ends well has stored all files, and an incremental one has purged what it deletes |
| `IndexTwoJobs` | `IndexedIsSearchable`, `CheckpointIsKnownGood` | the same two claims with two jobs side by side, as long as a deleted path is not used again |
| `IndexConverges` | `Converges`, `PointsResolvable` | full runs, each of which may be cut off, get to HEAD because they go on from the checkpoint; HEAD may move between any two reads, and still no point names a commit that lacks its file or chunk |
| `SvnRuns` | `TypeOK`, `LogIsDifference`, `IndexedIsSearchable`, `DeletedFilesPurged` | a file in a directory and one at the top, runs cut off anywhere while the working copy is behind the server: the merged log names what differs or a directory above it, files unchanged since the last indexed revision are searchable, files deleted by themselves purged |
| `SvnDirectories` | `IndexedIsSearchable`, `Converges` | two directories that are copied, moved and replaced, and files without a line: unchanged files are searchable, and once what is left to index is files that can be read at the server's HEAD, repeated runs catch up with it, although they throw at files the working copy does not have yet |
| `HostsServe` | `TypeOK`, `ServingHasCollection`, `IndexIsOnItsWay`, `OneInference`, `ExecutorStays`, `HostsServe`, `QuestionsEnd` | two hosts that start at once and end anywhere come to serve, with a collection that fits; questions that overlap, fail and are cancelled use one executor one at a time, and all end |
| `ChunkWindows` | `TypeOK`, `EveryWordChunked`, `ChunksBounded`, `ExcerptIsRange`, `StartsInTime`, `TidyLinesExact` | for all short texts: no word is missed, there are at most as many windows as words, the lines are a range that does not start too late, and exact where the joined words are the text |
| `StoreOneWriter` | `TypeOK`, `StateFileComplete`, `ImplementsRegister` | one writing process, any reader, each cut off anywhere: the state file is whole and is a register |
| `PanelSettles` | `TypeOK`, `WorkAwaitsACall`, `SettlesOnState`, `WorkingEnds` | with overlapping polls, reordered answers, failing requests and a run of another client, the panel is at work only while a call it awaits is under way, ends up showing the state file and does not stay at work |

Two runs show a disagreement between the code and what the repository says of it;
they are listed with the quoted line under `findings` in `PROJECT.json`.

| Run | Violates | Shows |
|---|---|---|
| `PanelIndexing` | `IndexingEnds` | a checkpoint outlives a run that was cut off, the status calls it a run in progress, and the panel keeps both buttons disabled |
| `SvnDirectoryDeleted` | `DeletedFilesLeaveNothing` | a directory that is deleted is one entry of the log; the run asks for the deletion of the directory's points, of which there are none, records the revision, and the points of its files stay |

**Where the checked claims end.** Some assumptions of the runs are needed: without
them TLC finds the counterexamples described here. To see one, change the constant
named in the `.cfg` of the run.

- `RacingReads = TRUE` in `IndexOneJob`: `GitReindexStrategy` reads HEAD for the diff
  and again for the revision it records; a commit in between is recorded and never
  indexed (`IndexedIsSearchable`). ARCHITECTURE.md:216 speaks of one HEAD.
- `HeadMoves` with moves back, so that `ForwardOnly` fails, in `IndexOneJob`: HEAD
  leaves the checkpoint's commit, an incremental run deletes files there and is cut
  off, HEAD comes back, and the resumed run skips the deleted files
  (`CheckpointIsKnownGood`). ADR-002:78 has checkpoints ignored once HEAD has moved.
- Two members of `Writer` in `StoreOneWriter`: they share one `.tmp` file, and one moves
  the file the other has just emptied (`StateFileComplete`). SPEC-003:137 calls the
  writes atomic.
- `KeepsResumeFile = FALSE` in `SvnRuns`: the file that a checkpoint names is deleted at
  the server while the working copy's revision stays; the resumed run never meets
  the file, skips the whole list and records the revision (`IndexedIsSearchable`).
- The points of a modified file's former content stay searchable, because the
  revision is part of the point id and nothing is deleted (ADR-006:58 says they are
  overwritten); chunks without a symbol share one point id, so a plain-text file
  keeps one point (ADR-006:33 says that the chunk index takes the symbol's place).
  Both are in the model (`PointOf`, `SamePointId`), and the properties are stated up to them.
- The panel posts `mode` where the API binds `fullReindex` (`BoundFullReindex`): the
  button Full Reindex starts an incremental run, SPEC-006:170 notwithstanding.
- `IndexedIsSearchable` of `SvnIndex` leaves out files that were copied in place of
  another one (`CopiedFrom`): the handler deletes the points of a replacement's
  source, which after a copy lives on.
- `StartsInTime` leaves out texts with a word that is white space only, such as a form
  feed on a line of its own: `Split` counts it, the walk does not, and later chunks
  start a word late.
- `TidyLinesExact` is about texts in which joining the words gives the text again. The end
  line of a window is counted along the words joined by single blanks, so each longer
  separator between two words, such as a blank line or an indentation, makes it come
  short, and the excerpt a query reconstructs may lack the window's last words
  (README.md:43 has the text of a chunk reconstructed from its lines): with two words
  that two blanks and a line break separate, the excerpt is the first line only.
- Of a directory that is deleted, moved or replaced in SVN the log does not name the
  files. `LogIsDifference` asks for the file or a directory above it, and
  `DeletedFilesPurged` is stated for files that were deleted by themselves; for the
  others it fails (`SvnDirectoryDeleted`).
- An incremental SVN run throws at each directory that was added, copied or had a
  property changed: the provider returns it as a changed file, although
  ARCHITECTURE.md:183 speaks of "only the affected file set", and `client.Write` cannot read
  it. Since the run then records nothing, every later incremental run throws too,
  until a full run goes through. An empty or binary file makes runs of both modes throw,
  for as long as it is at HEAD. `Converges` therefore has `Legible` as a hypothesis: what is
  left to index is, from some time on, files with a line. Without it the property fails.
- `IndexedIsSearchable` of `SvnIndex` leaves out files whose own last entry in the log is a
  deletion and that are there all the same, because a directory came back with them
  (`LastDeleted`): a run deletes their points and then throws at the directory.
- A path that is deleted and comes back with the content it had at the last indexed
  revision, after a run that purged it was cut off, is not in the next diff, and its
  points are gone (`IndexedIsSearchable`, `CommitIsComplete` of `IndexRepository`). In
  `IndexOneJob` a path comes back with another content; `DeletedForGood` excludes the case
  in `IndexTwoJobs` and in the theorems.
- With two calls of the reconnect dialogue at once, each refused by `reconnect`, the second
  `resumeCircuit` finds nothing to resume and reloads the session the first one has got
  back, unless Blazor answers both with one outcome, which nothing in the repository
  says. `ReloadOnlyWhenOvertaken` says that this is the only way to lose a session that
  lives. Nor is it excluded that a retry that throws late leaves the tab watched in a
  session that another retry has brought back; the next look at the tab then starts
  a retry.

**Bounds.** Three commits and three paths (and a fourth for a submodule): an edit, a
rename, and a path that is deleted and used again need three commits, and a
checkpoint with a file before and a file after it needs three paths. One content
has two chunks with symbols, one has two without, so a run can stop between two
upserts and ids can collide. A job can start any number of times, so two crashes
and a third run are within one job; two jobs are enough for every pairwise
interleaving. `MaxCount` is where the counter of processed files saturates; it grows
with every resume and no property reads it, so `IndexTwoJobs` sets it to 0. The
state store has two records and four inodes: one per name, one held open by a
reader, one fresh. The panel has two polls of its timer besides the load that
follows a request, so three answers can be reordered; one request of its own and
one run of another client; one file, so that a run can be cut off with a
checkpoint and without. Three calls of the dialogue are awaited at once: one that
is about to throw, one that is refused and one that succeeds. An SVN
file in a directory and one beside it (`SvnRuns`), over three revisions, are the least in which a file is copied over
another, moved and used again between an indexed revision and HEAD and in which its
directory may change as well; two directories with a file each (`SvnDirectories`), over
two revisions, are the least in which a directory is copied or moved onto another, and
enough for a run to throw at a file that the working copy or HEAD does not have.
`BlankFiles` is on there and off in `SvnRuns`, which would otherwise be twice the size. The bound on the commits
(`MaxRevision`) ends the history, not the runs. Two hosts and two questions are every pair
that can meet; a host starts any number of times. Texts have up to six characters,
which is three words with a separator longer than one, leading white space or a form
feed, and the sizes give windows of two and three words with steps from one word to
the whole window, the last by way of an overlap larger than the window.

**Assumptions.** `IndexOneJob` and `IndexTwoJobs` let HEAD only go forward
(`ForwardOnly`, ADR-005's linear history) and not between the two reads one run
makes of it (`RacingReads = FALSE`). Neither can be dropped (above). A full run is different:
`IndexConverges` lets HEAD move between its reads. With several jobs a deleted path
must stay deleted (`DeletedForGood`): a slow run that still has to delete the path
would otherwise delete the points another run has stored for its new file.
`SvnIndex` assumes of its paths that they are a tree (`TreeAssumption`: the directories
above a path lie in each other, none in itself) and that a path is a file or a directory
for good; its runs switch `RacingReads` off and `KeepsResumeFile` on (above).

**Fairness.** `Converges` is checked under `FairSpec`. A running request goes on
(`WF` of a job's step). The operator asks for full runs again and again (`SF` of
`StartFull`), and a step of a full run that is reached again and again is not cut
off each time (`SF` of each step): one can expect a file to be finished some
time, and cannot expect a run over all files to be. `SF` of the steps does not
by itself bring a run to its end, for `Abort` may come after any of them; it is
the checkpoint that turns steps into progress, and with a handler that ignores it
the property fails. The instance has one chunk per file, the granularity of the
checkpoint. HEAD moves once; while it moves for ever there is nothing to reach.

`PanelSettles` assumes what a timer and a browser do (`WF` of a tick and of a
render), that runs and requests not cut off go on, that a failed run is answered,
and that polls do not all fail at the same step for ever (`SF` of the steps of some
poll). Nothing is assumed of the user, and any run may be cut off.

`ReconnectOverlap`: Blazor makes its attempts and gives up in the end (`WF` of
`AutoReconnect \/ GiveUp`), every call is answered or throws, a page that is asked for is
loaded once the server can be reached, and the user looks at the tab now and then (`WF` of
`HideTab` and of `ShowTab`) and presses Resume in a session that stays paused (`SF`, for a
pause that ends in between takes the button away). Nobody has to press Retry; and
`Rejoins` asks only for a server that can be reached from some time on.

`SvnDirectories`: a run goes on (`WF` of `Step`), requests come again and again and the
working copy is brought up to date some time (`SF` of both, for a run under way
disables them, and the update may not come just between two reads). `Converges`
is asked of histories in which runs are cut off only finitely often, except by the
exceptions that the model itself produces, and in which what is left to index is
legible from some time on.

`HostsServe`: hosts are started again (`restart: unless-stopped` in docker-compose.yml)
and their start-up goes on; a question's step is taken, the length of an answer being
bounded (`MaxTokens`); and `SF` of the two waits, because `SemaphoreSlim` lets waiters in in
the order they came, so none is passed over for ever.

## What is proved

`ReconnectModal_proofs.tla`, for any number of calls:

- `TypeCorrect`, `NeverWaitsForNothing` (`AlwaysAnotherTry`), `DialogAlwaysWhileAway`
  (`DialogWhileAway`) and `LiveSessionReloadedOnlyByOvertaken` (`ReloadOnlyWhenOvertaken`),
  with no assumption on how calls overlap. `AlwaysAnotherTry` and `DialogWhileAway` are
  inductive together with the types: each way out of `retry` arms the listener, brings
  the session back or reloads, whatever the other calls do. For the last one, Blazor's
  own refusal is the case to see: it is raised only for a circuit that is not held.

`IndexRepository_proofs.tla`, for all constants that satisfy the assumptions of
the model, in particular any number of jobs, commits, paths and chunks:

- `TypeCorrect`: `Spec => []TypeOK`.
- `PointsAlwaysResolvable`: `Spec => []PointsResolvable`, with no assumption on HEAD.
- `IndexedAlwaysSearchable` and `CheckpointAlwaysKnownGood`: under `QuietLinearHistory`
  (no racing reads, `ForwardOnly`, `DeletedForGood`) the two invariants hold for any
  number of jobs.
- `CommitAlwaysComplete` and `DeletedFilesAlwaysPurged`: the two action properties, for a
  job on its own (`Alone`, the case `IndexOneJob` checks), the first under
  `QuietLinearHistory`, the second only without racing reads, on any history.

`PointsResolvable` is inductive with a claim about each job: a chunk it has still
to upsert belongs to the file and the revision it will be stamped with.

The other two are not inductive. The invariant `IndInv` says what each part of the
state *vouches* for, relative to the files that HEAD still has:

- the last indexed revision, and the value a job has read and is going to write
  back (`existing`): all files of it are stored, with the content they have there.
  This is why an update of the state file that is lost between two jobs costs
  work and no point;
- the checkpoint: the files of its revision up to its own are stored;
- a job in its loop (`WorkDone`): each chunk of the revision it has listed is stored
  or is still due, in a file it has yet to take or among the chunks it has left;
  and what it has yet to delete is gone from the history.

`Keeps` says that a step loses nothing of what HEAD still has: a run deletes only
paths that are gone in a commit at or before HEAD, and these stay gone. From it,
each of the three claims survives the steps of all the other jobs; a lemma per
action shows that a job's own step keeps its claim.

`CommitIsComplete` says of the revision a run has listed what `IndInv` says of HEAD, which
may have moved on. A job on its own deletes only what the commit it has listed lacks
(`ListedKeeps`), so the claims of `IndInv` hold with that commit in the place of HEAD as
well (`AloneInv`): for the run, HEAD might as well have stayed. `DeletedForGood` is needed:
a path that is deleted and comes back with its content is purged by a run that is then cut
off, and need not be in the next run's diff. The instance of `IndexOneJob` goes further than
the theorem, with a path that comes back with another content. `DeletedFilesPurged` needs
nothing of the history (`PurgeInv`): each path the diff has lost is in the list as a deletion
or as an old path until its points are gone, and nothing the run reads afterwards has that
path.

`StateStore_proofs.tla`, under `OneWriter`, for any number of readers, records and
inodes:

- `TypeCorrect`: `Spec => []TypeOK`; no answer is half a record.
- `FileAlwaysComplete`: `Spec => []StateFileComplete`.
- `StoreIsRegister`: `Spec => ImplementsRegister`, step by step.

The invariant: what a name or a reader refers to is *settled*, a whole record in an
inode that is not the temporary file; the writer has the temporary file for
itself while it serialises, and that file is a whole record when it is about to be
moved.

`Hosts_proofs.tla`, for any number of hosts and questions:

- `ServingAlwaysHasCollection` and `IndexAlwaysOnItsWay`. The invariant of the start-up
  follows a host step by step: past `InitializeAsync` it has the model's dimensions, past
  `EnsureCollectionAsync` the collection has them too, and a collection is never removed.
- `TypeCorrect`, `AlwaysOneInference` and `ExecutorAlwaysStays`. The type of the semaphores
  is itself the claim that none is released more often than it was taken. It and mutual
  exclusion need each other: `Inside` says that a question within a lock has taken the
  count of its host and is alone there, `Initialized` that past the first lock there is an
  executor.

`SvnIndex_proofs.tla`, for any paths and any number of revisions:

- `TypeCorrect`; `LogAlwaysDifference` (`LogIsDifference`), for every history the server may
  come to have; `DeletedFilesAlwaysPurged`; and `IndexedAlwaysSearchable` under `Quiet`
  (`RacingReads` off, `KeepsResumeFile` on, as in the runs).

`LogIsDifference` is a claim about the merge, which looks up the first and the last entry of
a path. It follows from what commits keep of the history (`Coherent`): a path's tree changes
only at revisions whose log *reaches* it, naming it or a directory above (`ChangesLogged`,
`ChangesReach`); the last entry that reaches a path, if it names the path itself, tells
whether the path is there (`EntriesTell`); and a file that was changed never has a former
content again (`NeverBack`). A path is `Alone` since a revision when nothing above it was
logged; of such a path the merged entry tells all (`AloneTells`), which is what
`DeletedFilesPurged` rests on. Commits only extend a history (`Extends`), so what a run has
computed from the log stays true while it works (`ToldRight`).

For searchability `StoredInv` says what the last indexed revision, the checkpoint and the
run vouch for, of the files that have not changed since, were not copied from and are not
last named as gone (`Stable`): such a file has its point or is awaited. A run with a
directory to read is `Doomed`: it cannot record anything (`DoomedStays`), so nothing is
asked of it but to leave what is stored, and this is how a file that came back unnamed with its
directory does no harm. A run that resumes has its checkpoint's file in its list, which is
where `KeepsResumeFile` enters.

`StatusPanel_proofs.tla`, for any number of requests, polls and runs:

- `TypeCorrect`, with `ActiveHaveRevision`: a run under way has the revision it is going to
  record; and `WorkAlwaysAwaitsACall` (`WorkAwaitsACall`). The panel's `working` is one flag,
  set and reset by requests that know nothing of each other's; the invariant
  (`LoadsOfRequests`) ties each load to its request, so that what ends the load ends the work.

`PlainTextChunker_proofs.tla`, for all texts and sizes (`ChunkSize` at least 2, which the
code does not ask for):

- `WordsAlwaysChunked` and `ChunksAlwaysBounded`. A step is at least a word and at most a
  window whatever the rounding (`StepType`), so the words before `wordIndex` are in windows,
  and window `i` starts at word `i - 1` or later.
- `TypeCorrect` and `ExcerptAlwaysRange` (`ExcerptIsRange`): the walk over the characters stays
  within the text and the joined words have a length, so the lines are a range.
- `StartsAlwaysInTime` (`StartsInTime`): `Split` and the walk separate words differently, but
  each word that is not white space only has a character that is none, and the walk comes
  to word `w` no later than to that character (`WalkInTime`), which is on the line the word
  starts on.
- `TidyLinesAlwaysExact` (`TidyLinesExact`): in a tidy text the walk comes exactly to the
  words (`TidyWalk`), and counting characters, letters and words up to a place (`TidyCount`)
  shows that the joined words end where the last word does (`TidyJoin`).

The walk is a recursive function, and the provers have no induction over data.
`Extrema.tla` gets it from the library's fact that `<` is well-founded on the
naturals: a set that has 0 and, with a number, the next is `Nat` (`SetInduction`). On it rest
`IterateExists` (a function can be applied `n` times, so the recursive function is one) and
`RankExists` (the elements of a finite set can be counted off, so each word has a place). Its
`LeastExists` and `GreatestExists` are what the `CHOOSE` of a first or last place needs, here
and in `SvnIndex_proofs`.

Every invariant and action property that a passing run checks is so stated by a theorem.
Model-checked only are the liveness properties (`Rejoins`, `Converges` of both indexes,
`SettlesOnState`, `WorkingEnds`, `HostsServe`, `QuestionsEnd`), for the proof system has no
rules for fairness, and the two findings, which are counterexamples. Not proved either is
anything outside the assumptions above: two jobs and a deleted path that comes back, racing
reads, two writing processes, SVN files that were copied from or are back with a directory.

## What is not modelled

`PROJECT.json` lists every component with its status. Out of reach or without
state of their own are: the Roslyn chunker (a walk of a syntax tree; its
result is the constant `Chunks`), the remote providers (one request and its
parsing), credentials and options (reads of the environment), the collection's
similarity search (Qdrant's), authentication, dependency wiring and endpoint
mapping. Left out of components that are otherwise modelled:

- the disposal of the local providers at shutdown, whose order relative to requests
  under way is ASP.NET's, and embedding requests side by side, whose safety is LlamaSharp's;
- the panel's disposal, and what it only displays (indexing time, number of chunks,
  percentage); the chat page, which sends one question at a time;
- SVN paths outside `RepositoryUri` or equal but for case, a path that changes between file and
  directory, and commits with more than two changed paths;
- a `ChunkSize` below 2 and a collection of another model's dimensions.

## Plan

1. `StatusPanel`: the panel's disposal and the counters behind the percentage.
2. Proofs: what two jobs side by side keep of `CommitIsComplete` and `DeletedFilesPurged`, on
   which conditions; the abstract index (a set of searchable files and a revision) that
   `IndexRepository` and `SvnIndex` both implement, as a refinement.
3. `SvnIndex` with several runs at a time, composed with the state file as
   `IndexRepository` has it.
