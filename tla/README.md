# Verification of devbox-bridge

TLA+ models of devbox-bridge, an MCP server that lets a remote client work on one
development box: read and change projects, run commands, and write notes in a git vault.
Sources are named relative to the repository; `notes.py` stands for
`src/devbox_bridge/tools/notes.py`, and so on.

## 1. Inventory

| Component | State | Operations | Hard behaviour |
|---|---|---|---|
| HTTP server (`server.py`) | none of its own | bearer middleware, 27 tool handlers, each through `_call_with_audit` | handlers are `async` but run blocking code on the one event loop: tools never overlap, the two stages of different requests do; the process can die between a tool's effect and its record |
| Authentication (`auth.py`) | token hash; one deque of admission times | `Authenticator.check`, `RateLimiter.check` | a window at its limit, boundary of the window, loss of the bucket at restart |
| Audit log (`audit.py`) | `audit.log`, rotated plain files, archives | `log`, rotation, gzip, retention, start-up clean-up | crash or full disk between rename, gzip and unlink; names with a resolution of a second |
| Notes vault (`tools/notes.py`) | a git clone: HEAD, index, working tree, rebase state, lock | `notes_write`, `notes_sync_pull`; `notes_list/read/search/sync_status` only read | nine git commands per write, each of which can fail or time out with or without its effect, against pushes from a PC, a pull-only cron job and the owner's repairs |
| Project registration (`deploy/register-project.sh`, `deploy/install.sh`) | staging area, project directories, `config.yaml`, ACLs, the running service, `admin-audit.log` | one run of the script | no lock, no rollback, `set -e`; reruns after a death anywhere; a service that is "active" before it has read its config |
| File and git tools (`tools/filesystem.py`, `tools/git.py`) | the projects' working trees and repositories | `write_file`, `apply_patch`, `git_create_branch`, `git_commit`, `git_push`, and reads | the developer saves, stages, commits and switches between any two commands of a tool; writes in place; git commands killed after their work |
| Execution (`tools/execution.py`) | processes left behind | `run_command`, `run_tests/lint/build` | a timeout kills the command and not its children, which may hold its pipes or go on writing |
| Path containment (`security/paths.py`) | none | `resolve_within`, `resolve_within_any`, called by every file, notes and log tool | one system call per component, roots and requests with links in them, a tree that others change between the check and the use |
| Command policy (`security/commands.py`) | none | `check_deny_list`, `check_command` | flags and paths in any position, patterns anchored or not |
| Environment sanitizer (`security/env.py`) | none | a filter of names | - |
| System tools (`tools/system.py`) | none | `tail_log`, `read_journalctl`, `list_systemd_services`, `get_system_info` | steps that fail for themselves; programs that are absent, slow or print no text |
| Reading tools (`notes_list/search`, `git_status/diff`, `search_files`) | none | a loop over what a program printed, or over files that others change | entries of two kinds in one stream (`-z`), caps that fall anywhere, files that go between listing and reading |
| Configuration (`config.py`) | the loaded config | validated as a whole at start-up | one bad project block and the service does not start |

How they interact: the middleware asks the authenticator, writes to the audit log on a
refusal, and otherwise hands the request to the MCP application, whose tool handler runs
the tool and then writes to the audit log, success or not. Tools share nothing but the
file system (and git) with each other and with the outside: the developer, the PC, cron,
child processes. `register-project.sh` changes the config under the running service and
restarts it.

What makes each component correct, in a line: the *vault* publishes one commit per write,
rewrites nothing and loses nothing it reported or kept; the *audit log* loses no record
before its retention; the *server* has a record for every answer and every change and
refuses only when the window is full; a *registration* never makes the config name what is
not there, and a reported one can be used; the *project tools* change the paths they were
given and nothing else of the developer's, rewrite no history, and always return; the
*path guard* keeps tools below their root whatever links say, and denies exactly what leads
out; the *command policy* lets no refused command through in another wording; the *reading
tools* say what they found, or that there is more.

## 2. Modules

| Module | What it is |
|---|---|
| `NotesVault` | `notes_write` and `notes_sync_pull` over a model of the git commands they run |
| `PublishedLog` | what the notes tools promise: an append-only history, acknowledged writes are in it |
| `AuditLog` | `AuditLogger`: append, rotation, compression, retention, start-up |
| `AuditTrail` | what it promises: records only go when their retention is over |
| `RateLimiter` | the sliding window; used by `BridgeServer` |
| `BridgeServer` | middleware, `_call_with_audit`, the event loop, composed with `RateLimiter` |
| `RegisterProject` | concurrent runs of `register-project.sh` |
| `ProjectTools` | the file, git and execution tools on a project shared with its developer |
| `PathGuard` | path resolution, lookup by lookup, and the tools that use what it returns |
| `CommandPolicy` | the deny list and the whitelist, as operators on the words of a command |
| `ProgramTools` | the tools that run a program or walk the vault and report; uses `CommandPolicy` |
| `MCNotesVault`, `MCBridgeServer`, `MCRegisterProject`, `MCProjectTools`, `MCPathGuard`, `MCProgramTools` | small instances for TLC (`AuditLog` needs none) |
| `NotesVaultProofs`, `AuditLogProofs`, `RateLimiterProofs`, `BridgeServerProofs`, `RegisterProjectProofs`, `ProjectToolsProofs`, `PathGuardProofs`, `ProgramToolsProofs` | the proofs |

A definition marked *Mutant* in a comment is a plausible bug of the definition next to
it. No specification uses one; putting it in the place of its original makes TLC find the
property it was written for violated, which shows that the property speaks of the code.

### NotesVault

State: `origin` is the branch on the remote; `base` and `ahead` are the vault's HEAD as a
prefix of it plus local commits; `wt`, `added`, `unmerged`, `rebase`, `saved`, `lock` are
the working tree, the index, a rebase in progress, what its abort restores, and a stale
`index.lock`. `call` is the call in progress: there is at most one, since tools run on
one event loop. A note's text is a *set of pieces*, one per write that contributed to it,
so a merge is a union and a lost or mixed-in text is visible; lines, encodings and paths
are left out. A commit carries the whole tree.

Actions of the code: `StartWrite` (containment, `.md`, whitelist), `CheckTree`, `PullOk` /
`PullFails` / `AbortRebase`, `WriteRefused` / `WriteFile`, `AddFile`, `CommitFile`,
`PushOk` / `PushFails`, `StartSyncPull`, and the faults: `CommandErrs` (any command exits
with an error or prints what cannot be decoded, with its effect or without; `rebase --abort`
too, whose exit code is dropped), `Timeout` (the same, or leaving the lock), `WriteErrs` (the
`mkdir`, `open` or `write` of the note raises, perhaps with part of it written) and `Crash`.
Git is not in the repository: `GitPull`, `GitPullStops`,
`GitRebaseAbort`, `GitAdd`, `GitCommit`, `GitPush` say what the command lines of
`notes.py` do. Where git's outcome depends on hunks the model has both outcomes, and
where one side replaced or deleted what the other changed, the conflict is certain.
`PcPush`, `CronPull`, `HumanResolves`, `HumanFinishes` and `HumanCleans` are the other
users of the clone; the owner works on it only while no call runs.

### AuditLog

`audit.log` and the files of each second are sets of records; `job` is the `log()` call in
progress (the lock makes it one) or the start-up clean-up. Size is counted in records and
retention in the same unit as the names' seconds. `SameSecond` says whether the file can
fill twice in a second. A full disk or a crash may stop any step half-way (`CutShort`): the
append then leaves a line without its end (`torn`), which takes the next record with it.
`AuditTrail` says how much that may cost: one record for each line cut short.

### BridgeServer and RateLimiter

A request goes `arrived` -> `admitted` -> `called` -> `answered`, or is `lost` in a crash.
`loop` is the request whose tool runs; while it does, nothing else is served. What a tool
does is one step that changes something or not (`effects`) and ends as a success, a
security rejection, another denial or an error; tools are told apart only as the events
of `AUDITED_READ_EVENTS` and the others. `audit.log()` is one step that records or
raises, which is what `AuditLog` shows. `hits` keeps all admissions, to judge `bucket`.

### RegisterProject

One action per command that changes or reads shared state: `Start` (pre-flight and
verification), `CheckTarget`, `CheckConfig`, `Move`, `Chown`, `ReadConfig`, `SwapConfig`,
`Install`, `Restart`, `Poll`, `Consume`, `Report`; `Dies` ends a run silently where `set -e`
or a reboot does; `Boot` and `AutoRestart` are the service. Signatures, hashes and schema
checks always succeed (every bundle in the model is one the bridge signed, and nobody edits
a staged one: that the manifest is read again at the merge is left out); the replay window
is kept. `mv` is atomic, as when staging and projects share a file system.

### ProjectTools

State: `tree`, `index`, `log` (the commits of each branch), `head` and `remote` are one
project and its clone on the remote; `procs` are the processes of its commands: the command
itself, a child on its pipes, one left behind. `call` is the tool in progress with its
local variables (there is one at most, as in `BridgeServer`), `policy` its `write_enabled`
and `allow_push`. The text of a file is the set of pieces written to it, the empty one a
file that is not there, so an edit that is lost, or committed by the wrong commit, is seen.

Actions of the code: `StartWrite`, `WriteBytes`, `WriteFails`; `StartPatch`, `ReadFile`, and
then the same write; `StartBranch`, `CheckBranch`, `Checkout`; `StartCommit`, `Add`,
`MakeCommit`, `Report`; `StartPush`, `ReadBranch`, `Push`; `StartRun`, `RunEnds`,
`RunTimesOut`; any command may refuse (`Refused`, which a stale `index.lock` comes under; the two
`rev-parse` after a commit too), print what cannot be decoded after its work (`Undecodable`)
or be killed, with its work done or not (`GitTimesOut`); `Crash` also kills what commands left
behind, since they are in the control group of the unit. `write_bytes` is one step, and a
full disk or a crash leaves `Torn`. Which paths, names and commands are refused is left to
`PathRefusals`, `NameRefusals` and `CommandRefusals`: a refusal is possible on every call,
which covers whatever `PathGuard` and `CommandPolicy` decide.

`Spawn`, `ProcessEnds` and `ProcessWrites` are what a command and its children do;
`DevEdits`, `DevStages`, `DevCommits`, `DevSwitches` the developer, who may come in between
any two commands; `OthersPush` is another clone. `GitAdd`, `GitCommit`, `GitCheckoutNew` and
`GitPush` say what the command lines of `git.py` do. Processes, like the developer's editor,
only add text to a file (so that what is lost was lost to a tool); only `DevSwitches` and
the tools take text out of one.

### PathGuard

State: `fs` says what is at each place (nothing, a directory, a file, one that is too large,
a link and its text), `walk` is the resolution in progress, `call` the tool call: its
request, the root it resolved (`_project_root`, `_vault_root`), the roots its guard
resolved, the target, and, for the properties only, what it has touched (what is made is
seen in `fs`). `Lookup` is one component of a path, one `lstat` and `readlink` of
`os.path.realpath` or one step of the kernel's own resolution; between any two of them
`OthersChange` may change the tree.

Actions of the code: `Start` (the first gate of `tail_log`, and which root is resolved
first), `RootResolved`, `GuardRootResolved` (a log root that is missing is skipped, a
project root is not), `Resolved` (`relative_to`, and for `notes_write` the write dirs),
`Rechecked` (the second, strict resolution of `resolve_within_any`), `Pull` (which may
replace anything below the vault), `Looked` (`exists`, `is_file`, `is_dir`, the size),
`ParentMade`, `Opened`, and for a listing `Describe` and `Described`, once for each link.

`goal` is auxiliary: where the request led, in one go, when the call began. Four
simplifications: the two or three resolutions of a notes root that the code makes in a row
are two; `exists`, `is_file` and `stat` are one look; `apply_patch`, which looks and opens
as `read_file` and `write_file` do, is not a tool of its own; and realpath's cache of links
it has seen is a bound on the links it follows, past which both end in an error. (A loop is
an error for a lenient `Path.resolve` on the Python that the bridge asks for at least, 3.11,
and on 3.12; from 3.13 on it is not.) The suffix
`.md`, binary and undecodable content are left out.

### CommandPolicy and ProgramTools

`CommandPolicy` has one operator per function of `commands.py`, and one for the regular
expressions, on the sequence of a command's words. The spelling of words is left to
constants (`Broad`, `System`, `BigR`, ...) which the instance fills with real ones.

`ProgramTools` runs one call, since these tools keep nothing from one to the next. `Gated`
is what is checked before the program; `Failed` what may go wrong with it, tool by tool;
`Executed` a command of the execution tools. `StatusRun` chooses what git has found
(`said`, which the tool never sees) and what it prints for it, `Parsed` is one turn of the
loop in `_parse_porcelain_v1`, `ConflictSought` the check of `notes_write` on the same
output. `NoteListed`, `ListTold`, `NoteSearched` and `SearchTold` are `notes_list` and
`notes_search`, a note at a time, while `OthersChange` edits, deletes or replaces notes; a note
may also be one that the bridge's user may not read (`barred`) or look at (`locked`), or be
in a directory that may not be listed (`unlisted`), which `rglob` passes over.
`FilesSearched` and `TextCut` are the caps of `search_files`, `git_diff` and
`read_journalctl`; `UnitsListed` the filter of `list_systemd_services`; `InfoStep` one of
the five steps of `get_system_info`. Ranges of numbers, patterns of names and globs, and
the text of answers are left out. `notes_sync_status` is `git_status` after a fetch.

## 3. Runs

Every run that passes explores its whole state space, `Register` that part of it in which
no three runs overlap (`AtMostTwoAtOnce`). `CHECK_DEADLOCK FALSE` everywhere:
clients, PC, clock and faults have budgets, and when these are spent the system rests.

| Run | Instance | Shows |
|---|---|---|
| `Vault` | 3 notes (one outside the write dirs), 2 calls, 1 PC commit, 1 fault | refinement of `PublishedLog`; commits touch one note and, without a fault, contain one write; kept commits survive; a success leaves nothing behind; a refused write loses nothing, also when its abort fails; calls return |
| `VaultConflict` | 2 notes, 2 calls, 1 PC commit, 1 fault | **violation**: a write can go to a conflicted tree |
| `Audit` | 6 records, files of 2, 5 seconds, 2 faults | refinement of `AuditTrail`, with lines cut short; order of the files; orphans come from faults |
| `AuditTorn` | 3 records, 3 seconds, 1 fault | **violation**: a record whose `log()` returns can be glued to a line cut short |
| `AuditSameSecond` | no fault, two rotations in a second | **violation**: the second archive replaces the first |
| `Server` | 3 requests, limit 2, window 1, 1 fault | window bound, audit of answers and changes, refusals only when full, all requests answered |
| `Register` | 3 runs (at most two at once), 3 bundles of 2 names, one rejected block, 1 fault, replay window | config and directories agree; a bundle registers once; blocks and payloads are not lost; a success is usable |
| `RegisterRerun` | the same | **violation**: a run that ended after its `mv` cannot be resumed |
| `Project` | 2 files (one tracked), 2 branches, 2 calls, 2 steps of the others, 1 fault | commits have their paths only; staging, edits and history survive; policies are kept; answers are true; tools return |
| `ProjectPush` | 1 call, 4 steps of the others, no fault | **violation**: a push can publish another branch's commits |
| `Paths` | 11 places, 17 trees, 9 requests, 6 tools, at most 4 links followed, 1 call, 1 change by others | what is touched is below a resolved root, and what is made too, or the root itself; verdicts are right on a tree at rest; listings agree with the guard; calls end, also on loops |
| `Programs` | commands of up to 4 words of a vocabulary of 26, reports of up to 2 changes of 3 names, 3 notes, readable or not, with a cap of 2, 1 change by others | refused commands stay refused; the status is what git found; nothing is missing without a word |

Why the bounds are enough for what they look for. A second call meets everything a first one
can leave (local commits, staged or conflicted files, a lock, a rebase); one PC commit
diverges from one or two local ones on the same note or another. Six records in files of two
make two rotations, so an archive whose retention is over stands beside one whose is not, and
two faults hit both, or the same record twice. Three requests fill a window of two and exceed it; two ticks let the window
pass. Three runs are two concurrent ones, or a death, a rerun and a competitor. In `Project`
two steps of the others stage a file and switch, or save it and commit it, between the two
commands that a tool has at most; the second call meets a branch, a staged file or a process
that the first one left. In `Paths` one link can go through another, so a resolution meets
two links that lead inside and then out, a loop, or a link to a sibling whose name begins as
the root's does; in the empty tree everything above a target has to be made again; one
change between two lookups is what the code can be hurt by, and a second call would meet
what a changed tree already is. In `Programs` four words hold a command, a flag, a path and
one more, or the shortest `curl x | sh` the pattern needs; a rename has two entries, so two
changes suffice to misread what comes after one; and the cap of two falls in a note, at its
end, and between two. For the safety theorems of section 4 no bound matters.

Fairness. `NotesVault!FairSpec` has weak fairness of the bridge's own step: each git
command is given `GIT_TIMEOUT_SECONDS` and then killed, so a call in progress always goes
on. `BridgeServer!FairSpec` has weak fairness of serving *some* ready request: the event
loop runs as long as a task is ready. `ProjectTools!FairSpec` has weak fairness of the
tool in progress: git commands and runs have a timeout, and a run ends or times out
without the help of its processes, of which nothing is assumed. `PathGuard!FairSpec` has
weak fairness of the tool's own step: nothing in a resolution waits for anyone. Clients,
the PC, the owner, cron, faults and the clock owe nothing.

### Findings

`PROJECT.json` lists the five violations with the line of code and the line of the doc or
comment it contradicts. In a sentence each: the conflict check precedes the pull that can
cause the conflict (`notes.py:302-303`); rotated names repeat within a second
(`audit.py:340`); a line of the audit log that was cut short swallows the next record
(`audit.py:327-328`); a registration cannot be resumed after its `mv`
(`register-project.sh:149`); the name of a branch is read by one command and HEAD pushed
to it by the next (`git.py:533-551`, `docs/TOOLS.md:274`).

Other places where code and documentation differ, which the models follow the code in, and
which no run is spent on:

- what a write, an add or a commit that fails leaves in a note is part of the next commit of
  it (`notes.py:308-316`, against "Un commit per write", `notes.py:24`; the exception in
  `OneCommitPerWrite`);
- a `rebase --abort` that fails is not told from one that did its work (`notes.py:192`), so a
  refused write can leave the vault in the stopped rebase, where `docs/TOOLS.md:645` says "il
  working tree viene riportato pulito" (the exception in `RefusedWriteRestores`);
- the notes of a directory that may not be listed are missing from `notes_list` and
  `notes_search` without a word (`notes.py:212`), of which `docs/TOOLS.md:609` and `:626` say
  "tutti i `.md`" (the exception in `NothingHidden`);
- a bundle with another block for a registered name is reported as registered, and is neither
  merged nor refused: the idempotency check compares the path, which follows from the name
  (`register-project.sh:356`, against `:418-419`, "Più sicuro rifiutare che sovrascrivere
  silenziosamente"; `CheckConfig` does so);
- a rejected push ends in `NotesSyncError`, of which `docs/TOOLS.md:645-646` says "il file
  NON scritto", for a note that is written and will be published (`notes.py:321`);
- the audit record follows the effect with nothing before it (`server.py:250`), so a crash
  between the two leaves a change that `docs/SECURITY.md:162-163` says is logged;
- after `## No commits yet on main...origin/main [gone]`, which git prints in a clone of an
  empty repository, `git_status` has all of it as the name of the branch (`git.py:237-239`;
  the exception in `StatusIsTrue`);
- `notes_write` is refused for "conflitti non risolti" when a renamed note was once called,
  say, `AA.md` (`notes.py:184` reads the old name as an entry; the other exception there);
- `get_system_info` "NON solleva" (`system.py:331-334`), but a program that cannot be
  executed or prints no text is raised (`InfoStep`);
- a command whose output is no UTF-8 has run when the tool raises (`execution.py:199-208`,
  `text=True`), and this is none of the errors `run_command` documents (`Failed`);
- `pytest && rm -rf /` in `test_command` passes the deny list, which looks at the first word
  (`commands.py:260-263` says it is blocked); without a shell the words after `pytest` are
  its arguments.

More weaknesses stand in the properties as exceptions, so that these hold:

- `EditsSurvive` lets a patch overwrite what was saved after it had read the file
  (`filesystem.py:292-303`): its docstring says "atomico", `docs/TOOLS.md:108-112` "best
  effort";
- `BlocksKept` exempts a config that another run replaced under a merge: two runs of
  `register-project.sh` that overlap can lose the block of one (there is no lock,
  `register-project.sh:407-443`);
- `SuccessIsServed` speaks of a running bridge: a run whose block `config.py` rejects may
  report success while the service is down (`register-project.sh:458`);
- `ChangesAreAudited` exempts a crash or a failing audit write between effect and record;
- `AnswersAreTrue` lets an answer that is no error of a tool (`raised`: git's output could not
  be decoded) or a timeout say nothing of whether a commit was made.

## 4. Proofs

All theorems hold for every value of the constants, under the modules' `ASSUME`s (which
only say that bounds are numbers and distinct names distinct) and what is said below.

- **NotesVault**: `VaultTypeOK`, `CommitsTouchOneNote`, `CommitsSurvive`,
  `VaultImplementsLog`, `SuccessLeavesNothing`, `RefusalRestores` and `CommitsTellTruth`.
  `Published` is not inductive: that the acknowledged write is the commit being pushed needs
  `PushReady`, that in the phase "push" the last local commit is the one of the call, with
  its note and piece; it is made in `CommitFile`, and nothing that can run before the push
  rebases it (the cron job only touches a vault without local commits).
  `CommitsTouchOneNote` needs that replaying two trees that differ in one note gives trees
  that differ in that note. The last three need `VaultInv` and `FaultlessInv` (at the end of
  `NotesVault`). `VaultInv` says that a call past its pull works on no rebase and no
  conflict, that the local commits and the uncommitted edits that a call remembers - in the
  working tree, or put aside by the rebase that stopped its pull - are still those of the
  vault until its pull is over, and - so that a rebase replays every commit as one - that
  what is new at the origin is nowhere in the vault. `RefusalRestores` thus speaks of every
  refusal, whatever the abort did. `FaultlessInv` is for `CommitsTellTruth`: as long as
  nothing has failed, timed out or died the only edit of the vault is the text of the call
  in progress, and every local commit has changed its note. This proof found an error of the
  model: what a rebase aborts on was compared with the untracked files of the old tree, not
  with those it takes over (`Untracked`).
- **AuditLog**: `AuditTypeOK` and `OrphansAreFaults` without assumption (a rename that was
  not followed by its `gzip` pays for its file with a fault); `FilesChronological` and
  `LogImplementsTrail` (the step simulation of `AuditTrail`, with faults at any step, the
  append among them) for `SameSecond` false. The invariant `LogInv` adds that the next name
  is fresh, that records are numbered upwards, that an archive is no older than its records,
  and that the plain file is removed only when the archive contains it.
- **RateLimiter, BridgeServer**: `WindowNeverExceeded`, and for the server
  `ServerWindowBound`, `RefusalsAreDue`, `ServerTypeOK`, `AnswersAlwaysAudited`,
  `ChangesAlwaysAudited`. `LimiterInv` says that the bucket is the end of all admissions
  and what fell out of it is too old to count; `ServerInv` adds, request by request, that
  nothing is recorded before an answer, nothing changed before a call, and that what a
  called tool changed is what its record will say.
- **RegisterProject**: `RegisterTypeOK`, `ConfiguredAlwaysInstalled`,
  `BundleRegisteredOnce`, `BlocksAlwaysKept`, `SuccessAlwaysServed`, `PayloadNeverDropped`.
  `RegisterInv` adds that a run about to merge
  has seen its directory in the developer's hands (and no step takes it back), that the
  rename of the bundle elects the one run that reports, and that a config about to be
  installed differs from the one in place by one new block, unless another run was merging.
  `ServedInv` says, while no two runs overlap, what each run has done by the step it is at:
  block, ACL, restart. `PayloadInv` follows the payload from the staging area to
  its directory; it needs no such condition.
- **ProjectTools**: `ProjectTypeOK`, `HistoryNeverRewritten`, `CommitsKeepToPaths`,
  `PolicyAlwaysKept`, `StagingAlwaysKept`, `EditsAlwaysSurvive`, `AnswersAlwaysTrue`.
  The first three properties follow from the types once every step is
  shown to be of one of a few kinds (`LogStep`, `RemoteStep`): a commit on top of HEAD, a
  new branch, a push that git takes. Here the proof goes further than the run: that a
  branch made by the developer after `rev-parse --verify` is not reset is one interleaving
  among those it covers. `PolicyInv` adds to `PolicyKept` that no tool is past its first
  line, and that the staged files and the trees of all commits are the developer's too.
  `CallInv` (a tool is only ever at its own commands, and a patch writes what it read but
  for the text it replaces) carries the next two; `AnswersAlwaysTrue` needs
  `NumberInv`, that a call in progress has not been answered, has not committed before it gets
  there and has committed when it reads the hash (each answer remembers the command it came
  from), and that what is on the remote stays.
- **PathGuard**: `PathsTypeOK`, and `Contained`, that no tool touches what is not below a
  root its guard resolved, on every tree and under every change but a new link. `GuardInv`
  says why: a walk stands, at every moment, on a place to which no link leads (`Free`), what
  a guard resolved is such a place below a root, and the look, the `mkdir` and the `open`
  that come after it follow its text component by component (`Follows`), so without new
  links they arrive where the guard was. `MadeWithin` is about what they make on the way:
  `MakeInv` says that the walk which makes the directories above a target follows them name
  by name, and, while nobody changes anything, that the roots are there; so an entry that is
  missing on the way is below the root, or others took the root away (`LookupMakes`). With a
  new link they need not, which is the race that `paths.py:13-26` describes and accepts.
  `VerdictsAlwaysRight` and `ListingAlwaysAgrees` compare the walk of `realpath`, one
  `lstat` at a time, with where the text leads in one go (`Leads`). `VerdictInv` says, for a
  tree that nobody has changed since the call began, what each phase of a call knows:
  `GuardingInv`, that the walk in progress ends where its text leads (`OnTheWay`) and which
  roots are behind it; `PassedInv`, that what the guard let through is what `goal` says, and
  that the second, strict resolution of `resolve_within_any` is the first one in another
  mode (`StrictAsLenient`); `FoundInv`, that the look finds what is at the target;
  `ListingInv`, that what was told of the links so far is what a request for them would get
  (`Agrees`). All of it needs a tree that hangs together (`Grown`, `TreesAssumption`): what
  is there is in a directory. A file system has no other trees, and every step keeps it so.
  The proof showed that `goal.kind` has to be read from the tree where the walk has ended
  and not from its last step (`f/x/..` leads, leniently, to the file `f`), which is why
  `f/g/..` is among the requests of `Paths`.
- **CommandPolicy, ProgramTools**: `DeniedInAnyOrder` and `DeniedGrows` for every vocabulary
  (order, repetition and additions do not help a refused command, but for `init 0`), and
  `Denied`: nothing is run that has not passed, from whatever set of commands. `Checked` is
  the invariant: the request that was looked at is the one that runs. `NothingEverHidden` is
  about any number of notes, any of them unreadable: `SearchInv`, the loop invariant of
  `notes_search`, says that notes are searched in their order, each to its end unless the
  search was cut at it (`CutAt`), and `ListInv` that of the notes looked at and touched by
  nobody those that exist are waiting; names of notes are numbers, in their order
  (`NotesAssumption`). `StatusAlwaysTrue` is about reports of any length: `ParseInv` says
  that what is left to read is what git printed of the changes that were not read
  (`Unread`), and the status so far that of the changes that were. That each step of the
  parser takes the entries of one change, two for a rename, is `PrintedParts`; it needs of
  git what `ReportsAssumption` says, that a rename or a copy has an old name and nothing
  else has one, and that "?" comes twice.

Induction over data is done here in the form of sets: `EveryNumber` (from the least element of
a set of numbers, `WFMin`) takes a set that holds 0 and with each number the next, so it
has no operator as a parameter; `JoinExists` shows with it that the recursive function in
`PrintedTo` is what it says, and `JoinGrows` what each of its values begins with.

The type invariant of `AuditLog` is proved and not run. Every invariant and every action
property that a passing run checks, and the refinement of `PublishedLog` and of
`AuditTrail`, is proved; only model-checked is liveness (`CallsReturn`, `RequestsAnswered`,
`ToolsReturn`, `CallsEnd`), which is beyond TLAPS. `Ends` is a recursive function of the
walks; that a function with its equation exists (`EndsIs`) is shown, from the walks that
lookups lead to (`Outcomes`), and not assumed; it holds without a proof that walks end,
which is `CallsEnd`.

## 5. Not modelled, and the plan

In the order of their importance:

1. A composition of `BridgeServer` with `AuditLog` in the place of the one-step
   `audit.log()`, and with the tools' answers in the place of any answer.
2. An abstract specification of a project (a history that grows, a policy), implemented by
   `ProjectTools` as `PublishedLog` is by `NotesVault`.

Left out for good: redaction and truncation of audit arguments, hashing, HTTP and MCP
framing, `git_log` and `list_projects`, the environment sanitizer (a filter of names by
fixed lists), the field validators of `config.py`, `setup-notes-access.sh`, user and token
creation in `install.sh`, the container files.
