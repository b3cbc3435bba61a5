# BoxCopy, specified

BoxCopy copies the mailboxes of one IMAP server to another: it asks for a
confirmation, wipes the target mailboxes, and copies every folder and message.
This directory holds models of it in TLA+, the configurations with which TLC
checks them on small instances, and proofs of their main properties for
instances of any size. Paths such as `copy.go` are below `internal/` of the
repository.

    tlc -config foldercopy.cfg MCFolderCopy     # model-check a run
    tlapm FolderCopyProofs.tla                  # check the proofs of a module

## 1. The system

| component | state it keeps | operations | status |
|---|---|---|---|
| command line (`cmd/boxcopy/main.go`) | the command and the key | init, init -f, encrypt-password, copy, copy --perform, verify | **modelled, proved** |
| configuration (`config/`) | the file, its mode, the configuration in memory | check the mode, parse, validate, decrypt | **modelled, proved** |
| runner (`runner/runner.go`) | none between runs; two worker pools, error counters | `performCopy`: confirm, clean the targets in parallel, load and clear the sync state, copy the mailboxes in parallel, save | **modelled, proved** |
| target clean-up (`runner.go`, `cleanTargetMailbox`) | the target mailbox | select, flag, expunge each folder; unselect; delete the folders, children first | **modelled, proved** |
| mailbox copy (`mailbox/mailbox.go`, `copyFolders`) | two connections, status, last error, counters | connect, disconnect, copy: create missing folders, copy each, reconnect after a failure | **modelled, proved** |
| folder copy (`mailbox/copy.go`, `copyFolder`) | the list of UIDs, the batches in the channel, the error to return | fetcher goroutine and copier loop | **modelled, proved** |
| sync state (`state/state.go`, `state/store.go`) | per folder: UID validity, marks, highest UID, UID map, times; dirty flag; the file and its `.tmp` | get, set validity, mark, map, stamp, clear; load and save | **modelled, proved** |
| IMAP client and folders (`imap/client.go`, `imap/folder.go`) | a connection, the selected folder, a keepalive goroutine | dial, close, select, unselect; create, delete, rename, ensure folders | **modelled, proved** |
| IMAP messages (`imap/message.go`) | nothing of their own | fetch, append, mark, expunge | as their callers see them; those without a caller are not modelled |
| verifier (`verifier/verifier.go`) | a result per mailbox | compare folders, message counts and sizes of both servers | **modelled, proved** |

How they interact. `main` reads the key and the command, `runner.Run` and
`verifier.Verify` load the configuration. The runner gives one job per mailbox to a pool of
`max_connections` workers. All jobs share one `*state.State` (guarded by its own
lock), one throttle and one context, which SIGINT and SIGTERM cancel. A mailbox
copy owns two connections and runs its folders one after the other; a folder
copy uses the source connection from two goroutines, the fetcher and, before it
starts one, the caller. Fetcher and copier share the channel `batchChan`, which
holds two batches, and the context. The state file is written twice per run,
after the marks have been cleared and at the end.

What is hard to get right here:

* *two goroutines and a bounded channel*: the fetcher may block on a full
  channel, the copier on an empty one, and every way out of either loop has to
  let the other one end, because the next folder is selected on the same
  connection at once;
* *errors that travel as values*: a fetch error comes through the channel behind
  good batches, a failed message is a counter, and the returned error is the
  only thing the caller learns;
* *cancellation* is looked at in two places and bound to no IMAP call;
* *the servers move on*: messages are expunged or flagged between the listing
  and the fetch, an append may succeed without an answer;
* *shared marks*: `config.Validate` does not demand that mailbox names differ,
  and two entries with one name write to the same folder records;
* *rebuilt folders*: a UID means nothing without the UID validity under which it
  was marked, and marks outlive the process in a file;
* *crashes* in the middle of a save, and kills in the middle of a run whose marks the
  next run finds;
* *everybody else on the accounts*: users who deliver, flag, make folders and edit the
  configuration while a command reads it, and a second entry for the same account.

What makes each component correct:

* folder copy: nothing listed is lost or stored twice, no goroutine is left
  behind, nil means copied, a cancelled copy stops and ends;
* sync state: a mark is honoured only under the validity it was made for, the
  highest UID fits the marks, the file is always a whole state and the dirty
  flag tells the truth;
* mailbox copy: every selectable folder is attempted while both connections
  exist, it never works on one connection only, its status and its stamps agree
  with what happened, it ends disconnected;
* target clean-up: no message that was there at the start is left, its own calls come in
  an order that no server refuses, INBOX and new mail in it are kept;
* runner: no mailbox is copied before all targets are clean, at most
  `max_connections` at a time, the state is saved before a regular end, success
  is reported only for what was copied;
* configuration and command line: no command reaches a server with a configuration that
  is not complete, valid, and encrypted throughout under the key it was given;
* IMAP client: the server has nothing selected that the client does not know of, the
  channel of the keepalive is closed once, `Close` returns unless the server is silent for good;
* verifier: a pass means equal folders, counts and sizes.

`PROJECT.json` lists under "hazards" where in the code each of these bites.

## 2. The modules

### FolderContract

What `Mailbox.copy` may expect of `copyFolder`: a listed message reaches the
target at most once and no other message does; nil means that the folder exists
on the target and that no listed message is missing, except those that may be
left out, or any of them after a cancellation; and after the return nothing is
stored and nobody uses the source connection. FolderCopy implements it and
MailboxCopy stands on it.

### FolderCopy

One call of `copyFolder`, implemented by two processes.

* *The caller* (`pc`) goes through `OpenFolder` (select on the source,
  `EnsureFolder` on the target, stop if the folder is empty), `Prepare` (select
  on the target, `state.SetUIDValidity`), `ListMessages` (`FetchAll`) and
  `FilterUnsynced` (`GetUnsyncedUIDs`, start of the fetcher). Then it is the
  copier loop: `ReceiveBatch`, `TakeMessage` and the two outcomes of an append for
  each message, `Interrupted` (the `break` on a cancelled context, which leaves the
  batch but not the loop), `EndOfBatch`, `EndOfBatches`, `Finish`.
* *The fetcher* (`fpc`) checks the context and its bound (`FetcherContinues`,
  `FetcherStops`), fetches (`FetchBatch`), blocks until there is room and sends
  (`SendBatch`), and closes the channel (`CloseChannel`).
* *The others*: a signal (`Cancel`), users who deliver, flag, unflag and expunge
  messages of the source folder (`UserChanges`), and a second mailbox entry with
  the same name, whose `SetUIDValidity` and `MarkSynced` hit the same folder record
  (`NamesakePrepares`, `NamesakeMarks`).

A message stands for its UID; bodies, dates and flags other than `\Deleted` make no
difference to the control and are left out, as are logging, progress and the
statistics. `copies` counts the copies that this call has put on the target.
Every IMAP call either succeeds or fails; `AppendFails` covers the throttle
that gives up, the server that refuses, and the server that stores the message
but whose answer is lost or lacks the new UID. `listed`, `borrowed` and `late` are
history variables: what `FetchAll` returned, what the namesake marked, how many
messages were stored after the cancellation.

### StateStore and SyncState

StateStore is what the rest of the program may expect of the sync state: a store that saves in a
single step, begins with what was saved last, refuses a file it cannot read, and knows what is not
saved yet. Runner uses the state as such (`LoadState`, `SaveState`). SyncState implements it
(`StoreKept`).

SyncState is `State` and its file. Every operation that changes the state is one action,
because it holds the lock for its whole length. A save holds it too, but a process
may die between its system calls, so a save is `BeginSave` (the `.tmp` is opened
and truncated), `WriteCompletes` or `WriteFails`, `Rename` or `RenameFails`. `Crash`
takes the state in memory and leaves both files; `Load` starts the next process and
refuses a file it cannot read. Times are kept as set or not set; the target
UIDs of the map are left out. `markedUnder` and `mappedUnder` are history variables: under which
validity each UID was marked or mapped. A server may announce any validity, 0 included, which
the code reads as "not set".

The read-only operations change nothing and need no action; `GetMailbox` and
`GetFolder` create what they do not find and have one. The pointers they return
are used by tests only.

### MailboxCopy

One call of `Mailbox.copy`. `connect` is split at the two dials (`DialSource`,
`DialTarget`, and `ConnectFails` for either), because between them the mailbox has
one connection; `ListSource`, `ListTarget` and `CreateFolder` are `copyFolders`;
`ListFolders`, `StartFolder`, `FolderReturns` and `Finish` are the loop of `copy`. For
the length of a `copyFolder` the actions of FolderContract take the steps
(`FolderSteps`, an INSTANCE with the same variables). After a failed folder
`DropConnections` and the dials replace both connections; a failed reconnection ends the
loop, yet `Finish` still sets the mailbox to idle and stamps the state. `CloseConnections`
is the deferred `disconnect`.

`open` is what the servers see, `conn` what the mailbox knows. A folder is the number
of its name in the order of `sort`; `Superior` is the hierarchy. A server may add the
superiors of a folder it creates, and may create a folder and lose the answer.
Users create and delete source folders (`UserChanges`); an entry with the same target account
creates folders there (`RivalCreates`, into the history variable `foreign`). `Connect` and `Disconnect`
are also public: `copy` may begin with both connections in place.

### CleanTarget

One call of `cleanTargetMailbox`, one action per IMAP call: `ListFolders`, then
`SelectFolder`, `FetchAll`, `MarkDeleted`, `Expunge` for each folder that is not empty,
`Unselect`, `DeleteFolder` in descending order, and the deferred `Close`. A call has three
outcomes. It succeeds; or it fails by a *fault*, of the server or of the connection, with or
without having changed the mailbox; or it is *refused*, since it asks for something that
cannot be had (`FolderIsGone`, `Undeletable`). The history variable `fault` tells the last two
apart, and so a clean-up that fails by its own doing from one that had bad luck.

Names are absent, containers (`\Noselect`), or folders. On deleting a folder with others below
it servers differ: some refuse, some leave a container; and some let a container vanish with
its last folder (`Hollow`). Meanwhile mail is delivered, users change the deleted flag and make
folders, and the clean-up of a second entry for the same account empties and deletes folders
(`RivalEmpties`, `RivalDeletes`).

### Runner and RunContract

Runner is `performCopy` and `cleanTargets` for several mailboxes, some of which may share a
target account or a name. It begins with the mailboxes of the configuration (`Begin`, into
`entries`), asks for the confirmation (`Confirm`), and ends with the process (`ProcessGone`, at
any point), after which the next run may have other mailboxes. The two pools are `clean` and
`copy`, with the job of each mailbox; the main goroutine is `pc`. A clean-up job keeps the promise
of CleanTarget (a clean-up that fails may yet have wiped everything, as when its deferred
`Close` fails), a copy job that of MailboxCopy (including that it may return nil with nothing
copied once the signal has come, and that marks of a namesake pass for its own), and a save
is atomic as SyncState shows. Marks in the file at the end of a process are *stale* for the next,
since they stand for messages that it wipes.

RunContract is what a user may expect of `copy --perform`, in the stages of a run: nothing is
touched before YES, all accounts are wiped before anything is copied and none after, and
success claims only what was done. Runner implements it (`ContractKept`).

### Startup and Boxcopy

Startup is everything before the first connection, system call by system call: `init` checks
for the file, creates and writes it (`FindNoFile`, `CreateFile`, `WriteTemplate`);
`EncryptPassword` prints a password; copy and verify check the mode of the file
(`CheckFilePermissions`) and read it afterwards (`Load`: parse, defaults, `Validate`,
`DecryptMailboxPasswords`). Users type one of the texts `Typed` into the file, change its mode and
remove it between any two of these steps, and a process may be killed at any of them. A text is
told apart by what the code tells apart: which fields are missing, empty or out of range,
and under which key a password was sealed. A user can only have sealed passwords that
`encrypt-password` has printed.

Boxcopy is the whole program: Startup up to the call of `performCopy`, Runner from there on
(`CallPerformCopy` joins the two), and Startup again when the process has ended.

### Verifier

`verifyMailbox`: list both sides, then the two sizes of each common folder in turn.
`box` holds the size of each message on each server, 0 if it is not there; any damage
to the copy is an initial state. A server may leave out the count of a folder or the size of a
message (`silent`); a call that fails leaves out all of them. The servers are at rest meanwhile, as
`docs/ARCHITECTURE.md` asks of a verification.

### KeepAlive and Client

KeepAlive is `Close`, split at its steps under the mutex, against the goroutine of
`startKeepalive`, which evaluates `c.done` without the mutex (`Look`) and may therefore read an
old value until it has itself held the mutex after the `Close`. A `Close` that fails leaves
the client in place and may be called again. The connection may be lost (`ConnectionLost`), when
calls come back with an error, and the server may fall silent (`FallSilent`), when they do not
come back at all until the connection is lost, if it ever is: NOOP and LOGOUT then wait with the
mutex, and so does any other call (`CallHangs`, `CallFails`).

Client EXTENDS it with the session: the folder the server has selected (`session`) and the one
`c.selected` names. `Select`, `Unselect`, `CreateFolder`, `DeleteFolder`, `RenameFolder` and
`EnsureFolder` with `EnsureCreates` are its calls, atomic under the mutex except `EnsureFolder`,
which takes it twice. Other clients change the folders at any time (`OtherClient`).

### The modules MC...

Constants for TLC.

### The modules ...Proofs

Theorems about FolderCopy, SyncState, MailboxCopy, CleanTarget, Runner, Boxcopy, Verifier and
Client, see section 5.

## 3. The runs

| run | asks | result |
|---|---|---|
| `foldercopy` | all properties of FolderCopy, and that it implements FolderContract | holds (580,006 states) |
| `foldercopy_cancel` | does nil mean copied even after a cancellation? | no |
| `foldercopy_deleted` | are messages with the deleted flag copied, as the README says? | no |
| `syncstate` | all properties of SyncState, and that it implements StateStore | holds (1,497,619 states) |
| `syncstate_uidmap` | does the reset on a new UID validity reach the UID map? | no |
| `mailboxcopy` | all properties of MailboxCopy | holds (1,193,225 states) |
| `cleantarget` | all properties of CleanTarget | holds (507,267 states) |
| `runner` | all properties of Boxcopy and Runner, and that Runner implements RunContract | holds (101,640 states) |
| `verifier` | all properties of Verifier | holds (2,364,499 states) |
| `verifier_blind` | does any loss make the verification fail? | no |
| `keepalive` | all properties of Client and KeepAlive | holds (16,080 states) |
| `keepalive_leak` | does the keepalive goroutine end once the client is closed? | no |

`foldercopy` has three messages in batches of two and a channel for one batch:
there is a full and a partial batch, a message left to fetch when the first batch
is in the copier's hands, and a fetcher that blocks on a full channel.
The code has batches of 50 and a channel for two; the proofs are for any numbers.
`MaxOutside = 1` allows one step of a user or of the namesake anywhere in the run (the
initial state already has unborn and flagged messages); with two steps nothing new is
found but the run takes too long for everyday use. The cancellation is not
counted and comes anywhere. No symmetry is used, since liveness is checked.

`syncstate` has one mailbox with one folder, two UIDs and two validities, and up
to five changes of the state, any number of saves, crashes and restarts between
them. Five are needed for a mark under the old validity, the reset, a mark under
the new one and a further change after a reload; the records of different
folders do not influence each other.

`mailboxcopy` has three names, one below another, and one message per folder: a failed
folder can be first, in the middle or last, a reconnection can fail with folders left
and without, and one CREATE may make another superfluous. What a folder
holds is FolderCopy's business, so one message is enough to tell whole from not
whole. `MaxOutside = 1` lets one folder come or go on the source, or come on the target, at any
point, such as between a listing and the CREATE.

`cleantarget` has INBOX, a folder and one below it, and two messages. `MaxOutside = 3`
is what it takes to deliver a message, flag it, and have a folder made in between; rivals
count too. The initial state has any of these names, as containers or folders, with any flags.

`runner` has three mailboxes, of which two share a target account and two a name, and two
workers, so that one job waits. There are two keys and seventeen texts for the file: right ones
for three, two or no mailboxes, and ones that are wrong in one place each. Processes
follow each other without a bound, so a run finds what any earlier run has left.

`verifier` has two folders with two messages each. On the source a message has size 2
(`SourceSizes`), on the target 2, 1 (cut short) or 0 (lost), so a folder of two can suffer
every combination. With several sizes on the source the run is too long; the proofs are for
any. `keepalive` has two folders, two callers of `Close`, the keepalive goroutine and any number of
steps of other clients. The server falls silent and the connection breaks at any point or never.

Deadlock is checked in every run; what has ended stutters by an action of its own.

Five runs end in a counterexample, each for a sentence of the repository that the
code does not keep:

* `foldercopy_cancel`. The fetcher sees the cancelled context, closes the channel and
  says nothing; the copier finds the channel at its end, `copyErr` is nil, and the
  folder is stamped and reported as copied. `Mailbox.copy` then does the same with
  every further folder, so an interrupted run can end with "copy completed".
* `foldercopy_deleted`. `copyMessage` skips messages with `\Deleted`; the README
  of the repository lists "deleted" among the flags that are copied.
* `syncstate_uidmap`. `SetUIDValidity` resets marks, highest UID and time, but
  `UIDMap` keeps the pairs of the old folder.
* `verifier_blind`. An error while reading the sizes of a folder is logged and its size
  taken as 0; if that happens on both sides, a truncated message passes, although
  `docs/ARCHITECTURE.md` says that any loss surfaces. Two servers that leave the size
  of the message out of their answers have the same effect without any error.
* `keepalive_leak`. `Close` closes `c.done` and sets the field to nil at once. A goroutine
  that is in its tick meanwhile selects on nil from then on, and `Noop` returns nil for a
  closed client, so it never ends. The comment on the field says that closing it
  stops the goroutine. No caller turns the keepalive on.

### What the properties say

FolderCopy:

* `FetcherGone`: after the return no fetcher runs and no batch waits.
* `NoDuplicate`: no message is stored twice, and none that was not listed. The
  hard part is the partial overlap of what is ahead of the fetcher, in the
  channel and in the copier's hands, with a namesake that may reset marks.
* `SyncedStored`: what is marked is on the target or was marked by the namesake.
* `OkMeansCopiedUnlessCancelled`: nil without a cancellation means that every listed
  message is stored, or was flagged as deleted at some time, or was
  marked by the namesake.
* `OneLateStore`: after a cancellation at most the message in Append is stored.
* `Termination`: caller and fetcher both end.
* `ContractKept`: the refinement.

SyncState:

* `HighestIsMax`, `MarksHonoured`: the folder record is consistent, and a mark
  counts only for the validity under which it was made, across resets, clears, saves, crashes
  and reloads.
* `CleanMeansPersisted`: a clean state is the one a restart would find.
* `StoreKept`: the refinement of StateStore. In particular a save that fails or is killed leaves
  the store as it was, and the file changes only to the whole state in memory, whatever an
  earlier attempt has left in the `.tmp`.
* `ForeignKept`: a file that cannot be read is never overwritten.

MailboxCopy:

* `NoConnectionLeaks`: what the servers hold open is what the mailbox knows, however often
  connections are replaced, and nothing is open at the end.
* `ClientsAreThere`: no command goes through a client that is nil, by the caller or by a
  fetcher of `copyFolder`. The second half rests on FolderContract.
* `CreatesOnlyMissing`: in sorted order no folder is asked for that was listed or that an
  earlier CREATE has brought along. An entry with the same target account may be ahead of it;
  then the CREATE fails, which is logged and does no harm.
* `NilMeansAllCopied`: nil means that each listed folder is whole on the target, unless
  cancelled, that the stamp is set and that no error is remembered: neither a failed folder nor a
  failed disconnect gets lost between `folderErrors`, `lastError` and the result.
* `UntriedOnlyWithoutServer`: a folder is left untried only after a failure whose
  reconnection failed too.
* `Termination`.

CleanTarget:

* `OldMailGone`, `OldFoldersGone`: what nil means, with the exceptions that others cause.
* `FailsOnlyByFault`: left alone, on a server that works, with no containers, the clean-up does
  not fail. It needs the unselect before the deletions and the children before their
  parents; its failure would stop the whole run.
* `NewInboxMailKept`: mail that arrives in INBOX after the listing survives the expunge.
  For other folders this is false: they are deleted with whatever they hold by then.

Boxcopy and Runner:

* `WorkIsSound`: a command that may reach a server has hosts, limits, at least one mailbox, and
  only passwords sealed under its key, whatever users do to the file between the check of
  its mode, the reading and the use.
* `CopiesOnlyToClean`: no copy starts before every clean-up has succeeded, its own and those
  that would wipe it.
* `NoOldMarks`: no copy sees marks of an earlier run, in memory or, after a kill, in the file.
* `SuccessMeansCopied`: success means everything copied unless cancelled or marked under a shared
  name, and saved.
* `ContractKept`: the refinement of RunContract.
* `Termination`: a confirmed run ends even if jobs hang.

Verifier:

* `PassMeansEqual`: a pass means that no folder is missing, that the counts agree unless some
  could not be read, and the sizes likewise. What a user wants to know follows for each folder
  whose copy can only have lost messages or cut them short: with counts none is
  dropped, even if sizes could not be read; with sizes each is whole, even without counts.
  (Equal sums alone would not say so if one message might have grown.)
* `NoFalseAlarm`: with servers that answer a failure means a difference.

Client and KeepAlive:

* `SelectionKnown`: what the server has selected is what `c.selected` names, whatever has
  failed. `Unselect` asks nothing if `c.selected` is empty, so otherwise folders would be deleted
  while one is selected, and UIDs used on the wrong folder.
* `ClosedOnce`: the channel is closed once, though `Close` may be called by several goroutines
  and again after a failure; a second time would panic.
* `CloseReturns`: whatever fails, `Close` gets the mutex and returns, but for one case. NOOP,
  LOGOUT and all other calls hold the mutex across the network with no deadline, so a server
  that falls silent on an open connection may keep everybody waiting. The property says that
  this is the only way: if `Close` does not return, then from some point on a holder of the mutex waits
  for such a server (`Stuck`). Without the exception the run fails.

## 4. Fairness

Safety needs none. `Termination` and `FairSpec` assume weak fairness of the fetcher and
of the caller. Both are goroutines that the Go scheduler runs whenever they
are not blocked, and each of their actions is either local or one IMAP call.
The assumption therefore includes that the servers answer: the code gives an
IMAP call neither a deadline nor the context, and a server that never answers does
hang a copy. Users, namesakes and the signal are under no fairness: they need not
come.

MailboxCopy assumes the same of its worker (`WF_vars(Own)`), and of each `copyFolder`
that it ends (`[]<>(phase # "working")`), which is `Termination` of FolderCopy.

Boxcopy assumes weak fairness of the main goroutine of `performCopy` only, and not at the prompt,
where it waits for as long as the user likes. A job may hang for ever, and `WaitForTasks` then
times out. That `worker.Stop` gives up on such a job is taken from the worker
library, whose source is not in the repository. CleanTarget and Verifier state safety only.

Client, like KeepAlive, does not assume that the server answers: `FallSilent` and
`ConnectionLost` are under no fairness, and while the server is silent on an open connection,
`Noop`, `Logout` and `CallFails` cannot be taken (`Answered`). A server that is not silent does
answer each call in the end. Beside that Client assumes a fair scheduler (weak fairness of the
goroutines), strong fairness of both sides' attempts to lock (Go's
mutex hands itself over to a waiter that starves) and of the `select` when the channel is
closed (Go picks among ready cases at random). Without the latter even a
goroutine that does see the channel might prefer its ticker for ever;
`KeepaliveStops` fails in spite of it.

## 5. What is proved

TLAPS checks each of these for every value of the constants that the assumption named
allows. All the assumptions are also evaluated by TLC on the instances of the runs.

| module | assumption | theorems (and the properties they prove) |
|---|---|---|
| FolderCopyProofs | `FolderCopyAssumption`: a finite set of messages, batches and a channel of at least one | `TypeCorrect` (`TypeOK`), `FetcherNeverLeft` (`FetcherGone`), `MarkedIsStored` (`SyncedStored`), `CancelStopsStores` (`OneLateStore`), `StoredAtMostOnce` (`NoDuplicate`), `NilMeansCopied` (`OkMeansCopiedUnlessCancelled`), `CopyFolderKeepsContract` (`ContractKept`), `WorkIsBounded`, `NobodyIsLeftWaiting` |
| SyncStateProofs | `SyncStateAssumption`: any mailboxes, folders, UIDs and validities | `TypeCorrect` (`TypeOK`), `CleanIsPersisted` (`CleanMeansPersisted`), `SaveIsAtomic` (`PublishesCurrent`), `StateIsStore` (`StoreKept`), `ForeignFileKept` (`ForeignKept`), `HighestCorrect` (`HighestIsMax`), `MarksCorrect` (`MarksHonoured`) |
| MailboxCopyProofs | `MailboxCopyAssumption`: finitely many folders, superiors before their inferiors | `TypeCorrect` (`TypeOK`), `NothingLeaks` (`NoConnectionLeaks`), `NeverWithoutClient` (`ClientsAreThere`), `OnlyMissingCreated` (`CreatesOnlyMissing`), `NilIsHonest` (`NilMeansAllCopied`), `UntriedIsExcused` (`UntriedOnlyWithoutServer`), `StepsAreBounded` |
| CleanTargetProofs | `CleanTargetAssumption`: finitely many folders, a transitive hierarchy in the order of the names, INBOX on top | `TypeCorrect` (`TypeOK`), `NilIsClean` (`OldMailGone`), `NilIsBare` (`OldFoldersGone`), `OrderIsRight` (`FailsOnlyByFault`), `NewMailIsKept` (`NewInboxMailKept`), `CallsAreBounded` |
| RunnerProofs | `RunnerAssumption`: finitely many mailboxes, any accounts and names, at least one connection | `TypeCorrect` (Runner's `TypeOK`, with the bound of the pools), `CopiesFindClean` (`CopiesOnlyToClean`), `CopiesFindNoMarks` (`NoOldMarks`), `SuccessIsHonest` (`SuccessMeansCopied`), `RunImplementsContract` (`ContractKept`), `RunIsBounded` |
| BoxcopyProofs | `BoxcopyAssumption`: any keys and any texts that users type | `WorksSoundly` (`WorkIsSound`), `BoxTypeCorrect` (`BoxTypeOK`), `BoxcopyIsRunner` (`BoxSpec => Spec`), with which all theorems of RunnerProofs hold of the program |
| VerifierProofs | `VerifierAssumption`: finitely many folders and messages, with any sizes on the source and up to any size on the target | `TypeCorrect` (`TypeOK`), `PassIsSound` (`PassMeansEqual`), `FailIsSound` (`NoFalseAlarm`), `StepsAreBounded` |
| ClientProofs | `KeepAliveAssumption`, `ClientAssumption`: any goroutines that call `Close`, any folders | `TypeCorrect` (`ClientTypeOK`), `DoneClosedOnce` (`ClosedOnce`), `SessionIsKnown` (`SelectionKnown`), `MutexIsGivenBack` |

The argument for FolderCopy goes in three layers, none of them inductive without
the one before:

1. `Control`: who runs when. The channel is closed exactly when the fetcher has
   ended, and the copier leaves its loop only on a closed and empty channel.
   `FetcherGone` follows.
2. `Flow`: a message is in one place at a time, ahead of the fetcher, in one batch of
   the channel, or in the copier's hands, and as long as it is there it has
   not been stored. `NoDuplicate` alone is not inductive: it says nothing of a
   message that waits in two batches. `BatchIsAhead`, on the slices of `todo`, is where
   the arithmetic of the batches is settled.
3. `Account`: unless cancelled, each listed message is settled (stored, failed, flagged,
   borrowed) or still under way; and if the fetcher stopped before its end, an
   error has been received or is in the channel. At `Finish` nothing is under
   way any more, so what the return value says is the whole account.

The refinement of FolderContract combines the three with `Ensured` (past its
first step the copy has the folder on the target).

For SyncState, `Saving` says that what waits in the `.tmp` for the rename is the state in memory,
and that no process runs over a foreign file; so the rename is the `Save` of StateStore and all
other steps of a save are stutters (`StateIsStore`). The invariants about marks hold of the state
in memory and of the file at once, since each becomes the other by a save or a load.

For MailboxCopy `IInv` has five parts beside the types. `Linked` ties the two connections to the
place in `copy` (both, none, or the source alone between two dials), from which `NothingLeaks` and
half of `NeverWithoutClient` follow; `Within` says that the fetcher reads only while `copyFolder` is
called, which is what FolderContract gives for the other half; `Uncreated` that the folders still to
be created are not there, which is inductive only because the loop goes by the least name
and superiors come first; `Errors` that no error drops out on the way to the result; and
`Accounted` that each listed folder is still to come, failed, current, or whole.

For CleanTarget the deletion loop needs `OldMail` (old messages are in folders still to come),
`Folders` (a folder that the loop has passed and that is still there has one below it that
users have made) and `Smooth` (without interference the folders to come are just those that
exist). All three rest on the loop taking the *last* name first, so that what is below a
folder has been passed: `MaxIsGreatest` and `NextIsListed`. That the last name exists comes from
well-foundedness, not from induction: it is the one with the fewest names above it. `InboxMail`
follows INBOX from the list through fetch, mark and expunge, and `Flags` says that the clean-up
has flagged nothing but what it has fetched, which gives `NewMailIsKept`.

For Runner `Control` says which jobs exist at which point, `Wiped` that what is clean stays so
until the end of the process, `Cleaned` that the marks are cleared in memory first, then in the file,
then the copies start, and `Claims` what each finished job has delivered. The last is
inductive only together with the others: a copy that finds stale marks, or an account that is
wiped after it, would make it false. Boxcopy adds `Printed` (only keys that have been
used are in the file) and `Order` (a configuration is read late and with a key); each of its
steps is then one of Runner's or none.

For Verifier the invariant says of each folder compared already that what is remembered of it
is what the servers hold, unless an answer was kept back; for Client, that the channel is open,
or closed once by the goroutine that holds the mutex, and that a session is the one
`c.selected` names.

Verifier also needs facts about sums over a set of messages: that the sum of the sizes is a number
(`TypeCorrect`), that it does not grow when none of its terms does, and that equal sums of terms
none of which has grown have equal terms (`PassIsSound`). The sum is a fold; `SizeIsSum`
makes it a recursive function, which unfolds by one message, and the inductions
(`SubsetInduction`, `NumberInduction`) are stated of a *set* of sets or numbers, from
well-foundedness, because the library's induction theorems take an operator that no prover here
can instantiate.

**That everything comes to an end** is a matter of fairness only in its last step. What fairness
would be applied to is safety, and is proved:

* *no component works without a bound*. Each step of the component itself lessens a number
  that nobody else can raise, and that begins below a multiple of the folders, messages or mailboxes:
  `WorkIsBounded` (caller and fetcher of `copyFolder` together, with a cancellation, errors,
  users and the namesake at any point), `StepsAreBounded` (a mailbox copy, however often it
  connects again; a verification), `CallsAreBounded` (a clean-up, whatever is delivered
  meanwhile), `RunIsBounded` (`performCopy` and its two pools, to the end of the process).
* *nobody waits in vain*. `NobodyIsLeftWaiting`: the copier waits at an empty channel only for a
  fetcher that can go on, the fetcher at a full one only for a copier that is in its loop, and
  one of them can go on until both have ended. `MutexIsGivenBack`: the holder of the client's
  mutex is at a step that waits for nobody but the server, and at most three steps from giving it
  back.

So a component could fail to end only by being denied steps it can take, or by a call of a
server that never answers.

Only model-checked: the three `Termination`s and `CloseReturns`. What is left of them is the
step from enabled and fairly treated to taken, and `ENABLED` and liveness under fairness are
beyond this prover. The counterexamples are TLC's.

## 6. Not modelled

* Message operations that nobody calls: `SetFlags`, `RemoveFlags`, `Copy`, `Move`,
  `SearchSince`. What they do to a folder is the server's doing entirely.
* The libraries for TOML, throttling, worker pools and IMAP: they are seen
  through the calls this code makes.
* Message bodies, dates and envelopes: they are copied and never looked at. Sizes are in
  Verifier only.
* help, version, the printing of the configuration and of reports, logging, progress and
  statistics: they change nothing that the control looks at. So are the host, port
  and TLS settings, which are only handed on.
* A power failure: the code does not sync the file before the rename, and the
  model's crashes are those of the process.
* Two processes that share one state file, or one configuration and its target accounts.
* What a job does after `performCopy` has returned on a timeout: the process is about to end.
  That such a run does not save its last marks is visible in Runner (`CopyTimesOut` goes
  to `stop`) and harmless, since the next run clears them.
* Folders that change while the verifier reads them.
* Users of the target mailbox who delete or rename folders while a copy runs. Of the others on that
  account only the second entry is modelled, which creates folders (`RivalCreates`); it deletes
  none, since all clean-ups are over before the first copy (`CopiesOnlyToClean`).
* The mode of the file in `WorkIsSound`: `init -f` keeps a loose mode (`CreateFile`), which copy
  and verify then refuse.
* In `SelectionKnown`, a `c.selected` that names a folder although nothing is selected, as after
  a refused SELECT: `Unselect` then asks a server that may refuse.

## 7. Plan

All components are modelled, except for the message operations above, and every safety
property that a run checks is proved. What would add most from here:

1. The promises on which Runner stands as modules of their own: an abstract clean-up with
   CleanTarget as its refinement, and an abstract mailbox copy with MailboxCopy as its
   refinement, as FolderContract is for FolderCopy.
2. Two processes with one state file, as an extension of SyncState: the temporary file is
   shared, so `StoreKept` would need a lock or a name of its own for each process.
3. A server that changes while the verifier reads it.
