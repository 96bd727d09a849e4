# A TLA+ specification of PDG

PDG is a command-line program that connects a static website to the AT
protocol: it scans generated HTML, publishes documents as Standard.site records
on a personal data server (PDS), announces them on Bluesky, and keeps the OAuth
sessions this needs.  This directory holds a formal model of it in TLA+, the
TLC configurations that check the model on small instances, and proofs for
TLAPS.  All paths below are relative to the root of the repository.

The program has no daemon and no threads of its own to speak of.  What makes it
hard is that **every command is a separate process** and the processes share
mutable state without a lock: `.pdg/state.json`, `pdg.yaml`, the account index
`accounts.json`, the operating system's keyring, and what the PDS and the
authorization server remember.  Each command reads a whole file, works on a
copy, talks to a server in between, and writes the whole file back.  The
interesting questions are what is lost or repeated when a command dies, a write
fails, an answer is lost or two commands overlap.

## 1. Inventory

| Part | State | Operations | Talks to | What is hard | What makes it correct |
|---|---|---|---|---|---|
| Project state `internal/state` | `.pdg/state.json`: per website path a status, fingerprint, target (selected, URI, published fingerprint), posts; publication URI | `Load`, `Write` (temporary file, fsync, rename) | scan, publish, post, add, inject, verify | whole-file read-modify-write without a lock; crash before the write | a URI once recorded is never lost or given to another document |
| Scanner `internal/scan` | none; a function of previous state, site, configuration | `ScanStateful`, `ParseHTML`, `websitePath`, `matchingPath` | state, config, file system | every combination of previous status, page and mode; two files for one path; path precedence | URIs and posts survive every history of edits; status tells what changed |
| Publisher `internal/publish` | its copy of the state | `StandardSite`: skip, reject, create, update, persist after each document | XRPC, state | partial failure, lost answers, stale fingerprints | at most one record per document unless a fault struck; an error-free run leaves nothing behind |
| Poster `internal/post` | its copy of the state | `BuildPreview`, `Create` | XRPC, state | repeated posts | at most one post per document, only after publication |
| Session store `internal/sessionstore` | keyring (credentials per DID), `accounts.json` (metadata per DID, active DID) | `SaveSession`, `RefreshSession`, `LoadSession`, `SetActive`, `DeleteSession` | keyring, authorization server | two stores that are written one after the other, compensation on failure, rotation of refresh tokens | the active account is a known one; credentials are never mixed; the stored refresh token is one the server accepts |
| XRPC client `internal/protocol/atproto/xrpc.go` | the session it was given | `do`: send, nonce retry, refresh, persist nonce | PDS, session store | a stale session written back after another command rotated it; bounded retries | every request ends; retried only when it was refused |
| OAuth login `internal/protocol/atproto/oauth*.go`, `client.go` | state parameter, PKCE verifier, DPoP key, nonce, callback server | discover, PAR, authorize, callback, exchange, refresh | browser, authorization server | callbacks that race, arrive twice or never; cancellation | only a callback with our state yields a code; a login that got one ends |
| Identity resolution `resolver.go`, `handle.go`, `did.go`, `pds.go`, the discovery in `oauth.go` | none | handle → DID → document → PDS → issuer → metadata | DNS, HTTPS, PLC, PDS, authorization server | each answer comes from another party, which may change its mind meanwhile; conflicting DNS answers, fallbacks | all parties have agreed on the identity that is found; what is there is found |
| Integrations `internal/cli/integrations.go`, `configure.go`, `init.go`, `internal/projectinit`, `internal/config`, `internal/integration` | `pdg.yaml`, `.pdg/`, `.gitignore` | `add`, `remove`, `configure`, `init` | store, OAuth login, PDS, state | `add` creates a record, writes two files and injects a third, and can stop after any of them | the publication in `pdg.yaml` is the one in the state and exists |
| Publication paths `internal/config/publication_path.go`, `matchingPath` in the scanner | none | refuse and normalise a list, rule a document | `pdg.yaml`, scanner | nested and repeated paths, `/`, any order | the most specific path rules |
| Injector `internal/inject` | HTML files, `.well-known` file | `StandardSite`, `materializePublication`, `injectLink`, `atomicWrite` | state, the site generator | a build between reading a page and replacing it, repeated injection, partial failure, pages that moved | a page links to its own record; repeated injection changes nothing |
| Reconciler `internal/reconcile`, `internal/cli/verify.go` | none | verify (local, live), repair | state, public dir, network | a deployment that is replaced meanwhile; expected and actual artifact | after the workflow verification finds nothing, and finding nothing proves that the site is linked |

### How they interact

`pdg scan` is `config → state.Load → ScanStateful → state.Write`.  `pdg publish`
is `config → state.Load → LoadSession → (request → state.Write)*`, and each
request goes through the XRPC client, which may refresh the session and writes
the session store itself.  `pdg post` is one such request.  `pdg atproto
login`, `auth refresh`, `auth switch` and `logout` work on the session store
alone.  `pdg add` runs a login if the scopes do not suffice, creates the
publication record, and writes the `.well-known` file, `pdg.yaml` and the state.
A login resolves the identity and discovers its authorization server before the
OAuth flow begins.  `pdg inject` reads the state and rewrites the generated pages
and the `.well-known` file; the user deploys the directory and `pdg verify --live`
reads it back.

The models follow these seams.  `ProjectState` (what a scan computes) is extended
by `Publishing` and by `SiteOutput`; `PathRouting` (which mode a path gets) by
`SiteOutput`, which composes the two as the scanner does.  `PublicationLedger` and
`AccountRegistry` are abstract specifications that `Publishing` and `AuthStore`
implement.  Where one model uses another part only by its results, it takes them as
given: `Publishing` any mode for any document, `AuthStore` any login that succeeds or
fails, `OAuthLogin` any discovered server.

## 2. The publishing model

| Module | What it is |
|---|---|
| `ProjectState` | the data of `.pdg/state.json` and the function a scan computes on it: `Missing`, `OutOfScope`, `Present` are the three branches of `ScanStateful` |
| `Publishing` | the processes of `scan`, `publish` and `post`, the site, `pdg.yaml`, the file, the PDS and Bluesky |
| `PublicationLedger` | the abstract specification: what the state file promises about publication |
| `ProjectStateProofs` | lemmas about the scan that `PublishingProofs` and `SiteOutputProofs` share |
| `PublishingProofs` | theorems about `Publishing` |
| `MCPublishing` | constants for TLC |

**State.**  `site` is the generated HTML, one page (a version and a
`pdg:targets` declaration) per website path.  `config` says whether the
integration is enabled and which mode (`off`, `all`, `explicit`) the path list
gives each document.  `file` is the state file, `remote` and `posts` are the
records and posts that exist; a URI is an index into them.  `proc` holds, for
each running command, where it is, the modes it loaded and its copy (`mem`) of
the state.

**Data.**  A version stands for all that `state.Fingerprint` hashes, including
the canonical URL and with it `site.url`.  The versions in `Dated` carry a
published time, without which `validateDocument` rejects a document.  CIDs,
titles, texts and the summaries printed are left out.  Of the targets and posts
maps only the entries the program ever writes exist.

**Actions.**  A command reads `pdg.yaml` (`BeginScan`, `BeginPublish`,
`BeginPost`), then the state (`LoadState`): two steps, since anything may happen
in between.  `Walk` is the whole directory walk; it writes nothing when any page
fails, as the command returns the scan's error before `state.Write`.  A publish
visits the documents in any order (Go's map order) and takes one of
`SkipDocument`, `RejectDocument`, `CreateDocument`, `UpdateDocument`,
`RequestFails` for each; after a create or update it must `Persist` before it goes
on.  `validateEnabledTargets` has no action: the targets it checks are filtered
by `Enabled` before, so it cannot fail.  A request succeeds, fails without effect
(`RequestFails`, `AbandonPost`), or succeeds although the client sees an error
(`reply`): a lost connection, an undecodable body, or `SaveSession` failing on
a new nonce after the record was created (xrpc.go:145-150).

### Runs

| Run | Instance | Question |
|---|---|---|
| `publishing_sequential` | 2 documents, of which one page changes among six forms and one stays; 3 versions (one undated), all modes, 2 edits, 1 fault of `crash`, `disk` or `reply`; one command at a time, fairness | does the state survive every history of a page, what does one fault cost, and does repeating scan and publish reach the site's content? |
| `publishing_concurrent` | 2 documents, 2 commands at once, 3 faults of `crash` or `overlap`, requests that fail at any time, fixed pages; symmetric | can overlapping commands mix up documents, and what does an overlap cost? |
| `publishing_routed` (violated) | 1 document, paths that come and go | is a page outside every path left alone? |

To start a command while another runs is counted as a fault, `overlap`: the
program has no lock, and its documents promise nothing for this case.  Three
properties say that the price is bounded, one document for each fault, whatever the
fault was:

- `PublishedIsCurrent`: between commands the published fingerprint is what the
  record holds, save for one document for each fault.  It is the reason why
  skipping an "unchanged" document is right.  When the answer to an update is lost
  and the page goes back to its old content, the next publish skips a document whose
  record differs.
- `DuplicatesAreFaults`: a document has at most one record and one post more than
  faults struck; in the concurrent run an overlap pays for one duplicate.
- `Converges`: once nothing changes, at most as many selected pages as there were
  faults are kept from the PDS.

The others hold with faults as without:

- `CleanPublishIsComplete`: a publish that reports no error leaves every selected
  document recorded in its present content.
- `UrisAreKept`, `ImplementsLedger`: the file moves from unpublished to published
  to posted, one document at a time, and never back.
- `OwnRecords`: no document ever has another's record, in the file or in a copy.
- `CopyIsFresh`: what a command holds is the file, or one ledger step ahead.

**Bounds.**  `ScanDocument` looks at one path, so one page that changes has every
history; the one that stays shows what one's failure does to the other.  Three
versions and two edits allow an edit, a return to the old content and an undated
page.  `MaxRecords` leaves room for a duplicate, so the duplicate is reachable and
not excluded by the bound; in the sequential run `MaxPosts = 1` allows one
announcement, and duplicate posts are the concurrent run's.  That one takes three
faults: overlaps and crashes in any combination.  The numbers of processes,
documents and edits have no bound in the proofs.

**Fairness.**  `FairSpec` assumes that the operating system runs every process
(weak fairness of `Step`) and that the user keeps running scan and publish
(strong fairness of the two `Begin` actions: they are disabled while another
command runs).  Requests that fail without effect are left to the concurrent run: a
network that fails every time keeps every page from the PDS.

### Proofs

`PublishingProofs` proves, for all constants that satisfy the two named
assumptions:

- `TypeCorrect`: `Spec => []TypeOK`.
- `RecordsAreOwn`: `Spec => []OwnRecords`, with any overlap and any fault.  The
  invariant is inductive together with the type: the lists of records and posts
  only grow and an update never changes a record's document (`remote[u].doc`), so
  a stale copy's URIs stay right.
- `SequentialCopiesAreFresh`, `SequentialUrisAreKept`, `SequentialImplementsLedger`,
  under `MaxRunning = 1`.  The strengthening is that at most one process runs
  and its copy is related to the file as `CopyIsFresh` says; a write is then one
  step of the ledger.  That a new URI is unused by other documents comes from
  `OwnRecords`: every URI in use is at most the length of the list.

- `SequentialPublishesAreComplete`, under `MaxRunning = 1`.  The strengthening
  `Completing` says that a publish without an error so far has recorded every
  selected document it has already visited, and that nothing undoes this while it
  runs.
- `SequentialPublishedIsCurrent`, under `MaxRunning = 1`.  `Counting` strengthens
  the property to the moments inside a command: documents whose fingerprint is not what
  the record holds are at most as many as the faults in the file, or in the copy that is
  about to be written; while such a copy waits, the file may be one document off more.
- `DuplicatesAlwaysFaults`, for any number of overlapping commands and any fault.
  `Budget` classifies, for each document and for records and posts apart, where a
  process stands: it has yet to load the state, its copy has no URI, its copy has one,
  or it is about to write one.  A process of the first two kinds may still make a
  duplicate or write a state that forgets a URI.  Records and such processes together are
  at most one more than the faults, and two more while the file has the URI and
  no process is left whose copy has none: whoever started beside another was paid
  for by an overlap, and a record that is not written down was lost to a crash or
  a disk.

Checked by TLC only: the liveness property `Converges`, which the provers cannot
handle.

## 3. The session model

| Module | What it is |
|---|---|
| `AuthStore` | the keyring, `accounts.json`, the grants of the authorization server, and the processes of login, refresh, switch, logout and of commands that make XRPC calls |
| `AccountRegistry` | the abstract specification: what the index promises a reader |
| `AuthStoreProofs`, `AuthSequentialProofs` | theorems: for any overlap, and for commands that run one at a time |
| `MCAuthStore` | symmetry for TLC |

**State.**  A *grant* is one answer of the authorization server (access token,
refresh token, scope, expiry) and is a number.  `keyring` and `index` say of
which grant an account's secrets and its metadata are; `live` and `expired` are
the grants whose refresh token is accepted and whose access token is not.  A
process has the session in use (secrets and metadata, which may be of two
grants when they were read at two times), the session it was given at first
(`own`), what `SaveSession` found in the keyring (`previous`), and its copy of
the index.

**Actions.**  One per read or write of a store and per request.  `SaveSession` is
`FindPrevious`, `SaveSecrets`, `MergeIndex` (the read), `WriteIndex`, and
`Restore` when one of the last two fails.  `LoadSession` is `LoadMetadata`,
`LoadSecrets`.  `XRPCClient.do` is `AcceptWithNonce` (the server accepts and sets
a nonce, so the session is saved), `Challenge`, `Deny` (the token is denied, so refresh
and send again) and `EndCall` for every other end.  A server may deny a token that has
not expired, and accept it in a later call of the same publish: the fault `denial`.  After a call, `Return` goes on with
the session that publish loaded, as the Go code passes the session by value.

**Data.**  A missing index is an empty one, as `load` treats it.  The first loads
of `auth refresh` and `auth switch`, which only decide whether to go on, are
merged with the ones of the store that decide the same.  The server rotates the
refresh token with each refresh.  A nonce has two values.  The login within `pdg
add` also activates the account and is a `BeginLogin`.

| Run | Instance | Question |
|---|---|---|
| `auth_faults` | 2 accounts, 3 grants, 2 calls per publish, 1 fault of the disk, the keyring, a reply or a denial; one command at a time, fairness | are the two stores in step after a failed save, what does one fault cost, and do commands end although servers challenge and deny? |
| `auth_concurrent` | 2 accounts, 3 grants, 2 commands at once, 1 fault of `crash`, `disk` or `overlap`; symmetric processes | what survives overlapping commands? |
| `auth_refresh_atomic` (violated) | 1 account, one failed write | is a refresh atomic, as its comment says? |

- `BrokenAreFaults`: between commands every account can be used, save for one for
  each fault.  An account is `Broken` when the store knows something of it and its
  secrets are gone, are not of the grant the metadata describes, or hold a refresh
  token the server has consumed.  Without a fault it says that the stored token is
  always live and the stores agree; with one, that a failed step, a lost answer, an
  overlap or a denial never reaches a second account.  After a denial one account does
  break: the call refreshes the session, and the next call of the same publish, which
  starts from the session loaded at first and is accepted, writes that one back.
- `SecretsAreDescribed`, `SecretsSurvive`: what the compensation of a failed save
  leaves behind.
- `ActiveIsKnown`, `GrantsAreOwn`: whatever overlaps, the active account is one the
  index lists and no account gets another's grant.
- `ActivationIsExplicit`, `ImplementsRegistry`: only login, switch and the logout of
  the active account change which one is active.
- `StepsAreBounded`, `CommandsEnd`: retries are bounded.  Each step lowers a bound
  (`StepsLeft`) on the steps that are left, so that a command ends if only it is run.

**Bounds.**  Two accounts, because the index relates the active one to the
others, and because a fault must not reach the second; three grants, because a login
and two refreshes are needed for one call to write back what an earlier one rotated;
two calls, because the second starts from the session the first was given.  In
`auth_concurrent` the one fault is the one overlap: two commands interleave in every
way, and a third begins only when both have ended; a crash or a failed write is
explored in the behaviours without an overlap.  With two faults `SecretsSurvive`
does not hold (a locked keyring passes for an empty one, and the compensation then
deletes); the run and the property say one.

**Fairness.**  Each process is run and each request is answered or fails.  The
program sets no timeout on `http.DefaultClient`, so a server that accepts a
connection and is silent for ever is outside of this assumption.

**Proofs.**  `TypeCorrect`; `ActiveAlwaysKnown` and `GrantsAlwaysOwn` for any
overlap and any fault.  For the first the strengthening says where a process
holds a session with metadata: `MergeIndex` adds an account to a copy with the
metadata of its session, and the account it activates is only known if that
metadata is there.  For the second it says that a session, `previous`, the index
and every copy are of grants issued to the account they stand under, and that
grants keep their account (`issued` only grows).  `SequentialActivation` and
`SequentialImplementsRegistry` assume `MaxRunning = 1`: a copy that is about to be
written is then the present index, changed as the command changes it.

- `BrokenAlwaysFaults`, for any number of overlapping commands and any fault, counts
  the accounts that are `AtStake`: broken, or claimed by a running process that may
  still leave them broken.  They are at most as many as the faults, or one more
  while `Calm`: the running commands work on different accounts, none is in another's
  way, and one of them has its two stores in step.  Whoever starts beside another has
  been paid for by an overlap.  `Held` says what a process of a calm account relies on:
  how its sessions relate to the two stores, to the live grants and to the expired ones.
  That a call starts again from the session that publish loaded does no harm without a
  fault, because that session is the stored one, or has expired and can only be used to
  ask for another; a denial of one that has not expired is a fault of its own.
- `SecretsAlwaysDescribed`, under `MaxRunning = 1`.  `EntriesInv` says for each step of a
  save or a logout how the entry of the index and that of the keyring differ, and that
  the copy to be written mends it.  Two hypotheses are needed, and TLC shows a
  counterexample without either: no process dies between its two writes, and it does
  not happen that both the write of the index and the repair of the keyring fail.
- `SecretsAlwaysSurvive`, under `MaxRunning = 1` and one fault of any kind.
  `RecoversInv` says that a save that found no secrets for a listed account has met the
  fault in finding them, so that its repair, which would delete, is not reached.
- `StepsAlwaysBounded`, for any overlap and any fault; the strengthening is that a call
  is not sent while its session is being refreshed.

They rest on `AdvanceTurns`, which says field by field what a step of a process is,
whichever action it is.  Checked by TLC only: `CommandsEnd`, whose safety core is
`StepsAreBounded`.

## 4. The integration model

| Module | What it is |
|---|---|
| `SiteIntegration` | the processes of init, add, remove, configure, inject, repair and scan; `pdg.yaml`, `.pdg/state.json`, the `.well-known` files and the publications on the server |
| `SiteIntegrationProofs` | theorems |
| `MCSiteIntegration` | symmetry for TLC |

**State.**  A publication record is a number; `created` has the identity it was
created for.  It is named by `cfg.site.uri`, by `recorded` and by `wellKnown[dir]`.
`hasState` tells whether the state file exists, which `pdg init` looks at.
Each process has its copies of `pdg.yaml` and of the recorded publication, and the
publication it has to write to the `.well-known` file (`expected`).

**Actions.**  `pdg add` loads the configuration, then the state; it keeps the
publication that is configured (`KeepPublication`, which fails on a conflict with
the state) or creates one (`CreatePublication`), looks at the `.well-known` file
(`CheckWellKnown`), writes it (`WriteWellKnown`), then `pdg.yaml` (`SaveConfig`),
then the state (`SaveState`).  `remove` and `configure` write `pdg.yaml`; `init`
writes `pdg.yaml` and, if there is none, the state; `inject` and `repair` read
both, inspect and write the `.well-known` file; `scan` writes the state back as
it read it, whose other contents are the subject of `Publishing`.  The user edits
`public_dir` (`MoveSite`) and a build empties the directory (`CleanBuild`).

| Run | Instance | Question |
|---|---|---|
| `site_faults` | 2 identities, 2 directories, 3 publications, 3 changes of any kind, 1 fault of `crash`, `disk` or `reply`; one command at a time, fairness | do the three files agree between commands, and does adding and repairing again mend what a fault left? |
| `site_readd` (violated) | 1 identity, 1 directory, one removal | does `pdg add` configure the integration? |

- `Attached`: the publication of `pdg.yaml` is recorded in the state, unless a fault
  cut a command short; and then the state has none rather than another one, until
  `pdg.yaml` has been changed as well.
- `PublicationsAreOwn`: a publication stays with the identity it was created for,
  whatever fails in a command and whatever is edited or built beside it.  The run has one
  command at a time; that it also holds of commands that overlap is not model-checked but
  proved (`PublicationsAlwaysOwn`).
- `StateIsAuthority`: only the state gives a `.well-known` file another publication.
- `Heals`: once nothing changes, adding and repairing brings the files into
  agreement, unless the state records another publication, which `pdg add` reports
  each time (`Conflict`).

**Bounds.**  Three publications allow one that is forgotten, one whose command
failed and a third.  Two identities are needed for a publication to be joined with
the wrong one, three changes for a removal, a move and a clean build in one history.

**Fairness.**  The system runs every process; the user adds again and repairs again
(strong fairness: these are disabled while another command runs) and does not
break off each dialogue for ever (strong fairness of `KeepPublication`, which
competes with `Abandon`).  `Heals` says nothing of a project that `pdg add` cannot
attach again; that is the finding of `site_readd`.

**Proofs.**  `TypeCorrect` and `PublicationsAlwaysOwn` for any overlap and any fault:
publications are never deleted in the model and `created` only grows, so a name
that once was right stays right in every stale copy; the invariant also says that a
process about to write a `.well-known` file holds a publication to write.
`SequentialAuthority` (`MaxRunning = 1`, any fault): what a running process writes
was recorded when it looked, and nothing ran in between.  `SequentialAttached`
(`MaxRunning = 1`, any fault) needs the strengthening that says, for each command
and step, how the process's copies relate to the two files and to the faults and
changes so far: a state written after `pdg.yaml` names the publication written
there, so a fault between the two leaves the state without one.  `Heals` is checked
by TLC only.

## 5. The login model

| Module | What it is |
|---|---|
| `OAuthLogin` | the processes of logins, their callback servers and handlers, the authorization server, the browser |
| `OAuthLoginProofs` | theorems |
| `MCOAuthLogin` | the module that TLC runs |

**State.**  A login stands for its random state parameter, its code verifier and
its DPoP key, which nobody guesses.  `result` is the channel of the callback server,
whose buffer has one place.  `visits` are the requests the server has received, each
with its handler's place: the page is written first and the result sent after it.
`urls` are the redirects the browser has been given and may load at any later time,
also when the operating system has given the port to another login's server.

**Actions.**  `Begin`, `Push` (the pushed authorization request), `Confirm` (the user
presses Enter; a callback may already be there), `Receive` (`wait` and the comparison
of the state parameter), `Exchange` (with the comparison of the subject); the two
requests are repeated once after a nonce challenge.  `Answer` and `SendResult` are the
handler.  A callback with an error or without a code makes the login fail, as the
handler sends an error without looking at the state parameter.

**Run.**  `oauth_login`: two logins, two identities, one port and two callbacks, with
fairness.  One port, because a redirect reaches the server that has its port:
sharing it in turn is the interesting case.  Two callbacks: one to come early or
be dropped, one to be taken.  Logins stop for good, so deadlock is not checked.

**Fairness.**  A login's process and its handlers run, requests are answered or fail,
and the user presses Enter as asked to.  Nothing is assumed of what the user does
in the browser: a login that never gets a callback waits until it is interrupted.

**Proofs.**  `TypeCorrect`, `CodesAlwaysOwn` and `SessionsAlwaysOwn` for any logins,
identities, ports and callbacks.  The strengthening is in two parts: every redirect
with a code names the request that the code was issued for (`Genuine`), and all that
is in a handler or a channel is such a redirect (`Given`).  `AnsweredLoginsEnd` is
checked by TLC only.

## 6. The site model

| Module | What it is |
|---|---|
| `PathRouting` | publication paths: which lists are refused, their normal form, the website path of a file, the path that rules a document and its mode |
| `SiteOutput` | scan, publish, inject and live verification on the output directory, beside a site generator and a deployment that know nothing of pdg |
| `SiteOutputProofs` | theorems |
| `MCSiteOutput` | a blog of two posts for TLC |

**State.**  `output` is the directory, one page (content, declaration and the records
that its links name) per HTML file; `wellKnown` what its `.well-known` file names;
`deployed` a copy of both as the web server has it.  `project` and `source` are the
state file, `cfg` the identity and the publication paths of `pdg.yaml`, `created` the
records.  `run` is the one command that is running: the documents it has still to look
at, the page it has read and is going to replace.  Of a verification it also
remembers, as history, the deployments that it may have read (`served`) and the documents
it found fault with (`blamed`).  `settled`, a history variable, remembers that nothing has
changed since an inject that ended cleanly.

**Data.**  A path is the sequence of its segments, so `/` is the empty one and the
depth a length.  `ScanStateful` is the one of `ProjectState`, given the modes that
`PublicationMode` computes for the normalised list.  Links to records that are not
this project's are the one number 0.  An identity stands for its publication.

**Actions.**  `Scan` is a whole `pdg scan`, of the output directory or of another one;
two files for one website path are the declaration `clash`, on which it fails.
`PublishDocument` is the effect of `pdg publish` on one document.  `pdg inject`
writes the `.well-known` file (`Materialize`) and visits the documents in any order:
`RefuseDocument` (another identity's record, or a file that does not end in
`.html`), `SkipDocument`, or `ReadPage` and then `ReplacePage`, which writes what was
read some time before; errors are collected, and the others follow.  `pdg verify
--live` is one step per request.  `Build` replaces the pages with the site
generator's, all of them or only those that changed, at any moment, also between
`ReadPage` and `ReplacePage`; `Deploy` copies the directory; `Reroute` edits the paths
and `Readopt` the identity.

| Run | Instance | Question |
|---|---|---|
| `output_workflow` | 3 files of which two have one website path and one is a `.htm`; 2 documents, 2 versions, 2 identities, 4 lists of paths (repeated, nested in either order, contradicting), 1 crash or failure of the disk, 1 build or other change, fairness | does each page get its own link, is inject safe to repeat, and does the workflow lead to a site that verifies? |
| `output_root` (violated) | the list `/`, the default of `pdg add` | does `/` cover every document? |

- `DeepestPathRules`: of the paths that cover a document, `/` aside, the deepest
  gives the mode, in whatever order they are listed; against a reference that has
  no loop.
- `LinksAreOwn`: a link on a page, on disk or deployed, names the record made for
  the page's own path: also after the page moved to another file, another
  directory was scanned, or the identity changed.
- `InjectSettles`: after a clean inject, injecting again changes nothing.
- `VerifiedIsLinked`: a verification that passes proves that the publication, and the
  link of each record at its canonical URL, was deployed at some moment of it, although
  the site is built and deployed between its requests.  `WorkflowVerifies`: conversely,
  each document that one finds fault with, on a cleanly injected and deployed directory,
  has itself a reason that inject cannot remove (its page is gone, two files answer its
  URL, it declares another page's URL), and without such a document, and without a
  failed request, the verification passes.
- `Deploys`: the workflow brings every link that inject accepts to the deployed site.

**Bounds.**  Three files, so that a document can have two files, or move from one to
the other; two documents, so that a link can be the wrong one's; two records, one
for each.  One change is enough to disturb a command at each of its steps.  Deeper
nests of paths and longer lists are left to the proof of `DeepestPathRules`.

**Fairness.**  The system runs the command that has begun.  The user repeats the
workflow of `docs/publishing.md:111`, that is scan, publish, inject and deploy (strong
fairness: each is disabled while a command runs).  Nothing is assumed of builds, edits
and verifications.

**Proofs.**  All six safety properties are proved, for any files, identities, lists
of paths, sites and numbers of changes and faults:

- `TypeCorrect` and `LinksAlwaysOwn` come from `Consistent`: a URI in the state is
  that of a record of the same document, the source of a document is a file at its
  path, and what inject has still to visit has both.  A page that was read before a
  build and is written after it carries a link of its own path, since the source
  cannot change while inject runs.
- `InjectAlwaysSettles` adds `Settling`: of a running inject that has no error and no
  build behind it, every document it has visited is done.
- `VerifiedAlwaysLinked` adds `Verifying`: of a running verification that has found no
  fault, every document it has visited was linked in one of the deployments it may have
  read, and the present one is among these; and
  `WorkflowAlwaysVerifies` relates what it finds to what inject has settled.
- `DeepestAlwaysRules` is about two loops over lists (the normal form and the
  choice of the path), written as recursive functions.  The library's induction
  theorems take an operator as parameter, which the provers cannot instantiate.
  Their place is taken by an induction over sets: `SetInduction` (a set of numbers
  that has 0 and each successor has all), from the well-foundedness of `<`; each
  loop invariant becomes the set of indices at which it holds.

`Deploys` is checked by TLC only.

## 7. Identity resolution

| Module | What it is |
|---|---|
| `IdentityResolution` | `pdg identity` and the discovery that a login begins with, beside a world that changes its mind |
| `IdentityResolutionProofs` | theorems |
| `MCIdentityResolution` | an instance for TLC |

**State.**  `world` is what everyone would answer now: the TXT records of each handle
(how many name each DID), the `.well-known/atproto-did` of its host, the document of
each DID, the authorization servers each PDS lists, and the metadata of each issuer.
`run` is the command, with what it has found so far.  `said`, a history variable,
is what has been said since it began.

**Actions.**  One per request: `LookupTXT` (one record names the DID; with none,
several or a failure the host is asked), `FetchWellKnown`, `FetchDocument` (with
`VerifyIdentity` and `FindPDS`, which passes malformed endpoints over), `DiscoverIssuer`
(exactly one server), `FetchMetadata` (its issuer must be the one asked).
`RequestFails` ends the command at any of them.  `ChangeTo` changes one
answer; it may do so between any two requests.

| Run | Instance | Question |
|---|---|---|
| `identity_resolution` | 2 handles, 2 DIDs, 2 PDSs, 2 issuers, 3 changes | is what is found agreed upon, and is what is there found? |

- `Agreed`: a command ends well only when, since it began, the domain has named the
  DID, one document of that DID has named the handle and the PDS together, the PDS
  has named the issuer, and the issuer itself.
- `FindsWhatIsThere`: with no request failed and nothing changed, it ends with what
  the handle stands for, given by a reference definition, and fails only if there
  is no such thing.

**Bounds.**  Two of each, so that each answer can name the wrong one.  Three changes:
an answer can be given, withdrawn and given again between two requests.  No command
has to end, so no fairness is assumed: each has at most five requests.

**Proofs.**  `TypeCorrect`, `AlwaysAgreed` and `AlwaysFindsWhatIsThere`, for any number
of handles, identities, servers and changes.  The first needs that a command has
heard all that was said since it began (`Informed`) and that what it took from
each answer was said (`Attested`).  The second needs that, undisturbed, it is on the
way to what the handle stands for (`OnTheWay`); that the first usable endpoint exists
is the least element of a set of positions, by the well-foundedness of `<`.

## 8. Findings

Four runs show that the program does not do what its documents say; the entries in
`PROJECT.json` quote them.

- `publishing_routed`: a page that has left every publication path is still
  published and updated, as its target stays selected when it goes out of scope.
- `auth_refresh_atomic`: a refresh whose write of the index fails puts the
  consumed refresh token back; the comment says the refresh is atomic.
- `site_readd`: `pdg add` after `pdg remove` creates another publication, fails on
  the `.well-known` file of the first one and leaves the project unconfigured.
- `output_root`: a publication path `/`, which `pdg add` offers as the default,
  selects no document, since its depth is that of no path.

Of overlapping commands the documents promise nothing, so what goes wrong there is no
finding: a scan that overlaps with a publish drops a URI that was persisted, and a
publish that overlaps with a refresh can write the consumed refresh token back.
`DuplicatesAreFaults` and `BrokenAreFaults` say how much one overlap can cost.

Some hazards have no property; `PROJECT.json` says why at each: the window between
looking at a `.well-known` file and renaming over it, a login nobody answers, a DNS
lookup that fails once where the two sources of a handle disagree, an account that
moves to another PDS, and two that are about the text of a path (`.` and a
`public_dir` of `/`).

## 9. Not modelled

- The text of paths, URLs, handles and DIDs, and the cleaning of it: a value is
  well-formed, and then stands for itself, or it is malformed.
- Crash consistency of the atomic write itself (temporary file, fsync, rename):
  taken to be atomic, as the operating system promises.  Symbolic links within the
  output directory.
- Encodings, cryptography, terminal output, dialogues, HTML text extraction, the table
  of capabilities and scopes, and the assembly of commands: they keep no state that a
  property could be about; see the notes of the components in `PROJECT.json`.
- `internal/projectinit` and `scan.Scan`, which no command calls, and the empty
  packages.
- Liveness is out of the provers' reach, so it is model-checked only.

## 10. Plan

In order of what matters most; modules in parentheses.

1. Publishing (`ProjectState`, `Publishing`, `PublicationLedger`): done.
2. Sessions (`AuthStore`, `AccountRegistry`): done.
3. Integrations (`SiteIntegration`): done.
4. OAuth login (`OAuthLogin`): done.
5. Routing and the generated site (`PathRouting`, `SiteOutput`): done.
6. Identity resolution (`IdentityResolution`): done.
7. Proofs of every safety property that a run checks: done.  Left: the safety cores
   of the other liveness properties, as `StepsAreBounded` is that of `CommandsEnd`.
8. Composition of `Publishing` with `AuthStore`: a publish whose session is refreshed
   half-way.  The two share no state but the outcome of a request, which each
   takes from the other as any outcome, so their safety properties carry over; a
   composition would add the histories in which one failure has both causes.
