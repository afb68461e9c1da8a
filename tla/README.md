# Verification of Rewall

TLA+ models of Rewall, checked with TLC on small instances, with theorems proved
by TLAPS for every instance. Paths below are relative to the repository root.

## The system

Rewall stores secrets as text records under ENS names. There is no server in the
secret path: clients read and write a resolver contract, and everything that
makes a write safe happens before the transaction is sent. Around that core sit
a private payment rail (a vault contract, an indexer and a SQLite ledger), the
dashboard with its sponsored onboarding, a browser extension and an MCP server.

### Inventory

| Component | State | Operations | What is hard | What makes it correct |
| --- | --- | --- | --- | --- |
| Records and authorization (`sdk/src/records.ts`, `authorization.ts`, `secret.ts`) | text records of a secret: lists, bound keys, counter, signature, blob, wraps, holders | sealing, granting and rotating plans; verifying signed lists | lists are writable by delegates, only the signature is the owner's | seal only to approved keys; every wrap is listed; someone besides the owner can open |
| Client (`sdk/src/client.ts`) | snapshot of one call; everything else is on chain | create, get, grant, revoke, rotate, reauthorize, forget, unindex, setSite | read - sign - write with no compare-and-set; one `eth_call` per record; one transaction per resolver | no lost access, no stranded secret, a true index |
| Teams (`subtree.ts`) | versioned team key, one sealed copy per member | init, distribute, rotate | three separate steps to remove a member | removed members stop reading, kept members go on |
| Guardians (`guardians.ts`) | recovery key, threshold, one share per guardian | init, reshare, approve, collect, recover | a second init replaces the shares of the first | threshold many recover, fewer do not |
| Rail ledger and indexer (`rail/src/db.ts`, `indexer.ts`) | balances, tickets, seen logs, cursor, one running tick | credit, debit, issue, settle, refund; scan, sweep | no SQL transactions; RPC failures, reorganisations, restarts, wall clock against chain | owed = held; every log once, none skipped |
| Rail endpoints (`rail/src/server.ts`), vault (`RewallTestVault.sol`) | custody, used tickets | private-transfer, withdraw; deposit, withdrawWithTicket | an await between check and debit; deadlines on block time | no overdraft; each ticket once |
| Faucet (`web/src/app/api/faucet`, `web/src/lib/mongo.ts`) | one document per wallet with two legs | claim, send, record, release | crashed and timed-out requests, racing wallets | one payment per wallet, a spending cap |
| Provisioning (`web/src/app/api/provision`, `web/src/lib/provision.ts`, the setup wizard) | document per wallet, chain, sponsor's mempool, the words a tab shows | start, finish | resumed after failure anywhere, two requests at once | the registry is handed over whole, shown words recover, setup ends |
| Dashboard workspace (`dashboard-shell.tsx`, `web/src/lib/account.ts`) | wallet, its name, the loaded vault, the remembered name | connect, resolve, adopt, load, refresh | answers of renders that are gone | what is shown belongs to the present wallet |
| Dashboard session (`identity.tsx`, `private-data.tsx`) | key, client, pending unlock, open codes and receipts | unlock, lock, decrypt, write, hand off | calls outlive locks and switches | one session at a time, nothing opened outlives it |
| Dashboard payments and withdrawals (`transfer-forms.tsx`, `rail.tsx`) | forms, a slot of local storage for an unwritten receipt and one for a ticket | look up, pay, write a receipt, retry, dismiss; ask for a ticket, redeem it | an irreversible step followed by one that fails, in a drawer that may be gone | no payment or ticket is forgotten, the named one is paid |
| Dashboard drawer (`secret-value.tsx`, `secret-access.tsx`, `create-secret.tsx`, `add-authenticator.tsx`) | what each form shows, the calls that are out | reveal, replace, look up, grant, revoke, store | answers in any order, to forms that have changed | it acts on what it showed |
| Extension worker and pages (`extension/entrypoints`) | paired identity, open vault, fields, captures | pair, unlock, lock, announce, fill, capture, claim | awaits between storage reads and writes, worker recycling | locked means locked, codes go home, a capture is used once |
| MCP server (`mcp/src/http.ts`, `tools.ts`, `vault.ts`) | call and redaction budgets, identity per request | tool calls | bounded maps, connections closed in mid call | budgets hold, values go where they may, keys are wiped |
| Ledger enrolment, CRE workflow and scripts, docs, landing page | none of their own | one-shot scripts over the SDK | | |

The SDK client is used by the dashboard, the extension, the MCP server and the
scripts; two of these running for one owner are two clients of one secret. They
meet only in the records on chain. The rail shares nothing with the secrets but
the names it pays. The faucet and provisioning share the sponsor's wallet.

`PROJECT.json` lists the components with what is and is not modelled of each,
and the hazards of the code at the line where they bite.

## Modules

| Module | Models |
| --- | --- |
| `SecretRecords` | the records, the signed payload and the planning functions, as pure operators |
| `SecretClients` | concurrent clients of one owner, republished keys, a write delegate |
| `SecretIndex` | the index of a namespace, over one or two resolvers |
| `Teams` | versions of a team key, their distribution and the sealing to them |
| `GuardianSets` | guardian sets, moving guardians, approval and recovery |
| `OwnerCalls` | the composition of the last three |
| `Rail` | vault, ledger, indexer and endpoints, with chain, clock and crashes as environment |
| `Bank` | what the ledger promises its accounts; `Rail` implements it |
| `Faucet` | the drip and token legs of one or more wallets, the ledger of claims, the clock and the chain |
| `Provision` | the wizard, start and finish, the document, the chain and the sponsor's transactions |
| `Vault` | the extension's vault and the popup's chains of calls |
| `Toolbar` | pages, fields, buttons and clicks; extends `Vault` |
| `Captures` | captured setup codes |
| `Extension` | the composition of the three: repainting, expiry and the end of the browser |
| `Mcp` | requests, budgets, identities and tools of the MCP server |
| `Readers` | the extension and the MCP server |
| `Workspace` | the dashboard's wallet, name and vault |
| `KeySession` | the dashboard's key and what was opened with it |
| `Payments` | the dashboard's payment forms |
| `Withdrawals` | tickets: asked for, kept, redeemed, dismissed |
| `Reveals` | the value of a secret in the drawer |
| `Grants` | the form that grants |
| `Stores` | the forms that store a secret or an authenticator |
| `Dashboard` | these seven |
| `Owners` | `OwnerCalls` and `Dashboard` |
| `MCSecret`, `MCRail`, `MCFaucet`, `MCProvision`, `MCReaders`, `MCOwner` | small instances |
| `SecretClients_proofs`, `OwnerCalls_proofs`, `Rail_proofs`, `Faucet_proofs`, `Readers_proofs`, `Dashboard_proofs`, `Provision_proofs` | theorems |
| `Sums` | lemmas on the community modules' `SumFunction`, for the books of `Rail` and `Faucet` |

In `OwnerCalls`, `Readers`, `Dashboard` and `Owners` the parts share no variable:
the code shares none but the records on chain, which each part has as its own
environment. A behaviour there follows one part, named by `part`, `play`, `scene`
or `desk`, while the others rest; interleaving parts that cannot touch would
multiply the states and say nothing new. `Extension` and `Toolbar` are real
compositions: their parts share the open vault.

### Secrets

A call of the client is three steps, as in the code: `Read` takes a snapshot
(`readForRotate`), an action such as `Grant`, `Revoke` or `Rotate` plans and
signs against that snapshot, and `Write` sends the multicall over whatever is on
chain by then. `create` resolves names first (`CreateResolve`) and reads what is
there afterwards (`CreateSign`). `Abandon` is a refusal, a rejected wallet
prompt or a reverted transaction. With `TornReads`, `ReadMore` lets later
records into a snapshot, since `readTexts` is one `eth_call` for each record.

A key and its fingerprint are one value; a data key is a number that is never
drawn twice; a wrap is the data key it opens to; encryption is ideal. A name
list is a set. A signature is the payload it covers and exists only if a client
made it, so forging one is impossible and replaying one is not. Names republish
their keys at any time within `Publishable` and `TeamKeys`. A write delegate
(SPEC.md, section 2) adds names, rebinds keys and rolls signed records back to
any earlier signed state (`Delegated = {"signed"}`), or drops a fingerprint from
`rewall.holders` (`{"holders"}`). A delegate that clears wraps or the blob can
always deny service and is not modelled.

`approved`, `sealed` and `history` are ghosts. `approved` grows where the owner
names a party: `create` trusts what its names resolve to, `grant` and `accept`
name a key, `reauthorize` approves new entries and accepted changes.

Left out: the type, enc, allow, site and created records and `setSite`; other
wallets and the transfer of a name; the subtree key among held keys; canonical
encoding. The index is `SecretIndex`.

### Team keys, guardian sets and the index

`Teams`: a version stands for its key, which is derived from it. `BeginTeam` reads
the version (`subtreeVersion`), and the `Land` actions send the transactions:
one for each resolver, each of which may be refused. Ghosts note whom a version was
ever sent to; `TeamKept` speaks of behaviours in which no two calls crossed,
because two rotations at once publish one version twice and no member can tell.

`GuardianSets`: a piece is the number of its set and the guardian it is for. Shares
of two sets may have the same x-coordinate (`XOf`), so a stale piece may stand in
a fresh one's place; `Rebuilds` is the search of `recoverWithShares` over
combinations. `Collect` reads each guardian's name; a read that fails is caught, and
passes for a name that has published nothing, so no one is told that a piece is
missing. `ready` is the ghost of it: the guardians whose names held a piece as the
gathering began and were read. `QuorumRecovers` has both directions; a quorum that
was published and not read is not promised to recover.

`SecretIndex`: labels of which some have a resolver of their own (`Apart`).
`IndexMatches` excuses the labels that crossing calls or half-done ones spoiled.

### Rail

A step of `Rail` is one SQLite statement, because that is what a crash falls
between: the code opens no transaction. `job` is the statement a synchronous
stretch of JavaScript runs next; while there is one, or while the indexer is in
a synchronous phase, no other handler runs. `Fetch` is where the indexer awaits
`getLogs`, and where requests, blocks and failures get in. `RpcFails` ends the
tick, `Crash` drops `job` and `scan` and keeps the database.

The chain is a sequence of blocks with one vault log at most. `Reorganise` drops
a block only while it has fewer than `Confirmations` on top of it: deeper
reorganisations are outside what `CONFIRMATIONS` promises. `MineWithdrawal`
checks the deadline and single use as `withdrawWithTicket` does; a ticket may
also never be redeemed. Amounts are unbounded integers, as in the code
(`BigInt`); transfers between all pairs of accounts are possible, a transfer to
oneself too.

Left out: the transactions history, shielded addresses (a lookup before the
transfer), policy engines (a denial is a step not taken), and the authentication
of requests.

`Bank` is the ledger as its accounts see it. `Rail` implements it under the mapping
`Posted` and `Issued`: balances and tickets with the statement that is still to
run (`job`) counted in, so that a pair of statements is one operation of the bank.
What the bank allows besides is that a restart undoes half of the one operation it
interrupts. `KeepsBank` is `Ledger!Spec`, checked and proved.
`credited` notes the deposits whose credit ran, which is what `DepositsArrive` asks for:
a log that is claimed and not credited was lost to a restart between the two statements,
and only that is excused.

### Faucet

A request goes from one `await` of `drip` to the next; `pc` names the one it is
at. Both legs take the same steps, apart from what the code does differently: an
abandoned drip is looked up on the chain before it is released (`Look`), its hash
is recorded before the wait (`Record`), and its claim outlives a receipt that
does not come, while the tokens' claim is released (`ReceiptLate`). `copy` is the
document the request read on arrival (`existing`), and everything it decides
later is decided on it, the age of a claim too.

A ledger or RPC call takes no time; the nonce queue and the receipt do, up to
`QueueDelay` and `ReceiptTimeout`. `Tick` ages the claims. Faults are counted
together: a crash of the process, a receipt that times out, a submission whose
answer is lost, and a ledger write that fails after the broadcast. A transaction
nobody waits for any more (`stray`) may land or be dropped. The wallet's own
balance is whatever its owner makes it (`OwnBusiness`), so `Look` may be wrong
both ways.

`excused` counts the claims that were given up while their payment could still
land, or had. The ledger cannot do better than one payment for each of those, and
`PaidOncePerClaim` and `CapHolds` say that it does no worse.

Left out: the signature on the request, the order of sends in the nonce queue,
and the fields of the document that belong to provisioning.

### Provisioning

A tab of the wizard claims (`Claim`) and finishes (`Finish`); a request goes from
one await to the next (`req[t].at`), from the document it read first. A wave is
estimated and submitted in one step under the nonce queue and mined in nonce order
(`mempool`, `Mine`), by requests that may be gone by then. The document (`doc`)
and the chain (`site`) are separate, since all that can go wrong is that they
differ: a request fails half way (`SubmitFails`, `ReceiptLate`, `Throw`), `Rescue`
saves the partial state of a start, nothing saves that of a finish, and `Crash`
kills all requests. `Squat` is another registrant. A resolver carries the recovery
key of the tab that deployed it, and `shown` is what a tab shows as its words.
`harm` is a ghost: what befell each wallet, so that a property excuses no more
than it must.

### Extension

`Vault`: what is on disk, what session storage holds as `open` and its deadline.
The popup's own load and each button are `flow`s, chains of calls with one step
for every await; the idle timer dies with the worker (`Recycle`), and `session`
finds an expired vault when it is read. `rewall.site` of a secret moves at any
time (`MoveSite`). `consent` and `over` are ghosts.

`Toolbar`: pages announce a field, the worker handles each message and browser
event up to its first await in order, and handlers that wait run beside each
other, each with the copy of `fields` it read. A write to the open vault is an
event that paints every button, and `lock`, `unlock`, `set-passphrase` and the idle
timer paint them once more by themselves and answer after it: in `Extension` a flow
or the timer has a task of its own (`Handlers`, `Paints`) beside those of the worker's
events. A paint reads the field and the account of a tab over awaits before it sets the
button, and `setPopup` rejects for a tab that is gone, which ends the `paintAll` it belongs
to (`PaintFails`). `behind` and `overtaken` note a paint whose tab another painted
since it read it, and that it left the button wrong; `skipped` the tabs that a
`paintAll` which failed did not come to. `ButtonsMatchVault` excuses exactly these, which
the findings tell. A call whose `paintAll` fails answers undefined, on which the
popup goes no further (`Opened`). `Captures` is the map of captured seeds with the
same reads and writes. `Extension` composes them (`Repaint`, `FindExpired`,
`Restart`).

### MCP server

A request arrives, is admitted by the budgets (`Let`), gets an identity (of its
own, or the shared one), calls one tool, and ends in either order with its
connection. `http_with_secret`, `otp_code` and `sign_with_secret` go through
`metaOf`, the policy checks and `get`; the owner may replace the secret in
between (`Store`). The maps forget the key least recently let through once they
are full (`Keep`); `Limit`, `Capacity` and `RedactionLimit` stand for the
numbers in the code.

### Dashboard

`Workspace`: `Connect` is what a change of wallet makes the next render do; every
`resolveOwnName`, adoption and read of a vault is a record that remembers what its
render knew. `strayed` notes that an answer of another wallet's render was taken,
`raced` that two writers of one wallet's remembered name ran at once.

`KeySession`: calls go through `live` with the wallet and name of the render that
began them and wait for the signature, for the provider, for the chain. `LockNow`
and `Switch` come at any time between. A key is a number; `derived` says of which
wallet. `outlived` notes that a call took a session of another wallet than its
own, `rebuilt` that a client was put back after a lock.

`Payments`: a form that was submitted goes on when its drawer closes, and another
form may be opened beside it. `slot` is the entry of local storage. `overlapped`
notes that a payment was made while the receipt of another was missing, `hasty`
that the user typed on while a lookup was out; the properties excuse exactly these,
and each of them is told as a finding.

`Withdrawals`: `kept` is the ticket in local storage, `display` what each mounted
`RailProvider` holds in memory; a call goes on with the provider it was begun in
(`errand`). The clock runs in minutes, as the page counts them, so a ticket in its
last minute can be redeemed and dismissed. `doubled` notes a ticket asked for beside
a call that was out, `remounted` a provider mounted over one.

`Reveals`, `Grants` and `Stores` are three panels of the drawer, which can be closed
over a call and opened again: an answer to a panel that is gone is dropped (`Ours`,
`here`), a stored entry closes whatever drawer is open (`EntryStored`).
`DrawerActsAsShown` has one conjunct for each.

The value of a secret in `Reveals` is its version number. `crossing` notes that what is
on the screen, or on its way to it, may have been read before a replacement of the same
panel; it ends when the value is hidden and when the drawer is opened again.

In `Grants` a name publishes one key after another for itself and for its team
(`Republish`); a fingerprint is the name, the list and the key that `look` found for
them. `grant` of the SDK gets the name alone and finds its key again (`GrantReads`), so
what it grants may be a key published since: `GrantsWhoIsShown` says that it is of the
name and list whose fingerprint was shown, and never an older key than that one. That it
need not be the same key is a finding. A lookup the user went on without is `late`, and so is a
fingerprint that it brings.

In `Stores` an entry has a target, a value and a detail, which stands for the other fields (site,
type, recovery, grantees). Each form has its own rule for which field takes an offer away: the name and the setup
key do; the site, the recovery name and, in the form of a secret, everything but the name
leave it (`FillSite`, `FillValue`), and the name an authenticator is given moves by itself until
one is typed (`Suggests`, `SuggestAgain`). `drifted` and `edited` note that a field was changed
since the entry on offer was submitted, or under the call that made it. `ReplacesWhatWasAsked`: what replaces a
secret was submitted as a whole, after the user was told that there is one or
by a call that another overtook between the check in `create` (`MayStore`) and its
transaction (`Mined`, `raced`), because the chain does not check again; and it is what the form showed at the
last press of a button, unless `edited`.

## Runs

| Run | Bounds | States | Shows |
| --- | --- | --- | --- |
| `secret_access` | 1 client, 2 names, 5 keys, 3 data keys, counter to 3 | 1.5 M | exactly the listed keys open the blob after every write, although a delegate hides holders |
| `secret_recovery` | same with counter to 4, legacy start, drifting recovery | 0.5 M | the records stay consistent, manageable and recoverable by someone else |
| `secret_delegate` | 1 client, forging and rollback | 0.3 M | nothing is sealed to an unapproved key; signed lists keep a recovery entry |
| `secret_race` | 2 clients, torn reads | 0.5 M | whatever lost updates do, the owner opens the blob |
| `rail_ledger` | 2 accounts, 2 deposits, 2 tickets, 4 blocks, 1 restart | 1.1 M | the books balance, no log is skipped or read early, the ledger is a Bank |
| `rail_progress` | 1 deposit, 1 ticket, 3 blocks, 1 restart | 15 k | deposits are credited, tickets close |
| `faucet_race` | 2 wallets, 2 requests, 1 payment left, 2 faults | 1.4 M | one payment for a claim, the cap holds |
| `faucet_wedge` | 1 wallet, 2 requests, 1 fault | 0.1 M | a dead request's claim is settled |
| `faucet_queue` | no fault, a queue longer than a claim's life | violated | violated: two requests of one wallet both pay |
| `provision_setup` | 2 tabs or 2 wallets or 2 faults | 0.25 M | roots are handed over, done is done, salts and words are right, setup ends |
| `readers` | 11 plays of the extension, 8 scenes of the MCP server | 0.8 M | locks, sites, fields, buttons, captures; budgets, hosts, keys |
| `owner_keys` | 3 parts of the owner's calls, 7 of the dashboard | 1.3 M | rotations remove, quorums recover, the index is true; the shell settles, one session, no payment or ticket is forgotten, the drawer acts on what it showed |

Why these bounds are enough to be interesting: three data keys allow a create
and two rotations, so a stale wrap, the rotation that should have cleared it and
one more are distinguishable. Two names cover a grantee and a recovery entry, and
every list role; two keys for one name cover a drift and its way back. Two clients
suffice for a lost update. On the rail, `Chunk = 2` under four blocks gives ranges
of two and of one block and a boundary between them; two tickets of one account
and amount are what `settleTicket` cannot tell apart; one restart in any place is
a crash between any two statements.

For the faucet, two wallets and one payment left is the race for the cap; two
requests of one wallet are the race for a claim. In `faucet_race` and
`faucet_wedge` `StaleClaim` is as long as a send may take, so a claim goes stale
only when its request is gone; `faucet_queue` is the other case. Two faults give a
retry after a fault that fails as well.

`provision_setup` has three scenarios: two tabs of one wallet, one tab with two
faults, and two wallets under `Cap = 1`. Two of everything is the first number at
which a request acts on what another has changed; two faults are a failure in the
retry of a failure. More of both at once is out of reach.

`readers` plays each hazard apart (`MCPlays`, `MCScenes`): two unlocks and moves of
a site give an old and a new vault, two slots give handlers that overtake each other,
a flow or the idle timer beside one slot gives two paints of one tab at once, two tabs of which one
closes give a `paintAll` that ends before the other, a click (`clicks`) beside navigations, closings and the idle timer, two captures and two calls every order of reads
and writes. Maps of two keys under three callers evict; limits of one call and two
requests are met and passed. The idle timer waits for the `paintAll` of its last firing,
and a flow for its own, so one call or timer paints at most once at a time.

`owner_keys`: a version and its successor, two members on two resolvers, three
guardians, two sets with threshold two, two labels of which one has its own
resolver. The dashboard switches the wallet twice with one adoption and one
refresh, of two wallets of which one holds both names; two calls of any kind with
one switch, and three that open codes with locks between; two payments of two
forms with three texts typed; two tickets that live for a minute, two calls and two
providers over two minutes; a drawer opened twice with two replacements and a lock,
four names typed or lists chosen with two grants at once and one name that publishes
a second key, two entries stored with three changes of a field over two names, of which one
is taken at first, and two details.
The second guardian set has a guardian more than the first, whose share has the
x-coordinate of a stale one.

`secret_race` and `faucet_race` use symmetry of clients, wallets and requests, for
invariants only.

No run lists a type invariant. Those of `SecretClients`, `Rail` and `Faucet` are proved, those of `Teams`,
`GuardianSets`, `SecretIndex`, `Vault`, `Toolbar`, `Captures`, `Mcp`, `Provision` and the dashboard are conjuncts
of the proved invariants (bounds on counters aside).

### The violation

`faucet_queue`: a faucet claim is taken for debris after 120 s while its send may
wait 180 s for a nonce (`web/src/app/api/faucet/route.ts:101`), so two requests of
one wallet both pay. The other disagreements between the code and its words that
the models made plain are listed in `PROJECT.json` under "findings", without a run
of their own: in each case the property that covers the behaviour excuses it by
name (`excused`, `harm`, `twice`, `spoiled`, `strayed`, `raced`, `outlived`, `rebuilt`,
`overlapped`, `hasty`, `doubled`, `remounted`, `overtaken`, `skipped`, `crossing`, `late`,
`edited`), and is violated when the excuse is struck out. Two properties excuse what cannot be made up for:
`DepositsArrive` a restart between the claim of a log and its credit, and `QuorumRecovers` a failed
read of a guardian's name.

### Reading `Accounted`

`Accounted` is conservation of tokens as an equation: balances + open tickets +
deposits not yet read = custody + withdrawals not yet read + withdrawals that
found no ticket, with what the next statement will do counted in. It holds with
equality while no crash skipped a statement. With one, it says in which direction
each skipped statement errs: losing a credit or a ticket is a loss of the user,
only a lost `mark` or `settle` lets the ledger owe more than the vault has.

### Fairness

`rail_progress`: `setInterval` keeps calling `tick`, and the
event loop is shared with request handlers that each run to completion, so
`Tick` is enabled again and again rather than always: strong fairness. A
synchronous stretch runs on, so `Statement` has weak fairness. The RPC is assumed
to answer now and again (strong fairness of the two fetches); if it never does,
nothing arrives. Nothing is assumed of users, blocks or redemptions.

`faucet_wedge`: a request that is at an `await` gets its answer or its error, since
every one is bounded (the turn by `LOCK_CEILING`, the receipt by
`RECEIPT_TIMEOUT`, the ledger by its driver): weak fairness of a request's step.
A broadcast transaction is mined (`Mined`). That time passes and that the wallet
keeps asking are premises of `NotWedged`, not fairness: a claim is only ever
settled by a later request. A wallet whose drip keeps failing never reaches its
tokens' claim, so `NotWedged` speaks of that claim only once the drip is
delivered.

`provision_setup`: requests go on and transactions are mined and commitments
mature (weak fairness of `Step`, `Mine`, `Mature`: every await ends, every receipt
has its timeout). The user of a wallet presses each button again and again
(strong fairness of `ClaimSome` and `Finish`, which a busy tab disables):
`SetupFinishes` is about a user who does not give up. Nothing is assumed of
faults, squatters or reloads.

`readers` and `owner_keys` have only invariants, and assume no fairness.

## Proofs

Every theorem is for all values of the constants that satisfy the assumptions of
the modules, which say only that bounds are numbers, that sentinels are no values
(`"none"` is no form and no caller, nobody is no wallet and no tab, the environment's
identity is no request, `Keep`, which leaves a record as it is, is no key, blob or list)
and that functions have their domains; TLC evaluates them on each instance. Where
a proof counts, the sets it counts are assumed finite in the component's module:
the faucet's wallets and requests, the rail's accounts and deposits, guardians,
the toolbar's handlers and the MCP server's open requests.

Every invariant and every action property that a passing run checks is stated by a
theorem. Some theorems have hypotheses on the constants, each with its reason below.

- `SecretClients_proofs`. `TypeCorrect`; `SealsAreApproved`, whose property is
  not inductive: a client seals to what the signature in its snapshot binds. The
  inductive `Binding` adds that every current signature in the records, in a
  snapshot, in a plan and in chain history binds only approved keys. A rotation
  then seals within `Rebind(r.keys, accept)` by `AllApproved`, and `Verified`
  ties `r.keys` to the signature, torn reads and rollbacks included.
  `SignedListsRecover` has the same shape (`RecoveryKept`). `OwnerStays` needs
  `OwnerKept`: every write under way clears the blob, leaves it and the owner's wrap
  alone, or seals both under one data key, so the order in which writes land does not
  matter. It assumes `OwnerNotGranted`: without it a grant would write a wrap under
  the owner's own fingerprint, and one that crosses a rotation takes the owner's
  access away (one of the findings).
  Four theorems are about one client (`Alone`), because two clients do break what they
  say (no call compares before it sets). They share `AloneInv`: what is on
  the name is `Sound`, what a client has read differs from it only in what a delegate
  may write (`Alike`), a write on its way leaves something `Sound` where it lands,
  and no wrap has the data key that is drawn next. `OneClientStrandsNothing` needs no more,
  not even `OwnerNotGranted`. `HoldersKeepTrack` excludes a delegate
  of `rewall.holders`, and `OneClientManages` one of the signed records: each may write
  the record in question as it likes. `OnlyListedRead` (`Stable`) excludes delegates of the signed records
  and `reauthorize`, which signs other keys while it leaves the wraps, and secrets that predate
  signed keys; it allows a delegate to hide wraps in `rewall.holders`, since the
  rotation's new data key (`DeksDrawn`) leaves them behind. Each run that checks one of
  the four satisfies its hypotheses.
- `Rail_proofs`. `RailTypeCorrect`; `AppliedStays` and `NoneSkipped` from `SafeInv`:
  the chain is never shorter than its peak by `Confirmations`, the cursor and the
  range in work are below the safe block, and the logs a tick still holds are those
  of its range that were not applied.
  `RailImplementsBank`: the refinement, from `RailTypes` and
  `TurnInv` (whose turn it is on the event loop, and that the sweep holds open
  tickets until each is credited and marked). One lemma for each action names the
  bank's operation or the stutter it maps to. `LedgerAccounts` adds `BooksInv`:
  balances, open tickets and the statement that is pending, less the deposits and plus
  the withdrawals that were applied, come to nothing, which no block of the chain
  changes; a crash that skips a statement moves this sum in one direction.
- `Sums`. The sums are the community modules' folds, which pick an order with CHOOSE. A
  table over the subsets of the set shows that the fold is well defined and does not
  depend on the order; the lemmas say what a sum becomes when an entry changes or joins, how it splits, and
  how far one sum may exceed another. Induction is by a smallest counterexample
  under strict inclusion, which needs no operator as a parameter.
- `OwnerCalls_proofs`. `RotationRemoves`, from `TeamInv`: what the calls have read, and,
  while none crossed, that every copy is of a version its member was sent and that
  a distribution is complete where it is counted as such. `IndexIsTrue`, from `IndexInv`:
  the transactions a call has
  still to send are those of its label, over the index it read. `QuorumAlone`, from
  `GuardianInv`: sets are numbered in
  order, what is on the owner's name is the current set's, every approval is of a
  set and guardian noted as such, and what is being gathered lies between what was
  there at the start and was read, and what was ever approved.
- `Faucet_proofs`. `TypeCorrect`; `PaidForEachClaim` from `FaucetInv`, an inequality
  for each wallet and leg: paid + on its way + stray is at most the claim that is
  held + the claims that were excused. `CapNeverPassed` from `CapInv`: the wallets that
  spend more than they are excused for are no more than the cap, which is read again
  under a claim; `Sums` turns that into the sums of the property.
- `Readers_proofs`. `VaultLocksOnTime`, `VaultStaysLocked`, `FillsWithConsent` and
  `SeedsConserved` of the whole extension, from `ExtensionInv`: `VaultInv` (types;
  `LockInv`, that every copy of the vault in a chain of calls has the number and
  deadline of its unlock; `ConsentInv`, that every site about to be written was
  agreed to) and `CaptureInv`.
  Of the toolbar, over the same specification: `CodesGoHome` from `HomeInv` (while no two
  handlers wrote fields over each other, one task at a time is past its read of the
  fields, `OneWriter`; a host that an event, a handler or an entry holds for a tab is its page's, unless the
  worker is still to handle a navigation of the tab, `TabHome`; and so is the host a click
  has read, `ClickHome`).
  `FieldsFollowPages` from
  `SaidInv`: the last event or handler about a tab decides what its entry will be, and
  that is what its page said last (`TabSaid`). `ButtonsFollowVault` from `PaintInv`
  (`TabPainted`): a button that is wrong was painted over (`overtaken`), or is sure to be
  painted (`Sure`): a change of the vault is in the queue, some handler, of the worker's
  events, of a flow or of the timer, has the tab still to paint or holds the right answer
  for it, or a `paintAll` that failed did not come to it (`skipped`). A handler whose tab no
  other painted since it read it holds the truth, or the tab is `Sure` (`Knows`). `Shut`
  keeps a closed page's events about a closed page. No bound on how many handlers paint
  at once enters the proof.
  Of the MCP server, `SendsWhereAllowed` and `WipesKeys`
  from `RequestInv` (an open request holds its own key until it is closed, a host was
  checked against the record that was read with it), and `BudgetsAreHeld` from
  `BudgetInv` and `EchoInv`. A budget's map forgets, so its invariant relates the map
  to everything it ever let through: its entries are in the order in which their keys
  were last let through, a key it forgot was followed by all the keys it holds
  (`NewestKept`), and each call that still counts has a time of its own in its key's
  entry (`Tracks`, an injection). `KeepIs` says what `keep` makes of a map and
  `LetThrough` that one more call keeps the budget. `EchoInv` bounds the echoes of a key
  together with the calls that passed the counter and have not ended.
  `ReadersAreEither` carries all of it to the runs of both programs.
- `Dashboard_proofs`, over `OwnersSpec`. Each panel has an invariant of what its calls
  hold while they wait. `DrawerKeepsItsWord` from `RevealInv`, from `GrantInv` (the
  fingerprint that is shown is of the name and list beside it unless it came late, and
  names publish no older key than one that was shown or is held by a call) and from
  `StoreInv` (a call carries the entry that was submitted and the entry the form showed, which
  are the same unless `edited`; an offer was made for what was submitted; a call that
  checked a name which another has taken since is `raced`);
  `TicketInv` for `TicketsNotForgotten` (one errand at a time, whose ticket is the one
  kept, until a second button or a new mount); `PaymentInv` for `PaymentsNotForgotten`;
  `SessionInv` for `OneSessionHeld` and `SeedsStayInSession` (whose prompt a call waits for, that a key
  derived in this session is the connected wallet's, and what a lock in progress has
  still to clear); `WorkspaceInv` for `WorkspaceSettled` (which answers under way may
  still decide the name, the vault and the device's copy).
  Each theorem speaks of the behaviours the ghosts of its property do not excuse.
- `Provision_proofs`. `RegistryKeepsItsRoot` and `CompletedIsTrue` from `HandInv`: what
  each request counts on at the await it stands at (`StartFits`, `FinishFits`: what it
  planned is deployed or on its way while no receipt failed), and for each revocation
  waiting to be mined that the wallet is already in charge and the label is there or ahead of
  it (`RevokeFits`). Most steps are of other requests or of the chain, so `FitsOn` shows once
  that a request goes on fitting while what it waits for waits, lands or fails it.
  `ShownWordsRecover` adds the property itself as a conjunct (`WordInv`): a published key
  stays until its tab's words are gone. `NoSaltForgotten` needs `SaltInv`: a wallet that was not
  disturbed has one start at a time, which knows what its document says, its finishes
  come after the commitment, and each salt that is spent is known to the document or to
  the start that will save it.

Model-checked only: liveness (`DepositsArrive`, `TicketsClose`, `NotWedged`,
`SetupFinishes`), which is out of the provers' reach, as is ENABLED.

## Not modelled

- Pages and presentation: most lines of `web/src` are tables, forms, layout and the
  landing page. Each keeps one busy flag and nothing another part reads. This is
  why the models stand for a minor share of the repository's lines.
- Pure code: parsing of URLs, OTP setup codes, sites and amounts, canonical
  encodings, the encryption itself, the scrubber's patterns, detection of fields and
  QR codes. Models take their results as given.
- The nonce queue past its ceiling: after 180 s of RPC calls that neither answer nor
  fail, two sends read one pending nonce, and which of two transactions a node keeps
  is outside the code.
- `setSite`, transfers of a name to another wallet and a second wallet's calls on one
  secret; `openSubtreeKey`.
- Extension: `forget` and `hand-capture` messages, which no page sends; frames in a
  page; the passphrase wrap's own failure modes.
- MCP: the stdio transport, `list_secrets`, several calls in one request, signing
  policies.
- Provisioning: authentication, a second label of one wallet.
- Dashboard: deposits, which keep nothing; several wallets of one browser in
  `Payments` and `Withdrawals`; a write to local storage that fails and is swallowed
  (`transfer-forms.tsx:237-239`, `rail.tsx:253-255`), after which a reload forgets the
  payment or the ticket; setup codes handed over by the extension; that a bare issuer
  and the setup key completed by it are two values; a render that is interrupted.
- Ledger enrolment, the CRE workflow and the rail proxy: linear or stateless.

What is worth doing next: an abstract `AccessControl` (who may open a secret)
implemented by `SecretClients`; `Withdrawals` over `Rail` instead of a rail of its own.
