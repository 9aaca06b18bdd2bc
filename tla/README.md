# Vifaras: a TLA+ model of the marketplace

Vifaras is a marketplace where users' agents buy and sell for them.  A user
publishes *intents* to buy or to sell, discovery proposes *matches* between a
buy and a sell intent, agents or users *negotiate* on a match in rounds, an
accepted offer creates a *deal*, and both sides must sign the deal within a day.
The backend is FastAPI over async SQLAlchemy and PostgreSQL at READ COMMITTED
(`backend/app`); two schedulers run beside the request handlers.

This directory holds a model of that core, what TLC checks of it, and what
TLAPS proves of it.  `PROJECT.json` maps every definition to the lines it
models, and lists the hazards of the code line by line.

## Modules

| module | what it is |
|---|---|
| `Reservation` | The abstract specification: what the marketplace promises about an intent. |
| `Marketplace` | Intents, agents, matches, negotiations, deals, drafts; one action per service handler. |
| `RowLocks` | Accept, offer, cancel, price edit and discovery at the grain of SQL statements, with row locks, session caches and the deadlock detector. |
| `Proposals` | What one negotiation says: turns, terms, deltas, which proposal an accept repeats, and the tools that act on rows they loaded earlier. |
| `Capital` | An agent's capital mandates: their life, the tool call that accepts an offer under one, the ledger, and the signatures and endings that race with it. |
| `TradeWindow` | One deal after its signatures: shipping policy and selection, the trade actions, the chat. |
| `Mandates` | Identity, mandate drafts and their signature, the verifier and its counters, step-up requests, revocation. |
| `AgentTick` | The discovery job, the rate limiter, ticks with their cost caps, and the cursor of the inbox. |
| `Sessions` | Accounts, challenges and refresh tokens: issue, rotation, reuse, revocation of all tokens. |
| `MC*` | Instances of these modules for TLC. |
| `*_proofs` | Theorems about each of the eight modules above `MC*` that model code, for every value of their constants. |

`Marketplace` and `RowLocks` both implement `Reservation` (`Promise` in each),
by different mappings.  That is how they fit together: `Marketplace` takes a
handler as one step, and `RowLocks` asks whether the locks make it one.
The other modules open what these two leave closed.  `Proposals` is one
negotiation with its content.  `Capital` is the tool call whose last step is
`AuthorizeDealSide` of `Marketplace`; the endings and the accepts of others are
its environment.  `TradeWindow` is one deal from `SubmitSignature` on.
`Mandates` is what makes an agent `active`, and what `BeginRevocation` and
`FinishRevocation` end; `AgentTick` decides when an agent acts at all.

A definition whose name has the form `X_Y` and whose comment begins with
"Mutant" is a faulty variant of `X`; no action uses it.  It records a plausible
bug that the property named in `PROJECT.json` detects.

## Inventory

### Components with state that others decide on

**Intents** (`intent_service.py`).  State: `intents.status` (`active`,
`matched`, `cancelled`; `paused` and `expired` are listed in the schema and are
set by nothing that selects a row).  `create_intent` counts the user's active
intents against a cap and inserts; `update_intent` edits an active intent and
refuses a price change while a negotiation is active; `cancel_intent` locks the
intent, cancels its active negotiations and expires its open matches.  Hard: the
cap and the price guard are read without a lock; the cascade is two statements;
a held intent must not be cancelled.  Correct when: an intent leaves `matched`
only through its deal.

**Match discovery** (`match_service.py`, `match_scheduler.py`).  State:
`matches.status` and scores, unique per pair.  It selects active candidates,
awaits the scoring provider, then upserts pair by pair; a job repeats it for
intents that are short of matches.  Hard: the pair is stored long after its
intents were read.  Correct when: a stored match cannot lead to a second sale of
an intent.

**Negotiation** (`negotiation_service.py`).  State: one negotiation per match,
its turns, `rounds_used`.  `start_or_continue` locks the match, creates or locks
the negotiation, appends a turn.  `accept_offer` locks negotiation, match and
both intents (in id order), checks that they are active, takes them, cancels
competing negotiations, expires competing matches and creates the deal.
`reject_offer` closes the negotiation and its match.  Hard: rows read before
they are locked, lock order across tables, two cascade statements with different
snapshots.  Correct when: of competing negotiations at most one is agreed.

**Deals** (`deal_service.py`).  State: `deals.status`, the two authorizations,
signature drafts with five minutes to live, `expires_at` after 24 hours.  A side
is authorized by a passkey signature over a draft or by its agent under a
capital mandate; either side may cancel; a job expires deals.  Hard: drafts
outlive the state they were made in; submits, cancels, the job and revocation
race.  Correct when: a deal is confirmed by both sides, holds its intents while
it lives, gives them back when it ends, and ends once.

**Mandate revocation** (`mandate_revocation_service.py`).  Ends the agent, the
user's pending deals, and (by `intents.agent_id`, which is always null) the
agent's intents and negotiations; also open drafts and step-ups.  Hard: deals
are read without a lock and overwritten.

**Capital mandates** (`capital_mandate_service.py`, `_verifier`, `_ledger`,
`_position`).  A signed budget under which an agent authorizes deals by itself:
mandate status, an append-only ledger of reservations, positions.  Hard: budget
and open positions are read without a lock; pause, resume and revoke are
read-then-write; nothing releases a reservation; the accept commits before the
authorization is judged.  Correct when: each purchase is charged once, to one
mandate, and the charges of a mandate stay within its budget.

**Trade window and shipping** (`deal_trade_window_service.py`,
`deal_shipping_policy_service.py`, `deal_message_service.py`).  After
confirmation: a shipping method out of those the policy allows, then pending,
shipped, delivered, completed, all under the deal's row lock; and a chat with a
quota.  Hard: revocation and chat read the deal without the lock.  Correct when:
the stamps of the deal are in order, goods travel as selected, and what the
window tells a user to do is not refused.

**Mandates, verification, step-ups** (`mandate_service.py`,
`mandate_verifier.py`, `step_up_service.py`).  A signed mandate moves a user
from tier 1 to tier 2; every tool call is authorized against its limits and
counted afterwards; an action over a limit becomes a request the user signs,
rejects, or lets expire.  Hard: check and count are separate transactions; a
submission reads user and agent without a lock; a step-up may expire while it is
answered.  Correct when: identity, tier, agent and mandate of a user agree, and
neither a revocation nor an answer is undone.

**Agent ticks** (`agent_scheduler.py`, `orchestrator.py`, `rate_limiter.py`,
`cost_tracking_service.py`, `inbox_service.py`).  Candidates are dispatched as
tasks under a rate limit and daily cost caps; a tick reads the inbox since its
cursor, calls the model and its tools, and moves the cursor at the end.  Hard:
ticks overlap; caps are read before and charged after; the cursor skips events
that arrive during a tick.  Correct when: slots are given back, caps are overrun
by the ticks in flight at most, and an event between ticks is not lost.

**Sessions** (`auth_service.py`, `refresh_token_service.py`).  Registration and
login by challenge; rotation of refresh tokens; reuse of a consumed token revokes
all tokens of the user.  Hard: the revocation is one UPDATE that waits for the
rows of rotations under way and does not see the rows they insert.  Correct when:
a token has one successor at most, and a revocation misses nothing it saw.

**Identity** (`identity_service.py`).  An external proof reveals a nullifier,
which at most one user may have; the user moves to tier 1 and gets an agent.

### Components without such state

Keys, notifications, user questions, intent drafts and content checks,
embeddings, audit, HTTP plumbing, migrations and scripts.  `PROJECT.json` gives
the reason for each.

### How they interact

All interaction is through rows.  Handlers call one another inside one session
(`accept_offer` calls `create_pending_deal`; `cancel_intent` calls the
negotiation cascade), and commit once at the end, with one exception:
`create_notification` commits its caller's session, so match upserts commit one
by one.  Sessions do not refresh a row they already hold
(`expire_on_commit=False`, no `populate_existing`).

## Marketplace: correspondence with the code

| variable | column or structure |
|---|---|
| `intent`, `match`, `nego`, `deal` | the four status columns; `"none"` means the row does not exist |
| `agent` | `agents.status`, one agent per user |
| `offers` | who made each entry of `negotiations.state["turns"]`; its length is `rounds_used` |
| `signed` | the sides with a signature or a capital authorization |
| `drafts` | `deal_signature_drafts` that are neither consumed nor past their TTL |
| `lapsed` | deals with `expires_at` in the past |
| `shortlist` | pairs a discovery run holds in memory while it awaits the provider |
| `revoking`, `readDeals` | a revocation in flight, and the deals its session has loaded |

Every handler that locks what it decides on is one action; it includes its
cascades, the rollback of a deal and the creation of the deal.  Three places
decide on rows they did not lock, and the model opens them:

- *Discovery* is `ShortlistPair` (both intents seen active), then `UpsertMatch`
  or `DropCandidate`, with anything in between.
- *Revocation* is `BeginRevocation` (read the pending deals), then
  `FinishRevocation` (write them, whatever they have become).
- *Cascades* select negotiations first and matches second.  A first offer locks
  the match and not the intents, so it may commit between the two statements;
  `late` is the set of openings that do.  The match is then expired with an
  active negotiation on it, which `MatchFollowsNegotiation` admits.

Simplifications, each of which loses no decision the properties depend on:
prices, terms and proposal hashes (see `Proposals`) and scores are not in the state; two drafts of
one side for one deal and purpose are one draft; two revocations of one user are
serialized by the lock on the user's row; an intent's own `expires_at` only
removes it from the candidates; the database error of two discovery runs that
insert the same pair is `DropCandidate`; the cascade of a revocation over
negotiations and intents changes nothing because `create_intent` stores no agent;
`completed`, which only the trade window sets (see `TradeWindow`), is still
`confirmed` here.

## RowLocks: correspondence with the code

A request is a transaction at a statement (`pc`) that still waits for some row
locks (`want`).  `seen` is the session's identity map: the first load of a row
decides what the handler will see of it, also after the row is locked.  `dirty`
holds flushed, uncommitted writes.  A cascade statement picks rows by its
snapshot and rechecks each one when it gets the lock.  `DeadlockVictim` is the
database aborting one transaction of a waiting cycle.

An accept from the API loads the negotiation and the match with their locks, and
both intents without.  An accept from an agent's tool loads all four before any
lock (`Preload`).  When a service refuses an API request, its session is closed
and rolls back; a refused tool call is an answer to the agent, and the tick keeps
its session, and the locks, until its next commit (`lingering`, `EndTick`).  The
instance starts with each match unknown, discovered or under negotiation.

`update_intent` locks the intent, counts its active negotiations, stores and
commits, and then looks for partners again in the same session (`Shortlist`,
`UpsertMatch`).  The price columns are a row of their own in the model,
`Price(i)`, so that an edit is visible; `PriceIsFinal` says that one commits only
while the intent is active before and after.

## Capital: correspondence with the code

| variable | column or structure |
|---|---|
| `status`, `overdue` | `capital_mandates.status`; `expires_at` in the past |
| `older` | the order of `activated_at`, which is set before the commit: two mandates under activation may each be unaware of the other |
| `draft` | `capital_mandate_drafts`: open, being submitted, consumed |
| `edits` | pause, resume, revoke and expiry requests between their read and their write |
| `deal`, `by` | `deals.status` (cancelled, expired and revoked are all `ended`), and how each side authorized |
| `call`, `under` | how far `accept_offer_under_capital_mandate` is for this deal, and the mandate its session holds |
| `ledger` | `budget_reserved` entries; a position is opened with each |

The tool call is four steps, because it commits or decides on unlocked rows
between them: `StartCall` (limits checked), `AcceptUnderMandate` (accept
committed), `JudgeAuthorization` (deal locked, limits checked again),
`AuthorizeDealSide` (reservation committed).  `CallFails` may come after any of
the first three.  A deal is identified by negotiation and price, as its
idempotency key is; this is why an accept whose session still holds an old
negotiation takes over the deal another accept has created.  The terms that
concern one purchase alone (category, area, margin, loss, `auto_buy`) are part of
`MaxSingle`: they do not change between the two checks.  Not in the module: the
base mandate a draft needs, and `max_daily_deals`, which no code enforces.

## Proposals: correspondence with the code

| variable | column or structure |
|---|---|
| `nego` | `negotiations.status`, `state["turns"]`, `rounds_used` |
| `match`, `onOffer` | the match's status; whether both intents are active |
| `deals` | the deals of this negotiation, by the price in their idempotency key |
| `loaded` | the rows that the session of a preloading tool holds |

Requests of the API, and the tools that call the service with no row of it in
their session, are one step.  `send_counter_offer` and
`accept_offer_under_capital_mandate` read first: `Preload`, then `CounterOffer`
or `AcceptUnderMandate` with the loaded row, or `CallFails`.  The loaded row is
also what is written back, both `turns` and `rounds_used`, which is how a turn
can be lost.  `ApplyTermsDelta` is `_apply_terms_delta` with its normalisation and
the policy of the chosen method; terms stand for the proposal hash, which is
taken of the negotiation and the terms.  Messages and reasons are left out.  The
rest of the market is `CancelNegotiations` (a competing accept, a cancelled
intent) and `EndDeal` (the rollback of a deal, which reopens the match and
leaves the negotiation agreed).

## TradeWindow: correspondence with the code

| variable | column or structure |
|---|---|
| `item` | what the policy knows of the item: `_category_kind`, price, pickup |
| `deal` | status, signatures, `shipping_status`, and which time stamps are set |
| `selection` | `deal_shipping_selections` |
| `work` | the request each session carries out; a busy session holds the deal's row |
| `revoking` | sides whose revocation has read the deal as pending |
| `messages`, `sending` | rows of `deal_messages`; senders between count and insert |

A handler is `LockDeal` (the lock and every check behind it), then `Store` (its
writes and the commit) or `Abort`.  Revocation (`RevocationReads`,
`RevocationWrites`) and the chat (`CheckQuota`, `SendMessage`) decide on rows
they did not lock.  `Allowed` and `RecommendedCode` are
`calculate_shipping_options` reduced to codes; costs and texts are left out.  A
request that is refused writes nothing and is no step.  Signing is modelled
without its drafts, which `Marketplace` has.

## Mandates: correspondence with the code

| variable | column or structure |
|---|---|
| `users` | tier, nullifier, status of the user's agent |
| `drafts`, `mandates` | `mandate_drafts`; `mandates` with the verifier's counters |
| `rdrafts`, `stepups` | revocation drafts; step-up requests |
| `work` | the request or tool call each session is at |
| `paid` | no column: what the agent has agreed to pay under each mandate |

A mandate has the id of its draft, since a draft makes one mandate at most.
Requests are split where they decide on rows they have not locked:
`VerifyMandateSignature` then `SubmitSignedMandate`; `Authorize`, the tool, then
`RecordUsage`, which writes counters computed from those `Authorize` read;
`QueueStepUp` then `CreatePendingRequest`; `LoadPending` or `GetForSigning` then
`Sign`, `Reject` or `ExpireOnLoad`; `SubmitRevocation`, `Flush` (the writes on
user, mandate and agent reach the database), then `CommitRevocation` with its
cascade.  `Fail` is any error after the first step, and the deadlock victim.
Scope and constraints of a call only refuse and are part of `Fail`.  A price of
0 is a call that tells the verifier no price; it is checked against the number
of deals only and counts as nothing (the theorems allow it, the instance leaves
it out).

## AgentTick: correspondence with the code

| variable | column or structure |
|---|---|
| `cooling` | agents whose `last_tick_at` is within the cooldown |
| `event`, `quiet`, `handled` | whether an event is ahead of or behind the inbox cursor; two history variables for the property |
| `spent` | `daily_cost_tracking` of today, per user |
| `job` | the discovery that runs, and the candidates it has yet to dispatch |
| `window`, `slots` | the limiter's deque of the last minute and its semaphore |
| `tick` | the background tasks: phase, user, inbox read, cost, turns |

Discovery is `Discover`, then `Consider` and `Dispatch` for each candidate, or
`JobEnds`.  A tick is `ReadState`, `CheckGlobalCap`, `CheckUserCap`, one `Turn`
for each answer of the model, then `RecordTickOutcome` or `RecordTickFailure`;
`RecordSkip` and `TickRaises` are its other ends.  `Restart` loses what is in
memory.  Which agents have something waiting, and in what order, is any choice:
the queries rank rows of the other modules.  What the tools do is theirs, too.

## Sessions: correspondence with the code

| variable | column or structure |
|---|---|
| `account` | `users.status` |
| `challenges` | signed challenge tokens; they are not stored, so one may be replayed |
| `tokens` | `refresh_tokens`: status, user, parent, whether it has expired |
| `work` | what each request is doing, with the rows it holds |

`consume_refresh_token` locks the row it is given.  For an active token it is
`Rotate`, then `RefreshAccessToken` or, when the user is not active,
`RefuseInactive`; for a consumed one it is `DetectReuse`.  Both revocations then
take the rows one by one (`RevokeRow`: wait, lock, judge again) and end with
`RevocationCommits`.  `DeadlockVictim` is the database breaking a cycle of two or
three of them.  The text of a token is its identity; signatures verify or the
request fails.

## Runs

| run | question | result |
|---|---|---|
| `pair` | Is a single deal consistent with its negotiation through every operation, and is it resolved? | holds |
| `auction` | Can an item be in two live deals? Do the tables implement `Reservation`? | no; they do |
| `locks_race` | Do the row locks make API accepts, offers, cancels and edits atomic? Can a price change under a deal? | yes; no |
| `locks_stale` | With stale sessions: does an accept take both intents, and does every request end? | holds |
| `capital_calls` | How far can overlapping tool calls overrun a budget? Is an ended deal ever charged? | by one purchase per further call; never |
| `capital_sides` | Is a purchase charged once, under one mandate? Is an authorization ever replaced? | yes; never |
| `proposals` | Do terms contradict themselves? Does an agreement repeat a proposal of the other side, and does anything follow it? | no; yes; no |
| `second_deal` | Can one negotiation strike two deals? | yes, by a tool that read it earlier |
| `trade` | Do stamps, status and selection of a deal tell one story? Is a user asked for what will be refused? | yes; no |
| `sessions` | Can a token be rotated twice? Does a revocation reach every token stored when it began? | no; yes |
| `mandates` | Do identity, tier, agent and mandate agree? Do the counters stay in their caps? Is a revocation or an answer undone? | yes; yes; no |
| `ticks` | Are slots given back? How far are the cost caps overrun? Is an event between ticks lost? | yes; by the ticks in flight; no |

### Bounds

`pair`: one match, three rounds (production: six; the limit is a parameter and
three rounds let each side speak and answer), two drafts at once (a sign and a
cancel draft, or one of each side), an agent that still waits for its mandate,
an agent with a capital mandate, and both users revoking.  `auction`: two buyers,
one item, one round, one draft at a time, the seller revoking.  One round is
enough because the auction decides on who accepts, not on how long the parties
talk; more drafts change which submit comes when, which `pair` covers.  A deal
past its deadline, a late opening and a pair stored after the accept all occur in
it.

`locks_race`: two matches over one item, both stored, and five requests, one of
each kind that can meet an accept, the edit of the item among them.
`locks_stale`: the same matches, not stored yet, with four requests.  Requests
end and none is repeated, so these state graphs are small.

`capital_calls`: three purchases (two of the whole budget, one of half of it),
two calls and one edit in flight: three is the least number of purchases with
which the bound on the overrun could fail.  `capital_sides`: two mandates, a
purchase and a sale, so that a mandate can be replaced while a call uses it and
two can be active at once.  Two calls in flight are the bound `MaxCalls`; the
code has none, and `ExposureIsBounded` is stated in it.

`proposals`, `second_deal`: three rounds, two prices, three deltas (a method with
insurance, one without tracking, and the withdrawal of shipping: each overrides
flags the one before has set), a counter-offer tool of the seller and a capital
accept of the buyer.  Two prices are what two deals need; three rounds let a tool
overwrite a turn and the other side answer.

`trade`: every kind of item and a price on each side of both price bands (2499,
2500, 49999, 50000 cents), two requests in flight, a chat of one message.  The
row lock serializes requests, so a third one adds only waiting; the chat's bound
is stated in the number of senders.

`sessions`: two users with one address (so that a registration can collide),
three tokens (a token, its child, and one of another login), two requests.  Three
tokens are what a revocation that waits for a rotation needs.

`mandates`: two users and one nullifier between them, two drafts (one each, or
two of one user), one revocation draft, one step-up, two sessions; prices 1 and
2 with caps of 2, one deal a day and a step-up above 1, so that both prices reach
a cap.  Two sessions let any request meet any other, which is what the properties
are about.

`ticks`: two users, one event, two slots and a third task to show that it is not
used, one dispatch a minute, two turns of cost 1 or 3 with a tick cap of 3, a
user cap of 1 and a global cap of 2, so that each cap is the first one reached
in some behaviour and all of them are overrun.

The theorems need none of these bounds.  Symmetry is used where a run checks
safety only, for which the reduction is sound: in `auction` over the two buyers
with their intents and matches (`Renamings` keeps ownership, mandates and who may
revoke), in `capital_calls` over the two purchases of equal price (`Equals`), in
`sessions` over tokens and requests, in `mandates` over sessions and users, and in
`ticks` over the tasks.

All runs set `CHECK_DEADLOCK FALSE`: a market where every deal is settled and
every request is served has nothing left to do, and the same holds of a
negotiation, a trade or a set of sessions that has come to its end.

### Fairness

`FairSpec` of `Marketplace` asks for the clock (`DealLapses`) and for the expiry
job of `match_scheduler` (`ExpireDeal`), which runs on an interval timer for as
long as the application lives and takes every lapsed deal it finds.  Users,
agents, discovery and the provider owe nothing, and `PendingDealResolves` needs
nothing of them.  In `RowLocks` a request that can proceed does, because the
server runs its handlers and the database grants a free lock or aborts a victim;
this is what `EveryRequestEnds` rests on.  The other modules are checked for
safety and state no fairness: whether a user signs, answers or ships is the
user's choice, and a tick may fail for ever.

### Where code and comments disagree

*Two deals for one negotiation* (`second_deal`).  The schema says the idempotency
key of a deal avoids a double deal on one negotiation (`schema.py:628`, likewise
`deal_service.py:240`).  The key contains the price, so this rests on a negotiation
being accepted once.  The capital tool reads the negotiation, the match and both
intents before it calls `accept_offer` (`tool_layer.py:681`); its session keeps
what it read, and the locks and checks of `accept_offer` are spent on old
attributes.  In the counterexample a counter-offer at another price and its
acceptance commit in between, and the tool then accepts the earlier offer: a
second deal, at its price, on the same negotiation.

The following are visible in the models and have no run of their own.

*Cancelled deals.*  `deal_service` says the chosen match becomes reusable and
the losers are found again.  The rollback writes `discovered` to the match but
leaves its negotiation `agreed`, which `start_or_continue` refuses; the losers
are `expired`, and the upsert finds the row and writes only its scores.  After
one cancelled deal none of the pairs can trade again.

*Revocation and deals.*  The cascade ends pending deals without the rollback that
cancel and expiry do, so the counterparty's intent stays `matched`, and
`cancel_intent` refuses it (`MatchedByADeal` admits it).  It reads the deals
without a lock: a signature that commits before the cascade writes turns a
confirmed deal into `cancelled_revoked`.  It selects intents by a column that is
always null, so none is paused although its docstring says so.

*The mini-auction.*  `accept_offer` rechecks both intents after locking them, but
judges the attributes its session already has.  From the API this is harmless on
matches that exist when the other accept runs its cascade, because the loser's
negotiation is cancelled under its lock (`NoDoubleSale`, which `locks_race`
checks for such matches).  Two windows remain.  A tool's session has loaded the
negotiation too.  And a match that is stored and opened while the other accept
commits, by a late upsert or by the rediscovery after an edit, is reached by no
cascade; its accept judges the intents it read before the lock.  `Marketplace`
models the check as the docstring intends it, on the locked row, and
`ExclusiveHold` is a result about that.

*Deadlocks.*  Only intents are locked in id order.  Each accept already holds its
negotiation and asks for the other's in the cascade.  The database resolves it
(`EveryRequestEnds`), at the price of an error no service handles.

*Price edits.*  An edit counts the active negotiations after it has locked the
intent, and a first offer locks only its match: both can commit, and the
negotiation then goes on about a price that has changed.  `PriceIsFinal` says
what is left: no edit commits over an accept or a cancellation.

*Turns.*  The schema calls the turns append-only.  `send_counter_offer` appends
to the list its session loaded, so a turn of the other side that committed
meanwhile is gone (`tool_layer.py:591`).  What survives is
`TurnsEndWithTheAnswer` and `AgreedIsTheirs`.

*Budgets and caps.*  Nothing locks a capital mandate while its budget is read, so
two tool calls of overlapping ticks, on different deals, both find it free; the
overrun is one purchase for each further call (`ExposureIsBounded`).  A deal that
ends keeps its reservation.  A resume that read the mandate before a revocation
makes it active again.  The counters of a base mandate lose the updates of calls
that overlap (`RecordedIsBounded` bounds what is recorded, not what is paid), and
`accept_offer` as an agent calls it tells the verifier no price, so that price
caps and the step-up threshold bind only calls that do.

*Mandates and step-ups.*  `mandate_service.py:23` speaks of one active mandate;
two drafts submitted together store two, and the verifier takes the newest.  The
schema calls a step-up that is no longer pending read-only history
(`schema.py:378`); `get_for_signing` reads it without a lock and may write
`expired` over an answer.  A step-up that is inserted after a revocation has run
its cascade stays pending.  `mark_expired`, the sweep over requests past their
time, has no caller.

*Ticks.*  `agent_scheduler.py:20` says discovery will not dispatch an agent that
is still in a tick; the cursor and the cooldown move only at the end of a tick,
so it does.  `orchestrator.py:509` promises an agent the result of a step-up in
its next inbox; an event that occurs during a tick is behind the cursor when the
tick ends.  The limiter counts a dispatch before it waits for a slot.  A cost row
that cannot be written aborts the transaction of the outcome unnoticed.

*Refresh tokens.*  The reuse of a token revokes all tokens of its user, but not
the child a concurrent rotation is inserting: that row is not there when the
UPDATE starts.  `RevokesWhatItSaw` is what holds.

*Shipping.*  A small item of 500 euro or more may not go as a tracked parcel and
may still go as a registered letter.  The selection does not look at the payer
and the method the parties negotiated.

*Deadlines.*  A deal past its 24 hours is confirmed when the second signature
arrives before the ten-minute sweep.

## Proofs

`Marketplace_proofs` has no parameter bounds: any users, intents, matches, owners
and `MaxRounds`.  It uses the four assumptions of `Marketplace` (`OwnerAssumption`,
`MatchAssumption`, `RoundsAssumption`, `BoundsAssumption`); TLC evaluates them in
every run.

| theorem | property |
|---|---|
| `TypeCorrect` | `TypeOK` |
| `DealsFollow`, `MatchesFollow` | `DealFollowsNegotiation`, `MatchFollowsNegotiation` |
| `LiveDealsHold`, `AuctionIsExclusive`, `MatchedHasADeal` | `LiveDealHoldsIntents`, `ExclusiveHold`, `MatchedByADeal` |
| `BothSidesConfirm` | `ConfirmedByBothSides` |
| `DeadDealsStayDead` | `DealStaysDead` |
| `OnlyItsDealReleases` | `ReleasedByItsDeal` |
| `Refinement` | `KeepsPromise` |

The argument has two layers.  `TablesInv` joins the type invariant with the
agreement of the negotiation, match and deal tables, and adds that a revocation
has only read deals that exist: without it `FinishRevocation` could create a deal
on a match nobody agreed on.  It is needed below because `create_pending_deal`
keeps an existing deal: only an active negotiation is accepted, so by
`DealFollowsNegotiation` there is none.  `HoldsInv` adds the three facts about
held intents, which are inductive only together.  An accept needs
`LiveDealHoldsIntents` to know that the active intents it takes are in no live
deal, which preserves `ExclusiveHold`; a cancellation or an expiry needs
`ExclusiveHold` to know that giving both intents back disturbs no other live deal;
and `MatchedByADeal` closes the accounting the refinement uses.  The refinement is
one lemma per kind of step: a handler maps to one abstract step or to a stutter.

`Capital_proofs` uses `CapitalAssumption` only, which TLC evaluates in the
capital runs.

| theorem | property |
|---|---|
| `CapitalTypeCorrect` | `TypeOK` |
| `EachPurchaseIsChargedOnce` | `ChargedOnce` |
| `SidesAuthorizeOnce` | `AuthorizationIsFinal` |
| `EndedDealsAreNotCharged` | `EndedIsNotCharged` |
| `ExposureBounded` | `ExposureIsBounded` |

`CapitalInv` adds two facts to the type invariant and `ChargedOnce`.
`UsesAMandate` says whose mandate a call holds.  `JudgedStaysOpen` says what the
row lock on the deal is good for: from the check to the commit the deal stays
pending and the agent's side open, because signatures and endings wait for the
lock.  With it the only two steps that touch an authorization
(`OnlyTwoAuthorize`) write to an open side of a pending deal, and three of the
results follow from what these two write.

The fourth is about a sum, what a mandate has reserved.  `ExposureInv` counts the
purchases that are reserved together with those that are judged and not yet
written: they exceed the budget by at most one price for each further call.  A
call that is judged fits the budget next to what is reserved at that moment; the
judged calls beside it are fewer than the calls in flight.  That the fold over a
set of deals is the number of elements of a pile of coins (`FoldCountsPile`)
replaces the induction over the set by facts about cardinalities.

`TradeWindow_proofs` uses the four assumptions of `TradeWindow`.

| theorem | property |
|---|---|
| `TradeTypeCorrect`, `RecommendedIsAllowed`, `TradeIsInvariant` | none: see below |
| `TimelineOrdered` | `TimelineIsOrdered` |
| `WindowAdviceIsGood` | `WindowAsksForWhatPasses` |
| `ShippedGoodsKeepTheirMethod` | `ShippedAsSelected` |
| `ChatBounded` | `ChatIsBounded` |

`TradeInv` says that at most one session holds the row and that what it has
checked still passes (the checks of `LockDeal` are stable because everything that
could falsify them needs the row; the unlocked writer, revocation, waits for it
too), and that the stamps are in order.  `TimelineIsOrdered` is a part of it; the
advice of the window follows from it by cases, with `RecommendedIsAllowed` as the
reason that some selection passes.  `ChatInv` counts messages and senders
together.

`Sessions_proofs` uses `NamesAssumption`.

| theorem | property |
|---|---|
| `SessionsTypeCorrect` | `TypeOK` |
| `TokensRotateOnce` | `RotatedOnce` |
| `RevocationsAreThorough` | `RevokesWhatItSaw` |

`SessionsInv` says that locks are exclusive, that a rotation under way rotates an
active token to a child nobody else has, and that a revocation holds what it
found: a row it saw is still to be visited, held, or revoked already.  Without
the last part a rotation that committed while the UPDATE waited could not be
excluded.

`Mandates_proofs` uses `SetsAssumption` and `CapsAssumption`.

| theorem | property |
|---|---|
| `MandatesTypeCorrect` | `TypeOK` |
| `OnboardingConsistent` | `OnboardingIsConsistent` |
| `RecordedBounded` | `RecordedIsBounded` |
| `RevocationStays` | `RevocationIsFinal` |
| `AnswersStand` | `AnsweredOnce` |

The invariant has three layers.  About rows: only a consumed draft has a mandate
(`DraftsAreUsedUp`), and a revocation draft points at a mandate
(`RevocationsHaveTargets`).  About locks: a draft, a step-up and a revocation
draft are each held by one session (`LocksAreExclusive`), and what a session does
is still possible (`WorkIsCurrent`): a submission under way finds its draft open
or lapsed and no mandate made of it, although user and agent may have changed.
About counters: the values a call has read leave room for its price
(`CallsHaveRoom`), which is why even a lost update stays in the caps.
`RevocationIsFinal` then needs that no submission under way belongs to a user
whose mandate was revoked: the cascade waits for the draft's lock, and consumes
every draft of the user.

`AgentTick_proofs` uses `SetsAssumption` and `BoundsAssumption`.

| theorem | property |
|---|---|
| `TickTypeCorrect` | `TypeOK` |
| `SlotsBalanced` | `SlotsAreBalanced` |
| `QuietEventsHandled` | `QuietEventsAreHandled` |
| `CostBounded` | `CostIsBounded` |

A tick that moves the cursor began after the last quiet event or has it in its
inbox (`QuietEventsAreKnown`).  A tick costs at most `MaxTickCost` because it
stops at the turn that reaches its cap; a user who may still spend is below the
cap, so the ticks that are admitted add at most `MaxConcurrent` times that.  The
same holds of all users together and the global cap; what they have spent is a
fold over the users, and `GlobalInv` carries the fact that this fold has a value
that grows by what a tick is charged (`SumIsCharged`).

`RowLocks_proofs` uses `RequestAssumption` and `MatchesAssumption`: any number of
requests of any kind, over any intents and any finite set of matches, stored or
not.

| theorem | property |
|---|---|
| `LocksTypeCorrect` | `TypeOK` |
| `AgreementTakesBoth` | `AgreedTakesBoth` |
| `PricesAreFinal` | `PriceIsFinal` |
| `NothingIsSoldTwice` | `NoDoubleSale`, assuming `FromTheApi` |
| `CommitsReserve` | `CommitsAreReservations`, assuming `FromTheApi` |
| `IntentLocksAreOrdered` | none: see below |

`LocksInv` says of each transaction that it has locked what it has written
(`WritesAreLocked`), that an agreement is among its writes only together with its
match and both intents, and that it writes nothing else over a row that is agreed
or matched (`WritesAreWhole`).  The second half is what makes the cascades
harmless: their WHERE is judged on the locked row.  It stays true while others
commit, because they leave the locked rows alone, except for a row that a late
first offer or a late upsert sets to a status that is not final
(`RespectsLocks`).  An accept knows that it holds all four rows from the order of
its statements (`AcceptClaims`), not from what it has seen, so stale sessions do
no harm to these results.  A cancellation and an edit see their intent as it is
(`SeesItsIntent`), because they read it with the lock; `PricesAreFinal` rests on
that.

`NothingIsSoldTwice` and `CommitsReserve` hold for any number of requests of every
kind but the agent's accept tool, on matches that were all stored before (`FromTheApi`).
Neither half can go: with either one dropped, TLC finds two agreed negotiations
over one item among four requests.  The tool reads the rows before it has a lock,
and a match that is inserted during an auction is missed by its cascades; both
are described in the section on the mini-auction.  `SaleInv` adds three facts to
`LocksInv`.  A match is shut only when one of its intents is closed
(`ShutHasClosed`).  Whoever closes an intent has locked, or finds shut, every match
on it before it commits (`ShutsAll`, from the order of the two cascade
statements).  And an accept that reads an intent holds its match, so that no one
can close the intent under it without the match being shut; if the match was shut
before, the accept has seen the closed intent or will (`ReadsFresh`).  An accept
that sees both intents on offer is therefore right about them
(`AcceptSeesOffers`), although it judges attributes it read before the locks.  What
other requests may do to the rows in between is one definition, `Gentle`; a step
that commits nothing satisfies it at once, the commits by `SellsOnce`.  With both
intents known to be active the commit of an accept is `Reserve` of the abstract
specification, that of a cancellation `Withdraw`, and all others stutter.

`IntentLocksAreOrdered` is what the docstring of `accept_offer` claims with "sorted-ID
order (deadlock-prevention)": of two accepts that wait for intents, one waiting for
the other, the first waits for the smaller id.  It rests on `LocksInOrder`: an
accept has no intent before its statement on the two, and then at most the smaller
one while it still waits.  It says nothing of the negotiations and matches that the
cascades lock in the order of a table scan; those waits can be circular, and the
database then picks a victim (`DeadlockVictim`), which `EveryRequestEnds` counts on.

`Proposals_proofs` uses the five assumptions of `Proposals`.

| theorem | property |
|---|---|
| `AppliedTermsAreCoherent` | none: see below |
| `ProposalsTypeCorrect` | `TypeOK` |
| `TermsCoherent` | `TermsAreCoherent` |
| `AgreementIsTheirs` | `AgreedIsTheirs` |
| `AnswerEndsTheTurns` | `TurnsEndWithTheAnswer` |

`Sound` collects what is true of a negotiation's row by itself: coherent terms,
one round for each turn, an answer only at the end.  A row that a session has
loaded was stored once, so it is sound too (`LoadedWasStored`), and a row written
from a sound one is sound, whatever turns it overwrites.

`TypeCorrect`, `CapitalTypeCorrect`, `TradeTypeCorrect`, `RecommendedIsAllowed`,
`TradeIsInvariant`, `IntentLocksAreOrdered` and `AppliedTermsAreCoherent` state no
property of a run: the first three are type invariants the runs leave to the
proofs, the others are facts a reader may want.

Every invariant and every action property that a passing run checks is stated by
a theorem.  Model-checked only: the two liveness properties, `PendingDealResolves`
and `EveryRequestEnds`, which rest on fairness and ENABLED, beyond the provers; and
`NoDoubleSale` and `CommitsAreReservations` for nothing more than the theorems say,
since they fail for other mixtures of requests.

## Not modelled

- The cap on active intents: counted without a lock, so it can be passed; nothing
  else depends on it.
- Views, read-only tools and the listings of inbox, deals and messages: they
  change nothing.
- User questions and notifications: rows guarded by one status check each.  That
  `create_notification` commits its caller's session is part of the upserts.
- Intent drafts, content checks, embeddings, the scoring provider and the model:
  services outside; their answers and failures are choices in the modules.
- Audit, keys, routing, configuration, metrics, migrations, scripts.
- The tie between a base mandate and the capital mandate that needs one: each is
  modelled by itself.
- Release, commit and sale of reserved budget, and `mark_expired`: no caller.

Next would be the rollback's lock order against that of accept in `RowLocks`.
