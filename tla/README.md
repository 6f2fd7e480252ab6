# Verification of Clanker5000 / onchain rover

TLA+ models of the race escrow, the markets and the staking pool of the Solana
program, of its bonds and disputes, of its token emissions and buybacks, of the
sidecar's rounds that drive the escrow, of its paid joins, of its game around the
race, and of the way of a drive command from a pilot over the sidecar and the
harness to the wheels. TLC checks each on a small instance; TLAPS proves the
invariants of all of them for every value of the constants.

Run a check with `tlc -workers 2 -config X.cfg M` and a proof with
`tlapm M.tla`, in this directory. `PROJECT.json` maps every definition to its
source lines, and lists runs, mutants, hazards, findings and theorems.

## 1. The system

Two rovers race; two drivers stake USDC on themselves, spectators bet, token
holders stake for a share of the fees, and verifiers bond tokens that a dispute can burn.

| part | source | state | operations |
|---|---|---|---|
| race escrow | `solana/programs/clanker5000/src/lib.rs` 100-363 | `Config`, one `Race` and one vault per race id, fee treasury | open, join, lock, start, finish, settle, cancel, set_facilitator |
| parimutuel market | same, 365-560 | `Market`, lane pools, one `Bet` per bettor, human markers, vault | create, place_bet, close, settle, claim, sweep |
| staking pool | same, 900-1041, 1425-1431 | pool accumulator, per-staker position and debt, two vaults | stake, unstake, claim_staking_yield, fund_staker_bucket, set_stake_cooldown |
| bonds and disputes | same, 1225-1395, 1435-1450 | `SlashConfig`, `VerifierBond` per verifier, `Dispute` per job and verifier, one vault | bond, unbond, open, resolve, set_slash_params |
| emissions | same, 46-57, 551-614, 714-906, 1401-1423 | `TokenConfig`, an `EmissionEpoch` per epoch, bonds, feedback, attestations, a `JobClaim` per robot and job | bond, accrue, roll epoch, set parameters |
| pit fund | same, 77-90, 1049-1216 | `PitFund`, a USDC and a CLANK vault | fund, buyback, set parameters |
| rest of the program | same, 620-700, 910 and around | validation, pricing, passes, treasury, memory | about ten upserts |
| sidecar rounds | `sidecar/src/rounds.ts`, `index.ts`, `solana-chain.ts`, `race-store.ts` | one `Round` in memory and its file | lobby, robots, chain and finish routes |
| robot link, harness bridge | `sidecar/src/robot-link.ts`, `harness-bridge.ts` | pilot sessions, drive queue, token cache | authorize, revoke, drive, stop |
| robot harness | `robot-harness/src/main.rs` | serial port, command record, latch, sessions | drive, stop, estop, reset, deadman |
| payments | `sidecar/src/solana-x402.ts`, `treasury-ledger.ts`, `stake-adapter.ts` | used signatures, ledger file | preflight, verify, record |
| the game | `markets.ts`, `parlay.ts`, `season.ts`, `progress.ts`, `player-store.ts`, ... | play-money pools, tickets, profiles, ledgers, weeks; a file each | bet, buy, lock, settle, roll over |
| evidence, finish detection | `evidence.ts`, `*-finish-detector.ts`, ... | traces, snapshots | record, hash, detect |
| robot agents | `robot/*.py` | conversation, price | negotiate, drive |

**Interaction.** A route handler of the sidecar looks at a round, sends a
transaction to the program and awaits the confirmation, then marks the round and
writes it to disk. It authorizes robots through the robot link, which calls the
harness over HTTP or a socket. The harness owns the serial port: handlers on
several threads and a deadman loop write it and keep a command record.

**What is hard.**

- Node runs one handler at a time but every `await` lets another in: what a handler
  read before may be stale after it. Answers come late, in another order, or
  never, and the process may restart from the file between any two steps.
- The program accepts instructions from several signers in any order, and a join
  from anyone, past the sidecar too; money moves
  between vaults whose amounts and whose accounting live in different accounts.
- Shares and rewards are integer divisions; what a floor drops in one place may
  be credited in another.
- What the sidecar keeps in memory only (used payments, timers, pilot sessions) is
  lost in a restart that the rounds survive; what it keeps in several files may be
  cut between any two writes.
- A drive command takes one of two ways to the robot, each with its own queue,
  cache of tokens and awaited authorization; each end of a link notices a cut
  by itself, and the harness closes a drive socket without stopping the wheels.
- In the harness the look at the latch, the write of the port and the write of the
  record are three critical sections, and two handlers and the deadman interleave
  in them; a write may fail.

**What makes each part correct.** Escrow: a stake is paid out or returned exactly
once, nobody runs alone, a verdict stands, no state is a dead end. Market: every
winner is covered whatever the order of claims. Pool: stakes are always
withdrawable, past fundings are not diluted, debt never passes the gross. Bonds:
every bond and stake is in the shared vault, nobody unbonds ahead of a slash,
and nobody gains from a dispute. Rounds:
the round never claims more than the chain did, agrees with it on drivers and
winner, and never loses a race that holds money. Joins: one payment buys one seat, a good
payment is not lost, and a round whose drivers have entered starts. Supply: the
ledgers agree and the taper is a ceiling. Game: a week is closed once and holds
every wager. Link: a stop that is shown reaches the wheels, and an old pilot never
acts after a new one. Harness: the record tells whether the wheels turn, a latched
estop holds, and without a pilot the rover rests.

The `hazards` of `PROJECT.json` list the lines where these could go wrong and
the properties that watch them.

## 2. Modules

| module | role |
|---|---|
| `StakedRace` | abstract: announce, enter, decide, pay the winner, call off |
| `RaceEscrow` | the escrow's instructions; implements `StakedRace` (`KeepsPromise`) |
| `RaceEscrowProofs` | its theorems |
| `RoundChain`, `RoundChainProofs` | a sidecar round, its file, its request handlers, with `RaceEscrow` instantiated as the chain; its theorems |
| `JoinFee` | the join of a show round that is paid by a transfer, and its start |
| `Gameplay` | markets, tickets, players and weeks over the files they are kept in |
| `RobotLink` | the sidecar's robot link and the bridge, the harness seen from outside |
| `RobotHarness` | the motor path |
| `SidecarProofs` | the theorems of `RobotHarness`, `RobotLink`, `JoinFee` and `Gameplay`, which share no name |
| `ParimutuelMarket`, `ParimutuelMarketProofs` | one market, its theorems |
| `StakePool`, `StakePoolProofs` | the staking pool, its theorems |
| `ClankToken` | the CLANK mint, wallets and clock (external) |
| `Emissions`, `PitFund` | what mints CLANK and what buys and burns it, over `ClankToken` |
| `ClankSupply`, `ClankSupplyProofs` | all that changes or moves the supply of the one mint: these two, the stakes, and the burns of disputes; the theorems of the three |
| `Slashing`, `SlashingProofs` | verifier bonds and disputes, their theorems |
| `Sums`, `SumLemmas` | the total of a ledger; how totals, products and floored quotients behave |
| `MC*` | constants for TLC and symmetry sets |

Definitions marked `fault:` are wrong variants of the definition that follows them.
They occur in no specification; putting one in place of its neighbour must make a
named property fail (`mutants` in `PROJECT.json`), which shows that the
property can tell.

### RaceEscrow

`races` is the function from race id to its account (`NoRace` before `open_race`),
`vault` the token amount of its PDA, `wallet` the drivers' token accounts,
`treasury` the fee vault. One action per instruction, guards in the
order of the `require!`s. `join_race` covers both branches for the two slots and the
optional fee. Amounts are natural numbers with the checks of the code against
`U64Max`; signer checks are the guard `k = facilitator`. Account creation and rent
are left out; no vault is ever closed.

### RoundChain

`round` is the object in memory, `saved` the file; `Persist` writes both. A handler
is a record in `req`: the operation, the place it waits at, and the part of its
snapshot of the round that it still uses after the `await`. A transaction
is sent (`tx`), lands or is refused (`tx_lands`, `tx_fails`), and is answered
(`answer`, which is the mark in `rounds.ts` with its guards). `answer_lost` cuts the
connection between the last two; `crash` drops all requests and reloads `saved`.
Slot 0 is the challenger.

Abstractions, each a superset of what the code does unless said otherwise:

- Time guards (expiry of a challenge, end of a countdown) are open.
- The join handler of show mode and the local-wallet route run several of the
  modelled operations in a row; the states between are those between operations.
- The telemetry finish is a finish without the camera wait.
- `other_race` lets another client open a race, so ids move on by themselves.
- `other_join` lets any wallet take any free seat of any race, the round's own
  included: in production the phone submits the join it was given, and
  `join_race` asks for no more than the signature of the wallet that pays. The
  sidecar is not told. `outside` is history: the seats so taken. `StakesReachable`
  and the first part of `SeatsAreDrivers` are about the others; the second part,
  that a driver called joined holds the seat, is about all of them. Such a join
  counts against `MaxTrouble`, with the crashes and lost answers.
- One round. Rounds share `next_race_id` and the facilitator only, which
  `other_race` stands for; the facilitator's instructions for the races of other
  rounds are left out.

### RobotHarness

`motors` is what the port was last told, `cmd`, `estop`, `fresh` the record
(`fresh`: `last_cmd_at` is within `deadman_ms`). A handler goes from `checked`
to `sent` to the record; a stop goes from its write to `zero` to the record; the
deadman loop looks, writes, records. The look at the session and the look at
the latch are one step, as are the look at the odometry and the write.
Speeds are three directions. A write may fail `MaxFaults` times and then may or
may not have reached the motors.

`torn` is history: a write failed, writes overlapped in a way after which the
order of records may differ from the order of writes, or the latch was set while a
drive had looked at it and not yet written. A stop that overlaps no
drive clears it. It is in the model because the unconditional statements are
false (section 3, limits): the two invariants say precisely in which behaviours
the record can be trusted.

### ParimutuelMarket, StakePool

One market, its lanes, its vault; markets share no account. A bettor has one bet
account and each human one marker, both initialised once.
`StakePool` keeps the accumulator `acc` scaled by `ACC_SCALE` (12 in the runs, a
common multiple that makes the floors of small positions visible; `10^12` in the
code). `resyncs` counts stakes and unstakes, for the bound of the
shortfall and of the run. Governance may change the cooldown at any time.

### Slashing

`bonded`, `slashed`, `open_disputes` are the fields of the `VerifierBond`
accounts, `known` says which exist, `disputes` holds a `Dispute` per verifier and
job. `resolve_dispute` is two actions, one per verdict. The burn is what leaves the
vault for no wallet. The resolver and the policy change at any time, also under open
disputes.

### Emissions, PitFund, ClankSupply

`Emissions` has the accounts `accrue_emissions` reads and writes: the agent and its
owner, the feedback of clients, the attestation of the job (an upsert by the
forwarder), the operator's bond, the epoch, and the `JobClaim` whose creation makes
a claim single. `Earned` is the chain of conditions, `emission_reward` the
integer formula with its clamp to what the cap has left. The receiving
account is any account of the mint, as in the code; feedback is not bound to a job.
`PitFund` keeps the `buybacks` as history: when each was and what was paid out up to
it. Widths are left out: amounts stay far below `2^64`. `ClankSupply` interleaves both
over the wallets and the supply of `ClankToken`; the keeper sells what the emissions
minted. CLANK also goes into the stake vault and the slash vault and out of them, and
`resolve_dispute` burns what was posted or slashed: `vaulted` is what the two hold,
`destroyed` what was burned out of them. `StakePool` and `Slashing` say who may move
how much, and when; here `lock`, `unlock` and `resolve_dispute` leave that open, so
what a holder burns or donates by himself is covered too.

### JoinFee

`round` is the round as far as a join concerns it; rounds are saved synchronously, so
memory and file agree, and a restart forgets `used`, `armed` and `req` only. A join
is `ask` up to the await of the verification and `verified` or `verifyFails` after
it. `Transfers` are the settled USDC transfers with their payers; whether a transfer
is for the treasury and large enough is what the verification decides, so the
others are not inputs. `Posts` says which wallet may post which transfer with its
join: any of any payer in the passing run, each its own in `join_seat`. `show_enter`, the fee and stake routes, lock, countdown,
start and cancel are the operator's, and come at any time. `maybeAutoStartShowRound`
locks and starts the countdown without an await and is one step. `fresh`,
`excused` and `disturbed` are history: they name the cases the properties exclude.

### Gameplay

A handler runs to its end before the next, but a kill may fall between any
two of its file operations: `work` is the list of operations it has still to do.
Files replaced by a rename are values; the two append-only files are sequences of
lines that are whole, cut by a kill, or glued to a cut one, and a reader stops at the
first line that does not parse. `reconcile` closes the weeks one at a time up to the
week the clock is in. Stakes are 1, one round, two of its four markets: one whose
outcome is the winner, one whose outcome is not called in a real race.
The `closed` flag of a week is left out: the week is replaced before the flag
reaches the file.

### RobotLink

One robot. A command is its token and whether it moves. Pilots drive over sockets
(`pilots`) or WebRTC channels (`channels`, for the sessions in `Webrtc`). `pending` and
`inFlight` are the REST loop, `wire` the socket to the bridge, `awaiting` the handlers
of the bridge that await a token or a speed mode, `target` what the bridge repeats.
`linked` and `attached` are the two ends of that socket, which notice a cut each by
itself. A target may be stale whenever the bridge flushes it.

Of the harness there are `known`, the tokens with a live session, `wheels`, and its end
of the drive socket: `authed` is the token of the socket's first message, by which it
judges all later ones, and `ended` says that it closed the socket and the bridge has
not seen that yet. An unknown token makes it close and return with the wheels as they
are; only a stream that ends by itself stops them. `Obey` is `apply_drive`: a drive is
carried out, stopped at the odometry limit, or refused under a latched estop, and
then the wheels stand, as `RobotHarness` promises when no write overlapped or failed.
`harness_stops` is the deadman.

Requests, the links and the harness fail `MaxFailures` times. `jumbled` is history: a
command was lost or refused, overtook another inside the bridge, went one way while
another was still on the other, or a moving pilot was replaced and no stop sent. It
names the orders of delivery that the code does not promise.

## 3. Runs

| run | states | shows |
|---|---|---|
| `escrow` | 60 thousand | stakes, exits and the refinement |
| `round_chain` | 4.6 million | round and escrow agree, over crashes, lost answers and joins by others |
| `join_fee` | 0.8 million | one payment one seat, no payment lost, a ready round starts |
| `gameplay` | 0.9 million | weeks, totals and tickets over kills |
| `robot_link` | 1.9 million | stops arrive, old pilots yield, the robot rests |
| `harness` | 137 thousand | record, latch and rest of the motor path |
| `market` | 83 thousand | payouts of the market |
| `stake_pool` | 1.7 million | positions, debt and rewards of the pool |
| `slashing` | 0.9 million | bonds, disputes and the vault they share |
| `clank_supply` | 1.8 million | the supply, the taper and the pace of buybacks |
| `round_retry`, `join_seat` | | one statement of the repository each that the code does not keep |

**Bounds.** Escrow: two races are enough for one to draw on the money of another, two
drivers for every seating, two keys for a change of facilitator between any two
instructions; `U64Max = 7` makes the largest stakes overflow. Rounds: two
requests at a time interleave in every await; two races cover an open that is
overtaken by another; one lost answer, crash or join by others (`MaxTrouble`) falls at
every step. A fee paid
before the chain join is paid by x402 in the runs (`Payments`): the other ways
differ in the mark of a join only, and `markChainJoined` treats them alike. Joins:
two requests verify the same transfer or compete for a seat, two rounds let a
transfer be booked twice, one restart falls anywhere, and two operator steps
complete a round by hand or take it over. Game: three weeks make one that was
missed entirely; two kills cut the recovery from the first; two tickets settle in
one handler with a kill between. Link: two sessions are an old and a new
pilot, and the old one may drive over WebRTC, so that a new session finds a channel to
clear; one command on the wire and the sidecar's own stop behind it can overtake
each other in the bridge; one failure falls at every step. Harness: two handlers and
the deadman are three writers, enough for a write and a record of a third to fall
between those of two others. Market: three bettors on two lanes with amounts whose
shares do not divide evenly. Pool: two stakers with five stakes or unstakes,
fundings of two and three, two cooldowns. Bonds: two people who both verify and
challenge, two jobs, so two disputes against one bond whose slashes together exceed
it, under two policies. Supply: two jobs against a cap that pays one and a
part, a bucket the second epoch exhausts, bonds below, at and above the
saturation of the bonus, two schedules; buybacks at, between and beyond the
limits of the band, with one policy and one keeper (other policies by the proof only);
one feedback; a stake (`Stakes`, `MaxVaulted`) that takes most of what a wallet has and
may be burned once (`MaxDestroyed`).

**Fairness** is assumed where the scheduler gives it. `RobotHarness`: a handler that
started runs on and the deadman loop ticks (tokio schedules every ready task, and
`interval.tick` always comes), and time passes. `RobotLink`: the bridge's
interval ticks, so a target that nobody replaces is once flushed as stale, and the
harness has its deadman, which finds the last command too old whatever was lost;
nothing is assumed of pilots, operators, requests and the link. `JoinFee`: a timer
fires. `Gameplay`: a handler runs on, and the timer of the week gets its turn among
the requests (strong fairness: other handlers may come first, and it comes back). The
other modules state safety only: nothing in the sidecar obliges an operator to settle.

`CHECK_DEADLOCK FALSE` is set for the staking pool and for the joins: with their
counted steps spent the bounded instances stop.

### Findings

1. `settle-winner` is not idempotent: after a lost answer of `finish_race` its retry
   sends `finish_race` again, is refused, and never reaches `settle_race`.
2. Two wallets pay for one open seat, each with a transfer of its own: the payment that is
   verified second is booked on the seat of the other wallet, because the seat is looked at before the await and
   afterwards only for whether it has a wallet at all.

### Limits of the code that the properties allow for

These show when the property named is stated without its condition.

- A latched estop with turning wheels: `apply_drive` looks at the latch before, and
  writes the port after, an estop (`EstopHoldsUnlessTorn`).
- A zero record with turning wheels, at which the harness deadman never fires: a stop
  and a drive whose records come in the other order than their writes
  (`RecordTellsMotion`).
- `sweep_market` pays out unclaimed winnings with the dust (`WinnersCovered` holds
  until the window ends).
- A position that grows between fundings is credited the fraction its floored debt
  dropped (`ShortfallBounded`: less than one unit for each stake or unstake).
- One driver may hold both seats of an escrow by taking the opponent's first.
- Any wallet may take a free seat of the round's race. The sidecar's own join of that seat
  is then refused, the round never counts it as joined, and `settle_race` and
  `cancel_race`, sent with the token accounts of the round's wallets, are refused until
  the accounts of the wallet that sits there are named (`SeatsAreDrivers` and
  `StakesReachable` speak of the seats the sidecar took).
- A new session leaves the stop of the old pilot to the close events of its connections,
  and a WebRTC channel that was cleared from the map sends none: the robot may go on
  until the target is stale or the harness deadman fires (`ShownStopIsStop` excuses it as
  `jumbled`). So may it when the harness closes the drive socket over an unknown token.
- A drive message that is more than 250 ms late is dropped, a stop too.
- Two requests may verify one transfer at the same time, and a restart forgets which
  transfers were used (`BoughtOnce` excuses both, `solana-x402.ts:22` does not).
- A line of `winners.jsonl` or `parlays.jsonl` that a kill cut in half hides the
  lines after it: weeks may be ledgered again, against the "never double-pay" of
  `season.ts:5-7`, and tickets be forgotten (`WeekLedgeredOnce`, `TicketsSettledOnce`, `WeekCloses` exclude it).
- A bet that a kill interrupted is in the market and maybe in no total
  (`TotalsReconcile` bounds the difference by the kills).

## 4. Proofs

Every theorem holds for arbitrary constants under the assumptions named in the
modules (`...Assumption`), which TLC evaluates on every run:

- the sets of stakes, fees, prices and balances are subsets of `Nat`; in the escrow
  and the rounds they are below `U64Max`, as token amounts are;
- a model value that means "none" (`NoRace`, `NoDriver`, `NoBet`, `NoDispute`) is no
  value of the type it stands beside;
- a schedule decays by `num <= den`, and the length of an epoch is positive, as the
  setter demands; a policy's band and burn share are not assumed but a guard of the fund's setter
  and a conjunct of the invariant;
- where something is summed, counted or listed, there are finitely many of it: people,
  robots, jobs, bettors and nullifiers are fixed-width keys, a ticket's name is twelve
  characters of a UUID, and a policy of the fund is a record of fixed-width numbers. How
  many there are is not bounded.

### What is proved

- **Escrow** (`RaceEscrowProofs`). `IInv` is the type invariant with `VaultBacksStakes`,
  `RunsWithTwoStakes` and `FeesReconcile`, which hold each other up: the vault of a
  race can only be known to cover the payout if the seats are known to be taken
  whenever the status says so. Each action preserves each conjunct
  (one lemma per action). `ExitFree` follows: the payout of a finished race is its
  vault. `Refinement` takes every instruction to one step of `StakedRace` or none,
  and needs `IInv` for the joined flags.
- **Rounds** (`RoundChainProofs`). The properties compare the memory, the file and the
  escrow, and none is inductive: between a handler's look at the round and its mark
  other handlers, a crash or an answer may come. `IInv` says what is still true then.
  `RoundOk` is what a round in memory or on disk says of the escrow; `SavedOk` says
  that the file differs from the memory only while `lockRound` waits for the
  robots, and only in the status; `SeatsKnown` that who sits in a race, unless he
  joined by himself, is the round's driver in the round's race, and that no other race
  gets beyond its joins; `Holds` what a waiting handler may rely on (its transaction is for the
  round's race, driver and winner) and `Landed` that an answered transaction took
  effect. The proof has one lemma per handler; what makes each work is `Keeps`, what no step
  takes back of a round (its race, its drivers, its outcome), and `Grows`, the same of a race
  account: with these a request that did nothing in a step still holds what it held. A
  crash drops all of a request but its transaction under way, and `RoundOk` of the file
  is `RoundOk` of the new memory.
  A join by others adds a seat to `outside` and takes back nothing, so it is a case of
  `Grows` too. The facts on the escrow (`ChainOk`) are proved here about the instance.
  `EscrowUnderneath`, that every behaviour of the rounds is one of the escrow, needs
  `IInv` too: what is sent is for a race and drivers that exist. With it, what
  `RaceEscrowProofs` proves of the escrow holds of the races the sidecar drives.
  `StakesReachable`, `SeatsAreDrivers`, `NeverAhead`, `WinnerAgrees` and `SettledIsPaid`
  follow from `IInv` by its parts, `OutcomeSticks` from `Keeps` of every step.
- **Harness** (`SidecarProofs`). `TypeOK` and `Clean`, the strengthening of
  `RecordTellsMotion`: while not `torn`, at most one kind of write waits for its record,
  the motors are then what that write sent, and no drive that has looked at the latch
  waits while it is set. The two invariants are the cases without a waiting write.
- **Link** (`SidecarProofs`). Neither `ShownStopIsStop` nor `OldPilotYields` is inductive:
  a command may be in the REST queue, in a request, on the wire, in a handler of the
  bridge or be the target the bridge repeats, and none of the two says in what
  order these will reach the wheels. `LinkInv` does. `Shown` relates the sessions, the ends
  of the link and the record of the last command whatever became of the commands. `Delivers` holds
  while nothing is `jumbled`: only one way is in use (`OneWay`); along each way the tokens
  do not fall (`LinkInOrder`, `RestInOrder`), and none is older than what the robot obeyed
  (`AllOfAge`); what moves the wheels is the target (`MovesByTarget`); and
  if the operator is shown a stop, the youngest command under way, or the
  state of the wheels if there is none, is a stop (`ShownWasSent`, `EndsInStop`). The steps
  are proved in five groups: sends, the REST loop, the handlers of the bridge, what
  replaces or drops a target, and the rest. Once nothing is under way `EndsInStop` is `ShownStopIsStop`,
  and `OldPilotYields` is `AllOfAge` at the moment a command is obeyed.
- **Join** (`SidecarProofs`). `SingleUse`: a transfer that pays a seat was used up, one
  that is being verified was not, and each is in one place, unless it is `excused`.
  `FreshPasses`: what the preflight found still holds for a request whose round nobody
  touched. `TransfersBuyOnce` is the part of `SingleUse` on seats; for
  `PaymentsTakeSeats` the request that left with its transfer newly used up is the
  verified one, and `FreshPasses` lets it through every later check.
- **Players** (`SidecarProofs`). What makes the properties of `Gameplay` true between two file
  operations is what the running handler has still to do, so `GameTypeOK` lists the few
  forms `work` can have (`Legal`): the rest of a bet, a look at the week with the wager
  behind it or not, the weeks left to roll, the verdicts and results of a round.
  `SeasonInv`: the week in memory, the week on its way to the file and the clock are
  in order, nothing is credited after the current week, and unless a line was cut each
  week up to the roll has one line. Without the word on the roll it would not survive
  the step between the line and the new week, where a kill makes the program look again.
  `KnownTickets`: no ticket lives outside the journal. `TicketInv`: the last line of a
  ticket is its status, and a round that is being settled writes each open ticket once and its
  result once, later; that `SetToSeq` lists each ticket once is a lemma. `TotalsInv`
  is `TotalsReconcile` with the bet under way: each total lags the one before it
  by the one bet whose next save is at the head of `work`, and when a kill drops the
  rest, the kill takes the bet's place in the sum.
- **Market** (`ParimutuelMarketProofs`). `IInv` is `TypeOK`, `LedgerAddsUp` and `Phases`.
  `Phases` (a claim implies the verdict, a sweep implies the end of the window) is needed
  because a bet moves every share: the ledger survives it only if no share was paid
  yet. `WinnersAreCovered` is then arithmetic for any number of bets: the floors of the
  winners' shares sum to at most the pool, the vault is short of the pool by the
  claimed ones, so the rest is there. `OnlyDustIsLeft` is the other side: each
  floor drops less than one unit.
- **Pool** (`StakePoolProofs`). `TypeOK` with `DebtBelowGross`: a debt is the floor of a
  product with an accumulator that only grows. `EarningsSafe` needs it so that
  `saturating_sub` is a plain difference, and the arithmetic of floors for the settle
  before a change. `ShortfallIsBounded` is not inductive, since a floor may
  drop anything; `WorthCovered` is: the worth of all positions in units of
  `1/ACC_SCALE`, before any floor, is at most what is in the yield vault and one unit
  per stake or unstake. A funding adds at most its own amount to the worth, a claim takes at
  least what it pays, a snapshot adds less than one unit.
- **Bonds** (`SlashingProofs`). `TypeOK` with `DisputesCounted`, by the theorems on
  cardinality. `NoExit` follows: `unbond_verifier` tests a counter, and the
  counter is zero only when no dispute is open. `BondsAreBacked`: a step changes at most
  one bond and one posted stake, and the vault by the same. `NoOneGains` compares the wealth of
  each person before and after a step, by cases on who the verifier, the challenger and
  the signer are.
- **Supply** (`ClankSupplyProofs`). `Kept` is `TypeOK`, the legality of the policy and
  `LedgersAgree`, and none is inductive alone: that the supply stays a natural after
  a burn needs that the wallet or vault burned from is part of it, which the ledgers say, and that
  the fund's vault does needs the burn share to be at most one. `TaperIsCeiling` needs
  `RewardsTaper` (every epoch's reward is at most the first's) besides itself: a claim
  pays at most what is left of its epoch's cap and 125% of its epoch's reward
  (`RewardBounded`, with the bonus and its division), and a roll decays both; the
  bucket is a guard of the claim. `FundIsPaced`
  holds for any sequence of policies, since each call spends at most the largest call
  and comes at least the shortest interval after the one before, which is the last of
  `buybacks` (`Pace`); so every pair of buybacks is within the pace, and time in which
  the fund was idle buys nothing.

**Sums.** A total is a fold of the community modules, a recursive function over the
subsets of a finite set. `SumLemmas` proves what the proofs above need (the total follows a
change of one entry, a sum is at least each entry, sums of ordered ledgers
are ordered, floored quotients sum to at most the quotient of the sum, ...). Each is
proved on a smallest subset that would break it: strict inclusion on the subsets of
a finite set is well-founded, which the library states without an operator parameter.

### What is only model-checked

- Liveness under fairness, which is out of the prover's reach: `RestsWithoutPilot`,
  `RestsWithoutSession`, `ShowRoundStarts`, `WeekCloses`.

Every safety invariant and every action property of the passing runs is a theorem.

Some theorems (`TwoStakes`, `FeesAddUp`, `VerdictFinal`, `CountRight` and several
`TypeCorrect`) state parts of the inductive invariants that no run repeats. A theorem
that states a run's property says so in `PROJECT.json`: the run shows the statement on
a small instance. The inductive invariants were checked on the same instances.

## 5. Not modelled, and the plan

Not modelled, though it has state: the single-robot session race (`race.ts`,
`settle.ts`), whose one chain race id is shared by all sessions; quests and
achievements, which are recomputed from the profile; the evidence files of a round,
written once and hashed; the price negotiation of two agents in Python; a clock that goes back
over a week, which makes `reconcile` close hundreds of weeks ahead; camera
aim and video; the bridge's REST mode; tokens that someone sends straight to a vault of the
escrow, the market, the pool or the bonds, by which the vault holds more than its ledger.

Left out for good: finish detection on floating-point samples, speech and
language-model code, clients of outside services with one request and one
answer, the front ends and their generated bundles (four fifths of the lines),
deployment and demo scripts. `PROJECT.json` lists each component with its reason.
