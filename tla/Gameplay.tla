------------------------------- MODULE Gameplay -------------------------------
(***************************************************************************)
(* What the sidecar keeps on disk about its bettors: the prop markets and  *)
(* parlay tickets of a round, the profile and ledger of each player, and   *)
(* the weekly wager race with its file of winners.                         *)
(*                                                                         *)
(* Handlers are synchronous: one runs to its end before the next starts.   *)
(* A handler is the sequence of file operations it has still to do, in     *)
(* work; the clock moves and the process may be killed between any two of  *)
(* them.  A kill may leave an appended line without its end, and the next  *)
(* line is then glued to it.  Everything is reread at the restart.         *)
(*                                                                         *)
(* One round; stakes are 1, except that rounding, odds, prizes, quests and *)
(* achievements (functions of what is kept) are left out.  The closed flag *)
(* of a week is too: it is set in memory and the week replaced before it   *)
(* is saved.  The clock does not go back.  "fault:" marks wrong variants.  *)
(***************************************************************************)
EXTENDS Sums, Sequences, FiniteSets, SequencesExt

CONSTANTS
    Players,
    Tickets,        \* parlay tickets that may be bought
    Owner,          \* ticket -> the player who buys it
    Legs,           \* ticket -> the outcome backed in each market
    Outcomes, NoOutcome,
    PropOutcome,    \* what MARGIN settles to: by hash in the demo, else NoOutcome
    MaxWeek,        \* bound: weeks of the clock
    MaxBets,        \* bound: prop bets
    MaxKills        \* bound: kills of the process

Markets == {"WINNER", "MARGIN"}

ASSUME GameAssumption ==
    /\ IsFiniteSet(Players) /\ IsFiniteSet(Tickets)
    /\ Owner \in [Tickets -> Players]
    /\ Legs \in [Tickets -> [Markets -> Outcomes]]
    /\ NoOutcome \notin Outcomes
    /\ PropOutcome \in Outcomes \union {NoOutcome}
    /\ MaxWeek \in Nat \ {0} /\ MaxBets \in Nat /\ MaxKills \in Nat

VARIABLES
    now,        \* the week the clock is in
    market,     \* markets.json: market -> [pool, status, outcome]
    ticket,     \* the tickets in memory: ticket -> status
    journal,    \* parlays.jsonl
    wagered,    \* totalWagered of each profile
    noted,      \* bets in each player's ledger
    results,    \* wins and losses of each profile
    current,    \* current.json: the week under way
    winners,    \* winners.jsonl
    work,       \* what the running handler has still to do
    credited,   \* history: week -> player -> wagers saved in it
    paid,       \* history: ticket -> times its result was recorded
    bets, kills \* history: counts

tickets == <<ticket, journal, results, paid>>
totals == <<wagered, noted>>
season == <<current, winners, credited>>
gameVars == <<now, market, tickets, totals, season, work, bets, kills>>

Weeks == 1..MaxWeek
NoWagers == [p \in Players |-> 0]
freshWeek(w) == [id |-> w, entries |-> NoWagers]

GameInit ==
    /\ now = 1
    /\ market = [m \in Markets |-> [pool |-> 0, status |-> "open", outcome |-> NoOutcome]]
    /\ ticket = [t \in Tickets |-> "none"] /\ journal = <<>>
    /\ wagered = NoWagers /\ noted = NoWagers /\ results = NoWagers
    /\ current = freshWeek(1) /\ winners = <<>>
    /\ work = <<>>
    /\ credited = [w \in Weeks |-> NoWagers]
    /\ paid = [t \in Tickets |-> 0]
    /\ bets = 0 /\ kills = 0

-----------------------------------------------------------------------------
\* Append-only files: a line is whole, cut by a kill, or glued to a cut one.
WithLine(file, text) ==
    Append(file, [text |-> text,
                  is |-> IF file # <<>> /\ Last(file).is = "cut" THEN "glued" ELSE "whole"])
Torn(file, text) == Append(file, [text |-> text, is |-> "cut"])
Broken(file) == {i \in DOMAIN file : file[i].is # "whole"}

\* The lines a reader gets to: JSON.parse throws at the first broken one.
Readable(file) ==
    IF Broken(file) = {} THEN file ELSE SubSeq(file, 1, Min(Broken(file)) - 1)

alreadyLedgeredNever(w) == FALSE  \* fault: the file is not searched

alreadyLedgered(w) == \E i \in DOMAIN Readable(winners) : winners[i].text.id = w

\* parlay.ts load: the last readable line of a ticket wins.
load(t) ==
    LET mine == {i \in DOMAIN Readable(journal) : journal[i].text.ticket = t}
    IN  IF mine = {} THEN "none" ELSE journal[Max(mine)].text.status

-----------------------------------------------------------------------------
\* What handlers have to do, one file operation each.
Profile(p) == [do |-> "profile", player |-> p]
Note(p) == [do |-> "note", player |-> p]
Reconcile == [do |-> "reconcile"]
Roll(week, to) == [do |-> "roll", week |-> week, to |-> to]
Wager(p) == [do |-> "wager", player |-> p]
Persist(t, s) == [do |-> "persist", ticket |-> t, status |-> s]
Result(t) == [do |-> "result", ticket |-> t]

RecordSeasonFirst(p) ==  \* fault: the week before the profile
    <<Reconcile, Wager(p), Profile(p), Note(p)>>

recordBet(p) == <<Profile(p), Note(p), Reconcile, Wager(p)>>

AtRest == work = <<>>
Doing(what) == ~AtRest /\ Head(work).do = what
Finish == work' = Tail(work)
Instead(item) == work' = <<item>> \o Tail(work)

-----------------------------------------------------------------------------
\* Requests.  Those that are refused change nothing and are left out.
placeMarketBet(p, m) ==
    /\ AtRest
    /\ bets < MaxBets
    /\ market[m].status = "open"
    /\ market' = [market EXCEPT ![m].pool = @ + 1]
    /\ work' = recordBet(p)
    /\ bets' = bets + 1
    /\ UNCHANGED <<now, tickets, totals, season, kills>>

create(t) ==
    /\ AtRest
    /\ \A m \in Markets : market[m].status = "open"
    /\ \A i \in DOMAIN journal : journal[i].text.ticket # t
    /\ work' = <<Persist(t, "open")>> \o recordBet(Owner[t])
    /\ UNCHANGED <<now, market, tickets, totals, season, bets, kills>>

lockAll ==
    /\ AtRest
    /\ market' = [m \in Markets |->
                    IF market[m].status = "open" THEN [market[m] EXCEPT !.status = "locked"]
                    ELSE market[m]]
    /\ UNCHANGED <<now, tickets, totals, season, work, bets, kills>>

SettlesAgain(m) == TRUE  \* fault: a settled market is settled again

Settles(m) == market[m].status # "settled"

\* settleAll with the winner of the race, if one was given.
settleAll(winner) ==
    [m \in Markets |->
        IF Settles(m)
        THEN [market[m] EXCEPT !.status = "settled",
                               !.outcome = IF m = "WINNER" THEN winner ELSE PropOutcome]
        ELSE market[m]]

\* The status of a ticket, given the outcomes: a leg without one is ignored.
Verdict(t, outcome) ==
    LET called == {m \in Markets : outcome[m] # NoOutcome}
    IN  IF \E m \in called : outcome[m] # Legs[t][m] THEN "lost"
        ELSE IF called = {} THEN "void" ELSE "won"

\* settleAll, then settleForRound over the open tickets, then recordSettle for each.
settleMarketsAndParlays(winner) ==
    LET settled == settleAll(winner)
        outcome == [m \in Markets |-> settled[m].outcome]
        open == SetToSeq({t \in Tickets : ticket[t] = "open"})
    IN  /\ AtRest
        /\ market' = settled
        /\ work' = [i \in DOMAIN open |-> Persist(open[i], Verdict(open[i], outcome))]
                   \o [i \in DOMAIN open |-> Result(open[i])]
        /\ UNCHANGED <<now, tickets, totals, season, bets, kills>>

\* On a timer, and whenever the week is looked at.
look ==
    /\ AtRest
    /\ work' = <<Reconcile>>
    /\ UNCHANGED <<now, market, tickets, totals, season, bets, kills>>

-----------------------------------------------------------------------------
\* The operations.
persist ==
    /\ Doing("persist")
    /\ LET x == Head(work)
           text == [ticket |-> x.ticket, status |-> x.status]
       IN  /\ ticket' = [ticket EXCEPT ![x.ticket] = x.status]
           /\ journal' = WithLine(journal, text)
    /\ Finish
    /\ UNCHANGED <<now, market, results, paid, totals, season, bets, kills>>

save_bet ==
    /\ Doing("profile")
    /\ wagered' = [wagered EXCEPT ![Head(work).player] = @ + 1]
    /\ Finish
    /\ UNCHANGED <<now, market, tickets, noted, season, bets, kills>>

ledger ==
    /\ Doing("note")
    /\ noted' = [noted EXCEPT ![Head(work).player] = @ + 1]
    /\ Finish
    /\ UNCHANGED <<now, market, tickets, wagered, season, bets, kills>>

recordSettle ==
    /\ Doing("result")
    /\ LET t == Head(work).ticket
       IN  /\ results' = [results EXCEPT ![Owner[t]] = @ + 1]
           /\ paid' = [paid EXCEPT ![t] = @ + 1]
    /\ Finish
    /\ UNCHANGED <<now, market, ticket, journal, totals, season, bets, kills>>

NextIsNow(week, to) == to  \* fault: missed weeks are skipped

\* The week after the one that closes: one at a time.
Following(week, to) == week.id + 1

\* reconcile reads the week and the clock; then it closes week after week, each
\* with a line unless there is one, and saves the last.
reconcile ==
    /\ Doing("reconcile")
    /\ Instead(Roll(current, now))
    /\ UNCHANGED <<now, market, tickets, totals, season, bets, kills>>

closeWeek ==
    LET x == Head(work)
    IN  /\ Doing("roll") /\ x.week.id # x.to
        /\ winners' = IF alreadyLedgered(x.week.id) THEN winners ELSE WithLine(winners, x.week)
        /\ Instead(Roll(freshWeek(Following(x.week, x.to)), x.to))
        /\ UNCHANGED <<now, market, tickets, totals, current, credited, bets, kills>>

save_week ==
    LET x == Head(work)
    IN  /\ Doing("roll") /\ x.week.id = x.to
        /\ current' = x.week
        /\ Finish
        /\ UNCHANGED <<now, market, tickets, totals, winners, credited, bets, kills>>

recordWager ==
    /\ Doing("wager")
    /\ LET p == Head(work).player
       IN  /\ current' = [current EXCEPT !.entries[p] = @ + 1]
           /\ credited' = [credited EXCEPT ![current.id][p] = @ + 1]
    /\ Finish
    /\ UNCHANGED <<now, market, tickets, totals, winners, bets, kills>>

Step == \/ persist \/ save_bet \/ ledger \/ recordSettle
        \/ reconcile \/ closeWeek \/ save_week \/ recordWager

-----------------------------------------------------------------------------
tick ==
    /\ now < MaxWeek
    /\ now' = now + 1
    /\ UNCHANGED <<market, tickets, totals, season, work, bets, kills>>

\* The process dies, maybe in the middle of an append, and starts again: it
\* rereads the tickets and looks at the week.
kill ==
    /\ kills < MaxKills
    /\ kills' = kills + 1
    /\ work' = <<Reconcile>>
    /\ \/ UNCHANGED <<journal, winners>>
       \/ /\ Doing("persist")
          /\ LET x == Head(work)
             IN  journal' = Torn(journal, [ticket |-> x.ticket, status |-> x.status])
          /\ UNCHANGED winners
       \/ /\ Doing("roll") /\ Head(work).week.id # Head(work).to
          /\ ~alreadyLedgered(Head(work).week.id)
          /\ winners' = Torn(winners, Head(work).week)
          /\ UNCHANGED journal
    /\ ticket' = [t \in Tickets |-> load(t)]
    /\ UNCHANGED <<now, market, results, paid, totals, current, credited, bets>>

GameNext ==
    \/ \E p \in Players, m \in Markets : placeMarketBet(p, m)
    \/ \E t \in Tickets : create(t)
    \/ lockAll
    \/ \E winner \in Outcomes \union {NoOutcome} : settleMarketsAndParlays(winner)
    \/ look
    \/ Step
    \/ tick \/ kill

\* A handler runs on, and the timer of the week gets its turn between handlers.
GameSpec == GameInit /\ [][GameNext]_gameVars /\ WF_gameVars(Step) /\ SF_gameVars(look)

-----------------------------------------------------------------------------
\* season.ts lines 5-7: "a crash/restart can never double-pay".  As long as no line
\* of the file was cut, every week before the current one has exactly one line,
\* no week has two, and the line holds every wager saved in that week.
WeekLedgeredOnce ==
    Broken(winners) = {} =>
        \A w \in Weeks :
            LET mine == {i \in DOMAIN winners : winners[i].text.id = w}
            IN  /\ Cardinality(mine) <= 1
                /\ w < current.id => mine # {}
                /\ \A i \in mine : winners[i].text.entries = credited[w]

\* progress.ts lines 2-4: the totals "can never drift".  The week is never ahead of
\* the ledger, the ledger of the profile, the profiles of what was staked, and
\* between handlers each kill explains at most one bet of difference.
InWeeks(p) == SumOver([w \in Weeks |-> credited[w][p]])
Listed == {t \in Tickets : \E i \in DOMAIN journal : journal[i].text.ticket = t}
Staked == SumOver([m \in Markets |-> market[m].pool]) + Cardinality(Listed)

TotalsReconcile ==
    /\ \A p \in Players : InWeeks(p) <= noted[p] /\ noted[p] <= wagered[p]
    /\ SumOver(wagered) <= Staked
    /\ AtRest => Staked <= SumOver([p \in Players |-> InWeeks(p)]) + kills

\* However often and with whatever winner a round is settled, and wherever the
\* process died: as long as no line of the journal was cut, a settled ticket
\* agrees with the outcomes its markets keep, a restart finds what memory had, and
\* a result is recorded at most once, exactly once when nothing was killed.
TicketsSettledOnce ==
    Broken(journal) = {} =>
        \A t \in Tickets :
            LET settled == ticket[t] \in {"won", "lost", "void"}
            IN  /\ ticket[t] = load(t)
                /\ settled => ticket[t] = Verdict(t, [m \in Markets |-> market[m].outcome])
                /\ paid[t] <= 1
                /\ paid[t] = 1 => settled
                /\ AtRest /\ settled /\ kills = 0 => paid[t] = 1

\* season.ts lines 5-7: no kill can "wedge" the race.  Every week that passed, the
\* missed ones too, gets its line, unless a line was cut.
WeekCloses ==
    \A w \in Weeks :
        now > w ~> \/ \E i \in DOMAIN winners : winners[i].text.id = w
                   \/ Broken(winners) # {}
=============================================================================
