--------------------------- MODULE SlashingProofs ---------------------------
(***************************************************************************)
(* Proofs, for any people, any finite number of jobs and any policies,     *)
(* that bonds stay numbers, that open disputes are counted exactly, that   *)
(* nobody unbonds while a dispute is open, that the vault backs all bonds  *)
(* and posted stakes, and that no instruction makes anybody richer.        *)
(***************************************************************************)
EXTENDS Slashing, SumLemmas

\* The count is right and everything has its type.
IInv == TypeOK /\ DisputesCounted

\* The open disputes against a verifier are finitely many.
LEMMA OpenFinite ==
    ASSUME NEW v
    PROVE  /\ IsFiniteSet(OpenAgainst(v))
           /\ Cardinality(OpenAgainst(v)) \in Nat
           /\ Cardinality(OpenAgainst(v)) = 0 <=> OpenAgainst(v) = {}
  <1>1. OpenAgainst(v) \subseteq Jobs /\ IsFiniteSet(Jobs)
    BY SlashingAssumption DEF OpenAgainst
  <1>2. IsFiniteSet(OpenAgainst(v))
    BY <1>1, FS_Subset
  <1> QED
    BY <1>2, FS_CardinalityType, FS_EmptySet

\* The clamped slash is a number, and no more than the bond.
LEMMA SlashFits ==
    ASSUME TypeOK, NEW v \in People, NEW j \in Jobs, disputes[v][j] # NoDispute
    PROVE  /\ disputes[v][j] \in Dispute
           /\ SlashOf(v, j) \in Nat
           /\ bonded[v] - SlashOf(v, j) \in Nat
  <1>1. disputes[v][j] \in Dispute /\ bonded[v] \in Nat
    BY DEF TypeOK
  <1>2. disputes[v][j].slash_amount \in Nat
    BY <1>1 DEF Dispute
  <1> QED
    BY <1>1, <1>2 DEF SlashOf

\* Shares are parts of a positive whole.
LEMMA WholeNat == WHOLE \in Nat \ {0}
  BY DEF WHOLE

\* A slash of slash_bps out of WHOLE is a number.
LEMMA SlashNat ==
    ASSUME NEW n \in Nat, NEW bps \in Nat
    PROVE  slash_amount(n, bps) \in Nat
  <1>1. n * bps \in Nat
    OBVIOUS
  <1>2. \A x \in Nat, d \in Nat \ {0} : x \div d \in Nat
    BY SMT
  <1> QED
    BY <1>1, <1>2, WholeNat DEF slash_amount

\* Before the first bond nobody has posted anything.
LEMMA InitInv == Init => IInv
  <1> SUFFICES ASSUME Init PROVE IInv
    OBVIOUS
  <1>1. TypeOK
    BY SlashingAssumption DEF Init, TypeOK
  <1>2. \A v \in People : OpenAgainst(v) = {}
    BY DEF Init, OpenAgainst, Open
  <1>3. DisputesCounted
    BY <1>2, FS_EmptySet DEF Init, DisputesCounted
  <1> QED
    BY <1>1, <1>3 DEF IInv

-----------------------------------------------------------------------------
\* A step leaves every dispute but one alone.
OtherDisputesKept(v, j) ==
    \A w \in People, i \in Jobs : <<w, i>> # <<v, j>> =>
        (Open(w, i)' <=> Open(w, i)) /\ disputes'[w][i] = disputes[w][i]

\* open_dispute adds one open dispute, against one verifier.
LEMMA Opens ==
    ASSUME TypeOK, NEW c \in People, NEW v \in People, NEW j \in Jobs, open_dispute(c, v, j)
    PROVE  /\ disputes' \in [People -> [Jobs -> Dispute \cup {NoDispute}]]
           /\ j \notin OpenAgainst(v) /\ OpenAgainst(v)' = OpenAgainst(v) \cup {j}
           /\ \A w \in People \ {v} : OpenAgainst(w)' = OpenAgainst(w)
           /\ Open(v, j)' /\ ~Open(v, j) /\ OtherDisputesKept(v, j)
           /\ disputes'[v][j].challenger = c
           /\ disputes'[v][j].challenger_bond = policy.challenger_bond
           /\ policy.challenger_bond \in Nat
  <1> DEFINE d == [challenger |-> c, challenger_bond |-> policy.challenger_bond,
                   slash_amount |-> slash_amount(bonded[v], policy.slash_bps),
                   opened_at |-> now, resolved |-> FALSE, upheld |-> FALSE]
  <1>1. policy.challenger_bond \in Nat /\ policy.slash_bps \in Nat
    <2>1. policy \in Policy
      BY SlashingAssumption DEF TypeOK
    <2>2. policy.slash_bps \in 0..WHOLE /\ policy.challenger_bond \in Nat
      BY <2>1 DEF Policy
    <2> QED
      BY <2>2, WholeNat
  <1>2. slash_amount(bonded[v], policy.slash_bps) \in Nat
    BY <1>1, SlashNat DEF TypeOK
  <1>3. d \in Dispute
    BY <1>1, <1>2 DEF Dispute, TypeOK
  <1>4. /\ d # NoDispute /\ ~d.resolved /\ d.challenger = c
        /\ d.challenger_bond = policy.challenger_bond
    BY <1>3, NoDisputeAssumption
  <1>5. disputes' = [disputes EXCEPT ![v][j] = d] /\ disputes[v][j] = NoDispute
    BY DEF open_dispute
  <1> HIDE DEF d
  <1>6. /\ disputes' \in [People -> [Jobs -> Dispute \cup {NoDispute}]]
        /\ disputes'[v][j] = d
        /\ \A i \in Jobs \ {j} : disputes'[v][i] = disputes[v][i]
        /\ \A w \in People \ {v} : disputes'[w] = disputes[w]
    BY <1>3, <1>5 DEF TypeOK
  <1>7. Open(v, j)' /\ ~Open(v, j)
    BY <1>4, <1>5, <1>6 DEF Open
  <1>8. \A i \in Jobs \ {j} : Open(v, i)' <=> Open(v, i)
    BY <1>6 DEF Open
  <1>9. \A w \in People \ {v}, i \in Jobs : Open(w, i)' <=> Open(w, i)
    BY <1>6 DEF Open
  <1>10. OtherDisputesKept(v, j)
    BY <1>6, <1>8, <1>9 DEF OtherDisputesKept
  <1> QED
    BY <1>1, <1>4, <1>6, <1>7, <1>8, <1>9, <1>10 DEF OpenAgainst

\* resolve_dispute takes one open dispute away, whatever the verdict.
LEMMA Closes ==
    ASSUME TypeOK, NEW v \in People, NEW j \in Jobs, NEW upheld \in BOOLEAN,
           Open(v, j), Resolved(v, j, upheld)
    PROVE  /\ disputes' \in [People -> [Jobs -> Dispute \cup {NoDispute}]]
           /\ j \in OpenAgainst(v) /\ OpenAgainst(v)' = OpenAgainst(v) \ {j}
           /\ \A w \in People \ {v} : OpenAgainst(w)' = OpenAgainst(w)
           /\ ~Open(v, j)' /\ OtherDisputesKept(v, j)
  <1>1. disputes[v][j] \in Dispute
    BY DEF TypeOK, Open
  <1> DEFINE d == [disputes[v][j] EXCEPT !.resolved = TRUE, !.upheld = upheld]
  <1>2. d \in Dispute /\ d.resolved
    BY <1>1 DEF Dispute
  <1>3. disputes' = [disputes EXCEPT ![v][j] = d]
    BY <1>1 DEF Resolved, TypeOK, Dispute
  <1> HIDE DEF d
  <1>4. /\ disputes' \in [People -> [Jobs -> Dispute \cup {NoDispute}]]
        /\ disputes'[v][j] = d
        /\ \A i \in Jobs \ {j} : disputes'[v][i] = disputes[v][i]
        /\ \A w \in People \ {v} : disputes'[w] = disputes[w]
    BY <1>2, <1>3 DEF TypeOK
  <1>5. ~Open(v, j)'
    BY <1>2, <1>4 DEF Open
  <1>6. \A i \in Jobs \ {j} : Open(v, i)' <=> Open(v, i)
    BY <1>4 DEF Open
  <1>7. \A w \in People \ {v}, i \in Jobs : Open(w, i)' <=> Open(w, i)
    BY <1>4 DEF Open
  <1>8. OtherDisputesKept(v, j)
    BY <1>4, <1>6, <1>7 DEF OtherDisputesKept
  <1> QED
    BY <1>8, <1>4, <1>5, <1>6, <1>7 DEF OpenAgainst

-----------------------------------------------------------------------------
\* The types are kept by every step.
LEMMA TypeStep == TypeOK /\ [Next]_vars => TypeOK'
  <1> SUFFICES ASSUME TypeOK, [Next]_vars PROVE TypeOK'
    OBVIOUS
  <1> USE DEF config
  <1>1. ASSUME NEW v \in People, NEW n \in Amounts, bond_verifier(v, n) PROVE TypeOK'
    <2>1. n \in Nat /\ clank[v] - n \in Nat
      BY <1>1, SlashingAssumption DEF bond_verifier, TypeOK
    <2> QED
      BY <1>1, <2>1 DEF bond_verifier, TypeOK
  <1>2. ASSUME NEW v \in People, NEW n \in Amounts, unbond_verifier(v, n) PROVE TypeOK'
    <2>1. n \in Nat /\ bonded[v] - n \in Nat /\ slash_vault - n \in Nat
      BY <1>2, SlashingAssumption DEF unbond_verifier, MayUnbond, TypeOK
    <2> QED
      BY <1>2, <2>1 DEF unbond_verifier, TypeOK
  <1>3. ASSUME NEW c \in People, NEW v \in People, NEW j \in Jobs, open_dispute(c, v, j)
        PROVE  TypeOK'
    <2>1. disputes' \in [People -> [Jobs -> Dispute \cup {NoDispute}]]
      BY <1>3, Opens
    <2>2. policy.challenger_bond \in Nat
      BY SlashingAssumption DEF TypeOK, Policy
    <2>3. clank[c] - policy.challenger_bond \in Nat
      BY <1>3, <2>2 DEF open_dispute, TypeOK
    <2> QED
      BY <1>3, <2>1, <2>2, <2>3 DEF open_dispute, TypeOK
  <1>4. ASSUME NEW k \in Keys, NEW v \in People, NEW j \in Jobs, uphold_dispute(k, v, j)
        PROVE  TypeOK'
    <2>1. Open(v, j) /\ Resolved(v, j, TRUE)
      BY <1>4 DEF uphold_dispute, MayResolve
    <2>2. disputes' \in [People -> [Jobs -> Dispute \cup {NoDispute}]]
      BY <2>1, Closes
    <2>3. /\ disputes[v][j] \in Dispute /\ SlashOf(v, j) \in Nat
          /\ bonded[v] - SlashOf(v, j) \in Nat
      BY <2>1, SlashFits DEF Open
    <2>4. disputes[v][j].challenger_bond \in Nat /\ disputes[v][j].challenger \in People
      BY <2>3 DEF Dispute
    <2>5. slash_vault' \in Nat
      BY <1>4, <2>3, <2>4 DEF uphold_dispute, TypeOK
    <2>6. clank' \in [People -> Nat]
      BY <1>4, <2>4 DEF uphold_dispute, ReturnFor, TypeOK
    <2>7. bonded' \in [People -> Nat] /\ slashed' \in [People -> Nat]
      BY <1>4, <2>3 DEF uphold_dispute, TypeOK
    <2>8. open_disputes' \in [People -> Nat]
      BY <2>1 DEF Resolved, CountAfter, TypeOK
    <2> QED
      BY <1>4, <2>2, <2>5, <2>6, <2>7, <2>8 DEF uphold_dispute, TypeOK
  <1>5. ASSUME NEW k \in Keys, NEW v \in People, NEW j \in Jobs, reject_dispute(k, v, j)
        PROVE  TypeOK'
    <2>1. Open(v, j) /\ Resolved(v, j, FALSE)
      BY <1>5 DEF reject_dispute, MayResolve
    <2>2. disputes' \in [People -> [Jobs -> Dispute \cup {NoDispute}]]
      BY <2>1, Closes
    <2>3. disputes[v][j].challenger_bond \in Nat
      BY <2>1, SlashFits DEF Open, Dispute
    <2>4. slash_vault' \in Nat
      BY <1>5, <2>3 DEF reject_dispute, TypeOK
    <2>5. open_disputes' \in [People -> Nat]
      BY <2>1 DEF Resolved, CountAfter, TypeOK
    <2> QED
      BY <1>5, <2>2, <2>4, <2>5 DEF reject_dispute, TypeOK
  <1>6. ASSUME NEW k \in Keys, NEW new_resolver \in Keys, NEW p \in Policies,
               set_slash_params(k, p, new_resolver)
        PROVE  TypeOK'
    BY <1>6 DEF set_slash_params, TypeOK
  <1>7. CASE Tick
    BY <1>7 DEF Tick, TypeOK
  <1>8. CASE UNCHANGED vars
    BY <1>8 DEF vars, TypeOK
  <1> QED
    BY <1>1, <1>2, <1>3, <1>4, <1>5, <1>6, <1>7, <1>8 DEF Next

-----------------------------------------------------------------------------
\* The count goes down with the dispute that is resolved.
LEMMA CountResolved ==
    ASSUME IInv, NEW v \in People, NEW j \in Jobs, NEW upheld \in BOOLEAN,
           Open(v, j), Resolved(v, j, upheld)
    PROVE  DisputesCounted'
  <1>1. TypeOK /\ \A w \in People : open_disputes[w] = Cardinality(OpenAgainst(w))
    BY DEF IInv, DisputesCounted
  <1>2. /\ j \in OpenAgainst(v) /\ OpenAgainst(v)' = OpenAgainst(v) \ {j}
        /\ \A w \in People \ {v} : OpenAgainst(w)' = OpenAgainst(w)
    BY <1>1, Closes
  <1>3. Cardinality(OpenAgainst(v)') = Cardinality(OpenAgainst(v)) - 1
    BY <1>2, OpenFinite, FS_RemoveElement
  <1>4. Cardinality(OpenAgainst(v)) > 0
    BY <1>2, OpenFinite
  <1>5. /\ open_disputes'[v] = open_disputes[v] - 1
        /\ \A w \in People \ {v} : open_disputes'[w] = open_disputes[w]
    BY <1>1, <1>4 DEF Resolved, CountAfter, TypeOK
  <1> QED
    BY <1>1, <1>2, <1>3, <1>5 DEF DisputesCounted

\* Every step keeps the count right.
LEMMA CountStep == IInv /\ [Next]_vars => DisputesCounted'
  <1> SUFFICES ASSUME IInv, [Next]_vars PROVE DisputesCounted'
    OBVIOUS
  <1>0. TypeOK /\ \A w \in People : open_disputes[w] = Cardinality(OpenAgainst(w))
    BY DEF IInv, DisputesCounted
  <1>1. CASE UNCHANGED <<disputes, open_disputes>>
    BY <1>0, <1>1 DEF DisputesCounted, OpenAgainst, Open
  <1>2. ASSUME NEW c \in People, NEW v \in People, NEW j \in Jobs, open_dispute(c, v, j)
        PROVE  DisputesCounted'
    <2>1. /\ j \notin OpenAgainst(v) /\ OpenAgainst(v)' = OpenAgainst(v) \cup {j}
          /\ \A w \in People \ {v} : OpenAgainst(w)' = OpenAgainst(w)
      BY <1>0, <1>2, Opens
    <2>2. Cardinality(OpenAgainst(v)') = Cardinality(OpenAgainst(v)) + 1
      BY <2>1, OpenFinite, FS_AddElement
    <2>3. /\ open_disputes'[v] = open_disputes[v] + 1
          /\ \A w \in People \ {v} : open_disputes'[w] = open_disputes[w]
      BY <1>0, <1>2 DEF open_dispute, TypeOK
    <2> QED
      BY <1>0, <2>1, <2>2, <2>3 DEF DisputesCounted
  <1>3. ASSUME NEW k \in Keys, NEW v \in People, NEW j \in Jobs,
               uphold_dispute(k, v, j) \/ reject_dispute(k, v, j)
        PROVE  DisputesCounted'
    <2>1. Open(v, j) /\ (Resolved(v, j, TRUE) \/ Resolved(v, j, FALSE))
      BY <1>3 DEF uphold_dispute, reject_dispute, MayResolve
    <2> QED
      BY <2>1, CountResolved
  <1> QED
    BY <1>1, <1>2, <1>3
    DEF Next, bond_verifier, unbond_verifier, set_slash_params, Tick, vars

\* Every state of bonds and disputes satisfies the inductive invariant.
THEOREM Invariance == Spec => []IInv
  <1>1. IInv /\ [Next]_vars => IInv'
    BY TypeStep, CountStep DEF IInv
  <1> QED
    BY <1>1, InitInv, PTL DEF Spec

\* The accounts of the program (lib.rs lines 2564-2596) keep their types; the
\* clamp of resolve_dispute keeps bonds from going below zero.
THEOREM TypeCorrect == Spec => []TypeOK
  <1>1. IInv => TypeOK
    BY DEF IInv
  <1> QED
    BY <1>1, Invariance, PTL

\* verifier_bond.open_disputes is the number of open disputes.
THEOREM CountRight == Spec => []DisputesCounted
  <1>1. IInv => DisputesCounted
    BY DEF IInv
  <1> QED
    BY <1>1, Invariance, PTL

-----------------------------------------------------------------------------
BondKept == \A v \in People : OpenAgainst(v) # {} =>
                bonded'[v] + slashed'[v] >= bonded[v] + slashed[v]

\* Only unbonding takes from a bond without slashing, and it finds no open dispute.
LEMMA BondStep == IInv /\ [Next]_vars => BondKept
  <1> SUFFICES ASSUME IInv, [Next]_vars, NEW w \in People, OpenAgainst(w) # {}
               PROVE  bonded'[w] + slashed'[w] >= bonded[w] + slashed[w]
    BY DEF BondKept
  <1>0. TypeOK /\ bonded[w] \in Nat /\ slashed[w] \in Nat
    BY DEF IInv, TypeOK
  <1> DEFINE Goal == bonded'[w] + slashed'[w] >= bonded[w] + slashed[w]
  <1>1. CASE UNCHANGED <<bonded, slashed>>
    BY <1>0, <1>1
  <1>2. ASSUME NEW v \in People, NEW n \in Amounts, bond_verifier(v, n) PROVE Goal
    <2>1. n \in Nat
      BY SlashingAssumption
    <2>2. slashed' = slashed /\ bonded'[w] = IF w = v THEN bonded[w] + n ELSE bonded[w]
      BY <1>0, <1>2 DEF bond_verifier, TypeOK
    <2> QED
      BY <1>0, <2>1, <2>2
  <1>3. ASSUME NEW v \in People, NEW n \in Amounts, unbond_verifier(v, n) PROVE Goal
    <2>1. open_disputes[v] = 0
      BY <1>3 DEF unbond_verifier, MayUnbond
    <2>2. OpenAgainst(v) = {}
      BY <2>1, OpenFinite DEF IInv, DisputesCounted
    <2>3. slashed' = slashed /\ bonded'[w] = bonded[w]
      BY <1>0, <1>3, <2>2 DEF unbond_verifier, TypeOK
    <2> QED
      BY <1>0, <2>3
  <1>4. ASSUME NEW k \in Keys, NEW v \in People, NEW j \in Jobs, uphold_dispute(k, v, j)
        PROVE  Goal
    <2>1. SlashOf(v, j) \in Nat
      BY <1>0, <1>4, SlashFits DEF uphold_dispute, MayResolve, Open
    <2>2. CASE w = v
      <3>1. bonded'[w] = bonded[w] - SlashOf(v, j) /\ slashed'[w] = slashed[w] + SlashOf(v, j)
        BY <1>0, <1>4, <2>2 DEF uphold_dispute, TypeOK
      <3> QED
        BY <1>0, <2>1, <3>1
    <2>3. CASE w # v
      <3>1. bonded'[w] = bonded[w] /\ slashed'[w] = slashed[w]
        BY <1>0, <1>4, <2>3 DEF uphold_dispute, TypeOK
      <3> QED
        BY <1>0, <3>1
    <2> QED
      BY <2>2, <2>3
  <1> QED
    BY <1>1, <1>2, <1>3, <1>4
    DEF Next, open_dispute, reject_dispute, set_slash_params, Tick, vars

\* A verifier cannot exit ahead of a slash: unbond_verifier's test of
\* open_disputes is enough because the count is right.
THEOREM NoExit == Spec => NoExitAheadOfSlash
  <1>1. IInv /\ [Next]_vars => [BondKept]_vars
    BY BondStep
  <1>2. Spec => [][BondKept]_vars
    BY <1>1, Invariance, PTL DEF Spec
  <1> QED
    BY <1>2 DEF NoExitAheadOfSlash, BondKept

-----------------------------------------------------------------------------
\* The ledgers: the stakes of the open disputes and the bonds, against the vault.
Pairs == People \X Jobs

\* The ledgers have finitely many entries, so they have sums.
LEMMA FiniteLedgers == IsFiniteSet(People) /\ IsFiniteSet(Pairs)
  BY SlashingAssumption, FS_Product DEF Pairs

\* What is posted, per dispute and per person, is a number.
LEMMA PostedTypes ==
    ASSUME TypeOK
    PROVE  /\ Posted \in [Pairs -> Nat] /\ SumOver(Posted) \in Nat
           /\ \A p \in People : PostedBy(p) \in [Pairs -> Nat] /\ SumOver(PostedBy(p)) \in Nat
           /\ bonded \in [People -> Int] /\ SumOver(bonded) \in Nat
  <1>1. ASSUME NEW q \in Pairs, Open(q[1], q[2])
        PROVE  disputes[q[1]][q[2]].challenger_bond \in Nat
    <2>1. disputes[q[1]][q[2]] \in Dispute
      BY <1>1 DEF TypeOK, Open, Pairs
    <2> QED BY <2>1 DEF Dispute
  <1>2. Posted \in [Pairs -> Nat]
    BY <1>1 DEF Posted, Pairs
  <1>3. ASSUME NEW p \in People PROVE PostedBy(p) \in [Pairs -> Nat]
    BY <1>1 DEF PostedBy, Pairs
  <1>4. bonded \in [People -> Nat]
    BY DEF TypeOK
  <1> QED
    BY <1>2, <1>3, <1>4, FiniteLedgers, SumOverNat

\* An instruction on one dispute leaves the others as they are.
LEMMA OtherPairsKept ==
    ASSUME NEW v \in People, NEW j \in Jobs, OtherDisputesKept(v, j), NEW d \in Pairs, d # <<v, j>>
    PROVE  /\ Open(d[1], d[2])' <=> Open(d[1], d[2])
           /\ disputes'[d[1]][d[2]] = disputes[d[1]][d[2]]
  <1>1. d[1] \in People /\ d[2] \in Jobs /\ d = <<d[1], d[2]>>
    BY DEF Pairs
  <1> QED
    BY <1>1 DEF OtherDisputesKept

\* Opening a dispute posts the challenger's stake, and nobody else's.
LEMMA Posts ==
    ASSUME TypeOK, NEW c \in People, NEW v \in People, NEW j \in Jobs, open_dispute(c, v, j)
    PROVE  LET b == policy.challenger_bond IN
           /\ b \in Nat /\ SumOver(Posted') = SumOver(Posted) + b
           /\ SumOver(PostedBy(c)') = SumOver(PostedBy(c)) + b
           /\ \A p \in People \ {c} : PostedBy(p)' = PostedBy(p)
  <1> DEFINE b == policy.challenger_bond
             q == <<v, j>>
  <1>1. /\ b \in Nat /\ Open(v, j)' /\ ~Open(v, j) /\ OtherDisputesKept(v, j)
        /\ disputes'[v][j].challenger = c /\ disputes'[v][j].challenger_bond = b
    BY Opens
  <1>2. q \in Pairs /\ q[1] = v /\ q[2] = j
    BY DEF Pairs
  <1>9. \A d \in Pairs \ {q} : /\ Open(d[1], d[2])' <=> Open(d[1], d[2])
                               /\ disputes'[d[1]][d[2]] = disputes[d[1]][d[2]]
    BY <1>1, OtherPairsKept
  <1>3. Posted' = [Posted EXCEPT ![q] = b] /\ Posted[q] = 0
    BY <1>1, <1>2, <1>9 DEF Posted, Pairs
  <1>4. PostedBy(c)' = [PostedBy(c) EXCEPT ![q] = b] /\ PostedBy(c)[q] = 0
    BY <1>1, <1>2, <1>9 DEF PostedBy, Pairs
  <1>5. ASSUME NEW p \in People \ {c} PROVE PostedBy(p)' = PostedBy(p)
    BY <1>1, <1>2, <1>9 DEF PostedBy, Pairs
  <1>6. Posted \in [Pairs -> Int] /\ SumOver(Posted) \in Int
        /\ PostedBy(c) \in [Pairs -> Int] /\ SumOver(PostedBy(c)) \in Int
    BY PostedTypes
  <1> HIDE DEF b, q
  <1>7. SumOver(Posted') = SumOver(Posted) + (b - Posted[q])
    <2>0. IsFiniteSet(Pairs) /\ Posted \in [Pairs -> Int] /\ q \in Pairs /\ b \in Int
      BY <1>1, <1>2, <1>6, FiniteLedgers
    <2>1. SumOver([Posted EXCEPT ![q] = b]) = SumOver(Posted) + (b - Posted[q])
      BY <2>0, SumOverExcept
    <2> QED BY <2>1, <1>3
  <1>8. SumOver(PostedBy(c)') = SumOver(PostedBy(c)) + (b - PostedBy(c)[q])
    <2>0. IsFiniteSet(Pairs) /\ PostedBy(c) \in [Pairs -> Int] /\ q \in Pairs /\ b \in Int
      BY <1>1, <1>2, <1>6, FiniteLedgers
    <2>1. SumOver([PostedBy(c) EXCEPT ![q] = b]) = SumOver(PostedBy(c)) + (b - PostedBy(c)[q])
      BY <2>0, SumOverExcept
    <2> QED BY <2>1, <1>4
  <1> QED
    BY <1>1, <1>3, <1>4, <1>5, <1>6, <1>7, <1>8 DEF b

\* Resolving it takes that stake off the books, whatever the verdict.
LEMMA Unposts ==
    ASSUME TypeOK, NEW v \in People, NEW j \in Jobs, NEW upheld \in BOOLEAN,
           Open(v, j), Resolved(v, j, upheld),
           NEW b, b = disputes[v][j].challenger_bond, NEW c, c = disputes[v][j].challenger
    PROVE  /\ b \in Nat /\ c \in People /\ SumOver(Posted') = SumOver(Posted) - b
           /\ SumOver(PostedBy(c)') = SumOver(PostedBy(c)) - b
           /\ \A p \in People \ {c} : PostedBy(p)' = PostedBy(p)
  <1> DEFINE q == <<v, j>>
  <1>1. ~Open(v, j)' /\ OtherDisputesKept(v, j)
    BY Closes
  <1>0. b \in Nat /\ c \in People
    <2>1. disputes[v][j] \in Dispute
      BY DEF TypeOK, Open
    <2> QED BY <2>1 DEF Dispute
  <1>2. q \in Pairs /\ q[1] = v /\ q[2] = j
    BY DEF Pairs
  <1>9. \A d \in Pairs \ {q} : /\ Open(d[1], d[2])' <=> Open(d[1], d[2])
                               /\ disputes'[d[1]][d[2]] = disputes[d[1]][d[2]]
    BY <1>1, OtherPairsKept
  <1>3. Posted' = [Posted EXCEPT ![q] = 0] /\ Posted[q] = b
    BY <1>0, <1>1, <1>2, <1>9 DEF Posted, Pairs
  <1>4. PostedBy(c)' = [PostedBy(c) EXCEPT ![q] = 0] /\ PostedBy(c)[q] = b
    BY <1>0, <1>1, <1>2, <1>9 DEF PostedBy, Pairs
  <1>5. ASSUME NEW p \in People \ {c} PROVE PostedBy(p)' = PostedBy(p)
    BY <1>0, <1>1, <1>2, <1>9 DEF PostedBy, Pairs
  <1>6. Posted \in [Pairs -> Int] /\ SumOver(Posted) \in Int
        /\ PostedBy(c) \in [Pairs -> Int] /\ SumOver(PostedBy(c)) \in Int
    BY <1>0, PostedTypes
  <1> HIDE DEF q
  <1>7. SumOver(Posted') = SumOver(Posted) + (0 - Posted[q])
    <2>0. IsFiniteSet(Pairs) /\ Posted \in [Pairs -> Int] /\ q \in Pairs /\ 0 \in Int
      BY <1>1, <1>2, <1>6, FiniteLedgers
    <2>1. SumOver([Posted EXCEPT ![q] = 0]) = SumOver(Posted) + (0 - Posted[q])
      BY <2>0, SumOverExcept
    <2> QED BY <2>1, <1>3
  <1>8. SumOver(PostedBy(c)') = SumOver(PostedBy(c)) + (0 - PostedBy(c)[q])
    <2>0. IsFiniteSet(Pairs) /\ PostedBy(c) \in [Pairs -> Int] /\ q \in Pairs /\ 0 \in Int
      BY <1>1, <1>2, <1>6, FiniteLedgers
    <2>1. SumOver([PostedBy(c) EXCEPT ![q] = 0]) = SumOver(PostedBy(c)) + (0 - PostedBy(c)[q])
      BY <2>0, SumOverExcept
    <2> QED BY <2>1, <1>4
  <1> QED
    BY <1>0, <1>3, <1>4, <1>5, <1>6, <1>7, <1>8

\* A verifier's bond moves to another value.
LEMMA BondMoved ==
    ASSUME TypeOK, NEW v \in People, NEW x \in Int, bonded' = [bonded EXCEPT ![v] = x]
    PROVE  SumOver(bonded') = SumOver(bonded) + (x - bonded[v])
  BY PostedTypes, FiniteLedgers, SumOverExcept

\* Every instruction moves the vault by what it moves the bonds.
LEMMA VaultStep == TypeOK /\ VaultBacksBonds /\ [Next]_vars => VaultBacksBonds'
  <1> SUFFICES ASSUME TypeOK, VaultBacksBonds, [Next]_vars PROVE VaultBacksBonds'
    OBVIOUS
  <1>0. /\ slash_vault = SumOver(bonded) + SumOver(Posted) /\ SumOver(bonded) \in Int
        /\ SumOver(Posted) \in Int /\ \A v \in People : bonded[v] \in Int
    BY PostedTypes DEF VaultBacksBonds
  <1>1. ASSUME NEW v \in People, NEW n \in Amounts, bond_verifier(v, n) \/ unbond_verifier(v, n)
        PROVE  VaultBacksBonds'
    <2> DEFINE x == IF bond_verifier(v, n) THEN bonded[v] + n ELSE bonded[v] - n
    <2>1. n \in Int /\ x \in Int
      BY <1>0, SlashingAssumption
    <2>2. bonded' = [bonded EXCEPT ![v] = x] /\ slash_vault' = slash_vault + (x - bonded[v])
      BY <1>0, <1>1, <2>1 DEF bond_verifier, unbond_verifier
    <2>3. Posted' = Posted
      BY <1>1 DEF Posted, Open, bond_verifier, unbond_verifier
    <2> HIDE DEF x
    <2>4. SumOver(bonded') = SumOver(bonded) + (x - bonded[v])
      BY <2>1, <2>2, BondMoved
    <2> QED
      BY <1>0, <2>1, <2>2, <2>3, <2>4 DEF VaultBacksBonds
  <1>2. ASSUME NEW c \in People, NEW v \in People, NEW j \in Jobs, open_dispute(c, v, j)
        PROVE  VaultBacksBonds'
    <2>1. /\ policy.challenger_bond \in Nat
          /\ SumOver(Posted') = SumOver(Posted) + policy.challenger_bond
      BY <1>2, Posts
    <2>2. bonded' = bonded /\ slash_vault' = slash_vault + policy.challenger_bond
      BY <1>2 DEF open_dispute
    <2> QED
      BY <1>0, <2>1, <2>2 DEF VaultBacksBonds
  <1>3. ASSUME NEW k \in Keys, NEW v \in People, NEW j \in Jobs, uphold_dispute(k, v, j)
        PROVE  VaultBacksBonds'
    <2> DEFINE b == disputes[v][j].challenger_bond
               s == SlashOf(v, j)
               x == bonded[v] - s
    <2>1. Open(v, j) /\ Resolved(v, j, TRUE)
      BY <1>3 DEF uphold_dispute, MayResolve
    <2>2. b \in Nat /\ SumOver(Posted') = SumOver(Posted) - b
      BY <2>1, Unposts
    <2>3. s \in Nat
      BY <2>1, SlashFits DEF Open
    <2>4. bonded' = [bonded EXCEPT ![v] = x] /\ slash_vault' = slash_vault - (s + b)
      BY <1>3 DEF uphold_dispute
    <2> HIDE DEF b, s
    <2>5. x \in Int /\ x - bonded[v] = 0 - s
      BY <1>0, <2>3
    <2> HIDE DEF x
    <2>6. SumOver(bonded') = SumOver(bonded) + (x - bonded[v])
      BY <2>4, <2>5, BondMoved
    <2> QED
      BY <1>0, <2>2, <2>3, <2>4, <2>5, <2>6 DEF VaultBacksBonds
  <1>4. ASSUME NEW k \in Keys, NEW v \in People, NEW j \in Jobs, reject_dispute(k, v, j)
        PROVE  VaultBacksBonds'
    <2>1. Open(v, j) /\ Resolved(v, j, FALSE)
      BY <1>4 DEF reject_dispute, MayResolve
    <2>2. /\ disputes[v][j].challenger_bond \in Nat
          /\ SumOver(Posted') = SumOver(Posted) - disputes[v][j].challenger_bond
      BY <2>1, Unposts
    <2>3. bonded' = bonded /\ slash_vault' = slash_vault - disputes[v][j].challenger_bond
      BY <1>4 DEF reject_dispute
    <2> QED
      BY <1>0, <2>2, <2>3 DEF VaultBacksBonds
  <1>5. CASE UNCHANGED <<bonded, disputes, slash_vault>>
    BY <1>5 DEF VaultBacksBonds, Posted, Open
  <1> QED
    BY <1>1, <1>2, <1>3, <1>4, <1>5 DEF Next, vars, set_slash_params, Tick

\* The shared vault holds every bond and the stake of every open dispute.
THEOREM BondsAreBacked == Spec => []VaultBacksBonds
  <1>1. ASSUME Init PROVE VaultBacksBonds
    <2>1. bonded = [v \in People |-> 0] /\ slash_vault = 0
      BY <1>1 DEF Init
    <2>2. Posted = [d \in Pairs |-> 0]
      BY <1>1 DEF Init, Posted, Pairs, Open
    <2> QED
      BY <2>1, <2>2, FiniteLedgers, SumOverZero DEF VaultBacksBonds
  <1>2. IInv /\ VaultBacksBonds /\ [Next]_vars => VaultBacksBonds'
    BY VaultStep DEF IInv
  <1> QED
    BY <1>1, <1>2, Invariance, PTL DEF Spec

-----------------------------------------------------------------------------
\* What a step may not do to what is in for a person.
NoGain == \A p \in People : Worth(p)' <= Worth(p)

\* No instruction pays anybody more than what is in for them.
LEMMA GainStep == TypeOK /\ [Next]_vars => NoGain
  <1> SUFFICES ASSUME TypeOK, [Next]_vars, NEW p \in People PROVE Worth(p)' <= Worth(p)
    BY DEF NoGain
  <1> DEFINE Goal == Worth(p)' <= Worth(p)
  <1>0. /\ clank \in [People -> Nat] /\ bonded \in [People -> Nat]
        /\ clank[p] \in Nat /\ bonded[p] \in Nat /\ SumOver(PostedBy(p)) \in Nat
    BY PostedTypes DEF TypeOK
  <1>1. ASSUME NEW v \in People, NEW n \in Amounts, bond_verifier(v, n) \/ unbond_verifier(v, n)
        PROVE  Goal
    <2>1. n \in Nat
      BY SlashingAssumption
    <2>2. PostedBy(p)' = PostedBy(p)
      BY <1>1 DEF PostedBy, Open, bond_verifier, unbond_verifier
    <2>3. clank'[p] + bonded'[p] = clank[p] + bonded[p]
      BY <1>0, <1>1, <2>1 DEF bond_verifier, unbond_verifier
    <2>4. clank'[p] + bonded'[p] \in Int
      BY <1>0, <2>3
    <2> QED
      BY <1>0, <2>2, <2>3, <2>4 DEF Worth
  <1>2. ASSUME NEW c \in People, NEW v \in People, NEW j \in Jobs, open_dispute(c, v, j)
        PROVE  Goal
    <2> DEFINE b == policy.challenger_bond
    <2>1. /\ b \in Nat /\ SumOver(PostedBy(c)') = SumOver(PostedBy(c)) + b
          /\ \A w \in People \ {c} : PostedBy(w)' = PostedBy(w)
      BY <1>2, Posts
    <2>2. bonded' = bonded /\ clank' = [clank EXCEPT ![c] = clank[c] - b]
      BY <1>2 DEF open_dispute
    <2> HIDE DEF b
    <2>3. CASE p = c
      BY <1>0, <2>1, <2>2, <2>3 DEF Worth
    <2>4. CASE p # c
      BY <1>0, <2>1, <2>2, <2>4 DEF Worth
    <2> QED
      BY <2>3, <2>4
  <1>3. ASSUME NEW v \in People, NEW j \in Jobs, NEW upheld \in BOOLEAN,
               Open(v, j), Resolved(v, j, upheld), bonded'[p] \in Int, bonded'[p] <= bonded[p],
               NEW b, b = disputes[v][j].challenger_bond,
               NEW c, c = disputes[v][j].challenger,
               clank' = clank \/ clank' = [clank EXCEPT ![c] = clank[c] + b]
        PROVE  Goal
    <2>1. /\ b \in Nat /\ c \in People /\ SumOver(PostedBy(c)') = SumOver(PostedBy(c)) - b
          /\ \A w \in People \ {c} : PostedBy(w)' = PostedBy(w)
      BY <1>3, Unposts
    <2>2. clank' = clank \/ clank' = [clank EXCEPT ![c] = clank[c] + b]
      BY <1>3
    <2>3. CASE p = c
      <3>1. clank'[p] \in Int /\ clank'[p] <= clank[p] + b
        BY <1>0, <2>1, <2>2, <2>3
      <3>2. SumOver(PostedBy(p)') = SumOver(PostedBy(p)) - b
        BY <2>1, <2>3
      <3> QED BY <1>0, <1>3, <2>1, <3>1, <3>2 DEF Worth
    <2>4. CASE p # c
      <3>1. clank'[p] = clank[p] /\ PostedBy(p)' = PostedBy(p)
        BY <1>0, <2>1, <2>2, <2>4
      <3> QED BY <1>0, <1>3, <3>1 DEF Worth
    <2> QED
      BY <2>3, <2>4
  <1>4. ASSUME NEW k \in Keys, NEW v \in People, NEW j \in Jobs, uphold_dispute(k, v, j)
        PROVE  Goal
    <2>1. Open(v, j) /\ Resolved(v, j, TRUE)
      BY <1>4 DEF uphold_dispute, MayResolve
    <2>2. SlashOf(v, j) \in Nat
      BY <2>1, SlashFits DEF Open
    <2>3. bonded'[p] \in Int /\ bonded'[p] <= bonded[p]
      BY <1>0, <1>4, <2>2 DEF uphold_dispute
    <2> QED
      BY <1>3, <1>4, <2>1, <2>3 DEF uphold_dispute, ReturnFor
  <1>5. ASSUME NEW k \in Keys, NEW v \in People, NEW j \in Jobs, reject_dispute(k, v, j)
        PROVE  Goal
    <2>1. Open(v, j) /\ Resolved(v, j, FALSE) /\ bonded' = bonded /\ clank' = clank
      BY <1>5 DEF reject_dispute, MayResolve
    <2>2. bonded'[p] \in Int /\ bonded'[p] <= bonded[p]
      BY <1>0, <2>1
    <2> QED
      BY <1>3, <2>1, <2>2
  <1>6. CASE UNCHANGED <<clank, bonded, disputes>>
    <2>1. clank'[p] = clank[p] /\ bonded'[p] = bonded[p]
      BY <1>6
    <2>2. PostedBy(p)' = PostedBy(p)
      BY <1>6 DEF PostedBy, Open
    <2> QED
      BY <1>0, <2>1, <2>2 DEF Worth
  <1> QED
    BY <1>1, <1>2, <1>4, <1>5, <1>6 DEF Next, vars, set_slash_params, Tick

\* Neither a challenger nor a verifier, nor the two together, gains by any step.
THEOREM NoOneGains == Spec => NobodyGains
  <1>1. IInv /\ [Next]_vars => [NoGain]_vars
    BY GainStep DEF IInv
  <1>2. Spec => [][NoGain]_vars
    BY <1>1, Invariance, PTL DEF Spec
  <1> QED
    BY <1>2 DEF NobodyGains, NoGain
=============================================================================
