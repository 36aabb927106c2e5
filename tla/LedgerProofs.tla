----------------------------- MODULE LedgerProofs -----------------------------
(***************************************************************************)
(* That a trade's chain is in the ledger whole or not at all, that settle  *)
(* returns normally only for one that is, that nothing stays reserved, and *)
(* that the posted balances are what the posted trades come to: for any    *)
(* trades, any fills and any number of losses of the data file.            *)
(*                                                                         *)
(* The chain is taken through create_transfers in three stages: what a     *)
(* PENDING transfer and the POST_PENDING that follows it do to a ledger    *)
(* without reservations, what a chain of such pairs does, and what becomes *)
(* of a batch that is one chain.                                           *)
(***************************************************************************)
EXTENDS Ledger, AmountTheorems

-----------------------------------------------------------------------------
(* A fold over a chain, opened up.                                         *)

\* g is the function with which FoldLeft runs the transfers of l from start.
Runs(g, start, l, n) ==
    g = [s \in SUBSET (1..n) |->
            IF s = {} THEN start ELSE RunTransfer(g[s \ {Max(s)}], l[Max(s)])]

\* There is such a function, for every length of the chain.
LEMMA RunsExist ==
    ASSUME NEW start, NEW l, NEW n \in Nat
    PROVE  \E g : Runs(g, start, l, n)
<1> DEFINE Reached == {k \in 0..n : \E g : Runs(g, start, l, k)}
<1>1. 0 \in Reached
  <2>1. Runs([s \in SUBSET (1..0) |-> start], start, l, 0)
    BY DEF Runs
  <2> QED BY <2>1
<1>2. ASSUME NEW k \in 0..(n - 1), k \in Reached PROVE k + 1 \in Reached
  <2>1. PICK g : Runs(g, start, l, k)
    BY <1>2
  <2> DEFINE h == [s \in SUBSET (1..(k + 1)) |->
                      IF k + 1 \in s THEN RunTransfer(g[s \ {k + 1}], l[k + 1]) ELSE g[s]]
  <2>2. \A s \in SUBSET (1..(k + 1)) : k + 1 \notin s => s \in SUBSET (1..k)
    OBVIOUS
  <2>3. ASSUME NEW s \in SUBSET (1..(k + 1))
        PROVE  h[s] = IF s = {} THEN start ELSE RunTransfer(h[s \ {Max(s)}], l[Max(s)])
    <3>1. CASE k + 1 \in s
      <4>1. Max(s) = k + 1
        BY <3>1, MaxOf
      <4>2. h[s \ {k + 1}] = g[s \ {k + 1}]
        OBVIOUS
      <4> QED BY <3>1, <4>1, <4>2
    <3>2. CASE k + 1 \notin s
      <4>1. s \in SUBSET (1..k) /\ h[s] = g[s] /\ h[s \ {Max(s)}] = g[s \ {Max(s)}]
        BY <2>2, <3>2
      <4> QED BY <2>1, <4>1 DEF Runs
    <3> QED BY <3>1, <3>2
  <2> HIDE DEF h
  <2>4. h = [s \in SUBSET (1..(k + 1)) |-> h[s]]
    BY DEF h
  <2>5. Runs(h, start, l, k + 1)
    BY <2>3, <2>4 DEF Runs
  <2> QED BY <2>5
<1> HIDE DEF Reached
<1>3. n \in Reached
  BY <1>1, <1>2, UpwardInduction
<1> QED BY <1>3 DEF Reached

RunAll(start, l) == FoldLeft(RunTransfer, start, l)

\* r holds the states of a chain of n transfers, the one before the first included.
Chained(r, start, l, n) ==
    /\ r[0] = start
    /\ \A k \in 0..(n - 1) : r[k + 1] = RunTransfer(r[k], l[k + 1])

\* Running a chain is taking one transfer after the other.
LEMMA ChainRuns ==
    ASSUME NEW start, NEW l, NEW n \in Nat, DOMAIN l = 1..n
    PROVE  \E r : Chained(r, start, l, n) /\ RunAll(start, l) = r[n]
<1> DEFINE g == CHOOSE h : Runs(h, start, l, n)
           r == [k \in 0..n |-> g[1..k]]
<1>1. RunAll(start, l) =
        (CHOOSE h : h = [s \in SUBSET (DOMAIN l) |->
            IF s = {} THEN start ELSE RunTransfer(h[s \ {Max(s)}], l[Max(s)])])[DOMAIN l]
  BY Zenon DEF RunAll, FoldLeft, MapThenFoldSet
<1>2. RunAll(start, l) = g[1..n]
  BY Zenon, <1>1 DEF Runs
<1>3. Runs(g, start, l, n)
  BY RunsExist
<1> HIDE DEF g
<1>4. r[0] = start
  <2>1. 1..0 = {} /\ {} \in SUBSET (1..n)
    OBVIOUS
  <2> QED BY <1>3, <2>1 DEF Runs
<1>5. ASSUME NEW k \in 0..(n - 1) PROVE r[k + 1] = RunTransfer(r[k], l[k + 1])
  <2>1. k \in Nat /\ k + 1 \in Nat /\ k + 1 \in 1..(k + 1) /\ k \in 0..n /\ k + 1 \in 0..n
    OBVIOUS
  <2>2. 1..(k + 1) \in SUBSET (1..n) /\ 1..(k + 1) # {}
    <3>1. \A i \in 1..(k + 1) : i \in 1..n
      OBVIOUS
    <3> QED BY <2>1, <3>1
  <2>3. (1..(k + 1)) \ {k + 1} = 1..k
    OBVIOUS
  <2>4. Max(1..(k + 1)) = k + 1
    BY <2>1, MaxOf
  <2>5. g[1..(k + 1)] = RunTransfer(g[1..k], l[k + 1])
    BY <1>3, <2>2, <2>3, <2>4 DEF Runs
  <2> QED BY <2>1, <2>5
<1>6. r[n] = g[1..n]
  OBVIOUS
<1> HIDE DEF r
<1>7. Chained(r, start, l, n)
  BY <1>4, <1>5 DEF Chained
<1> QED BY Zenon, <1>2, <1>6, <1>7

\* A batch that is one chain.
LEMMA SingleChain ==
    ASSUME NEW start, NEW chain
    PROVE  FoldLeft(RunChain, start, <<chain>>) = RunChain(start, chain)
<1> DEFINE IsRun(h) == h = [s \in SUBSET {1} |->
               IF s = {} THEN start ELSE RunChain(h[s \ {Max(s)}], <<chain>>[Max(s)])]
           g == [s \in SUBSET {1} |-> IF s = {} THEN start ELSE RunChain(start, chain)]
<1>1. DOMAIN <<chain>> = {1} /\ <<chain>>[1] = chain
  OBVIOUS
<1>2. FoldLeft(RunChain, start, <<chain>>) =
        (CHOOSE h : h = [s \in SUBSET (DOMAIN <<chain>>) |->
            IF s = {} THEN start
            ELSE RunChain(h[s \ {Max(s)}], <<chain>>[Max(s)])])[DOMAIN <<chain>>]
  BY Zenon DEF FoldLeft, MapThenFoldSet
<1>3. FoldLeft(RunChain, start, <<chain>>) = (CHOOSE h : IsRun(h))[{1}]
  BY Zenon, <1>1, <1>2
<1>4. Max({1}) = 1
  <2>1. 1 \in Nat /\ {1} \in SUBSET (1..1) /\ 1 \in {1}
    OBVIOUS
  <2> QED BY <2>1, MaxOf
<1>5. \A s \in SUBSET {1} : s # {} => s = {1} /\ Max(s) = 1 /\ s \ {Max(s)} = {}
  BY <1>4
<1>6. \A s \in SUBSET {1} : g[s] =
        IF s = {} THEN start ELSE RunChain(g[s \ {Max(s)}], <<chain>>[Max(s)])
  BY <1>1, <1>5
<1>7. IsRun(g)
  <2> HIDE DEF g
  <2>1. g = [s \in SUBSET {1} |-> g[s]]
    BY DEF g
  <2> QED BY <1>6, <2>1
<1>8. \A h : IsRun(h) => h[{1}] = RunChain(start, chain)
  <2> TAKE h
  <2> HAVE IsRun(h)
  <2>1. h[{}] = start
    OBVIOUS
  <2>2. h[{1}] = RunChain(h[{1} \ {Max({1})}], <<chain>>[Max({1})])
    OBVIOUS
  <2>3. {1} \ {1} = {}
    OBVIOUS
  <2> QED BY <1>1, <1>4, <2>1, <2>2, <2>3
<1> HIDE DEF IsRun, g
<1> QED BY <1>3, <1>7, <1>8

-----------------------------------------------------------------------------
(* A reservation and its confirmation.                                     *)

\* Balances of the chart's accounts, with nothing reserved.
Quiet(b) ==
    /\ b \in [all_accounts -> [Columns -> Nat]]
    /\ \A a \in all_accounts : b[a].debits_pending = 0 /\ b[a].credits_pending = 0

\* What an account has been posted, net.
Posted(b, a) == b[a].credits_posted - b[a].debits_posted

\* What a movement comes to for an account.
Effect(m, a) ==
    (IF a = m.credit THEN m.amount ELSE 0) - (IF a = m.debit THEN m.amount ELSE 0)

\* A movement as the posting rules make it.
Sound(m) ==
    /\ m.amount \in Nat
    /\ m.debit \in all_accounts /\ m.credit \in all_accounts /\ m.debit # m.credit

\* A PENDING transfer and its POST_PENDING leave nothing reserved and post the
\* movement's amount on both sides.
LEMMA PairPosts ==
    ASSUME NEW ledger, Quiet(ledger.balance), NEW m, Sound(m),
           NEW x, x.pending, x.debit = m.debit, x.credit = m.credit, x.amount = m.amount,
           NEW y, ~y.pending, y.debit = m.debit, y.credit = m.credit, y.amount = m.amount,
           NEW after, after = Apply(Apply(ledger, x), y)
    PROVE  /\ after.transfers = ledger.transfers \cup {x, y}
           /\ Quiet(after.balance)
           /\ \A a \in all_accounts :
                 Posted(after.balance, a) = Posted(ledger.balance, a) + Effect(m, a)
<1> DEFINE mid == Apply(ledger, x)
           b == ledger.balance
           n == m.amount
<1>1. /\ x.pending /\ x.debit = m.debit /\ x.credit = m.credit /\ x.amount = n
      /\ ~y.pending /\ y.debit = m.debit /\ y.credit = m.credit /\ y.amount = n
  OBVIOUS
<1>0. after = Apply(mid, y)
  OBVIOUS
<1>2. /\ mid.transfers = ledger.transfers \cup {x}
      /\ mid.balance = [b EXCEPT ![x.debit] = Entry(x, @, "debits_pending", "debits_posted"),
                                ![x.credit] = Entry(x, @, "credits_pending", "credits_posted")]
  BY DEF Apply
<1> HIDE DEF mid
<1>3. /\ after.transfers = mid.transfers \cup {y}
      /\ after.balance = [mid.balance EXCEPT
            ![y.debit] = Entry(y, @, "debits_pending", "debits_posted"),
            ![y.credit] = Entry(y, @, "credits_pending", "credits_posted")]
  BY <1>0 DEF Apply
<1>4. n \in Nat /\ m.debit \in all_accounts /\ m.credit \in all_accounts /\ m.debit # m.credit
  BY DEF Sound
<1>5. /\ b \in [all_accounts -> [Columns -> Nat]]
      /\ \A a \in all_accounts : b[a].debits_pending = 0 /\ b[a].credits_pending = 0
  BY DEF Quiet
<1> HIDE DEF b, n
<1>6. /\ DOMAIN mid.balance = all_accounts
      /\ mid.balance[m.debit] = Entry(x, b[m.debit], "debits_pending", "debits_posted")
      /\ mid.balance[m.credit] = Entry(x, b[m.credit], "credits_pending", "credits_posted")
      /\ \A a \in all_accounts \ {m.debit, m.credit} : mid.balance[a] = b[a]
  BY <1>1, <1>2, <1>4, <1>5
<1>7. /\ DOMAIN after.balance = all_accounts
      /\ after.balance[m.debit] =
            Entry(y, mid.balance[m.debit], "debits_pending", "debits_posted")
      /\ after.balance[m.credit] =
            Entry(y, mid.balance[m.credit], "credits_pending", "credits_posted")
      /\ \A a \in all_accounts \ {m.debit, m.credit} : after.balance[a] = mid.balance[a]
      /\ after.balance = [a \in all_accounts |-> after.balance[a]]
  BY <1>1, <1>3, <1>4, <1>6
<1>8. /\ after.balance[m.debit] \in [Columns -> Nat]
      /\ after.balance[m.debit].debits_pending = 0
      /\ after.balance[m.debit].credits_pending = 0
      /\ after.balance[m.debit].debits_posted = b[m.debit].debits_posted + n
      /\ after.balance[m.debit].credits_posted = b[m.debit].credits_posted
  <2>1. b[m.debit] \in [Columns -> Nat]
    BY <1>4, <1>5
  <2>2. mid.balance[m.debit] = [b[m.debit] EXCEPT !["debits_pending"] = @ + n]
    BY <1>1, <1>6 DEF Entry
  <2>3. after.balance[m.debit] = [mid.balance[m.debit] EXCEPT
            !["debits_pending"] = @ - n, !["debits_posted"] = @ + n]
    BY <1>1, <1>7 DEF Entry
  <2> HIDE DEF mid
  <2>4. /\ b[m.debit].debits_pending = 0 /\ b[m.debit].credits_pending = 0
        /\ b[m.debit].debits_posted \in Nat /\ b[m.debit].credits_posted \in Nat
    BY <1>4, <1>5, <2>1 DEF Columns
  <2>5. /\ after.balance[m.debit].debits_pending = 0
        /\ after.balance[m.debit].credits_pending = 0
        /\ after.balance[m.debit].debits_posted = b[m.debit].debits_posted + n
        /\ after.balance[m.debit].credits_posted = b[m.debit].credits_posted
    BY <1>4, <2>1, <2>2, <2>3, <2>4 DEF Columns
  <2>6. after.balance[m.debit] \in [Columns -> Nat]
    BY <1>4, <2>1, <2>2, <2>3, <2>4 DEF Columns
  <2> QED BY <2>5, <2>6
<1>9. /\ after.balance[m.credit] \in [Columns -> Nat]
      /\ after.balance[m.credit].debits_pending = 0
      /\ after.balance[m.credit].credits_pending = 0
      /\ after.balance[m.credit].credits_posted = b[m.credit].credits_posted + n
      /\ after.balance[m.credit].debits_posted = b[m.credit].debits_posted
  <2>1. b[m.credit] \in [Columns -> Nat]
    BY <1>4, <1>5
  <2>2. mid.balance[m.credit] = [b[m.credit] EXCEPT !["credits_pending"] = @ + n]
    BY <1>1, <1>6 DEF Entry
  <2>3. after.balance[m.credit] = [mid.balance[m.credit] EXCEPT
            !["credits_pending"] = @ - n, !["credits_posted"] = @ + n]
    BY <1>1, <1>7 DEF Entry
  <2> HIDE DEF mid
  <2>4. /\ b[m.credit].debits_pending = 0 /\ b[m.credit].credits_pending = 0
        /\ b[m.credit].debits_posted \in Nat /\ b[m.credit].credits_posted \in Nat
    BY <1>4, <1>5, <2>1 DEF Columns
  <2>5. /\ after.balance[m.credit].credits_pending = 0
        /\ after.balance[m.credit].debits_pending = 0
        /\ after.balance[m.credit].credits_posted = b[m.credit].credits_posted + n
        /\ after.balance[m.credit].debits_posted = b[m.credit].debits_posted
    BY <1>4, <2>1, <2>2, <2>3, <2>4 DEF Columns
  <2>6. after.balance[m.credit] \in [Columns -> Nat]
    BY <1>4, <2>1, <2>2, <2>3, <2>4 DEF Columns
  <2> QED BY <2>5, <2>6
<1>10. \A a \in all_accounts \ {m.debit, m.credit} : after.balance[a] = b[a]
  BY <1>6, <1>7
<1>11. Quiet(after.balance)
  <2>1. \A a \in all_accounts : after.balance[a] \in [Columns -> Nat]
    BY <1>5, <1>8, <1>9, <1>10
  <2>2. after.balance \in [all_accounts -> [Columns -> Nat]]
    BY <1>7, <2>1
  <2>3. \A a \in all_accounts : /\ after.balance[a].debits_pending = 0
                                /\ after.balance[a].credits_pending = 0
    BY <1>5, <1>8, <1>9, <1>10
  <2> QED BY <2>2, <2>3 DEF Quiet
<1>12. ASSUME NEW a \in all_accounts
       PROVE  Posted(after.balance, a) = Posted(b, a) + Effect(m, a)
  <2>1. b[a].credits_posted \in Nat /\ b[a].debits_posted \in Nat
    <3>1. b[a] \in [Columns -> Nat]
      BY <1>5
    <3> QED BY <3>1 DEF Columns
  <2>2. CASE a = m.debit
    BY <1>4, <1>8, <2>1, <2>2 DEF Posted, Effect, n
  <2>3. CASE a = m.credit
    BY <1>4, <1>9, <2>1, <2>3 DEF Posted, Effect, n
  <2>4. CASE a \notin {m.debit, m.credit}
    BY <1>10, <2>1, <2>4 DEF Posted, Effect
  <2> QED BY <2>2, <2>3, <2>4
<1> QED BY <1>2, <1>3, <1>11, <1>12 DEF b

-----------------------------------------------------------------------------
(* A chain of such pairs.                                                  *)

LEMMA RunFields ==
    \A l, f : /\ [ledger |-> l, failure |-> f].ledger = l
              /\ [ledger |-> l, failure |-> f].failure = f
OBVIOUS

LEMMA StatusIsNamed == \A ledger, x : Status(ledger, x) # "none"
BY DEF Status

LEMMA CreatedIsNew ==
    \A ledger, x : Status(ledger, x) = "CREATED" => ~\E y \in ledger.transfers : y.id = x.id
BY DEF Status

\* Once a transfer of a chain has failed, the chain has: what did not fail at
\* the end has been applied in full.
LEMMA TransferRuns ==
    ASSUME NEW q, NEW z, RunTransfer(q, z).failure = "none"
    PROVE  /\ q.failure = "none" /\ Status(q.ledger, z) = "CREATED"
           /\ RunTransfer(q, z).ledger = Apply(q.ledger, z)
<1> DEFINE next == RunTransfer(q, z)
<1>1. next.failure = "none"
  OBVIOUS
<1>2. /\ q.failure # "none" => next = q
      /\ q.failure = "none" /\ Status(q.ledger, z) = "CREATED"
            => next = [ledger |-> Apply(q.ledger, z), failure |-> "none"]
      /\ q.failure = "none" /\ Status(q.ledger, z) # "CREATED"
            => next = [ledger |-> q.ledger, failure |-> Status(q.ledger, z)]
  BY DEF RunTransfer
<1> HIDE DEF next
<1>3. q.failure = "none"
  BY <1>1, <1>2
<1>4. Status(q.ledger, z) = "CREATED"
  <2>1. SUFFICES ASSUME Status(q.ledger, z) # "CREATED" PROVE FALSE
    OBVIOUS
  <2>2. next.failure = Status(q.ledger, z)
    <3>1. next = [ledger |-> q.ledger, failure |-> Status(q.ledger, z)]
      BY <1>2, <1>3, <2>1
    <3> QED BY Zenon, <3>1, RunFields
  <2> QED BY <1>1, <2>2, StatusIsNamed
<1>5. next.ledger = Apply(q.ledger, z)
  <2>1. next = [ledger |-> Apply(q.ledger, z), failure |-> "none"]
    BY <1>2, <1>3, <1>4
  <2> QED BY Zenon, <2>1, RunFields
<1> QED BY <1>3, <1>4, <1>5 DEF next

\* In a chain that does not fail, both transfers of a pair are created.
LEMMA PairRuns ==
    ASSUME NEW r, NEW x, NEW y,
           RunTransfer(RunTransfer(r, x), y).failure = "none"
    PROVE  /\ r.failure = "none" /\ Status(r.ledger, x) = "CREATED"
           /\ RunTransfer(RunTransfer(r, x), y).ledger = Apply(Apply(r.ledger, x), y)
<1>1. RunTransfer(r, x).failure = "none" /\
      RunTransfer(RunTransfer(r, x), y).ledger = Apply(RunTransfer(r, x).ledger, y)
  BY TransferRuns
<1>2. /\ r.failure = "none" /\ Status(r.ledger, x) = "CREATED"
      /\ RunTransfer(r, x).ledger = Apply(r.ledger, x)
  BY <1>1, TransferRuns
<1> QED BY <1>1, <1>2

\* Both transfers of the i-th movement in a batch of n.
Reserve(m) == Transfer(m, TRUE, TRUE)
Confirm(s, i, n) == Transfer(s[i], FALSE, 2 * i < n)
PairOf(s, i, n) == {Reserve(s[i]), Confirm(s, i, n)}

LEMMA PairIsApplied ==
    ASSUME NEW m, Sound(m),
           NEW x, x.id = m.pending_id, x.pending, x.debit = m.debit, x.credit = m.credit,
           x.amount = m.amount,
           NEW y, ~y.pending, y.debit = m.debit, y.credit = m.credit, y.amount = m.amount,
           NEW r, NEW next, next = RunTransfer(RunTransfer(r, x), y), next.failure = "none"
    PROVE  /\ r.failure = "none"
           /\ ~\E z \in r.ledger.transfers : z.id = m.pending_id
           /\ Quiet(r.ledger.balance) =>
                /\ next.ledger.transfers = r.ledger.transfers \cup {x, y}
                /\ Quiet(next.ledger.balance)
                /\ \A a \in all_accounts :
                      Posted(next.ledger.balance, a) = Posted(r.ledger.balance, a) + Effect(m, a)
<1>1. /\ r.failure = "none" /\ Status(r.ledger, x) = "CREATED"
      /\ next.ledger = Apply(Apply(r.ledger, x), y)
  BY PairRuns
<1>2. ~\E z \in r.ledger.transfers : z.id = m.pending_id
  BY <1>1, CreatedIsNew
<1>3. Quiet(r.ledger.balance) =>
         /\ next.ledger.transfers = r.ledger.transfers \cup {x, y}
         /\ Quiet(next.ledger.balance)
         /\ \A a \in all_accounts :
               Posted(next.ledger.balance, a) = Posted(r.ledger.balance, a) + Effect(m, a)
  BY <1>1, PairPosts
<1> QED BY <1>1, <1>2, <1>3

\* What a pair carries over from its movement.
LEMMA PairFields ==
    ASSUME NEW s, NEW i, NEW n
    PROVE  LET x == Reserve(s[i])
               y == Confirm(s, i, n)
               m == s[i]
           IN  /\ x.id = m.pending_id /\ x.pending /\ x.debit = m.debit
               /\ x.credit = m.credit /\ x.amount = m.amount
               /\ y.id = m.post_id /\ ~y.pending /\ y.debit = m.debit
               /\ y.credit = m.credit /\ y.amount = m.amount
BY DEF Reserve, Confirm, Transfer

\* The net effect of a trade's movements, and all of their transfers.
NetEffect(s, a) ==
    Effect(s[1], a) + Effect(s[2], a) + Effect(s[3], a) + (IF Len(s) = 4 THEN Effect(s[4], a) ELSE 0)

Transfers(s) == UNION {PairOf(s, i, 2 * Len(s)) : i \in 1..Len(s)}

LEMMA EffectType == \A m, a : Sound(m) => Effect(m, a) \in Int
BY DEF Effect, Sound

\* A chain made of three or four movements that does not fail adds all of its
\* transfers, of which the first is new, and posts all of its movements.
LEMMA ChainIsApplied ==
    ASSUME NEW s, Len(s) \in {3, 4}, \A i \in 1..Len(s) : Sound(s[i]),
           NEW ledger, Quiet(ledger.balance),
           NEW done,
           done = RunAll([ledger |-> ledger, failure |-> "none"], build_transfers(s)),
           done.failure = "none"
    PROVE  /\ ~\E y \in ledger.transfers : y.id = s[1].pending_id
           /\ done.ledger.transfers = ledger.transfers \cup Transfers(s)
           /\ Quiet(done.ledger.balance)
           /\ \A a \in all_accounts :
                 Posted(done.ledger.balance, a) = Posted(ledger.balance, a) + NetEffect(s, a)
<1> DEFINE n == 2 * Len(s)
           batch == build_transfers(s)
           start == [ledger |-> ledger, failure |-> "none"]
<1>1. n \in Nat /\ DOMAIN batch = 1..n
  BY DEF build_transfers
<1>2. PICK r : Chained(r, start, batch, n) /\ done = r[n]
  <2> HIDE DEF n, batch, start
  <2>1. done = RunAll(start, batch)
    BY DEF start, batch
  <2>2. \E r : Chained(r, start, batch, n) /\ RunAll(start, batch) = r[n]
    BY Zenon, <1>1, ChainRuns
  <2> QED BY Zenon, <2>1, <2>2
<1>3. ASSUME NEW i \in 1..Len(s)
      PROVE  r[2 * i] = RunTransfer(RunTransfer(r[2 * i - 2], Reserve(s[i])), Confirm(s, i, n))
  <2> DEFINE j == 2 * i - 1
  <2>1. /\ j \in 1..n /\ 2 * i \in 1..n /\ (j + 1) \div 2 = i /\ (2 * i + 1) \div 2 = i
        /\ j % 2 = 1 /\ (2 * i) % 2 = 0 /\ j < n
    BY <1>1
  <2>2. batch[j] = Reserve(s[i]) /\ batch[2 * i] = Confirm(s, i, n)
    <3>1. /\ batch[j] = Transfer(s[(j + 1) \div 2], j % 2 = 1, j < n)
          /\ batch[2 * i] = Transfer(s[(2 * i + 1) \div 2], (2 * i) % 2 = 1, 2 * i < n)
      BY <2>1 DEF build_transfers
    <3>2. (j % 2 = 1) = TRUE /\ (j < n) = TRUE /\ ((2 * i) % 2 = 1) = FALSE
      BY <2>1
    <3> HIDE DEF batch, j, n
    <3> QED BY Zenon, <2>1, <3>1, <3>2 DEF Reserve, Confirm
  <2>3. /\ r[(2 * i - 2) + 1] = RunTransfer(r[2 * i - 2], batch[(2 * i - 2) + 1])
        /\ r[j + 1] = RunTransfer(r[j], batch[j + 1])
    <3>1. 2 * i - 2 \in 0..(n - 1) /\ j \in 0..(n - 1)
      BY <2>1
    <3> HIDE DEF j, n, batch
    <3> QED BY <1>2, <3>1 DEF Chained
  <2>4. (2 * i - 2) + 1 = j /\ j + 1 = 2 * i
    BY <1>1
  <2> HIDE DEF j, n, batch
  <2> QED BY <2>2, <2>3, <2>4
<1> HIDE DEF n, batch
<1>4. r[0].ledger = ledger /\ Quiet(r[0].ledger.balance)
  BY <1>2 DEF Chained
<1>5. 1 \in 1..Len(s) /\ 2 \in 1..Len(s) /\ 3 \in 1..Len(s) /\ (Len(s) = 4 => 4 \in 1..Len(s))
  <2>1. CASE Len(s) = 3
    BY <2>1
  <2>2. CASE Len(s) = 4
    BY <2>2
  <2> QED BY <2>1, <2>2
<1> DEFINE Linked(i, j, k) ==
      r[k].failure = "none" =>
         /\ r[j].failure = "none"
         /\ ~\E y \in r[j].ledger.transfers : y.id = s[i].pending_id
         /\ Quiet(r[j].ledger.balance) =>
              /\ r[k].ledger.transfers = r[j].ledger.transfers \cup PairOf(s, i, n)
              /\ Quiet(r[k].ledger.balance)
              /\ \A a \in all_accounts :
                    Posted(r[k].ledger.balance, a) =
                        Posted(r[j].ledger.balance, a) + Effect(s[i], a)
<1>6. Linked(1, 0, 2) /\ Linked(2, 2, 4) /\ Linked(3, 4, 6) /\ (Len(s) = 4 => Linked(4, 6, 8))
  <2>1. ASSUME NEW i \in 1..Len(s), NEW j, NEW k, j = 2 * i - 2, k = 2 * i
        PROVE  Linked(i, j, k)
    <3>1. r[k] = RunTransfer(RunTransfer(r[j], Reserve(s[i])), Confirm(s, i, n)) /\ Sound(s[i])
      BY <1>3, <2>1
    <3> DEFINE p == r[j]
               q == r[k]
               m == s[i]
               x == Reserve(s[i])
               y == Confirm(s, i, n)
    <3>2. /\ q = RunTransfer(RunTransfer(p, x), y) /\ Sound(m)
          /\ x.id = m.pending_id /\ x.pending /\ x.debit = m.debit
          /\ x.credit = m.credit /\ x.amount = m.amount
          /\ ~y.pending /\ y.debit = m.debit /\ y.credit = m.credit /\ y.amount = m.amount
      BY <3>1, PairFields
    <3> HIDE DEF p, q, m, x, y
    <3>3. q.failure = "none" =>
            /\ p.failure = "none"
            /\ ~\E z \in p.ledger.transfers : z.id = m.pending_id
            /\ Quiet(p.ledger.balance) =>
                 /\ q.ledger.transfers = p.ledger.transfers \cup {x, y}
                 /\ Quiet(q.ledger.balance)
                 /\ \A a \in all_accounts :
                       Posted(q.ledger.balance, a) = Posted(p.ledger.balance, a) + Effect(m, a)
      BY <3>2, PairIsApplied
    <3> QED BY <3>3 DEF p, q, m, x, y, PairOf
  <2> HIDE DEF Linked
  <2>2. Linked(1, 0, 2)
    BY <1>5, <2>1
  <2>3. Linked(2, 2, 4)
    BY <1>5, <2>1
  <2>4. Linked(3, 4, 6)
    BY <1>5, <2>1
  <2>5. Len(s) = 4 => Linked(4, 6, 8)
    BY <1>5, <2>1
  <2> QED BY <2>2, <2>3, <2>4, <2>5
<1>7. r[n].failure = "none" /\ done = r[n]
  BY <1>2
<1>8. r[6].failure = "none" /\ (Len(s) = 4 => r[8].failure = "none")
  <2>1. CASE Len(s) = 3
    BY <1>7, <2>1 DEF n
  <2>2. CASE Len(s) = 4
    BY <1>6, <1>7, <2>2 DEF n
  <2> QED BY <2>1, <2>2
<1>9. r[4].failure = "none" /\ r[2].failure = "none"
  BY <1>6, <1>8
<1> DEFINE After(k, i) ==
              /\ Quiet(r[k].ledger.balance)
              /\ r[k].ledger.transfers =
                    ledger.transfers \cup UNION {PairOf(s, j, n) : j \in 1..i}
<1>10. /\ ~\E y \in ledger.transfers : y.id = s[1].pending_id
       /\ After(2, 1)
       /\ \A a \in all_accounts : Posted(r[2].ledger.balance, a) =
             Posted(ledger.balance, a) + Effect(s[1], a)
  <2>1. /\ ~\E y \in ledger.transfers : y.id = s[1].pending_id
        /\ r[2].ledger.transfers = ledger.transfers \cup PairOf(s, 1, n)
        /\ Quiet(r[2].ledger.balance)
        /\ \A a \in all_accounts : Posted(r[2].ledger.balance, a) =
              Posted(ledger.balance, a) + Effect(s[1], a)
    BY <1>4, <1>6, <1>9
  <2>2. UNION {PairOf(s, j, n) : j \in 1..1} = PairOf(s, 1, n)
    OBVIOUS
  <2> QED BY <2>1, <2>2
<1>11. /\ After(4, 2)
       /\ \A a \in all_accounts : Posted(r[4].ledger.balance, a) =
             Posted(r[2].ledger.balance, a) + Effect(s[2], a)
  <2>1. /\ r[4].ledger.transfers = r[2].ledger.transfers \cup PairOf(s, 2, n)
        /\ Quiet(r[4].ledger.balance)
        /\ \A a \in all_accounts : Posted(r[4].ledger.balance, a) =
              Posted(r[2].ledger.balance, a) + Effect(s[2], a)
    BY <1>6, <1>9, <1>10
  <2>2. UNION {PairOf(s, j, n) : j \in 1..2} =
          (UNION {PairOf(s, j, n) : j \in 1..1}) \cup PairOf(s, 2, n)
    OBVIOUS
  <2> QED BY <1>10, <2>1, <2>2
<1>12. /\ After(6, 3)
       /\ \A a \in all_accounts : Posted(r[6].ledger.balance, a) =
             Posted(r[4].ledger.balance, a) + Effect(s[3], a)
  <2>1. /\ r[6].ledger.transfers = r[4].ledger.transfers \cup PairOf(s, 3, n)
        /\ Quiet(r[6].ledger.balance)
        /\ \A a \in all_accounts : Posted(r[6].ledger.balance, a) =
              Posted(r[4].ledger.balance, a) + Effect(s[3], a)
    BY <1>6, <1>8, <1>11
  <2>2. UNION {PairOf(s, j, n) : j \in 1..3} =
          (UNION {PairOf(s, j, n) : j \in 1..2}) \cup PairOf(s, 3, n)
    OBVIOUS
  <2> QED BY <1>11, <2>1, <2>2
<1>13. \A a \in all_accounts : /\ Posted(ledger.balance, a) \in Int
                               /\ \A i \in 1..Len(s) : Effect(s[i], a) \in Int
  <2>1. \A a \in all_accounts : Posted(ledger.balance, a) \in Int
    BY DEF Quiet, Posted, Columns
  <2> QED BY <2>1, EffectType
<1>14. \A a \in all_accounts : Posted(r[6].ledger.balance, a) =
          Posted(ledger.balance, a) + Effect(s[1], a) + Effect(s[2], a) + Effect(s[3], a)
  BY <1>5, <1>10, <1>11, <1>12, <1>13
<1>15. CASE Len(s) = 3
  <2>1. n = 6 /\ Transfers(s) = UNION {PairOf(s, j, n) : j \in 1..3}
    BY <1>15 DEF n, Transfers
  <2>2. \A a \in all_accounts :
           Posted(done.ledger.balance, a) = Posted(ledger.balance, a) + NetEffect(s, a)
    BY <1>7, <1>5, <1>13, <1>14, <1>15, <2>1 DEF NetEffect
  <2> QED BY <1>7, <1>10, <1>12, <2>1, <2>2
<1>16. CASE Len(s) = 4
  <2>0. 4 \in 1..Len(s) /\ n = 8
    BY <1>16 DEF n
  <2>1. /\ r[8].ledger.transfers = r[6].ledger.transfers \cup PairOf(s, 4, n)
        /\ Quiet(r[8].ledger.balance)
        /\ \A a \in all_accounts : Posted(r[8].ledger.balance, a) =
              Posted(r[6].ledger.balance, a) + Effect(s[4], a)
    BY <1>6, <1>8, <1>12, <1>16
  <2>2. Transfers(s) = (UNION {PairOf(s, j, n) : j \in 1..3}) \cup PairOf(s, 4, n)
    <3>1. 1..4 = 1..3 \cup {4}
      OBVIOUS
    <3> QED BY <1>16, <3>1 DEF n, Transfers
  <2>3. \A a \in all_accounts :
           Posted(done.ledger.balance, a) = Posted(ledger.balance, a) + NetEffect(s, a)
    BY <1>7, <1>5, <1>13, <1>14, <1>16, <2>0, <2>1 DEF NetEffect
  <2> QED BY <1>7, <1>10, <1>12, <2>0, <2>1, <2>2, <2>3
<1> QED BY <1>15, <1>16

-----------------------------------------------------------------------------
(* A batch that is one chain.                                              *)

Before == [transfers |-> transfers, balance |-> balance]

\* The batch of three or four movements ends in its only transfer that is not
\* LINKED, so that create_transfers runs all of it as one chain.
LEMMA BatchIsOneChain ==
    ASSUME NEW s, Len(s) \in {3, 4}
    PROVE  create_transfers(build_transfers(s)) =
              RunChain([ledger |-> Before, statuses |-> {}], build_transfers(s))
<1> DEFINE batch == build_transfers(s)
           n == 2 * Len(s)
           ends == {i \in 1..Len(batch) : ~batch[i].linked}
           ChainTo(i) == SubSeq(batch, 1 + Max({j \in ends : j < i} \cup {0}), i)
           At(k) == CHOOSE i \in ends : Cardinality({j \in ends : j <= i}) = k
           chains == [k \in 1..Cardinality(ends) |-> ChainTo(At(k))]
           start == [ledger |-> Before, statuses |-> {}]
<1>1. n \in Nat \ {0} /\ batch = [i \in 1..n |-> batch[i]]
  BY DEF build_transfers
<1>2. Len(batch) = n /\ batch \in Seq({batch[i] : i \in 1..n})
  <2> DEFINE S == {batch[i] : i \in 1..n}
  <2> HIDE DEF batch, n
  <2>1. batch \in [1..n -> S]
    BY <1>1
  <2> HIDE DEF S
  <2>2. batch \in Seq(S)
    BY <1>1, <2>1, SeqDef
  <2>3. Len(batch) \in Nat /\ DOMAIN batch = 1..Len(batch) /\ DOMAIN batch = 1..n
    BY <2>1, <2>2, LenProperties
  <2>4. Len(batch) = n
    BY <1>1, <2>3
  <2> QED BY <2>2, <2>4 DEF S
<1>3. \A i \in 1..n : batch[i].linked <=> i < n
  BY DEF build_transfers, Transfer
<1>4. ends = {n}
  <2> HIDE DEF batch, n
  <2> QED BY <1>1, <1>2, <1>3
<1> HIDE DEF batch, ends, n
<1>5. Cardinality(ends) = 1
  BY <1>4, FS_Singleton
<1>6. At(1) = n
  <2>1. {j \in ends : j <= n} = {n}
    BY <1>1, <1>4
  <2>2. Cardinality({j \in ends : j <= n}) = 1
    BY <2>1, FS_Singleton
  <2> QED BY <1>4, <2>2
<1>7. ChainTo(n) = batch
  <2>1. {j \in ends : j < n} \cup {0} = {0}
    BY <1>1, <1>4
  <2>2. Max({0}) = 0
    <3>1. Max({0}) = CHOOSE x \in {0} : \A y \in {0} : x >= y
      BY DEF Max
    <3>2. \A y \in {0} : 0 >= y
      OBVIOUS
    <3> QED BY <3>1, <3>2
  <2>3. ChainTo(n) = SubSeq(batch, 1, n)
    <3>1. 1 + 0 = 1
      OBVIOUS
    <3> QED BY Zenon, <2>1, <2>2, <3>1
  <2> DEFINE S == {batch[i] : i \in 1..n}
  <2> HIDE DEF S, ChainTo
  <2>4. batch \in Seq(S)
    BY <1>2 DEF S
  <2>5. SubSeq(batch, 1, Len(batch)) = batch
    <3>1. SubSeq(batch, 1, n) = [i \in 1..n |-> batch[i]]
      BY <1>1, <1>2, <2>4
    <3> QED BY <1>1, <1>2, <3>1
  <2> QED BY <1>2, <2>3, <2>5
<1>8. chains = <<batch>>
  <2> HIDE DEF At, ChainTo
  <2>1. 1..1 = {1}
    OBVIOUS
  <2>2. chains = [k \in {1} |-> batch]
    BY <1>5, <1>6, <1>7, <2>1
  <2>3. <<batch>> = [k \in {1} |-> batch]
    BY <2>1
  <2> QED BY <2>2, <2>3
<1>9. Len(batch) \in ends
  BY <1>2, <1>4
<1>10. create_transfers(batch) = FoldLeft(RunChain, start, chains)
  BY Zenon, <1>9 DEF create_transfers, ends, Before
<1> HIDE DEF chains, start
<1>11. FoldLeft(RunChain, start, <<batch>>) = RunChain(start, batch)
  BY SingleChain
<1>12. create_transfers(batch) = RunChain(start, batch)
  BY Zenon, <1>8, <1>10, <1>11
<1> QED BY Zenon, <1>12 DEF batch, start

\* What may become of it: it has failed, leaves the ledger alone and reports
\* it, or it has been applied in full.
Outcome(s, run) ==
    \/ run.ledger = Before /\ ~Succeeded(run.statuses)
    \/ /\ Succeeded(run.statuses)
       /\ lookup_transfers(s[1].pending_id) = {}
       /\ run.ledger.transfers = transfers \cup Transfers(s)
       /\ Quiet(run.ledger.balance)
       /\ \A a \in all_accounts :
             Posted(run.ledger.balance, a) = Posted(balance, a) + NetEffect(s, a)

\* Movements as compute_postings returns them.
Postable(s) == Len(s) \in {3, 4} /\ \A i \in 1..Len(s) : Sound(s[i])

LEMMA BatchOutcome ==
    ASSUME NEW s, Postable(s), Quiet(balance),
           NEW run, run = create_transfers(build_transfers(s))
    PROVE  Outcome(s, run)
<1> DEFINE batch == build_transfers(s)
           start == [ledger |-> Before, statuses |-> {}]
           done == RunAll([ledger |-> Before, failure |-> "none"], batch)
<1>0. Len(s) \in {3, 4} /\ \A i \in 1..Len(s) : Sound(s[i])
  BY DEF Postable
<1>1. start.ledger = Before /\ start.statuses = {}
  OBVIOUS
<1>2. run = RunChain(start, batch)
  <2>1. Len(s) \in {3, 4}
    BY <1>0
  <2> QED BY <2>1, BatchIsOneChain
<1>3. Len(batch) > 1
  <2>1. 2 * Len(s) \in Nat /\ 2 * Len(s) > 1 /\ DOMAIN batch = 1..(2 * Len(s))
    <3>1. CASE Len(s) = 3
      BY <3>1 DEF build_transfers
    <3>2. CASE Len(s) = 4
      BY <3>2 DEF build_transfers
    <3> QED BY <1>0, <3>1, <3>2
  <2> HIDE DEF batch
  <2>2. Len(batch) = 2 * Len(s)
    BY <2>1
  <2> QED BY <2>1, <2>2
<1>4. /\ done.failure = "none" =>
           run = [ledger |-> done.ledger, statuses |-> {} \cup {"CREATED"}]
      /\ done.failure # "none" =>
           run = [ledger |-> Before,
                  statuses |-> {} \cup {done.failure} \cup {"LINKED_EVENT_FAILED"}]
  BY Zenon, <1>1, <1>2, <1>3 DEF RunChain, RunAll
<1>5. CASE done.failure = "none"
  <2>1. run.ledger = done.ledger /\ Succeeded(run.statuses)
    BY <1>4, <1>5 DEF Succeeded, OK
  <2>2. Quiet(Before.balance) /\ Before.transfers = transfers /\ Before.balance = balance
    BY DEF Before
  <2>3. /\ ~\E y \in Before.transfers : y.id = s[1].pending_id
        /\ done.ledger.transfers = Before.transfers \cup Transfers(s)
        /\ Quiet(done.ledger.balance)
        /\ \A a \in all_accounts :
              Posted(done.ledger.balance, a) = Posted(Before.balance, a) + NetEffect(s, a)
    <3> HIDE DEF done
    <3>1. done = RunAll([ledger |-> Before, failure |-> "none"], build_transfers(s))
      BY DEF done
    <3> QED BY <1>0, <1>5, <2>2, <3>1, ChainIsApplied
  <2>4. lookup_transfers(s[1].pending_id) = {}
    BY <2>2, <2>3 DEF lookup_transfers
  <2> QED BY <2>1, <2>2, <2>3, <2>4 DEF Outcome
<1>6. CASE done.failure # "none"
  <2>1. run.ledger = Before /\ "LINKED_EVENT_FAILED" \in run.statuses
    BY <1>4, <1>6
  <2> QED BY <2>1 DEF Succeeded, OK, Outcome
<1> QED BY <1>5, <1>6

-----------------------------------------------------------------------------
(* The movements of an accepted fill.                                      *)

LEMMA EntityFacts ==
    /\ CUSTOMER \in Entities /\ VENUE \in Entities /\ FEE \in Entities
    /\ CLEARING \in Entities
    /\ CUSTOMER # VENUE /\ CUSTOMER # FEE /\ CUSTOMER # CLEARING
    /\ VENUE # FEE /\ VENUE # CLEARING /\ FEE # CLEARING
    /\ \A e \in Entities : e \in {CUSTOMER, VENUE, FEE, CLEARING}
BY DEF Entities, CUSTOMER, VENUE, FEE, CLEARING

LEMMA AmountTypes ==
    ASSUME NEW f \in Fills, Accepted(f)
    PROVE  /\ quote_amount(f) \in Nat /\ base_amount(f) \in Nat
           /\ compute_fee(quote_amount(f)) \in Nat
<1>1. quote_amount(f) \in Int /\ base_amount(f) \in Int
  BY AmountsAreIntegers, AcceptedFill, FillsAssumption
<1>2. quote_amount(f) \in Nat /\ base_amount(f) \in Nat
  BY <1>1, AcceptedFill
<1> QED BY <1>2, FeeBounds

LEMMA IndexCases ==
    ASSUME NEW n \in {3, 4}, NEW i \in 1..n
    PROVE  i \in {1, 2, 3} \/ (n = 4 /\ i = 4)
<1>1. CASE n = 3
  BY <1>1
<1>2. CASE n = 4
  BY <1>2
<1> QED BY <1>1, <1>2

\* Every movement is one create_transfers can take, under ids of the trade.
LEMMA MovementsAreSound ==
    ASSUME NEW t, NEW f \in Fills, Accepted(f)
    PROVE  LET s == compute_postings(t, f)
           IN  /\ Len(s) \in {3, 4}
               /\ \A i \in 1..Len(s) :
                     Sound(s[i]) /\ s[i].pending_id[1] = t /\ s[i].post_id[1] = t
<1> DEFINE s == compute_postings(t, f)
           Fits(m) == Sound(m) /\ m.pending_id[1] = t /\ m.post_id[1] = t
<1>1. Len(s) \in {3, 4}
  BY MovementShapes
<1>2. ASSUME NEW name, NEW d \in Entities, NEW e \in Entities, d # e, NEW a \in Assets,
             NEW n \in Nat
      PROVE  Fits(Movement(t, name, account_id(d, a), account_id(e, a), n, a))
  <2> DEFINE m == Movement(t, name, account_id(d, a), account_id(e, a), n, a)
  <2>1. /\ m.amount = n /\ m.debit = account_id(d, a) /\ m.credit = account_id(e, a)
        /\ m.pending_id = <<t, name, "pending">> /\ m.post_id = <<t, name, "post">>
    BY DEF Movement, transfer_id
  <2>2. /\ account_id(d, a) \in all_accounts /\ account_id(e, a) \in all_accounts
        /\ account_id(d, a) # account_id(e, a)
    BY <1>2, AccountIdsUnique, AssetTable DEF all_accounts
  <2> HIDE DEF m
  <2>3. Fits(m)
    BY <1>2, <2>1, <2>2 DEF Sound
  <2> QED BY <2>3 DEF m
<1> HIDE DEF Fits, s
<1>3. /\ f.base \in Assets /\ f.quote \in Assets /\ quote_amount(f) \in Nat
      /\ base_amount(f) \in Nat /\ compute_fee(quote_amount(f)) \in Nat
  BY AcceptedFill, AmountTypes
<1>4. Fits(s[1]) /\ Fits(s[2]) /\ Fits(s[3]) /\ (Len(s) = 4 => Fits(s[4]))
  <2>1. PICK buyer, seller \in {CUSTOMER, VENUE} :
            /\ buyer # seller
            /\ s[1] = Movement(t, "quote", account_id(buyer, f.quote),
                               account_id(seller, f.quote), quote_amount(f), f.quote)
            /\ s[2] = Movement(t, "base_in", account_id(seller, f.base),
                               account_id(CLEARING, f.base), base_amount(f), f.base)
            /\ s[3] = Movement(t, "base_out", account_id(CLEARING, f.base),
                               account_id(buyer, f.base), base_amount(f), f.base)
    BY MovementShapes DEF s
  <2>2. Len(s) = 4 => s[4] = Movement(t, "fee", account_id(CUSTOMER, f.quote),
                                      account_id(FEE, f.quote),
                                      compute_fee(quote_amount(f)), f.quote)
    BY MovementShapes DEF s
  <2>3. /\ buyer \in Entities /\ seller \in Entities
        /\ CLEARING # buyer /\ CLEARING # seller
    BY EntityFacts
  <2>4. Fits(s[1])
    BY <1>2, <1>3, <2>1, <2>3
  <2>5. Fits(s[2])
    BY <1>2, <1>3, <2>1, <2>3, EntityFacts
  <2>6. Fits(s[3])
    BY <1>2, <1>3, <2>1, <2>3, EntityFacts
  <2>7. Len(s) = 4 => Fits(s[4])
    BY <1>2, <1>3, <2>2, EntityFacts
  <2> QED BY <2>4, <2>5, <2>6, <2>7
<1>5. \A i \in 1..Len(s) : Fits(s[i])
  BY <1>1, <1>4, IndexCases DEF s
<1> QED BY <1>1, <1>5 DEF s, Fits

\* What a movement of an asset comes to for an account of another entity or
\* asset: nothing.
LEMMA EffectOfMovement ==
    ASSUME NEW t, NEW name, NEW d \in Entities, NEW c \in Entities, NEW x \in Assets,
           NEW n \in Nat, NEW e \in Entities, NEW a \in Assets
    PROVE  Effect(Movement(t, name, account_id(d, x), account_id(c, x), n, x),
                  account_id(e, a)) =
              IF a = x THEN (IF e = c THEN n ELSE 0) - (IF e = d THEN n ELSE 0) ELSE 0
<1>1. /\ account_id(e, a) = account_id(c, x) <=> e = c /\ a = x
      /\ account_id(e, a) = account_id(d, x) <=> e = d /\ a = x
  BY AccountIdsUnique
<1> DEFINE m == Movement(t, name, account_id(d, x), account_id(c, x), n, x)
<1>2. m.amount = n /\ m.debit = account_id(d, x) /\ m.credit = account_id(c, x)
  BY DEF Movement
<1> HIDE DEF m
<1>3. Effect(m, account_id(e, a)) =
        IF a = x THEN (IF e = c THEN n ELSE 0) - (IF e = d THEN n ELSE 0) ELSE 0
  BY <1>1, <1>2 DEF Effect
<1> QED BY <1>3 DEF m

\* The movements come to what the fill is for each account.
LEMMA NetOfMovements ==
    ASSUME NEW t, NEW f \in Fills, Accepted(f), NEW e \in Entities, NEW a \in Assets
    PROVE  NetEffect(compute_postings(t, f), account_id(e, a)) = NetOf(f, e, a)
<1> DEFINE s == compute_postings(t, f)
           acct == account_id(e, a)
           fee == compute_fee(quote_amount(f))
           B == IF a = f.base THEN base_amount(f) ELSE 0
           Q == IF a = f.quote THEN quote_amount(f) ELSE 0
           F == IF a = f.quote THEN fee ELSE 0
           Side(c, d, n) == (IF e = c THEN n ELSE 0) - (IF e = d THEN n ELSE 0)
<1>1. /\ f.base \in Assets /\ f.quote \in Assets /\ quote_amount(f) \in Nat
      /\ base_amount(f) \in Nat /\ fee \in Nat
  BY AcceptedFill, AmountTypes
<1>2. PICK buyer, seller \in {CUSTOMER, VENUE} :
          /\ buyer # seller
          /\ buyer = CUSTOMER <=> f.side = "buy"
          /\ s[1] = Movement(t, "quote", account_id(buyer, f.quote),
                             account_id(seller, f.quote), quote_amount(f), f.quote)
          /\ s[2] = Movement(t, "base_in", account_id(seller, f.base),
                             account_id(CLEARING, f.base), base_amount(f), f.base)
          /\ s[3] = Movement(t, "base_out", account_id(CLEARING, f.base),
                             account_id(buyer, f.base), base_amount(f), f.base)
  BY MovementShapes
<1>3. /\ Len(s) = 4 <=> fee > 0
      /\ Len(s) = 4 => s[4] = Movement(t, "fee", account_id(CUSTOMER, f.quote),
                                       account_id(FEE, f.quote), fee, f.quote)
  BY MovementShapes
<1> HIDE DEF s, fee
<1>4. buyer \in Entities /\ seller \in Entities
  BY EntityFacts
<1>5. Effect(s[1], acct) = Side(seller, buyer, Q)
  BY <1>1, <1>2, <1>4, EffectOfMovement
<1>6. Effect(s[2], acct) = Side(CLEARING, seller, B)
  BY <1>1, <1>2, <1>4, EffectOfMovement, EntityFacts
<1>7. Effect(s[3], acct) = Side(buyer, CLEARING, B)
  BY <1>1, <1>2, <1>4, EffectOfMovement, EntityFacts
<1>8. (IF Len(s) = 4 THEN Effect(s[4], acct) ELSE 0) = Side(FEE, CUSTOMER, F)
  <2>1. CASE Len(s) = 4
    BY <1>1, <1>3, <2>1, EffectOfMovement, EntityFacts
  <2>2. CASE Len(s) # 4
    <3>1. fee = 0
      BY <1>1, <1>3, <2>2
    <3> QED BY <2>2, <3>1
  <2> QED BY <2>1, <2>2
<1>9. NetEffect(s, acct) = Side(seller, buyer, Q) + Side(CLEARING, seller, B)
                            + Side(buyer, CLEARING, B) + Side(FEE, CUSTOMER, F)
  BY Zenon, <1>5, <1>6, <1>7, <1>8 DEF NetEffect
<1>10. B \in Nat /\ Q \in Nat /\ F \in Nat
  BY <1>1
<1> DEFINE traded == IF f.side = "buy" THEN B - Q ELSE Q - B
<1>11. NetOf(f, e, a) = CASE e = CUSTOMER -> traded - F
                          [] e = VENUE -> -traded
                          [] e = FEE -> F
                          [] e = CLEARING -> 0
  BY DEF NetOf, fee
<1>16. SUFFICES NetEffect(s, acct) = NetOf(f, e, a)
  BY DEF s
<1> HIDE DEF B, Q, F, acct
<1>12. CASE e = CUSTOMER
  <2>1. NetOf(f, e, a) = traded - F
    BY Zenon, <1>11, <1>12, EntityFacts
  <2> QED BY <1>2, <1>9, <1>10, <1>12, <2>1, EntityFacts
<1>13. CASE e = VENUE
  <2>1. NetOf(f, e, a) = -traded
    BY Zenon, <1>11, <1>13, EntityFacts
  <2> QED BY <1>2, <1>9, <1>10, <1>13, <2>1, EntityFacts
<1>14. CASE e = FEE
  <2>1. NetOf(f, e, a) = F
    BY Zenon, <1>11, <1>14, EntityFacts
  <2> QED BY <1>2, <1>9, <1>10, <1>14, <2>1, EntityFacts
<1>15. CASE e = CLEARING
  <2>1. NetOf(f, e, a) = 0
    BY Zenon, <1>11, <1>15, EntityFacts
  <2> QED BY <1>2, <1>9, <1>10, <1>15, <2>1, EntityFacts
<1> QED BY <1>12, <1>13, <1>14, <1>15, EntityFacts

-----------------------------------------------------------------------------
(* The transfers of a trade.                                               *)

LEMMA TransfersFinite ==
    ASSUME NEW s, Len(s) \in {3, 4}
    PROVE  IsFiniteSet(Transfers(s))
<1> DEFINE P(i) == PairOf(s, i, 2 * Len(s))
<1>1. \A i : IsFiniteSet(P(i))
  <2> TAKE i
  <2>1. \A x, y : IsFiniteSet({x} \cup {y})
    BY FS_Singleton, FS_AddElement
  <2>2. P(i) = {Reserve(s[i])} \cup {Confirm(s, i, 2 * Len(s))}
    BY Zenon DEF PairOf
  <2> QED BY Zenon, <2>1, <2>2
<1>2. Transfers(s) = UNION {P(i) : i \in 1..Len(s)}
  BY DEF Transfers
<1> HIDE DEF P
<1>3. CASE Len(s) = 3
  <2>1. Transfers(s) = (P(1) \cup P(2)) \cup P(3)
    BY <1>2, <1>3, IndexCases
  <2> QED BY <1>1, <2>1, FS_Union
<1>4. CASE Len(s) = 4
  <2>1. Transfers(s) = (P(1) \cup P(2)) \cup (P(3) \cup P(4))
    BY <1>2, <1>4, IndexCases
  <2>2. IsFiniteSet(P(1) \cup P(2)) /\ IsFiniteSet(P(3) \cup P(4))
    BY <1>1, FS_Union
  <2> QED BY <2>1, <2>2, FS_Union
<1> QED BY <1>3, <1>4

\* The transfers of a trade carry its id, and those of all its movements.
LEMMA TransfersOfTrade ==
    ASSUME NEW t, NEW f \in Fills, Accepted(f), NEW s, s = compute_postings(t, f)
    PROVE  /\ IsFiniteSet(Transfers(s))
           /\ \A x \in Transfers(s) : x.id[1] = t
           /\ \A i \in 1..Len(s) :
                 /\ \E x \in Transfers(s) : x.id = s[i].pending_id
                 /\ \E x \in Transfers(s) : x.id = s[i].post_id
<1>1. /\ Len(s) \in {3, 4}
      /\ \A i \in 1..Len(s) : s[i].pending_id[1] = t /\ s[i].post_id[1] = t
  BY MovementsAreSound
<1>2. IsFiniteSet(Transfers(s))
  BY <1>1, TransfersFinite
<1>3. ASSUME NEW i \in 1..Len(s), NEW x \in PairOf(s, i, 2 * Len(s))
      PROVE  x.id[1] = t
  <2>1. /\ Reserve(s[i]).id = s[i].pending_id
        /\ Confirm(s, i, 2 * Len(s)).id = s[i].post_id
    BY DEF Reserve, Confirm, Transfer
  <2>3. x = Reserve(s[i]) \/ x = Confirm(s, i, 2 * Len(s))
    BY Zenon, <1>3 DEF PairOf
  <2>2. s[i].pending_id[1] = t /\ s[i].post_id[1] = t
    BY <1>1
  <2> QED BY Zenon, <2>1, <2>2, <2>3
<1>4. ASSUME NEW i \in 1..Len(s)
      PROVE  /\ \E x \in Transfers(s) : x.id = s[i].pending_id
             /\ \E x \in Transfers(s) : x.id = s[i].post_id
  <2> DEFINE x == Reserve(s[i])
             y == Confirm(s, i, 2 * Len(s))
  <2>1. x.id = s[i].pending_id /\ y.id = s[i].post_id
    BY DEF Reserve, Confirm, Transfer
  <2>2. x \in PairOf(s, i, 2 * Len(s)) /\ y \in PairOf(s, i, 2 * Len(s))
    BY DEF PairOf
  <2> HIDE DEF x, y
  <2>3. x \in Transfers(s) /\ y \in Transfers(s)
    BY <2>2 DEF Transfers
  <2> QED BY <2>1, <2>3
<1>5. \A x \in Transfers(s) : x.id[1] = t
  BY <1>3 DEF Transfers
<1> QED BY <1>2, <1>4, <1>5

-----------------------------------------------------------------------------
(* The trades in the ledger.                                               *)

LEMMA QuietBalance == TypeOK /\ NothingPending => Quiet(balance)
BY DEF TypeOK, NothingPending, Quiet

LEMMA KnownFill ==
    ASSUME TypeOK, NEW t \in Trades, Known(t)
    PROVE  fills[t] \in Fills /\ Accepted(fills[t])
BY DEF TypeOK, Known

\* A trade in the ledger has a transfer there, its first reservation.
LEMMA FirstOfChain ==
    ASSUME NEW t, NEW f \in Fills, Accepted(f)
    PROVE  LET s == compute_postings(t, f)
           IN  1 \in 1..Len(s) /\ s[1].pending_id[1] = t
<1> DEFINE s == compute_postings(t, f)
<1>1. Len(s) \in {3, 4} /\ \A i \in 1..Len(s) : s[i].pending_id[1] = t
  BY MovementsAreSound
<1> HIDE DEF s
<1>2. 1 \in 1..Len(s)
  BY <1>1
<1>3. 1 \in 1..Len(s) /\ s[1].pending_id[1] = t
  BY <1>1, <1>2
<1> QED BY Zenon, <1>3 DEF s

LEMMA DoneHasTransfer ==
    ASSUME TypeOK, NEW t \in Trades, PostedWhole(t)
    PROVE  \E x \in transfers : x.id[1] = t
<1>1. fills[t] \in Fills /\ Accepted(fills[t])
  BY KnownFill DEF PostedWhole
<1>2. 1 \in 1..Len(Chain(t)) /\ Chain(t)[1].pending_id[1] = t
  BY Zenon, <1>1, FirstOfChain DEF Chain
<1>3. InLedger(Chain(t)[1].pending_id)
  BY Zenon, <1>2 DEF PostedWhole
<1>4. PICK x \in transfers : x.id = Chain(t)[1].pending_id
  BY Zenon, <1>3 DEF InLedger, lookup_transfers
<1> QED BY Zenon, <1>2, <1>4

LEMMA DoneIsFinite ==
    ASSUME TypeOK
    PROVE  IsFiniteSet(Done)
<1> DEFINE f == [x \in transfers |-> x.id[1]]
           R == {f[x] : x \in transfers}
<1>1. f \in Surjection(transfers, R)
  BY DEF Surjection
<1>2. IsFiniteSet(transfers)
  BY DEF TypeOK
<1>3. \A t \in Done : t \in R
  BY DoneHasTransfer DEF Done
<1> HIDE DEF f, R
<1>4. IsFiniteSet(R)
  BY <1>1, <1>2, FS_Surjection
<1>5. Done \in SUBSET R
  BY <1>3
<1> QED BY <1>4, <1>5, FS_Subset

\* Whether a trade is in the ledger depends on its fill and on the transfers
\* that carry its id.
LEMMA OwnTransfers ==
    ASSUME TypeOK, NEW t \in Trades, fills'[t] = fills[t],
           \A x : x.id[1] = t => (x \in transfers' <=> x \in transfers)
    PROVE  PostedWhole(t)' <=> PostedWhole(t)
<1>1. (Known(t)' <=> Known(t)) /\ Chain(t)' = Chain(t)
  BY DEF Known, Chain
<1>2. CASE ~Known(t)
  BY <1>1, <1>2 DEF PostedWhole
<1>3. CASE Known(t)
  <2>1. fills[t] \in Fills /\ Accepted(fills[t])
    BY <1>3, KnownFill
  <2>2. \A i \in 1..Len(Chain(t)) :
           Chain(t)[i].pending_id[1] = t /\ Chain(t)[i].post_id[1] = t
    BY <2>1, MovementsAreSound DEF Chain
  <2>3. \A id : id[1] = t => (InLedger(id)' <=> InLedger(id))
    BY DEF InLedger, lookup_transfers
  <2> DEFINE In(i) == InLedger(Chain(t)[i].pending_id) /\ InLedger(Chain(t)[i].post_id)
  <2>4. \A i \in 1..Len(Chain(t)) : In(i)' <=> In(i)
    BY Zenon, <1>1, <2>2, <2>3 DEF InLedger, lookup_transfers
  <2>5. /\ PostedWhole(t) <=> Known(t) /\ \A i \in 1..Len(Chain(t)) : In(i)
        /\ PostedWhole(t)' <=> Known(t)' /\ \A i \in 1..Len(Chain(t)') : In(i)'
    BY Zenon DEF PostedWhole
  <2> HIDE DEF In
  <2> QED BY Zenon, <1>1, <2>4, <2>5
<1> QED BY <1>2, <1>3

-----------------------------------------------------------------------------
(* The inductive invariant.                                                *)

\* What the trades in the ledger come to for an entity in an asset.
NetAt(e, a) == SumFunctionOnSet([t \in Done |-> NetOf(fills[t], e, a)], Done)

LEMMA NetPositionsMeans ==
    NetPositions <=> \A e \in Entities, a \in Assets :
                        Posted(balance, account_id(e, a)) = NetAt(e, a)
BY Zenon, AssetTable DEF NetPositions, NetAt, Position, Posted

LEMMA NetOfIsInteger ==
    ASSUME NEW f \in Fills, Accepted(f), NEW e \in Entities, NEW a \in Assets
    PROVE  NetOf(f, e, a) \in Int
<1> DEFINE s == compute_postings("trade", f)
           b == account_id(e, a)
<1>1. Len(s) \in {3, 4} /\ \A i \in 1..Len(s) : Sound(s[i])
  BY MovementsAreSound
<1>2. NetEffect(s, b) = NetOf(f, e, a)
  BY Zenon, NetOfMovements
<1> HIDE DEF s, b
<1>3. /\ Effect(s[1], b) \in Int /\ Effect(s[2], b) \in Int /\ Effect(s[3], b) \in Int
      /\ Len(s) = 4 => Effect(s[4], b) \in Int
  <2>1. \A i \in 1..Len(s) : Effect(s[i], b) \in Int
    BY <1>1, EffectType
  <2>2. CASE Len(s) = 3
    BY <2>1, <2>2
  <2>3. CASE Len(s) = 4
    BY <2>1, <2>3
  <2> QED BY <1>1, <2>2, <2>3
<1>4. NetEffect(s, b) \in Int
  BY <1>3 DEF NetEffect
<1> QED BY <1>2, <1>4

\* The positions stay right when the trades in the ledger, their fills and the
\* posted balances do.
LEMMA SamePositions ==
    ASSUME NetPositions, Done' = Done, \A t \in Done : fills'[t] = fills[t],
           balance' = balance
    PROVE  NetPositions'
<1>1. ASSUME NEW e \in Entities, NEW a \in Assets
      PROVE  NetAt(e, a)' = NetAt(e, a)
  <2>1. [t \in Done |-> NetOf(fills[t], e, a)]' = [t \in Done |-> NetOf(fills[t], e, a)]
    OBVIOUS
  <2> QED BY Zenon, <2>1 DEF NetAt
<1>2. \A e \in Entities, a \in Assets : Posted(balance, account_id(e, a)) = NetAt(e, a)
  BY Zenon, NetPositionsMeans
<1>3. \A e \in Entities, a \in Assets : Posted(balance, account_id(e, a))' = NetAt(e, a)'
  BY Zenon, <1>1, <1>2 DEF Posted
<1> QED BY Zenon, <1>3, AssetTable DEF NetPositions, NetAt, Position, Posted

\* They are right again when a trade has been added and its movements posted.
LEMMA OneMorePosition ==
    ASSUME TypeOK, NetPositions, NEW t \in Trades, t \notin Done, Known(t),
           Done' = Done \cup {t}, fills' = fills,
           \A a \in all_accounts :
              Posted(balance, a)' = Posted(balance, a) + NetEffect(Chain(t), a)
    PROVE  NetPositions'
<1>1. ASSUME NEW e \in Entities, NEW a \in Assets
      PROVE  Posted(balance, account_id(e, a))' = NetAt(e, a)'
  <2> DEFINE f == [u \in Done |-> NetOf(fills[u], e, a)]
             g == [u \in Done \cup {t} |-> NetOf(fills[u], e, a)]
  <2>1. \A u \in Done \cup {t} : fills[u] \in Fills /\ Accepted(fills[u])
    BY KnownFill DEF Done, PostedWhole
  <2>2. \A u \in Done \cup {t} : g[u] \in Int
    BY <2>1, NetOfIsInteger
  <2>3. \A u \in Done : f[u] = g[u]
    OBVIOUS
  <2>4. g[t] = NetEffect(Chain(t), account_id(e, a))
    <3>1. NetEffect(Chain(t), account_id(e, a)) = NetOf(fills[t], e, a)
      BY Zenon, <2>1, NetOfMovements DEF Chain
    <3> QED BY <3>1
  <2>5. NetAt(e, a) = SumFunctionOnSet(f, Done)
    BY Zenon DEF NetAt
  <2>6. NetAt(e, a)' = SumFunctionOnSet(g, Done \cup {t})
    BY Zenon DEF NetAt
  <2>7. account_id(e, a) \in all_accounts
    BY AssetTable DEF all_accounts
  <2>8. Posted(balance, account_id(e, a)) = NetAt(e, a)
    BY Zenon, NetPositionsMeans
  <2> HIDE DEF f, g
  <2>9. IsFiniteSet(Done)
    BY DoneIsFinite
  <2>10. \A u \in Done : f[u] \in Int /\ f[u] = g[u]
    BY <2>2, <2>3
  <2>11. SumFunctionOnSet(f, Done) = SumFunctionOnSet(g, Done)
    BY <2>9, <2>10, SumSame
  <2>12. SumFunctionOnSet(g, Done \cup {t}) = g[t] + SumFunctionOnSet(g, Done)
    BY <2>2, <2>9, SumAdd
  <2>13. SumFunctionOnSet(g, Done) \in Int
    BY <2>2, <2>9, SumType
  <2>14. Posted(balance, account_id(e, a))' = Posted(balance, account_id(e, a)) + g[t]
    BY Zenon, <2>4, <2>7
  <2>15. g[t] \in Int
    BY <2>2
  <2> QED BY <2>5, <2>6, <2>8, <2>11, <2>12, <2>13, <2>14, <2>15
<1> QED BY Zenon, <1>1, AssetTable DEF NetPositions, NetAt, Position, Posted

LEMMA InitIInv == Init => IInv
<1> SUFFICES ASSUME Init PROVE IInv
  OBVIOUS
<1>1. TypeOK
  <2>1. Zero \in [Columns -> Nat]
    BY DEF Zero
  <2>2. balance \in [all_accounts -> [Columns -> Nat]] /\ IsFiniteSet(transfers)
    BY <2>1, FS_EmptySet DEF Init
  <2>3. wipes \in 0..MaxWipes /\ accounts \subseteq all_accounts /\ settled \subseteq Trades
    BY WipesAssumption DEF Init
  <2>4. fills \in [Trades -> Fills \cup {None}] /\ ready \in BOOLEAN
    BY DEF Init
  <2> QED BY <2>2, <2>3, <2>4 DEF TypeOK
<1>2. NothingPending
  BY DEF Init, NothingPending, Zero, Columns
<1>3. Whole /\ SettledIsPosted
  BY DEF Init, Whole, SettledIsPosted
<1>4. Done = {}
  <2>1. \A t \in Trades : ~PostedWhole(t)
    BY DEF Init, PostedWhole, Known
  <2> QED BY <2>1 DEF Done
<1>5. \A e \in Entities, a \in Assets : Posted(balance, account_id(e, a)) = NetAt(e, a)
  <2>1. \A e, a : NetAt(e, a) = 0
    BY Zenon, <1>4, SumEmpty DEF NetAt
  <2>2. \A e \in Entities, a \in Assets : Posted(balance, account_id(e, a)) = 0
    BY AssetTable DEF Init, Posted, Zero, Columns, all_accounts
  <2> QED BY <2>1, <2>2
<1>6. NetPositions
  BY Zenon, <1>5, NetPositionsMeans
<1> QED BY <1>1, <1>2, <1>3, <1>6 DEF IInv

\* A fill is executed: the trade is not in the ledger before or after.
LEMMA ExecuteStep ==
    ASSUME IInv, NEW t \in Trades, Execute(t)
    PROVE  IInv' /\ Done' = Done
<1>1. TypeOK /\ NothingPending /\ Whole /\ SettledIsPosted /\ NetPositions
  BY DEF IInv
<1>2. /\ fills[t] = None /\ transfers' = transfers /\ balance' = balance
      /\ settled' = settled
      /\ \A u \in Trades : u # t => fills'[u] = fills[u]
  BY <1>1 DEF Execute, TypeOK
<1>3. TypeOK'
  BY <1>1 DEF Execute, TypeOK
<1>4. ~PostedWhole(t)
  BY <1>2 DEF PostedWhole, Known
<1>5. \A x \in transfers : x.id[1] # t
  BY <1>1, <1>4 DEF Whole
<1>6. ~PostedWhole(t)'
  <2> SUFFICES ASSUME PostedWhole(t)'
               PROVE  FALSE
    OBVIOUS
  <2>1. fills'[t] \in Fills /\ Accepted(fills'[t])
    BY <1>3 DEF PostedWhole, Known, TypeOK
  <2> DEFINE s == compute_postings(t, fills'[t])
  <2>2. 1 \in 1..Len(s) /\ s[1].pending_id[1] = t
    BY Zenon, <2>1, FirstOfChain
  <2>3. \E x \in transfers' : x.id = s[1].pending_id
    BY <2>2 DEF PostedWhole, Chain, InLedger, lookup_transfers
  <2> QED BY Zenon, <1>2, <1>5, <2>2, <2>3
<1>7. \A u \in Trades : PostedWhole(u)' <=> PostedWhole(u)
  <2>1. ASSUME NEW u \in Trades, u # t
        PROVE  PostedWhole(u)' <=> PostedWhole(u)
    BY <1>1, <1>2, <2>1, OwnTransfers
  <2> QED BY <1>4, <1>6, <2>1
<1>8. Done' = Done
  BY Zenon, <1>7 DEF Done
<1>9. Whole' /\ SettledIsPosted'
  BY <1>1, <1>2, <1>3, <1>7 DEF Whole, SettledIsPosted, TypeOK
<1>10. NothingPending'
  BY <1>1, <1>2 DEF NothingPending
<1>11. \A u \in Done : fills'[u] = fills[u]
  BY <1>2, <1>4 DEF Done
<1>12. NetPositions'
  BY <1>1, <1>2, <1>8, <1>11, SamePositions
<1> QED BY <1>3, <1>8, <1>9, <1>10, <1>12 DEF IInv

\* Nothing of the ledger's transfers changes.
LEMMA QuietStep ==
    ASSUME IInv, TypeOK', transfers' = transfers, balance' = balance, fills' = fills,
           \A u \in settled' : u \in settled \/ (u \in Trades /\ PostedWhole(u))
    PROVE  IInv' /\ Done' = Done
<1>1. TypeOK /\ NothingPending /\ Whole /\ SettledIsPosted /\ NetPositions
  BY DEF IInv
<1>2. \A u \in Trades : PostedWhole(u)' <=> PostedWhole(u)
  BY <1>1, OwnTransfers
<1>3. Done' = Done
  BY Zenon, <1>2 DEF Done
<1>4. Whole' /\ SettledIsPosted'
  BY <1>1, <1>2 DEF Whole, SettledIsPosted, TypeOK
<1>5. NothingPending'
  BY <1>1 DEF NothingPending
<1>6. NetPositions'
  BY <1>1, <1>3, SamePositions
<1> QED BY <1>1, <1>3, <1>4, <1>5, <1>6 DEF IInv

\* settle skips a trade whose first pending id is found, and the presence of
\* that one transfer is enough: the whole chain is there.
LEMMA SettleSkippedStep ==
    ASSUME IInv, NEW t \in Trades, SettleSkipped(t)
    PROVE  IInv' /\ Done' = Done
<1>1. TypeOK /\ Whole
  BY DEF IInv
<1>2. TypeOK'
  BY <1>1 DEF SettleSkipped, TypeOK
<1>3. fills[t] \in Fills /\ Accepted(fills[t])
  BY <1>1 DEF SettleSkipped, TypeOK
<1>4. \E x \in transfers : x.id = compute_postings(t, fills[t])[1].pending_id
  BY Zenon DEF SettleSkipped, lookup_transfers
<1>5. compute_postings(t, fills[t])[1].pending_id[1] = t
  BY Zenon, <1>3, FirstOfChain
<1>6. PostedWhole(t)
  BY Zenon, <1>1, <1>4, <1>5 DEF Whole
<1>7. /\ transfers' = transfers /\ balance' = balance /\ fills' = fills
      /\ settled' = settled \cup {t}
  BY DEF SettleSkipped
<1> QED BY <1>2, <1>6, <1>7, QuietStep

\* A trade gets into the ledger, and its movements into the balances.
Booked(t) ==
    /\ Known(t)
    /\ t \notin Done
    /\ Done' = Done \cup {t}
    /\ \A a \in all_accounts :
          Posted(balance, a)' = Posted(balance, a) + NetEffect(Chain(t), a)

\* The chain is created whole, or the ledger stays as it is and settle raises.
LEMMA SettleCreatedStep ==
    ASSUME IInv, NEW t \in Trades, SettleCreated(t)
    PROVE  IInv' /\ (Booked(t) \/ (Done' = Done /\ balance' = balance))
<1> DEFINE s == compute_postings(t, fills[t])
           run == create_transfers(build_transfers(s))
<1>1. TypeOK /\ NothingPending /\ Whole /\ SettledIsPosted /\ NetPositions
  BY DEF IInv
<1>2. fills[t] \in Fills /\ Accepted(fills[t]) /\ Known(t)
  BY <1>1 DEF SettleCreated, TypeOK, Known
<1>3. Len(s) \in {3, 4} /\ \A i \in 1..Len(s) : Sound(s[i])
  BY <1>2, MovementsAreSound
<1>4. s[1].pending_id[1] = t
  BY Zenon, <1>2, FirstOfChain
<1>5. Quiet(balance)
  BY <1>1, QuietBalance
<1>6. /\ transfers' = run.ledger.transfers /\ balance' = run.ledger.balance
      /\ settled' = IF Succeeded(run.statuses) THEN settled \cup {t} ELSE settled
      /\ UNCHANGED <<fills, accounts, ready, wipes>>
  BY Zenon DEF SettleCreated
<1>7. s = Chain(t)
  BY DEF Chain
<1>8. /\ IsFiniteSet(Transfers(s))
      /\ \A x \in Transfers(s) : x.id[1] = t
      /\ \A i \in 1..Len(s) :
            /\ \E x \in Transfers(s) : x.id = s[i].pending_id
            /\ \E x \in Transfers(s) : x.id = s[i].post_id
  <2> HIDE DEF s
  <2>1. s = compute_postings(t, fills[t])
    BY DEF s
  <2> QED BY <1>2, <2>1, TransfersOfTrade
<1> HIDE DEF s
<1>9. Outcome(s, run)
  <2> HIDE DEF run
  <2>1. run = create_transfers(build_transfers(s))
    BY DEF run
  <2>2. Postable(s)
    BY <1>3 DEF Postable
  <2> QED BY Zenon, <1>5, <2>1, <2>2, BatchOutcome
<1> HIDE DEF run
<1>10. CASE run.ledger = Before /\ ~Succeeded(run.statuses)
  <2>1. transfers' = transfers /\ balance' = balance /\ settled' = settled /\ fills' = fills
    BY <1>6, <1>10 DEF Before
  <2>2. TypeOK'
    BY <1>1, <1>6, <2>1 DEF TypeOK
  <2> QED BY <2>1, <2>2, QuietStep
<1>11. CASE /\ Succeeded(run.statuses)
            /\ lookup_transfers(s[1].pending_id) = {}
            /\ run.ledger.transfers = transfers \cup Transfers(s)
            /\ Quiet(run.ledger.balance)
            /\ \A a \in all_accounts :
                  Posted(run.ledger.balance, a) = Posted(balance, a) + NetEffect(s, a)
  <2>1. /\ transfers' = transfers \cup Transfers(s) /\ settled' = settled \cup {t}
        /\ fills' = fills /\ Quiet(balance') /\ accounts' = accounts
        /\ ready' = ready /\ wipes' = wipes
        /\ \A a \in all_accounts : Posted(balance', a) = Posted(balance, a) + NetEffect(s, a)
    BY <1>6, <1>11
  <2>2. TypeOK'
    <3>1. IsFiniteSet(transfers')
      BY <1>1, <1>8, <2>1, FS_Union DEF TypeOK
    <3>2. balance' \in [all_accounts -> [Columns -> Nat]]
      BY <2>1 DEF Quiet
    <3> QED BY <1>1, <2>1, <3>1, <3>2 DEF TypeOK
  <2>3. NothingPending'
    BY <2>1 DEF Quiet, NothingPending
  <2>4. ~PostedWhole(t)
    <3>1. 1 \in 1..Len(s)
      BY <1>3
    <3>2. ~InLedger(Chain(t)[1].pending_id)
      BY Zenon, <1>7, <1>11 DEF InLedger
    <3> QED BY Zenon, <1>7, <3>1, <3>2 DEF PostedWhole
  <2>5. PostedWhole(t)'
    <3>1. Known(t)' /\ Chain(t)' = s
      BY Zenon, <1>2, <1>7, <2>1 DEF Known, Chain
    <3>2. \A i \in 1..Len(s) :
             /\ \E x \in transfers' : x.id = s[i].pending_id
             /\ \E x \in transfers' : x.id = s[i].post_id
      BY Zenon, <1>8, <2>1
    <3> QED BY <3>1, <3>2 DEF PostedWhole, InLedger, lookup_transfers
  <2>6. ASSUME NEW u \in Trades, u # t
        PROVE  PostedWhole(u)' <=> PostedWhole(u)
    <3>1. \A x : x.id[1] = u => (x \in transfers' <=> x \in transfers)
      BY <1>8, <2>1, <2>6
    <3>2. fills'[u] = fills[u]
      BY <2>1
    <3> QED BY <1>1, <3>1, <3>2, OwnTransfers
  <2>7. Done' = Done \cup {t} /\ t \notin Done
    BY <2>4, <2>5, <2>6 DEF Done
  <2>8. \A u \in Trades : PostedWhole(u) => PostedWhole(u)'
    BY <2>5, <2>6
  <2>9. Whole'
    <3>1. \A x \in transfers : x.id[1] \in Trades /\ PostedWhole(x.id[1])'
      BY <1>1, <2>8 DEF Whole
    <3>2. \A x \in Transfers(s) : x.id[1] \in Trades /\ PostedWhole(x.id[1])'
      BY <1>8, <2>5
    <3> QED BY <2>1, <3>1, <3>2 DEF Whole
  <2>10. SettledIsPosted'
    BY <1>1, <2>1, <2>5, <2>8 DEF SettledIsPosted, TypeOK
  <2>11. \A a \in all_accounts :
            Posted(balance, a)' = Posted(balance, a) + NetEffect(Chain(t), a)
    BY <1>7, <2>1 DEF Posted
  <2>12. NetPositions'
    BY <1>1, <1>2, <2>1, <2>7, <2>11, OneMorePosition
  <2>13. Booked(t)
    BY <1>2, <2>7, <2>11 DEF Booked
  <2> QED BY <2>2, <2>3, <2>9, <2>10, <2>12, <2>13 DEF IInv
<1> QED BY Zenon, <1>9, <1>10, <1>11 DEF Outcome

\* The data file is lost: nothing is in the ledger, and nothing is settled.
LEMMA WipeStep ==
    ASSUME IInv, Wipe
    PROVE  /\ IInv' /\ Done' = {}
           /\ \A e \in Entities, a \in Assets : Posted(balance, account_id(e, a))' = 0
<1>1. TypeOK
  BY DEF IInv
<1>2. TypeOK'
  BY <1>1, FS_EmptySet, WipesAssumption DEF Wipe, TypeOK, Zero
<1>3. NothingPending'
  BY DEF Wipe, NothingPending, Zero, Columns
<1>4. Whole' /\ SettledIsPosted'
  BY DEF Wipe, Whole, SettledIsPosted
<1>5. Done' = {}
  <2>1. ASSUME NEW t \in Trades, PostedWhole(t)'
        PROVE  FALSE
    <3>1. fills[t] \in Fills /\ Accepted(fills[t]) /\ fills' = fills
      BY <1>1, <2>1 DEF Wipe, PostedWhole, Known, TypeOK
    <3>2. 1 \in 1..Len(Chain(t)') /\ Chain(t)' = Chain(t)
      BY Zenon, <3>1, FirstOfChain DEF Chain
    <3>3. InLedger(Chain(t)[1].pending_id)'
      BY Zenon, <2>1, <3>2 DEF PostedWhole, InLedger, lookup_transfers
    <3> QED BY <3>3 DEF InLedger, lookup_transfers, Wipe
  <2> QED BY <2>1 DEF Done
<1>6. \A e \in Entities, a \in Assets : Posted(balance, account_id(e, a))' = 0
  BY AssetTable DEF Wipe, Posted, Zero, Columns, all_accounts
<1>7. \A e, a : NetAt(e, a)' = 0
  BY Zenon, <1>5, SumEmpty DEF NetAt
<1>8. NetPositions'
  <2>1. \A e \in Entities, a \in Assets : Posted(balance, account_id(e, a))' = NetAt(e, a)'
    BY <1>6, <1>7
  <2> QED BY Zenon, <2>1, AssetTable DEF NetPositions, NetAt, Position, Posted
<1> QED BY <1>2, <1>3, <1>4, <1>5, <1>6, <1>8 DEF IInv

\* Every step preserves the invariant.
LEMMA NextIInv ==
    ASSUME IInv, [Next]_vars
    PROVE  IInv'
<1>1. CASE ensure_accounts
  <2>1. TypeOK'
    BY <1>1 DEF IInv, ensure_accounts, TypeOK
  <2> QED BY <1>1, <2>1, QuietStep DEF ensure_accounts
<1>2. CASE Wipe
  BY <1>2, WipeStep
<1>3. ASSUME NEW t \in Trades, Execute(t)
      PROVE  IInv'
  BY <1>3, ExecuteStep
<1>4. ASSUME NEW t \in Trades, SettleSkipped(t)
      PROVE  IInv'
  BY <1>4, SettleSkippedStep
<1>5. ASSUME NEW t \in Trades, SettleCreated(t)
      PROVE  IInv'
  BY <1>5, SettleCreatedStep
<1>6. CASE UNCHANGED vars
  <2>1. TypeOK'
    BY <1>6 DEF IInv, vars, TypeOK
  <2> QED BY <1>6, <2>1, QuietStep DEF vars
<1> QED BY <1>1, <1>2, <1>3, <1>4, <1>5, <1>6 DEF Next

\* The ledger's balances and its transfers stay consistent: nothing is
\* reserved, every transfer belongs to a trade whose whole chain is there, what
\* is settled is in the ledger, and the balances are those trades' positions.
THEOREM InvariantHolds == Spec => []IInv
<1>1. Init => IInv
  BY InitIInv
<1>2. IInv /\ [Next]_vars => IInv'
  BY NextIInv
<1> QED BY <1>1, <1>2, PTL DEF Spec

-----------------------------------------------------------------------------
(* What follows from it.                                                   *)

\* The ledger's state keeps its types: accounts of the chart only, finitely
\* many transfers, no counter below zero.
THEOREM TypeCorrect == Spec => []TypeOK
<1>1. IInv => TypeOK
  BY DEF IInv
<1> QED BY <1>1, InvariantHolds, PTL

\* "The presence of the first pending id implies the entire settlement
\* committed": any transfer that carries a trade's id is there with the whole
\* chain, whichever accounts were missing when it was created.
THEOREM ChainIsAtomic == Spec => []ChainAtomic
<1>1. IInv => ChainAtomic
  BY DEF IInv, Whole, ChainAtomic
<1> QED BY <1>1, InvariantHolds, PTL

\* settle returns normally, by the skip or by the chain it creates, only for a
\* trade that is in the ledger whole.
THEOREM SettledIsInLedger == Spec => []SettledIsPosted
<1>1. IInv => SettledIsPosted
  BY DEF IInv
<1> QED BY <1>1, InvariantHolds, PTL

\* No batch leaves a reservation behind, and none that fails does either.
THEOREM NothingStaysReserved == Spec => []NothingPending
<1>1. IInv => NothingPending
  BY DEF IInv
<1> QED BY <1>1, InvariantHolds, PTL

\* The posted balance of every account is what the trades in the ledger come
\* to for it, each counted once, however often and by however many replicas
\* they were submitted.
THEOREM PositionsAreRight == Spec => []NetPositions
<1>1. IInv => NetPositions
  BY DEF IInv
<1> QED BY <1>1, InvariantHolds, PTL

-----------------------------------------------------------------------------
(* Money is neither made nor lost.                                         *)

\* What the four entities have in an asset adds up to nothing, and clearing
\* has nothing.
BooksBalance ==
    \A a \in Assets :
        /\ Position(CLEARING, a) = 0
        /\ Position(CUSTOMER, a) + Position(VENUE, a) + Position(FEE, a) = 0

\* One fill moves nothing in or out.
LEMMA FillsBalance ==
    ASSUME NEW f \in Fills, Accepted(f), NEW a \in Assets
    PROVE  /\ NetOf(f, CLEARING, a) = 0
           /\ NetOf(f, CUSTOMER, a) + NetOf(f, VENUE, a) + NetOf(f, FEE, a) = 0
<1> DEFINE B == IF a = f.base THEN base_amount(f) ELSE 0
           Q == IF a = f.quote THEN quote_amount(f) ELSE 0
           F == IF a = f.quote THEN compute_fee(quote_amount(f)) ELSE 0
           traded == IF f.side = "buy" THEN B - Q ELSE Q - B
<1>1. B \in Int /\ Q \in Int /\ F \in Int
  BY AmountTypes
<1>2. \A e : NetOf(f, e, a) = CASE e = CUSTOMER -> traded - F
                                [] e = VENUE -> -traded
                                [] e = FEE -> F
                                [] e = CLEARING -> 0
  BY Zenon DEF NetOf
<1> HIDE DEF B, Q, F
<1>3. traded \in Int
  BY <1>1
<1> HIDE DEF traded
<1>4. NetOf(f, CUSTOMER, a) = traded - F
  BY Zenon, <1>2, EntityFacts
<1>5. NetOf(f, VENUE, a) = -traded
  BY Zenon, <1>2, EntityFacts
<1>6. NetOf(f, FEE, a) = F
  BY Zenon, <1>2, EntityFacts
<1>7. NetOf(f, CLEARING, a) = 0
  BY Zenon, <1>2, EntityFacts
<1> QED BY <1>1, <1>3, <1>4, <1>5, <1>6, <1>7

\* In every asset, whatever was traded, refused, submitted again or lost, what
\* one entity has gained the others have given, and clearing is empty.
THEOREM MoneyIsConserved == Spec => []BooksBalance
<1>1. ASSUME IInv, NEW a \in Assets
      PROVE  /\ Position(CLEARING, a) = 0
             /\ Position(CUSTOMER, a) + Position(VENUE, a) + Position(FEE, a) = 0
  <2> DEFINE Of(e) == [t \in Done |-> NetOf(fills[t], e, a)]
             c == Of(CUSTOMER)
             v == Of(VENUE)
             w == Of(FEE)
             x == Of(CLEARING)
             cv == [t \in Done |-> c[t] + v[t]]
             cvw == [t \in Done |-> cv[t] + w[t]]
  <2>1. \A e \in Entities : Position(e, a) = SumFunctionOnSet(Of(e), Done)
    BY Zenon, <1>1, AssetTable DEF IInv, NetPositions
  <2>2. IsFiniteSet(Done)
    BY <1>1, DoneIsFinite DEF IInv
  <2>3. \A t \in Done : fills[t] \in Fills /\ Accepted(fills[t])
    BY <1>1, KnownFill DEF IInv, Done, PostedWhole
  <2>4. \A t \in Done : /\ c[t] \in Int /\ v[t] \in Int /\ w[t] \in Int
                        /\ x[t] = 0 /\ c[t] + v[t] + w[t] = 0
    BY <2>3, NetOfIsInteger, FillsBalance, EntityFacts
  <2>5. /\ Position(CUSTOMER, a) = SumFunctionOnSet(c, Done)
        /\ Position(VENUE, a) = SumFunctionOnSet(v, Done)
        /\ Position(FEE, a) = SumFunctionOnSet(w, Done)
        /\ Position(CLEARING, a) = SumFunctionOnSet(x, Done)
    BY Zenon, <2>1, EntityFacts
  <2> HIDE DEF c, v, w, x
  <2>6. \A t \in Done : cv[t] \in Int /\ cv[t] = c[t] + v[t]
    BY <2>4
  <2>7. \A t \in Done : cvw[t] = cv[t] + w[t] /\ cvw[t] = 0
    BY <2>4
  <2> HIDE DEF cv, cvw
  <2>8. SumFunctionOnSet(cv, Done) = SumFunctionOnSet(c, Done) + SumFunctionOnSet(v, Done)
    BY <2>2, <2>4, <2>6, SumOfSums
  <2>9. SumFunctionOnSet(cvw, Done) = SumFunctionOnSet(cv, Done) + SumFunctionOnSet(w, Done)
    BY <2>2, <2>4, <2>6, <2>7, SumOfSums
  <2>10. SumFunctionOnSet(cvw, Done) = 0
    BY <2>2, <2>7, SumZero
  <2>11. SumFunctionOnSet(x, Done) = 0
    BY <2>2, <2>4, SumZero
  <2>12. SumFunctionOnSet(c, Done) + SumFunctionOnSet(v, Done) + SumFunctionOnSet(w, Done) = 0
    BY <2>8, <2>9, <2>10
  <2> QED BY Zenon, <2>5, <2>11, <2>12
<1>2. IInv => BooksBalance
  BY <1>1 DEF BooksBalance
<1> QED BY <1>2, InvariantHolds, PTL

-----------------------------------------------------------------------------
(* The ledger implements the book.                                         *)

\* The net posted balances, as the book keeps them.
Balances == [p \in Positions |-> Position(p[1], p[2])]

LEMMA PositionsAreOfTheChart ==
    /\ \A p \in Positions : /\ p[1] \in Entities /\ p[2] \in Assets
                            /\ account_id(p[1], p[2]) \in all_accounts
    /\ \A e, a : Position(e, a) = Posted(balance, account_id(e, a))
    /\ \A e, a : Position(e, a)' = Posted(balance, account_id(e, a))'
<1>1. \A p \in Positions : /\ p[1] \in Entities /\ p[2] \in Assets
                           /\ account_id(p[1], p[2]) \in all_accounts
  BY AssetTable DEF Positions, all_accounts
<1>2. /\ \A e, a : Position(e, a) = Posted(balance, account_id(e, a))
      /\ \A e, a : Position(e, a)' = Posted(balance, account_id(e, a))'
  BY Zenon DEF Position, Posted
<1> QED BY Zenon, <1>1, <1>2

LEMMA BookInit == Init => Book!Init
<1> SUFFICES ASSUME Init PROVE Book!Init
  OBVIOUS
<1>1. Done = {}
  <2>1. \A t \in Trades : ~PostedWhole(t)
    BY DEF Init, PostedWhole, Known
  <2> QED BY <2>1 DEF Done
<1>2. \A p \in Positions : Position(p[1], p[2]) = 0
  <2>1. \A a \in all_accounts : Posted(balance, a) = 0
    BY DEF Init, Posted, Zero, Columns
  <2> QED BY <2>1, PositionsAreOfTheChart
<1>3. fills = [t \in Trades |-> None]
  BY DEF Init
<1> QED BY <1>1, <1>2, <1>3 DEF Book!Init, Book!Flat

\* Every step of the ledger books one trade, is one of the log or of the loss of
\* the data file, or changes nothing the book can see.
LEMMA BookStep ==
    ASSUME IInv, [Next]_vars
    PROVE  [Book!Next]_(Book!vars)
<1>1. ASSUME Done' = Done, balance' = balance, fills' = fills
      PROVE  UNCHANGED Book!vars
  BY <1>1 DEF Book!vars, Position
<1>2. CASE ensure_accounts
  <2>1. TypeOK'
    BY <1>2 DEF IInv, ensure_accounts, TypeOK
  <2>2. Done' = Done
    BY <1>2, <2>1, QuietStep DEF ensure_accounts
  <2> QED BY <1>1, <1>2, <2>2 DEF ensure_accounts
<1>3. CASE Wipe
  <2>1. Done' = {}
    BY <1>3, WipeStep
  <2>2. \A p \in Positions : Position(p[1], p[2])' = 0
    BY <1>3, WipeStep, PositionsAreOfTheChart
  <2>3. fills' = fills
    BY <1>3 DEF Wipe
  <2>4. Book!Lose
    BY <2>1, <2>2, <2>3 DEF Book!Lose, Book!Flat
  <2> QED BY <2>4 DEF Book!Next
<1>4. ASSUME NEW t \in Trades, Execute(t)
      PROVE  Book!Execute(t)
  <2>1. Done' = Done
    BY <1>4, ExecuteStep
  <2>2. balance' = balance /\ fills[t] = None /\ \E f \in Fills : fills' = [fills EXCEPT ![t] = f]
    BY <1>4 DEF Execute
  <2>3. Balances' = Balances
    BY <2>2 DEF Balances, Position
  <2> QED BY <2>1, <2>2, <2>3 DEF Book!Execute, Balances
<1>5. ASSUME NEW t \in Trades, SettleSkipped(t)
      PROVE  UNCHANGED Book!vars
  <2>1. Done' = Done
    BY <1>5, SettleSkippedStep
  <2> QED BY <1>1, <1>5, <2>1 DEF SettleSkipped
<1>6. ASSUME NEW t \in Trades, SettleCreated(t)
      PROVE  Book!Book(t) \/ UNCHANGED Book!vars
  <2>1. fills' = fills
    BY <1>6 DEF SettleCreated
  <2>2. Booked(t) \/ (Done' = Done /\ balance' = balance)
    BY <1>6, SettleCreatedStep
  <2>3. CASE Booked(t)
    <3>1. fills[t] \in Fills /\ Accepted(fills[t])
      BY <2>3, KnownFill DEF IInv, Booked
    <3>2. ASSUME NEW p \in Positions
          PROVE  Position(p[1], p[2])' = Position(p[1], p[2]) + NetOf(fills[t], p[1], p[2])
      <4>1. p[1] \in Entities /\ p[2] \in Assets /\ account_id(p[1], p[2]) \in all_accounts
        BY PositionsAreOfTheChart
      <4>2. NetEffect(Chain(t), account_id(p[1], p[2])) = NetOf(fills[t], p[1], p[2])
        BY Zenon, <3>1, <4>1, NetOfMovements DEF Chain
      <4>3. Posted(balance, account_id(p[1], p[2]))'
              = Posted(balance, account_id(p[1], p[2])) + NetOf(fills[t], p[1], p[2])
        BY Zenon, <2>3, <4>1, <4>2 DEF Booked
      <4> QED BY Zenon, <4>3, PositionsAreOfTheChart
    <3>3. fills[t] \in Good /\ \A p \in Positions : Net[fills[t]][p] = NetOf(fills[t], p[1], p[2])
      BY <3>1 DEF Good, Net
    <3>4. Balances' = [p \in Positions |-> Balances[p] + Net[fills[t]][p]]
      BY <3>2, <3>3 DEF Balances
    <3>5. t \notin Done /\ Done' = Done \cup {t}
      BY <2>3 DEF Booked
    <3>6. Book!Book(t)
      BY <2>1, <3>3, <3>4, <3>5 DEF Book!Book, Balances
    <3> QED BY <3>6
  <2> QED BY <1>1, <2>1, <2>2, <2>3
<1>7. CASE UNCHANGED vars
  <2>1. TypeOK'
    BY <1>7 DEF IInv, vars, TypeOK
  <2>2. Done' = Done
    BY <1>7, <2>1, QuietStep DEF vars
  <2> QED BY <1>1, <1>7, <2>2 DEF vars
<1> QED BY <1>2, <1>3, <1>4, <1>5, <1>6, <1>7 DEF Next, Book!Next

\* For any trades, fills and losses, the ledger implements the book: a batch
\* books its trade whole and for the first time, or nothing has happened.
THEOREM Refinement == Spec => ImplementsBook
<1>1. Init => Book!Init
  BY BookInit
<1>2. IInv /\ [Next]_vars => [Book!Next]_(Book!vars)
  BY BookStep
<1> QED BY <1>1, <1>2, InvariantHolds, PTL DEF Spec, ImplementsBook, Book!Spec
=============================================================================
