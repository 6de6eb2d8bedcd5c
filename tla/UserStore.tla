----------------------------- MODULE UserStore -----------------------------
(***************************************************************************)
(* The document of users, favourites, referral codes, referrals and        *)
(* rewards: its maps in memory, its file and the chain of writes (source:  *)
(* users/user.store.ts).  Unlike the other stores it is written in two     *)
(* ways: transact() queues an operation that changes the maps when its     *)
(* turn comes, persist() queues a snapshot of maps already changed.        *)
(***************************************************************************)
EXTENDS Naturals, Sequences, FiniteSets

CONSTANTS
    Pollers,            \* one loop of inbound updates per platform
    Accounts,           \* the people who write to the bot
    Codes,              \* referral codes, drawn at random
    Symbols,            \* what can be a favourite
    PerReward,          \* REFERRAL_REWARDS_PER_THRESHOLD
    BonusSlots,         \* REFERRAL_REWARD_BONUS_SLOTS
    MaxBonus,           \* REFERRAL_MAX_BONUS_SLOTS
    None,               \* the null of the code
    MaxWriteFailures    \* bound: writes the file system refuses

ASSUME StoreAssumption ==
    /\ PerReward \in Nat \ {0} /\ BonusSlots \in Nat \ {0} /\ MaxBonus \in Nat
    /\ MaxWriteFailures \in Nat
    /\ None \notin Accounts \cup Codes
    /\ IsFiniteSet(Accounts)
    \* Platform: 'bale' | 'telegram'.  What a transaction reads and what a snapshot
    \* holds agree only because no third writer can queue between two others.
    /\ IsFiniteSet(Pollers) /\ Cardinality(Pollers) <= 2

VARIABLES
    memory,     \* the maps
    disk,       \* the file
    chain,      \* writeChain: the writes asked for; the head is in progress
    failures    \* writes refused so far

storeVars == <<memory, disk, chain, failures>>

Thresholds == 1 .. Cardinality(Accounts)

Document ==
    [users : SUBSET Accounts,
     code : [Accounts -> Codes \cup {None}],
     inviter : [Accounts -> Accounts \cup {None}],
     reward : [Accounts -> [Thresholds -> {"NONE", "PENDING", "GRANTED"}]],
     favorites : [Accounts -> SUBSET Symbols]]

Empty ==
    [users |-> {},
     code |-> [a \in Accounts |-> None],
     inviter |-> [a \in Accounts |-> None],
     reward |-> [a \in Accounts |-> [t \in Thresholds |-> "NONE"]],
     favorites |-> [a \in Accounts |-> {}]]

-----------------------------------------------------------------------------
(* What the transaction reads and writes. *)

OwnersOf(d, c) == {a \in d.users : d.code[a] = c}

Upserted(d, a) == [d EXCEPT !.users = @ \cup {a}]

CodeAssigned(d, a, c) == [d EXCEPT !.code[a] = c]

InvitedBy(d, a) == {b \in Accounts : d.inviter[b] = a}

Earned(d, a) == Cardinality(InvitedBy(d, a)) \div PerReward

RowsOf(d, a, status) == {t \in Thresholds : d.reward[a][t] = status}

\* Mutant: a row that is there is written again.
RewardsReevaluated(d, a) ==
    [d EXCEPT !.reward[a] =
        [t \in Thresholds |-> IF t \in 1 .. Earned(d, a) THEN "PENDING" ELSE @[t]]]

\* saveReward() leaves a row that is there alone.
RewardsEvaluated(d, a) ==
    [d EXCEPT !.reward[a] =
        [t \in Thresholds |->
            IF t \in 1 .. Earned(d, a) /\ @[t] = "NONE" THEN "PENDING" ELSE @[t]]]

Joined(d, a, inviter) ==
    RewardsEvaluated([Upserted(d, a) EXCEPT !.inviter[a] = inviter], inviter)

GrantedSlots(d, a) == Cardinality(RowsOf(d, a, "GRANTED")) * BonusSlots

\* Mutant: the ceiling is left to the reader of the capacity.
GrantableWithoutCeiling(d, a, t) == d.reward[a][t] = "PENDING"

\* A row at the ceiling stays pending; its error text is not modelled.
Grantable(d, a, t) == d.reward[a][t] = "PENDING" /\ GrantedSlots(d, a) < MaxBonus

Granted(d, a, t) == [d EXCEPT !.reward[a][t] = "GRANTED"]

FavoriteAdded(d, a, s) == [d EXCEPT !.favorites[a] = @ \cup {s}]
FavoriteRemoved(d, a, s) == [d EXCEPT !.favorites[a] = @ \ {s}]

-----------------------------------------------------------------------------
(* The chain.  A link is a write of a poller: "snapshot" carries its        *)
(* document from the start, an operation gets one when it runs.             *)

Link(p, op, a, arg) ==
    [by |-> p, op |-> op, account |-> a, arg |-> arg, applied |-> FALSE,
     dirty |-> FALSE, did |-> FALSE, payload |-> Empty]

\* Does the operation of a link call a mutator, and does it do what it is for?
\* It repeats the checks its caller made before the queue.  The time that
\* touchInteraction() writes is left out; that it writes is not.
Dirty(l, d) ==
    CASE l.op = "join" -> l.account \notin d.users
      [] l.op = "code" -> d.code[l.account] = None
      [] l.op = "grant" -> d.reward[l.account][l.arg] = "PENDING"
      [] OTHER -> TRUE

Does(l, d) == Dirty(l, d) /\ (l.op = "grant" => Grantable(d, l.account, l.arg))

Result(l, d) ==
    IF ~ Does(l, d) THEN d ELSE
    CASE l.op = "join" -> Joined(d, l.account, l.arg)
      [] l.op = "code" -> CodeAssigned(d, l.account, l.arg)
      [] l.op = "grant" -> Granted(d, l.account, l.arg)
      [] l.op = "touch" -> d

Asked(l) == chain' = Append(chain, l)

\* persist(): the maps are changed and their snapshot is taken before the
\* write is queued.
Persist(p, a, d) ==
    /\ memory' = d
    /\ Asked([Link(p, "snapshot", a, None) EXCEPT
                !.applied = TRUE, !.dirty = TRUE, !.did = TRUE, !.payload = d])
    /\ UNCHANGED <<disk, failures>>

\* transact(): the operation waits for its turn.
Transact(p, op, a, arg) ==
    /\ Asked(Link(p, op, a, arg))
    /\ UNCHANGED <<memory, disk, failures>>

\* An operation runs as soon as the write before it has settled, before any
\* caller goes on: the callers' actions require it.
Settled == chain # <<>> => Head(chain).applied

Apply ==
    /\ ~ Settled
    /\ LET l == Head(chain)
           d == Result(l, memory)
       IN /\ memory' = d
          /\ chain' = [chain EXCEPT ![1] =
                [l EXCEPT !.applied = TRUE, !.dirty = Dirty(l, memory),
                          !.did = Does(l, memory), !.payload = d]]
    /\ UNCHANGED <<disk, failures>>

\* The head settles: what changed nothing writes nothing; a write that fails
\* is reported to the caller and leaves the file as it was.
Settles(persisted) ==
    /\ chain # <<>> /\ Head(chain).applied
    /\ chain' = Tail(chain)
    /\ IF persisted
       THEN /\ disk' = IF Head(chain).dirty THEN Head(chain).payload ELSE disk
            /\ UNCHANGED failures
       ELSE /\ Head(chain).dirty /\ failures < MaxWriteFailures
            /\ failures' = failures + 1
            /\ UNCHANGED disk
    /\ UNCHANGED memory

Busy(p) == \E i \in 1 .. Len(chain) : chain[i].by = p

Crashed ==
    /\ memory' = disk
    /\ chain' = <<>>
    /\ UNCHANGED <<disk, failures>>

StoreInit ==
    /\ memory = Empty
    /\ disk = Empty
    /\ chain = <<>>
    /\ failures = 0
=============================================================================
