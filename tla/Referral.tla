------------------------------ MODULE Referral ------------------------------
(***************************************************************************)
(* Invitations, rewards and favourites (source: users/user.service.ts,     *)
(* referrals/referral.service.ts) as the handler of an inbound update      *)
(* calls them (bot/ux/bot-ux.service.ts).  There is one loop of updates    *)
(* per platform; each awaits the handler of one update before the next, so *)
(* the loops interleave at every await and an account is never in two      *)
(* handlers.  `handler[p].at` is what the handler of loop p awaits.        *)
(***************************************************************************)
EXTENDS UserStore

CONSTANTS
    PollerOf,       \* the platform of an account
    MaxFavorites,   \* MAX_FAVORITES
    Fans,           \* bound: accounts that change their favourites
    MaxCrashes      \* bound: process deaths

ASSUME ReferralAssumption ==
    /\ PollerOf \in [Accounts -> Pollers]
    /\ MaxFavorites \in Nat /\ MaxCrashes \in Nat

VARIABLES
    handler,    \* the handler of the update of each loop
    crashes,
    reported,   \* history: invitations answered as counted
    told,       \* history: how often an inviter was told of a reward
    unsaved     \* history: grants of a reward whose own write failed

vars == <<storeVars, handler, crashes, reported, told, unsaved>>

Symbol == Symbols \cup {None}

Handler ==
    [at : {"idle", "joining", "granting", "upserting", "coding", "handling"},
     account : Accounts \cup {None},
     inviter : Accounts \cup {None},
     pending : SUBSET Thresholds,    \* the copy of the pending rewards
     applied : SUBSET Thresholds,    \* rewards granted by this handler
     symbol : Symbol]                \* the favourite that is asked for

Idle == [at |-> "idle", account |-> None, inviter |-> None,
         pending |-> {}, applied |-> {}, symbol |-> None]

\* Code of loop p runs: it awaits nothing, and no operation waits to be run.
Runs(p, at) == handler[p].at = at /\ ~ Busy(p) /\ Settled

Goes(p, at) == handler' = [handler EXCEPT ![p].at = at]

Bystanders == UNCHANGED <<crashes, reported, told, unsaved>>

Smallest(S) == CHOOSE x \in S : \A y \in S : x <= y

-----------------------------------------------------------------------------
(* handleUpdate(), one action from await to await. *)

\* Mutant: the invitation is written at once, to whoever sends the code.
StartWithCodeUnchecked(p, a, c) ==
    /\ Runs(p, "idle") /\ PollerOf[a] = p
    /\ \E inviter \in OwnersOf(memory, c) :
        /\ handler' = [handler EXCEPT ![p] =
              [Idle EXCEPT !.at = "granting", !.account = a, !.inviter = inviter]]
        /\ Persist(p, a, Joined(memory, a, inviter))
    /\ Bystanders

\* A message with the referral code of an account that is not known yet:
\* the invitation is looked up, then registered in a transaction.
StartWithCode(p, a, c) ==
    /\ Runs(p, "idle") /\ PollerOf[a] = p
    /\ a \notin memory.users
    /\ \E inviter \in OwnersOf(memory, c) :
        /\ handler' = [handler EXCEPT ![p] =
              [Idle EXCEPT !.at = "joining", !.account = a, !.inviter = inviter]]
        /\ Transact(p, "join", a, inviter)
    /\ Bystanders

\* A code of one's own: the account is the inviter found, nothing is written.
StartWithOwnCode(p, a, c) ==
    /\ Runs(p, "idle") /\ PollerOf[a] = p
    /\ a \in OwnersOf(memory, c)
    /\ handler' = [handler EXCEPT ![p] = [Idle EXCEPT !.at = "upserting", !.account = a]]
    /\ UNCHANGED storeVars
    /\ Bystanders

\* Any other update, a code nobody has, or one that comes too late: the
\* account is written by persist().
Arrive(p, a, s) ==
    /\ Runs(p, "idle") /\ PollerOf[a] = p
    /\ s # None => a \in Fans
    /\ handler' = [handler EXCEPT ![p] =
          [Idle EXCEPT !.at = "upserting", !.account = a, !.symbol = s]]
    /\ Persist(p, a, Upserted(memory, a))
    /\ Bystanders

\* applyPendingRewards(): each row of the copy gets a transaction of its own,
\* in the order of the thresholds.
Grant(p) ==
    /\ Runs(p, "granting")
    /\ LET h == handler[p] IN
        IF h.pending = {}
        THEN Goes(p, "upserting") /\ UNCHANGED storeVars
        ELSE /\ Transact(p, "grant", h.inviter, Smallest(h.pending))
             /\ UNCHANGED handler
    /\ Bystanders

\* referralCodeFor(): a first code, unless the account has one; there are
\* enough of them, so a free one is found.
AssignCode(p) ==
    /\ Runs(p, "upserting")
    /\ LET a == handler[p].account IN
        IF memory.code[a] # None
        THEN Goes(p, "coding") /\ UNCHANGED storeVars
        ELSE \E c \in Codes :
            /\ OwnersOf(memory, c) = {}
            /\ Goes(p, "coding")
            /\ Transact(p, "code", a, c)
    /\ Bystanders

\* The callback of the update: addFavorite() below the limit, removeFavorite(),
\* or something that does not touch this document.
HandleFavorite(p) ==
    /\ Runs(p, "coding")
    /\ LET a == handler[p].account
           s == handler[p].symbol
           mine == memory.favorites[a]
       IN \/ /\ s # None /\ s \notin mine /\ Cardinality(mine) < MaxFavorites
             /\ Persist(p, a, FavoriteAdded(memory, a, s))
          \/ /\ s \in mine
             /\ Persist(p, a, FavoriteRemoved(memory, a, s))
          \/ UNCHANGED storeVars
    /\ Goes(p, "handling")
    /\ Bystanders

\* touchActivity() writes if the interval of the last such write is over.
TouchActivity(p, a) == UNCHANGED storeVars \/ Transact(p, "touch", a, None)

\* noticeFor() and deliverReferrerNotice() tell the inviter of the first reward
\* granted.
Finish(p) ==
    /\ Runs(p, "handling")
    /\ LET h == handler[p] IN
        /\ told' = IF h.applied = {} THEN told
                   ELSE [told EXCEPT ![h.inviter][Smallest(h.applied)] = @ + 1]
        /\ TouchActivity(p, h.account)
    /\ handler' = [handler EXCEPT ![p] = Idle]
    /\ UNCHANGED <<crashes, reported, unsaved>>

-----------------------------------------------------------------------------
(* The head of the chain settles and its caller goes on. *)

\* Mutant: the outcome of the write is not looked at.
JoinReturnsUnsaved(p, l, persisted) ==
    /\ handler[p].at = "joining"
    /\ reported' = IF l.did THEN reported \cup {<<l.arg, l.account>>} ELSE reported
    /\ handler' = [handler EXCEPT
          ![p].at = IF l.did THEN "granting" ELSE "upserting",
          ![p].pending = IF l.did THEN RowsOf(memory, l.arg, "PENDING") ELSE {}]

\* An invitation is reported once it is saved; the pending rewards of its
\* inviter are then copied.
JoinReturns(p, l, persisted) ==
    /\ handler[p].at = "joining"
    /\ reported' = IF l.did /\ persisted
                   THEN reported \cup {<<l.arg, l.account>>} ELSE reported
    /\ handler' = [handler EXCEPT
          ![p].at = IF l.did /\ persisted THEN "granting" ELSE "upserting",
          ![p].pending = IF l.did /\ persisted
                         THEN RowsOf(memory, l.arg, "PENDING") ELSE {}]

\* applied counts what the operation did, whether or not it was written: the
\* inviter will be told although the code promises not to tell of a reward that
\* only memory knows (user.store.ts:527-528, bot-ux.service.ts:350-352, 458-461).
GrantReturns(p, l, persisted) ==
    /\ handler[p].at = "granting"
    /\ handler' = [handler EXCEPT
          ![p].pending = @ \ {l.arg},
          ![p].applied = IF l.did THEN @ \cup {l.arg} ELSE @]
    /\ unsaved' = IF l.did /\ ~ persisted
                  THEN [unsaved EXCEPT ![l.account][l.arg] = @ + 1] ELSE unsaved
    /\ UNCHANGED reported

OtherReturns(p) ==
    /\ handler[p].at \notin {"joining", "granting"}
    /\ UNCHANGED <<handler, reported, unsaved>>

Settle ==
    \E persisted \in BOOLEAN :
        /\ Settles(persisted)
        /\ LET l == Head(chain) IN
            \/ JoinReturns(l.by, l, persisted) /\ UNCHANGED unsaved
            \/ GrantReturns(l.by, l, persisted)
            \/ OtherReturns(l.by)
        /\ UNCHANGED <<crashes, told>>

-----------------------------------------------------------------------------
\* A restart loads the file before the loops start; an update whose handler
\* died comes again, or not, like any other.
Crash ==
    /\ crashes < MaxCrashes
    /\ crashes' = crashes + 1
    /\ Crashed
    /\ handler' = [p \in Pollers |-> Idle]
    /\ UNCHANGED <<reported, told, unsaved>>

Init ==
    /\ StoreInit
    /\ handler = [p \in Pollers |-> Idle]
    /\ crashes = 0
    /\ reported = {}
    /\ told = [a \in Accounts |-> [t \in Thresholds |-> 0]]
    /\ unsaved = told

Step(p) ==
    \/ Grant(p) \/ AssignCode(p) \/ HandleFavorite(p) \/ Finish(p)

Next ==
    \/ \E p \in Pollers, a \in Accounts :
        \/ \E c \in Codes : StartWithCode(p, a, c) \/ StartWithOwnCode(p, a, c)
        \/ \E s \in Symbol : Arrive(p, a, s)
    \/ \E p \in Pollers : Step(p)
    \/ (Apply /\ UNCHANGED handler /\ Bystanders)
    \/ Settle
    \/ Crash

Spec == Init /\ [][Next]_vars

-----------------------------------------------------------------------------
TypeOK ==
    /\ memory \in Document /\ disk \in Document
    /\ handler \in [Pollers -> Handler]
    /\ failures \in 0 .. MaxWriteFailures /\ crashes \in 0 .. MaxCrashes
    /\ told \in [Accounts -> [Thresholds -> Nat]]
    /\ unsaved \in [Accounts -> [Thresholds -> Nat]]

(* Rewards are earned: an inviter has one row for each multiple of PerReward *)
(* invitations and none beyond, the capacity granted stays under the ceiling *)
(* plus one reward, and favourites stay within their limit -- in the maps    *)
(* and in whatever mix of transactions and early snapshots the file holds    *)
(* (referral.service.ts evaluateRewards, applyPendingRewards).               *)
EarnedOnly(d) ==
    \A a \in Accounts :
        /\ {t \in Thresholds : d.reward[a][t] # "NONE"} = 1 .. Earned(d, a)
        /\ GrantedSlots(d, a) < MaxBonus + BonusSlots
        /\ Cardinality(d.favorites[a]) <= MaxFavorites

RewardsAreEarned == EarnedOnly(memory) /\ EarnedOnly(disk)

(* An invitation is of somebody new: inviters never go round in a circle --  *)
(* of any group, somebody was invited by nobody in it -- and every account   *)
(* of an invitation is known                                                 *)
(* (referral.service.ts handleStartReferral: self, existing and raced ones). *)
NoCircle(d) ==
    /\ \A group \in (SUBSET Accounts) \ {{}} : \E a \in group : d.inviter[a] \notin group
    /\ \A a \in Accounts : d.inviter[a] # None => {a, d.inviter[a]} \subseteq d.users

InvitationsAreOfNewcomers == NoCircle(memory) /\ NoCircle(disk)

(* An invitation reported as counted is in the file, and stays there: no     *)
(* snapshot taken before it is written after it (user.store.ts persist).     *)
ReportedIsSaved == \A r \in reported : disk.inviter[r[2]] = r[1]

(* Two invitees of one inviter on two platforms apply the same pending       *)
(* rewards.  An inviter who was told of one has it granted in the file,      *)
(* unless the write of that very grant failed; and is told of it once, again *)
(* only for a grant whose own write failed and which a crash took back       *)
(* (referral.service.ts applyPendingRewards, which ignores the failure).     *)
ToldRewardsAreSaved ==
    \A a \in Accounts, t \in Thresholds :
        /\ told[a][t] > 0 => disk.reward[a][t] = "GRANTED" \/ unsaved[a][t] > 0
        /\ told[a][t] <= 1 + unsaved[a][t]
        /\ told[a][t] <= 1 + crashes
=============================================================================
