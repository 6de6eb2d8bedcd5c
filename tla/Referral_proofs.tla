--------------------------- MODULE Referral_proofs ---------------------------
(***************************************************************************)
(* What the referrals promise, for any accounts, codes and limits, and for *)
(* the two pollers there are.  The document is written in two ways at      *)
(* once, so the invariant orders its versions: the file, the payloads on   *)
(* their way to it in the order of the chain, and the maps, each of which  *)
(* keeps what the ones before it hold.                                     *)
(***************************************************************************)
EXTENDS Referral, SequenceTheorems, FiniteSetTheorems, WellFoundedInduction, TLAPS

-----------------------------------------------------------------------------
(* Documents *)

Rows(d, a) == {t \in Thresholds : d.reward[a][t] # "NONE"}

\* What holds of every document there is: the maps, the file, a snapshot on its way.
Sound(d) ==
    /\ d \in Document
    /\ \A a \in Accounts : IsFiniteSet(d.favorites[a])
    /\ EarnedOnly(d) /\ NoCircle(d)

\* A later document keeps who is known, who invited whom and what was granted.
Keeps(d, e) ==
    /\ d.users \subseteq e.users
    /\ \A a \in Accounts : d.inviter[a] # None => e.inviter[a] = d.inviter[a]
    /\ \A a \in Accounts, t \in Thresholds :
        d.reward[a][t] = "GRANTED" => e.reward[a][t] = "GRANTED"

-----------------------------------------------------------------------------
(* The chain *)

Links ==
    [by : Pollers, op : {"snapshot", "join", "grant", "code", "touch"}, account : Accounts,
     arg : Accounts \cup Codes \cup Thresholds \cup {None},
     applied : BOOLEAN, dirty : BOOLEAN, did : BOOLEAN, payload : Document]

\* What a link says of itself; an operation that did its work has it in its payload.
LinkShape(l) ==
    /\ l \in Links /\ Sound(l.payload)
    /\ l.op = "join" => l.arg \in Accounts
    /\ l.op = "grant" => l.arg \in Thresholds
    /\ l.op = "code" => l.arg \in Codes
    /\ l.op = "snapshot" => l.applied
    /\ l.did => l.applied /\ l.dirty
    /\ l.did /\ l.op = "join" => l.payload.inviter[l.account] = l.arg
    /\ l.did /\ l.op = "grant" => l.payload.reward[l.account][l.arg] = "GRANTED"

\* What the caller of a link awaits.
Awaits(l) ==
    LET h == handler[l.by] IN
    /\ l.op = "join" <=> h.at = "joining"
    /\ l.op = "grant" <=> h.at = "granting"
    /\ l.op = "join" => l.account = h.account /\ l.arg \in memory.users
    /\ l.op = "grant" => l.account = h.inviter

Positions == 1 .. Len(chain)

Chain ==
    /\ chain \in Seq(Links)
    /\ \A i \in Positions : LinkShape(chain[i]) /\ Awaits(chain[i])
    /\ \A i, k \in Positions : chain[i].by = chain[k].by => i = k

\* Nothing runs before its turn, and a snapshot never waits for an operation that
\* did not run yet: with two pollers there is no third to queue it.
InOrder ==
    \A i, k \in Positions :
        i < k => /\ chain[k].applied => chain[i].applied
                 /\ chain[k].op # "snapshot" => ~ chain[k].applied

\* Whatever is written next keeps what the file holds, and the maps keep it all.
Growing ==
    /\ Keeps(disk, memory)
    /\ \A i \in Positions : chain[i].applied =>
        /\ Keeps(disk, chain[i].payload) /\ Keeps(chain[i].payload, memory)
        /\ \A k \in Positions : i < k /\ chain[k].applied => Keeps(chain[i].payload, chain[k].payload)

StoreInv == Sound(memory) /\ Sound(disk) /\ Chain /\ InOrder /\ Growing

-----------------------------------------------------------------------------
(* The handlers and what they tell *)

Holds(p, a, t) == handler[p].inviter = a /\ t \in handler[p].applied

Tells(a, t) == \E p \in Pollers : Holds(p, a, t)

HandlerShape(h) ==
    /\ h \in Handler
    /\ h.at # "idle" => h.account \in Accounts
    /\ h.at \in {"joining", "granting"} \/ h.applied # {} => h.inviter \in Accounts

\* A reward that a handler will tell of is granted, and no other handler will.
OneTells ==
    \A a \in Accounts, t \in Thresholds : \A p \in Pollers : Holds(p, a, t) =>
        /\ memory.reward[a][t] = "GRANTED"
        /\ \A q \in Pollers : Holds(q, a, t) => q = p

\* A grant on its way to the file is not in it, nobody tells of it yet, and who was
\* told before was told of a grant that a crash took back.
GrantIsNew ==
    \A i \in Positions : chain[i].op = "grant" /\ chain[i].did =>
        /\ disk.reward[chain[i].account][chain[i].arg] # "GRANTED"
        /\ told[chain[i].account][chain[i].arg] <= crashes
        /\ ~ Tells(chain[i].account, chain[i].arg)

One(condition) == IF condition THEN 1 ELSE 0

\* Each time an inviter was or will be told is paid by the row in the file or by a
\* grant whose write failed.
TellingIsPaid ==
    \A a \in Accounts, t \in Thresholds :
        told[a][t] + One(Tells(a, t)) <= One(disk.reward[a][t] = "GRANTED") + unsaved[a][t]

\* And by the row in memory or by a crash that took it back.
TellingIsGranted ==
    \A a \in Accounts, t \in Thresholds :
        told[a][t] + One(Tells(a, t)) <= One(memory.reward[a][t] = "GRANTED") + crashes

IInv ==
    /\ TypeOK
    /\ StoreInv
    /\ \A p \in Pollers : HandlerShape(handler[p])
    /\ OneTells /\ GrantIsNew /\ TellingIsPaid /\ TellingIsGranted
    /\ reported \subseteq Accounts \X Accounts /\ ReportedIsSaved

-----------------------------------------------------------------------------
(* Numbers *)

\* There is a smallest threshold to begin with.
LEMMA SmallestIsInIt ==
    ASSUME NEW S \in SUBSET Thresholds, S # {}
    PROVE  Smallest(S) \in S
<1>1. S \subseteq Nat
    BY DEF Thresholds
<1>2. PICK x \in S : \A y \in S : ~ (<<y, x>> \in OpToRel(<, Nat))
    BY <1>1, NatLessThanWellFounded, WFMin, Zenon
<1>3. ASSUME NEW y \in S PROVE x <= y
    <2>1. <<y, x>> \in Nat \X Nat
        BY <1>1
    <2>2. <<y, x>>[1] < <<y, x>>[2] => <<y, x>> \in OpToRel(<, Nat)
        BY <2>1, Zenon DEF OpToRel
    <2>3. ~ (y < x)
        BY <1>2, <2>2
    <2> QED BY <1>1, <2>3
<1> QED BY <1>3 DEF Smallest

LEMMA DivGrows ==
    ASSUME NEW m \in Nat, NEW n \in Nat, m <= n, NEW k \in Nat \ {0}
    PROVE  m \div k \in Nat /\ m \div k <= n \div k /\ n \div k <= n
<1>1. m \div k \in Nat /\ n \div k \in Nat /\ n \div k <= n
    BY SMT
<1>2. m \div k <= n \div k
    BY SMT
<1> QED BY <1>1, <1>2

LEMMA OneMore ==
    ASSUME NEW r \in Nat, NEW b \in Nat \ {0}, NEW m \in Nat, r * b < m
    PROVE  (r + 1) * b < m + b
BY SMT

\* Of three pollers two are the same.
LEMMA TwoPollers ==
    ASSUME NEW p \in Pollers, NEW q \in Pollers, NEW r \in Pollers
    PROVE  p = q \/ q = r \/ p = r
<1> SUFFICES ASSUME p # q, q # r, p # r PROVE FALSE
    OBVIOUS
<1>1. IsFiniteSet({p}) /\ Cardinality({p}) = 1
    BY FS_Singleton
<1>2. IsFiniteSet({p} \cup {q}) /\ Cardinality({p} \cup {q}) = 1 + 1
    <2>1. q \notin {p}
        OBVIOUS
    <2> QED BY <1>1, <2>1, FS_AddElement
<1>3. Cardinality(({p} \cup {q}) \cup {r}) = 1 + 1 + 1
    <2>1. r \notin {p} \cup {q}
        OBVIOUS
    <2> QED BY <1>2, <2>1, FS_AddElement
<1>4. ({p} \cup {q}) \cup {r} \in SUBSET Pollers
    OBVIOUS
<1>5. Cardinality(({p} \cup {q}) \cup {r}) <= Cardinality(Pollers) /\ Cardinality(Pollers) \in Nat
    BY <1>4, FS_Subset, FS_CardinalityType, StoreAssumption
<1> QED BY <1>3, <1>5, StoreAssumption

-----------------------------------------------------------------------------
(* Documents *)

LEMMA Counted ==
    ASSUME NEW d \in Document, NEW a \in Accounts
    PROVE  /\ IsFiniteSet(InvitedBy(d, a)) /\ IsFiniteSet(RowsOf(d, a, "GRANTED"))
           /\ Earned(d, a) \in Nat /\ Earned(d, a) <= Cardinality(Accounts)
           /\ Cardinality(Accounts) \in Nat
           /\ Cardinality(RowsOf(d, a, "GRANTED")) \in Nat
<1>1. /\ IsFiniteSet(InvitedBy(d, a)) /\ Cardinality(InvitedBy(d, a)) \in Nat
      /\ Cardinality(InvitedBy(d, a)) <= Cardinality(Accounts) /\ Cardinality(Accounts) \in Nat
    <2>1. InvitedBy(d, a) \in SUBSET Accounts
        BY DEF InvitedBy
    <2> QED BY <2>1, FS_Subset, FS_CardinalityType, StoreAssumption
<1>2. IsFiniteSet(Thresholds)
    BY <1>1, FS_Interval DEF Thresholds
<1>3. RowsOf(d, a, "GRANTED") \in SUBSET Thresholds
    BY DEF RowsOf
<1>4. IsFiniteSet(RowsOf(d, a, "GRANTED")) /\ Cardinality(RowsOf(d, a, "GRANTED")) \in Nat
    BY <1>2, <1>3, FS_Subset, FS_CardinalityType
<1>5. PerReward \in Nat \ {0}
    BY StoreAssumption
<1>6. Earned(d, a) \in Nat /\ Earned(d, a) <= Cardinality(Accounts)
    BY <1>1, <1>5, DivGrows DEF Earned
<1> QED BY <1>1, <1>4, <1>6

LEMMA EmptyIsSound == Sound(Empty)
<1>1. Empty \in Document
    BY DEF Empty, Document
<1>2. ASSUME NEW a \in Accounts PROVE IsFiniteSet(Empty.favorites[a]) /\ Cardinality(Empty.favorites[a]) = 0
    BY <1>2, FS_EmptySet DEF Empty
<1>3. ASSUME NEW a \in Accounts PROVE Earned(Empty, a) = 0 /\ GrantedSlots(Empty, a) = 0
    <2>1. InvitedBy(Empty, a) = {}
        BY StoreAssumption DEF InvitedBy, Empty
    <2>2. RowsOf(Empty, a, "GRANTED") = {}
        BY DEF RowsOf, Empty
    <2>3. Cardinality(InvitedBy(Empty, a)) = 0 /\ Cardinality(RowsOf(Empty, a, "GRANTED")) = 0
        BY <2>1, <2>2, FS_EmptySet
    <2> QED BY <2>3, StoreAssumption, DivGrows DEF Earned, GrantedSlots
<1>4. EarnedOnly(Empty)
    <2> SUFFICES ASSUME NEW a \in Accounts
                 PROVE  /\ {t \in Thresholds : Empty.reward[a][t] # "NONE"} = 1 .. Earned(Empty, a)
                        /\ GrantedSlots(Empty, a) < MaxBonus + BonusSlots
                        /\ Cardinality(Empty.favorites[a]) <= MaxFavorites
        BY DEF EarnedOnly
    <2>1. {t \in Thresholds : Empty.reward[a][t] # "NONE"} = {}
        BY DEF Empty
    <2>2. 1 .. Earned(Empty, a) = {}
        BY <1>3
    <2>3. GrantedSlots(Empty, a) < MaxBonus + BonusSlots
        BY <1>3, StoreAssumption
    <2> QED BY <1>2, <2>1, <2>2, <2>3, ReferralAssumption
<1>5. NoCircle(Empty)
    <2>1. ASSUME NEW group \in (SUBSET Accounts) \ {{}}
          PROVE  \E a \in group : Empty.inviter[a] \notin group
        <3>1. PICK a \in group : TRUE
            BY <2>1
        <3>2. Empty.inviter[a] = None /\ None \notin group
            BY StoreAssumption DEF Empty
        <3> QED BY <3>2
    <2>2. \A a \in Accounts : Empty.inviter[a] = None
        BY DEF Empty
    <2> QED BY <2>1, <2>2 DEF NoCircle
<1> QED BY <1>1, <1>2, <1>4, <1>5 DEF Sound

LEMMA KeepsItself == ASSUME NEW d PROVE Keeps(d, d)
BY DEF Keeps

LEMMA KeepsOn ==
    ASSUME NEW d \in Document, NEW e \in Document, NEW f \in Document, Keeps(d, e), Keeps(e, f)
    PROVE  Keeps(d, f)
BY DEF Keeps

\* A change outside the invitations and the rewards.
LEMMA OtherFields ==
    ASSUME NEW d, NEW e \in Document, Sound(d), d.users \subseteq e.users,
           e.inviter = d.inviter, e.reward = d.reward,
           \A a \in Accounts : IsFiniteSet(e.favorites[a]) /\ Cardinality(e.favorites[a]) <= MaxFavorites
    PROVE  Sound(e) /\ Keeps(d, e)
<1>1. \A a \in Accounts : InvitedBy(e, a) = InvitedBy(d, a) /\ RowsOf(e, a, "GRANTED") = RowsOf(d, a, "GRANTED")
    BY DEF InvitedBy, RowsOf
<1>2. \A a \in Accounts : Earned(e, a) = Earned(d, a) /\ GrantedSlots(e, a) = GrantedSlots(d, a)
    BY <1>1 DEF Earned, GrantedSlots
<1>3. EarnedOnly(e)
    BY <1>2 DEF EarnedOnly, Sound
<1>4. NoCircle(e)
    BY DEF NoCircle, Sound
<1>5. Keeps(d, e)
    BY DEF Keeps
<1> QED BY <1>3, <1>4, <1>5 DEF Sound

LEMMA UpsertedIsSound ==
    ASSUME NEW d, NEW a \in Accounts, Sound(d)
    PROVE  Sound(Upserted(d, a)) /\ Keeps(d, Upserted(d, a))
<1> PICK e : e = Upserted(d, a)
    OBVIOUS
<1>1. d \in Document
    BY DEF Sound
<1>2. /\ e \in Document /\ e.users = d.users \cup {a} /\ e.inviter = d.inviter
      /\ e.reward = d.reward /\ e.favorites = d.favorites
    BY <1>1 DEF Upserted, Document
<1> QED BY <1>2, OtherFields DEF Sound, EarnedOnly

LEMMA CodeIsSound ==
    ASSUME NEW d, NEW a \in Accounts, NEW c \in Codes, Sound(d)
    PROVE  Sound(CodeAssigned(d, a, c)) /\ Keeps(d, CodeAssigned(d, a, c))
<1> PICK e : e = CodeAssigned(d, a, c)
    OBVIOUS
<1>1. d \in Document
    BY DEF Sound
<1>2. /\ e \in Document /\ e.users = d.users /\ e.inviter = d.inviter
      /\ e.reward = d.reward /\ e.favorites = d.favorites
    BY <1>1 DEF CodeAssigned, Document
<1> QED BY <1>2, OtherFields DEF Sound, EarnedOnly

LEMMA FavoritesAreSound ==
    ASSUME NEW d, NEW a \in Accounts, NEW s \in Symbols, Sound(d)
    PROVE  /\ Cardinality(d.favorites[a]) < MaxFavorites =>
                Sound(FavoriteAdded(d, a, s)) /\ Keeps(d, FavoriteAdded(d, a, s))
           /\ Sound(FavoriteRemoved(d, a, s)) /\ Keeps(d, FavoriteRemoved(d, a, s))
<1>1. d \in Document /\ \A b \in Accounts : IsFiniteSet(d.favorites[b]) /\ Cardinality(d.favorites[b]) <= MaxFavorites
    BY DEF Sound, EarnedOnly
<1>2. ASSUME NEW F, IsFiniteSet(F), Cardinality(F) <= MaxFavorites
      PROVE  /\ IsFiniteSet(F \cup {s})
             /\ Cardinality(F) < MaxFavorites => Cardinality(F \cup {s}) <= MaxFavorites
             /\ IsFiniteSet(F \ {s}) /\ Cardinality(F \ {s}) <= MaxFavorites
    <2>1. Cardinality(F) \in Nat /\ MaxFavorites \in Nat
        BY <1>2, FS_CardinalityType, ReferralAssumption
    <2>2. IsFiniteSet(F \cup {s}) /\ Cardinality(F \cup {s}) \in {Cardinality(F), Cardinality(F) + 1}
        BY <1>2, FS_AddElement
    <2>3. IsFiniteSet(F \ {s}) /\ Cardinality(F \ {s}) \in {Cardinality(F), Cardinality(F) - 1}
        BY <1>2, FS_RemoveElement
    <2> QED BY <1>2, <2>1, <2>2, <2>3
<1>3. ASSUME Cardinality(d.favorites[a]) < MaxFavorites
      PROVE  Sound(FavoriteAdded(d, a, s)) /\ Keeps(d, FavoriteAdded(d, a, s))
    <2> PICK e : e = FavoriteAdded(d, a, s)
        OBVIOUS
    <2>1. /\ e \in Document /\ e.users = d.users /\ e.inviter = d.inviter /\ e.reward = d.reward
          /\ e.favorites = [d.favorites EXCEPT ![a] = d.favorites[a] \cup {s}]
        BY <1>1 DEF FavoriteAdded, Document
    <2>2. d.favorites \in [Accounts -> SUBSET Symbols]
        BY <1>1 DEF Document
    <2>3. IsFiniteSet(d.favorites[a] \cup {s}) /\ Cardinality(d.favorites[a] \cup {s}) <= MaxFavorites
        BY <1>1, <1>2, <1>3
    <2>4. \A b \in Accounts : IsFiniteSet(e.favorites[b]) /\ Cardinality(e.favorites[b]) <= MaxFavorites
        BY <1>1, <2>1, <2>2, <2>3
    <2> QED BY <2>1, <2>4, OtherFields
<1>4. Sound(FavoriteRemoved(d, a, s)) /\ Keeps(d, FavoriteRemoved(d, a, s))
    <2> PICK e : e = FavoriteRemoved(d, a, s)
        OBVIOUS
    <2>1. /\ e \in Document /\ e.users = d.users /\ e.inviter = d.inviter /\ e.reward = d.reward
          /\ e.favorites = [d.favorites EXCEPT ![a] = d.favorites[a] \ {s}]
        BY <1>1 DEF FavoriteRemoved, Document
    <2>2. d.favorites \in [Accounts -> SUBSET Symbols]
        BY <1>1 DEF Document
    <2>3. IsFiniteSet(d.favorites[a] \ {s}) /\ Cardinality(d.favorites[a] \ {s}) <= MaxFavorites
        BY <1>1, <1>2
    <2>4. \A b \in Accounts : IsFiniteSet(e.favorites[b]) /\ Cardinality(e.favorites[b]) <= MaxFavorites
        BY <1>1, <2>1, <2>2, <2>3
    <2> QED BY <2>1, <2>4, OtherFields
<1> QED BY <1>3, <1>4

LEMMA GrantedIsSound ==
    ASSUME NEW d, NEW a \in Accounts, NEW t \in Thresholds, Sound(d), Grantable(d, a, t)
    PROVE  /\ Sound(Granted(d, a, t)) /\ Keeps(d, Granted(d, a, t))
           /\ Granted(d, a, t).reward[a][t] = "GRANTED"
<1> PICK e : e = Granted(d, a, t)
    OBVIOUS
<1>1. d \in Document /\ EarnedOnly(d) /\ NoCircle(d) /\ d.reward[a][t] = "PENDING"
    BY DEF Sound, Grantable
<1>2. d.reward \in [Accounts -> [Thresholds -> {"NONE", "PENDING", "GRANTED"}]]
    BY <1>1 DEF Document
<1>3. /\ e \in Document /\ e.users = d.users /\ e.inviter = d.inviter /\ e.favorites = d.favorites
      /\ e.reward = [d.reward EXCEPT ![a][t] = "GRANTED"]
    BY <1>1, <1>2 DEF Granted, Document
<1>4. /\ \A b \in Accounts : b # a => e.reward[b] = d.reward[b]
      /\ \A u \in Thresholds : u # t => e.reward[a][u] = d.reward[a][u]
      /\ e.reward[a][t] = "GRANTED"
    BY <1>2, <1>3
<1>5. Keeps(d, e)
    BY <1>3, <1>4 DEF Keeps
<1>6. \A b \in Accounts : Earned(e, b) = Earned(d, b)
    BY <1>3 DEF Earned, InvitedBy
<1>7. ASSUME NEW b \in Accounts
      PROVE  {u \in Thresholds : e.reward[b][u] # "NONE"} = 1 .. Earned(e, b)
    <2>1. {u \in Thresholds : d.reward[b][u] # "NONE"} = 1 .. Earned(d, b)
        BY <1>1 DEF EarnedOnly
    <2>2. {u \in Thresholds : e.reward[b][u] # "NONE"} = {u \in Thresholds : d.reward[b][u] # "NONE"}
        BY <1>1, <1>4
    <2> QED BY <1>6, <2>1, <2>2
<1>8. ASSUME NEW b \in Accounts PROVE GrantedSlots(e, b) < MaxBonus + BonusSlots
    <2>1. CASE b = a
        <3>1. RowsOf(e, a, "GRANTED") = RowsOf(d, a, "GRANTED") \cup {t}
            BY <1>4 DEF RowsOf
        <3>2. t \notin RowsOf(d, a, "GRANTED")
            BY <1>1 DEF RowsOf
        <3>3. /\ Cardinality(RowsOf(e, a, "GRANTED")) = Cardinality(RowsOf(d, a, "GRANTED")) + 1
              /\ Cardinality(RowsOf(d, a, "GRANTED")) \in Nat
            BY <1>1, <3>1, <3>2, Counted, FS_AddElement
        <3>4. Cardinality(RowsOf(d, a, "GRANTED")) * BonusSlots < MaxBonus
            BY DEF Grantable, GrantedSlots
        <3> QED BY <2>1, <3>3, <3>4, OneMore, StoreAssumption DEF GrantedSlots
    <2>2. CASE b # a
        <3>1. RowsOf(e, b, "GRANTED") = RowsOf(d, b, "GRANTED")
            BY <1>4, <2>2 DEF RowsOf
        <3> QED BY <1>1, <3>1 DEF GrantedSlots, EarnedOnly
    <2> QED BY <2>1, <2>2
<1>9. EarnedOnly(e)
    BY <1>1, <1>3, <1>7, <1>8 DEF EarnedOnly
<1>10. NoCircle(e)
    BY <1>1, <1>3 DEF NoCircle
<1> QED BY <1>3, <1>4, <1>5, <1>9, <1>10 DEF Sound

LEMMA JoinedIsSound ==
    ASSUME NEW d, NEW a \in Accounts, NEW c \in Accounts, Sound(d),
           a \notin d.users, c \in d.users
    PROVE  /\ Sound(Joined(d, a, c)) /\ Keeps(d, Joined(d, a, c))
           /\ Joined(d, a, c).inviter[a] = c
<1> PICK m : m = [Upserted(d, a) EXCEPT !.inviter[a] = c]
    OBVIOUS
<1> PICK e : e = Joined(d, a, c)
    OBVIOUS
<1>1. d \in Document /\ EarnedOnly(d) /\ NoCircle(d)
    BY DEF Sound
<1>2. d.inviter \in [Accounts -> Accounts \cup {None}]
      /\ d.reward \in [Accounts -> [Thresholds -> {"NONE", "PENDING", "GRANTED"}]]
    BY <1>1 DEF Document
<1>3. /\ m \in Document /\ m.users = d.users \cup {a} /\ m.favorites = d.favorites
      /\ m.reward = d.reward /\ m.inviter = [d.inviter EXCEPT ![a] = c]
    BY <1>1, <1>2 DEF Upserted, Document
<1> DEFINE row(t) == IF t \in 1 .. Earned(m, c) /\ d.reward[c][t] = "NONE"
                     THEN "PENDING" ELSE d.reward[c][t]
<1>4. [t \in Thresholds |-> row(t)] \in [Thresholds -> {"NONE", "PENDING", "GRANTED"}]
    BY <1>2
<1>5. e = [m EXCEPT !.reward[c] = [t \in Thresholds |-> row(t)]]
    BY <1>3 DEF Joined, RewardsEvaluated
<1>6. /\ e \in Document /\ e.users = d.users \cup {a} /\ e.favorites = d.favorites
      /\ e.inviter = [d.inviter EXCEPT ![a] = c]
      /\ e.reward = [d.reward EXCEPT ![c] = [t \in Thresholds |-> row(t)]]
    <2> PICK rows : rows = [t \in Thresholds |-> row(t)]
        OBVIOUS
    <2>1. rows \in [Thresholds -> {"NONE", "PENDING", "GRANTED"}] /\ e = [m EXCEPT !.reward[c] = rows]
        BY <1>4, <1>5
    <2> HIDE DEF row
    <2>2. m.reward \in [Accounts -> [Thresholds -> {"NONE", "PENDING", "GRANTED"}]]
        BY <1>2, <1>3
    <2>3. e = [m EXCEPT !.reward = [m.reward EXCEPT ![c] = rows]]
        BY <2>1
    <2>4. [m.reward EXCEPT ![c] = rows] \in [Accounts -> [Thresholds -> {"NONE", "PENDING", "GRANTED"}]]
        BY <2>1, <2>2
    <2>5. e \in Document /\ e.users = m.users /\ e.favorites = m.favorites /\ e.inviter = m.inviter
          /\ e.reward = [m.reward EXCEPT ![c] = rows]
        BY <1>3, <2>3, <2>4 DEF Document
    <2> QED BY <1>3, <2>5
<1>7. d.inviter[a] = None
    BY <1>1 DEF NoCircle
<1>8. /\ e.inviter[a] = c /\ \A b \in Accounts : b # a => e.inviter[b] = d.inviter[b]
      /\ \A b \in Accounts : b # c => e.reward[b] = d.reward[b]
      /\ \A t \in Thresholds : e.reward[c][t] = row(t)
    BY <1>2, <1>6
<1>9. Keeps(d, e)
    <2>1. \A b \in Accounts : d.inviter[b] # None => e.inviter[b] = d.inviter[b]
        BY <1>7, <1>8
    <2>2. \A b \in Accounts, t \in Thresholds : d.reward[b][t] = "GRANTED" => e.reward[b][t] = "GRANTED"
        BY <1>8
    <2> QED BY <1>6, <2>1, <2>2 DEF Keeps
<1>10. /\ InvitedBy(e, c) = InvitedBy(d, c) \cup {a} /\ InvitedBy(m, c) = InvitedBy(e, c)
       /\ \A b \in Accounts : b # c => InvitedBy(e, b) = InvitedBy(d, b)
    <2>1. m.inviter = e.inviter
        BY <1>3, <1>6
    <2>2. InvitedBy(m, c) = InvitedBy(e, c)
        BY <2>1 DEF InvitedBy
    <2>3. InvitedBy(e, c) = InvitedBy(d, c) \cup {a}
        BY <1>8 DEF InvitedBy
    <2>4. ASSUME NEW b \in Accounts, b # c PROVE InvitedBy(e, b) = InvitedBy(d, b)
        <3>1. d.inviter[a] # b /\ e.inviter[a] # b
            BY <1>7, <1>8, <2>4, StoreAssumption
        <3> QED BY <1>8, <3>1 DEF InvitedBy
    <2> QED BY <2>2, <2>3, <2>4
<1>11. /\ Earned(m, c) = Earned(e, c) /\ Earned(d, c) <= Earned(e, c)
       /\ Earned(e, c) \in Nat /\ Earned(d, c) \in Nat
       /\ Earned(e, c) <= Cardinality(Accounts) /\ Cardinality(Accounts) \in Nat
       /\ \A b \in Accounts : b # c => Earned(e, b) = Earned(d, b)
    <2>1. /\ IsFiniteSet(InvitedBy(d, c)) /\ IsFiniteSet(InvitedBy(e, c))
          /\ Cardinality(InvitedBy(d, c)) \in Nat /\ Cardinality(InvitedBy(e, c)) \in Nat
        BY <1>1, <1>6, Counted, FS_CardinalityType
    <2>2. Cardinality(InvitedBy(d, c)) <= Cardinality(InvitedBy(e, c))
        BY <1>10, <2>1, FS_AddElement
    <2>3. Earned(d, c) <= Earned(e, c)
        BY <2>1, <2>2, DivGrows, StoreAssumption DEF Earned
    <2>4. Earned(m, c) = Earned(e, c) /\ \A b \in Accounts : b # c => Earned(e, b) = Earned(d, b)
        BY <1>10 DEF Earned
    <2> QED BY <1>1, <1>6, <2>3, <2>4, Counted
<1>12. ASSUME NEW b \in Accounts
       PROVE  {t \in Thresholds : e.reward[b][t] # "NONE"} = 1 .. Earned(e, b)
    <2>1. {t \in Thresholds : d.reward[b][t] # "NONE"} = 1 .. Earned(d, b)
        BY <1>1 DEF EarnedOnly
    <2>2. CASE b # c
        BY <1>8, <1>11, <2>1, <2>2
    <2>3. CASE b = c
        <3>1. \A t \in Thresholds : e.reward[c][t] # "NONE" <=> t \in 1 .. Earned(e, c) \/ d.reward[c][t] # "NONE"
            BY <1>8, <1>11
        <3>2. \A t \in Thresholds : d.reward[c][t] # "NONE" <=> t \in 1 .. Earned(d, c)
            BY <2>1, <2>3
        <3>3. 1 .. Earned(d, c) \subseteq 1 .. Earned(e, c) /\ 1 .. Earned(e, c) \subseteq Thresholds
            BY <1>11 DEF Thresholds
        <3> QED BY <2>3, <3>1, <3>2, <3>3
    <2> QED BY <2>2, <2>3
<1>13. ASSUME NEW b \in Accounts PROVE GrantedSlots(e, b) < MaxBonus + BonusSlots
    <2>1. RowsOf(e, b, "GRANTED") = RowsOf(d, b, "GRANTED")
        <3>1. \A t \in Thresholds : e.reward[b][t] = "GRANTED" <=> d.reward[b][t] = "GRANTED"
            BY <1>8
        <3> QED BY <3>1 DEF RowsOf
    <2> QED BY <1>1, <2>1 DEF GrantedSlots, EarnedOnly
<1>14. EarnedOnly(e)
    BY <1>1, <1>6, <1>12, <1>13 DEF EarnedOnly
<1>15. NoCircle(e)
    <2>1. ASSUME NEW group \in (SUBSET Accounts) \ {{}}
          PROVE  \E b \in group : e.inviter[b] \notin group
        <3>1. \A b \in Accounts : d.inviter[b] # a
            BY <1>1, StoreAssumption DEF NoCircle
        <3>2. CASE group = {a}
            <4>1. c # a
                OBVIOUS
            <4> QED BY <1>8, <3>2, <4>1
        <3>3. CASE group # {a}
            <4>1. group \ {a} \in (SUBSET Accounts) \ {{}}
                BY <3>3
            <4>2. PICK b \in group \ {a} : d.inviter[b] \notin group \ {a}
                BY <1>1, <4>1 DEF NoCircle
            <4> QED BY <1>8, <3>1, <4>2
        <3> QED BY <3>2, <3>3
    <2>2. ASSUME NEW b \in Accounts, e.inviter[b] # None PROVE {b, e.inviter[b]} \subseteq e.users
        BY <1>1, <1>6, <1>8, <2>2 DEF NoCircle
    <2> QED BY <2>1, <2>2 DEF NoCircle
<1> QED BY <1>6, <1>8, <1>9, <1>14, <1>15 DEF Sound

-----------------------------------------------------------------------------
(* The chain *)

LEMMA ResultIsSound ==
    ASSUME Sound(memory), NEW l, LinkShape(l), l.op # "snapshot",
           l.op = "join" => l.arg \in memory.users
    PROVE  /\ Sound(Result(l, memory)) /\ Keeps(memory, Result(l, memory))
           /\ Does(l, memory) /\ l.op = "join" =>
                /\ Result(l, memory).inviter[l.account] = l.arg
                /\ l.arg \in Accounts
           /\ Does(l, memory) /\ l.op = "grant" =>
                /\ Result(l, memory).reward[l.account][l.arg] = "GRANTED"
                /\ memory.reward[l.account][l.arg] = "PENDING"
           /\ Does(l, memory) => Dirty(l, memory)
           /\ Dirty(l, memory) \in BOOLEAN /\ Does(l, memory) \in BOOLEAN
<1>1. l \in Links /\ l.account \in Accounts /\ l.op \in {"join", "grant", "code", "touch"}
    BY DEF LinkShape, Links
<1>2. CASE ~ Does(l, memory)
    <2>1. Result(l, memory) = memory
        BY <1>2 DEF Result
    <2> QED BY <1>1, <1>2, <2>1, KeepsItself DEF Dirty, Does
<1>3. CASE Does(l, memory) /\ l.op = "join"
    <2>1. l.account \notin memory.users /\ Result(l, memory) = Joined(memory, l.account, l.arg)
        BY <1>3 DEF Does, Dirty, Result
    <2>2. l.arg \in Accounts
        BY <1>3 DEF LinkShape
    <2> QED BY <1>1, <1>3, <2>1, <2>2, JoinedIsSound DEF Dirty, Does
<1>4. CASE Does(l, memory) /\ l.op = "grant"
    <2>1. Grantable(memory, l.account, l.arg) /\ Result(l, memory) = Granted(memory, l.account, l.arg)
        BY <1>4 DEF Does, Dirty, Result
    <2>2. l.arg \in Thresholds
        BY <1>4 DEF LinkShape
    <2>3. Sound(Result(l, memory)) /\ Keeps(memory, Result(l, memory))
          /\ Result(l, memory).reward[l.account][l.arg] = "GRANTED"
        BY <1>1, <2>1, <2>2, GrantedIsSound
    <2> QED BY <1>1, <1>4, <2>1, <2>3 DEF Dirty, Does, Grantable
<1>5. CASE Does(l, memory) /\ l.op = "code"
    <2>1. Result(l, memory) = CodeAssigned(memory, l.account, l.arg) /\ l.arg \in Codes
        BY <1>5 DEF Result, LinkShape
    <2> QED BY <1>1, <1>5, <2>1, CodeIsSound DEF Dirty, Does
<1>6. CASE Does(l, memory) /\ l.op = "touch"
    <2>1. Result(l, memory) = memory
        BY <1>6 DEF Result
    <2> QED BY <1>1, <1>6, <2>1, KeepsItself DEF Dirty, Does
<1> QED BY <1>1, <1>2, <1>3, <1>4, <1>5, <1>6

\* A poller that runs shares the chain with at most the other one.
LEMMA OneAhead ==
    ASSUME Chain, NEW p \in Pollers, ~ Busy(p)
    PROVE  Len(chain) \in Nat /\ Len(chain) <= 1
<1>1. Len(chain) \in Nat /\ \A i \in Positions : chain[i] \in Links /\ chain[i].by \in Pollers
    <2>1. \A i \in Positions : chain[i] \in Links
        BY DEF Chain, LinkShape
    <2> QED BY <2>1, LenProperties DEF Chain, Links
<1>2. SUFFICES ASSUME Len(chain) > 1 PROVE FALSE
    BY <1>1
<1>3. 1 \in Positions /\ 2 \in Positions
    BY <1>1, <1>2 DEF Positions
<1>4. chain[1].by # p /\ chain[2].by # p /\ chain[1].by # chain[2].by
    BY <1>3 DEF Chain, Busy, Positions
<1> QED BY <1>1, <1>3, <1>4, TwoPollers

\* A poller that runs asks for a write.
LEMMA AskingKeepsOrder ==
    ASSUME StoreInv, Settled, NEW p \in Pollers, ~ Busy(p),
           NEW l, LinkShape(l), l.by = p, Asked(l), Awaits(l)',
           l.op = "snapshot" => l.payload = memory', l.op # "snapshot" => ~ l.applied,
           Sound(memory'), Keeps(memory, memory'), UNCHANGED disk,
           \A q \in Pollers \ {p} : handler'[q] = handler[q]
    PROVE  StoreInv'
<1> DEFINE n == Len(chain)
<1>1. /\ chain \in Seq(Links) /\ l \in Links
      /\ \A i \in Positions : chain[i] \in Links /\ chain[i].by \in Pollers /\ chain[i].by # p
      /\ Sound(memory) /\ Sound(disk) /\ Sound(l.payload)
    BY DEF StoreInv, Chain, LinkShape, Links, Busy, Positions
<1>2. /\ n \in Nat /\ n <= 1 /\ chain' \in Seq(Links) /\ Len(chain') = n + 1
      /\ \A i \in 1 .. n : chain'[i] = chain[i]
      /\ chain'[n + 1] = l
    BY <1>1, OneAhead, AppendProperties DEF StoreInv, Asked
<1> HIDE DEF n
<1>3. Positions' = 1 .. n + 1 /\ Positions = 1 .. n
    BY <1>2 DEF Positions, n
<1>4. \A i \in Positions : chain[i].applied
    <2>1. n = 1 => chain[1].applied
        BY DEF Settled, n
    <2> QED BY <1>2, <1>3, <2>1
<1>5. ASSUME NEW i \in Positions' PROVE LinkShape(chain'[i]) /\ Awaits(chain[i])'
    <2>1. CASE i = n + 1
        BY <1>2, <2>1 DEF Awaits
    <2>2. CASE i \in Positions
        <3>1. chain'[i] = chain[i] /\ LinkShape(chain[i]) /\ Awaits(chain[i])
            BY <1>2, <1>3, <2>2 DEF StoreInv, Chain
        <3>2. handler'[chain[i].by] = handler[chain[i].by]
            BY <1>1, <2>2
        <3>3. memory.users \subseteq memory'.users
            BY DEF Keeps
        <3> QED BY <3>1, <3>2, <3>3 DEF Awaits
    <2> QED BY <1>2, <1>3, <2>1, <2>2
<1>6. \A i, k \in Positions' : chain'[i].by = chain'[k].by => i = k
    BY <1>1, <1>2, <1>3 DEF StoreInv, Chain
<1>7. Chain'
    BY <1>2, <1>5, <1>6 DEF Chain
<1>8. InOrder'
    <2> SUFFICES ASSUME NEW i \in Positions', NEW k \in Positions', i < k
                 PROVE  /\ chain'[k].applied => chain'[i].applied
                        /\ chain'[k].op # "snapshot" => ~ chain'[k].applied
        BY DEF InOrder
    <2>1. i \in Positions
        BY <1>2, <1>3
    <2>2. chain'[i].applied
        BY <1>2, <1>3, <1>4, <2>1
    <2>3. CASE k \in Positions
        BY <1>2, <1>3, <2>1, <2>2, <2>3 DEF StoreInv, InOrder
    <2>4. CASE k = n + 1
        BY <1>2, <2>2, <2>4
    <2> QED BY <1>2, <1>3, <2>3, <2>4
<1>9. Keeps(disk', memory')
    BY <1>1, KeepsOn DEF StoreInv, Growing, Sound
<1>10. ASSUME NEW i \in Positions
       PROVE  Keeps(disk, chain[i].payload) /\ Keeps(chain[i].payload, memory')
    <2>1. Keeps(disk, chain[i].payload) /\ Keeps(chain[i].payload, memory)
        BY <1>4, <1>10 DEF StoreInv, Growing
    <2>2. chain[i].payload \in Document
        BY <1>1, <1>10 DEF Links
    <2> QED BY <1>1, <2>1, <2>2, KeepsOn DEF Sound
<1>11. ASSUME NEW i \in Positions', chain'[i].applied
       PROVE  /\ Keeps(disk', chain'[i].payload) /\ Keeps(chain'[i].payload, memory')
              /\ \A k \in Positions' : i < k /\ chain'[k].applied => Keeps(chain'[i].payload, chain'[k].payload)
    <2>1. CASE i \in Positions
        <3>1. chain'[i] = chain[i]
            BY <1>2, <1>3, <2>1
        <3>2. ASSUME NEW k \in Positions', i < k, chain'[k].applied
              PROVE  Keeps(chain[i].payload, chain'[k].payload)
            <4>1. CASE k \in Positions
                BY <1>2, <1>3, <1>4, <2>1, <3>2, <4>1 DEF StoreInv, Growing
            <4>2. CASE k = n + 1
                BY <1>2, <1>10, <2>1, <3>2, <4>2
            <4> QED BY <1>2, <1>3, <4>1, <4>2
        <3> QED BY <1>10, <2>1, <3>1, <3>2
    <2>2. CASE i = n + 1
        <3>1. chain'[i].payload = memory'
            BY <1>2, <1>11, <2>2
        <3>2. \A k \in Positions' : ~ (i < k)
            BY <1>2, <1>3, <2>2
        <3> QED BY <1>9, <3>1, <3>2, KeepsItself
    <2> QED BY <1>2, <1>3, <2>1, <2>2
<1>12. Growing'
    BY <1>9, <1>11 DEF Growing
<1> QED BY <1>1, <1>7, <1>8, <1>12 DEF StoreInv

\* The head runs when its turn comes.
LEMMA ApplyingKeepsOrder ==
    ASSUME StoreInv, Apply, UNCHANGED handler
    PROVE  /\ StoreInv' /\ Keeps(memory, memory')
           /\ \A i \in Positions' : chain'[i].op = "grant" /\ chain'[i].did =>
                memory.reward[chain'[i].account][chain'[i].arg] = "PENDING"
<1> DEFINE n == Len(chain)
<1> DEFINE l == Head(chain)
<1> PICK e : e = Result(l, memory)
    OBVIOUS
<1> PICK m : m = [l EXCEPT !.applied = TRUE, !.dirty = Dirty(l, memory),
                           !.did = Does(l, memory), !.payload = e]
    OBVIOUS
<1>1. chain \in Seq(Links) /\ chain # <<>> /\ ~ l.applied
    BY DEF StoreInv, Chain, Apply, Settled
<1>2. n \in Nat /\ n >= 1 /\ l = chain[1] /\ 1 \in Positions
    BY <1>1, LenProperties, EmptySeq, HeadTailProperties DEF Positions
<1>3. /\ chain' = [chain EXCEPT ![1] = m] /\ memory' = e /\ disk' = disk
    BY DEF Apply
<1>4. LinkShape(l) /\ Awaits(l) /\ l \in Links /\ l.op # "snapshot"
    BY <1>1, <1>2 DEF StoreInv, Chain, LinkShape
<1>5. /\ Sound(e) /\ Keeps(memory, e)
      /\ Does(l, memory) /\ l.op = "join" => e.inviter[l.account] = l.arg
      /\ Does(l, memory) /\ l.op = "grant" =>
           e.reward[l.account][l.arg] = "GRANTED" /\ memory.reward[l.account][l.arg] = "PENDING"
      /\ Does(l, memory) => Dirty(l, memory)
      /\ Dirty(l, memory) \in BOOLEAN /\ Does(l, memory) \in BOOLEAN
    BY <1>4, ResultIsSound DEF StoreInv, Awaits
<1> HIDE DEF n, l
<1>6. /\ m \in Links /\ m.by = l.by /\ m.op = l.op /\ m.account = l.account /\ m.arg = l.arg
      /\ m.applied /\ m.payload = e /\ m.did = Does(l, memory) /\ m.dirty = Dirty(l, memory)
    <2>1. e \in Document
        BY <1>5 DEF Sound
    <2>2. /\ l.by \in Pollers /\ l.op \in {"snapshot", "join", "grant", "code", "touch"}
          /\ l.account \in Accounts /\ l.arg \in Accounts \cup Codes \cup Thresholds \cup {None}
          /\ m = [by |-> l.by, op |-> l.op, account |-> l.account, arg |-> l.arg, applied |-> TRUE,
                  dirty |-> Dirty(l, memory), did |-> Does(l, memory), payload |-> e]
        BY <1>4 DEF Links
    <2> QED BY <1>5, <2>1, <2>2 DEF Links
<1>7. LinkShape(m)
    BY <1>4, <1>5, <1>6 DEF LinkShape
<1>8. /\ chain' \in Seq(Links) /\ Len(chain') = n /\ chain'[1] = m
      /\ \A i \in 1 .. n : i # 1 => chain'[i] = chain[i]
    <2>1. 1 \in 1 .. Len(chain)
        BY <1>2 DEF n
    <2>2. /\ [chain EXCEPT ![1] = m] \in Seq(Links) /\ Len([chain EXCEPT ![1] = m]) = Len(chain)
          /\ \A i \in 1 .. Len(chain) : [chain EXCEPT ![1] = m][i] = IF i = 1 THEN m ELSE chain[i]
        BY <1>1, <1>6, <2>1, ExceptSeq
    <2> QED BY <1>3, <2>1, <2>2 DEF n
<1>9. Positions' = Positions /\ Positions = 1 .. n
    BY <1>8 DEF Positions, n
<1>10. ASSUME NEW i \in Positions PROVE LinkShape(chain'[i]) /\ Awaits(chain[i])'
    <2>1. memory.users \subseteq memory'.users
        BY <1>3, <1>5 DEF Keeps
    <2>2. CASE i = 1
        <3>1. chain'[1] = m /\ Awaits(l) /\ LinkShape(m)
            BY <1>4, <1>7, <1>8
        <3>2. /\ m.by = l.by /\ m.op = l.op /\ m.account = l.account /\ m.arg = l.arg
              /\ handler' = handler
            BY <1>6
        <3> QED BY <2>1, <2>2, <3>1, <3>2 DEF Awaits
    <2>3. CASE i # 1
        <3>1. chain'[i] = chain[i] /\ LinkShape(chain[i]) /\ Awaits(chain[i])
            BY <1>8, <1>9, <2>3 DEF StoreInv, Chain
        <3> QED BY <2>1, <3>1 DEF Awaits
    <2> QED BY <2>2, <2>3
<1>11. \A i \in Positions : chain'[i].by = chain[i].by /\ chain'[i].op = chain[i].op
    BY <1>2, <1>6, <1>8, <1>9
<1>12. Chain'
    BY <1>8, <1>9, <1>10, <1>11 DEF StoreInv, Chain
<1>13. \A i \in Positions : i # 1 => ~ chain'[i].applied
    BY <1>1, <1>2, <1>8, <1>9 DEF StoreInv, InOrder
<1>14. InOrder'
    BY <1>2, <1>9, <1>13 DEF InOrder
<1>15. Keeps(disk, e)
    BY <1>5, KeepsOn DEF StoreInv, Growing, Sound
<1>16. Growing'
    <2> SUFFICES ASSUME NEW i \in Positions, chain'[i].applied
                 PROVE  /\ Keeps(disk', chain'[i].payload) /\ Keeps(chain'[i].payload, memory')
                        /\ \A k \in Positions : i < k => ~ chain'[k].applied
        BY <1>3, <1>9, <1>15 DEF Growing
    <2>1. i = 1 /\ chain'[i].payload = e
        BY <1>6, <1>8, <1>13
    <2> QED BY <1>3, <1>13, <1>15, <2>1, KeepsItself
<1>17. ASSUME NEW i \in Positions, chain'[i].op = "grant", chain'[i].did
       PROVE  memory.reward[chain'[i].account][chain'[i].arg] = "PENDING"
    <2>1. chain'[i].applied
        BY <1>10, <1>17 DEF LinkShape
    <2>2. i = 1
        BY <1>13, <2>1
    <2>3. chain'[i] = m
        BY <1>8, <2>2
    <2> QED BY <1>5, <1>6, <1>17, <2>3
<1> QED BY <1>3, <1>5, <1>9, <1>12, <1>14, <1>16, <1>17 DEF StoreInv

\* The head settles and its caller goes on.
LEMMA SettlingKeepsOrder ==
    ASSUME StoreInv, NEW persisted, Settles(persisted),
           \A q \in Pollers \ {Head(chain).by} : handler'[q] = handler[q]
    PROVE  /\ StoreInv' /\ Keeps(disk, disk')
           /\ LinkShape(Head(chain)) /\ Awaits(Head(chain))
           /\ persisted /\ Head(chain).dirty => disk' = Head(chain).payload
           /\ \A i \in Positions' : i + 1 \in Positions /\ chain'[i] = chain[i + 1]
<1> DEFINE n == Len(chain)
<1> DEFINE l == Head(chain)
<1>1. chain \in Seq(Links) /\ chain # <<>> /\ l.applied /\ chain' = Tail(chain) /\ memory' = memory
    BY DEF StoreInv, Chain, Settles
<1>2. /\ n \in Nat /\ n >= 1 /\ l = chain[1] /\ 1 \in Positions
      /\ chain' \in Seq(Links) /\ Len(chain') = n - 1
      /\ \A i \in 1 .. n - 1 : chain'[i] = chain[i + 1]
    BY <1>1, LenProperties, EmptySeq, HeadTailProperties DEF Positions
<1>3. LinkShape(l) /\ Awaits(l) /\ l \in Links
    BY <1>2 DEF StoreInv, Chain, LinkShape
<1>4. disk' = disk \/ disk' = l.payload
    BY DEF Settles
<1>5. persisted /\ l.dirty => disk' = l.payload
    BY DEF Settles
<1> HIDE DEF n, l
<1>6. Positions = 1 .. n /\ Positions' = 1 .. n - 1
    BY <1>2 DEF Positions, n
<1>7. \A i \in Positions' : i + 1 \in Positions /\ i + 1 # 1 /\ chain'[i] = chain[i + 1]
    BY <1>2, <1>6
<1>8. Sound(disk') /\ Keeps(disk, disk') /\ Keeps(disk', memory')
    <2>1. Sound(l.payload) /\ Keeps(disk, l.payload) /\ Keeps(l.payload, memory)
        BY <1>1, <1>2, <1>3 DEF LinkShape, StoreInv, Growing
    <2> QED BY <1>1, <1>4, <2>1, KeepsItself DEF StoreInv, Growing
<1>9. ASSUME NEW i \in Positions' PROVE LinkShape(chain'[i]) /\ Awaits(chain[i])'
    <2>1. /\ chain'[i] = chain[i + 1] /\ LinkShape(chain[i + 1]) /\ Awaits(chain[i + 1])
          /\ chain[i + 1].by # l.by
        BY <1>2, <1>7 DEF StoreInv, Chain
    <2>2. chain[i + 1].by \in Pollers
        BY <2>1 DEF LinkShape, Links
    <2>3. handler'[chain[i + 1].by] = handler[chain[i + 1].by]
        BY <2>1, <2>2 DEF l
    <2> QED BY <1>1, <2>1, <2>3 DEF Awaits
<1>10. Chain'
    <2>1. ASSUME NEW i \in Positions', NEW k \in Positions', chain'[i].by = chain'[k].by
          PROVE  i = k
        <3>1. i + 1 \in Positions /\ k + 1 \in Positions /\ chain[i + 1].by = chain[k + 1].by
            BY <1>7, <2>1
        <3>2. i + 1 = k + 1
            BY <3>1 DEF StoreInv, Chain
        <3> QED BY <1>2, <1>6, <3>2
    <2> QED BY <1>2, <1>9, <2>1 DEF Chain
<1>11. InOrder'
    BY <1>2, <1>6, <1>7 DEF StoreInv, InOrder
<1>12. ASSUME NEW i \in Positions', chain'[i].applied
       PROVE  /\ Keeps(disk', chain'[i].payload) /\ Keeps(chain'[i].payload, memory')
              /\ \A k \in Positions' : i < k /\ chain'[k].applied => Keeps(chain'[i].payload, chain'[k].payload)
    <2>1. /\ Keeps(disk, chain'[i].payload) /\ Keeps(chain'[i].payload, memory')
          /\ Keeps(l.payload, chain'[i].payload)
        BY <1>1, <1>2, <1>6, <1>7, <1>12 DEF StoreInv, Growing
    <2>2. \A k \in Positions' : i < k /\ chain'[k].applied => Keeps(chain'[i].payload, chain'[k].payload)
        BY <1>2, <1>6, <1>7, <1>12 DEF StoreInv, Growing
    <2> QED BY <1>4, <2>1, <2>2
<1>13. Growing'
    BY <1>8, <1>12 DEF Growing
<1> QED BY <1>1, <1>3, <1>5, <1>7, <1>8, <1>10, <1>11, <1>13 DEF StoreInv, l

-----------------------------------------------------------------------------
(* What a handler does while the chain goes on *)

\* A step that asks at most for one write more.
Kept ==
    /\ StoreInv' /\ Keeps(memory, memory') /\ UNCHANGED <<disk, failures>>
    /\ \A i \in Positions' : chain'[i].op = "grant" /\ chain'[i].did =>
        i \in Positions /\ chain'[i] = chain[i]

LEMMA EmptyShape ==
    ASSUME NEW p \in Pollers, NEW op \in {"snapshot", "join", "grant", "code", "touch"},
           NEW a \in Accounts, NEW arg \in Accounts \cup Codes \cup Thresholds \cup {None}
    PROVE  Link(p, op, a, arg) \in Links
<1>1. Empty \in Document
    BY EmptyIsSound DEF Sound
<1> QED BY <1>1 DEF Link, Links

LEMMA AskedLast ==
    ASSUME chain \in Seq(Links), NEW l, l \in Links, Asked(l), ~ (l.op = "grant" /\ l.did)
    PROVE  \A i \in Positions' : chain'[i].op = "grant" /\ chain'[i].did =>
               i \in Positions /\ chain'[i] = chain[i]
<1>1. /\ Len(chain) \in Nat /\ Len(chain') = Len(chain) + 1
      /\ \A i \in 1 .. Len(chain) : chain'[i] = chain[i]
      /\ chain'[Len(chain) + 1] = l
    BY AppendProperties, LenProperties DEF Asked
<1> QED BY <1>1 DEF Positions

LEMMA PersistKeepsStore ==
    ASSUME StoreInv, NEW p \in Pollers, Settled, ~ Busy(p), NEW a \in Accounts,
           NEW d, Sound(d), Keeps(memory, d), Persist(p, a, d),
           \A q \in Pollers \ {p} : handler'[q] = handler[q],
           handler'[p].at \notin {"joining", "granting"}
    PROVE  Kept
<1> PICK l : l = [Link(p, "snapshot", a, None) EXCEPT
                    !.applied = TRUE, !.dirty = TRUE, !.did = TRUE, !.payload = d]
    OBVIOUS
<1>1. Link(p, "snapshot", a, None) \in Links /\ d \in Document
    BY EmptyShape DEF Sound
<1>2. /\ l \in Links /\ l.by = p /\ l.op = "snapshot" /\ l.applied /\ l.dirty /\ l.payload = d
    BY <1>1 DEF Links, Link
<1>3. LinkShape(l)
    BY <1>2 DEF LinkShape
<1>4. Awaits(l)'
    BY <1>2 DEF Awaits
<1>5. Asked(l) /\ memory' = d /\ UNCHANGED <<disk, failures>>
    BY DEF Persist
<1>6. StoreInv'
    BY <1>2, <1>3, <1>4, <1>5, AskingKeepsOrder
<1> QED BY <1>2, <1>5, <1>6, AskedLast DEF Kept, StoreInv, Chain

LEMMA TransactKeepsStore ==
    ASSUME StoreInv, NEW p \in Pollers, Settled, ~ Busy(p), NEW a \in Accounts,
           NEW op \in {"join", "grant", "code", "touch"}, NEW arg, Transact(p, op, a, arg),
           op = "join" => arg \in memory.users, op = "grant" => arg \in Thresholds,
           op = "code" => arg \in Codes, op = "touch" => arg = None,
           \A q \in Pollers \ {p} : handler'[q] = handler[q],
           op = "join" <=> handler'[p].at = "joining",
           op = "grant" <=> handler'[p].at = "granting",
           op = "join" => a = handler'[p].account, op = "grant" => a = handler'[p].inviter
    PROVE  Kept
<1> PICK l : l = Link(p, op, a, arg)
    OBVIOUS
<1>1. memory.users \subseteq Accounts
    BY DEF StoreInv, Sound, Document
<1>2. l \in Links
    BY <1>1, EmptyShape
<1>3. /\ l.by = p /\ l.op = op /\ l.account = a /\ l.arg = arg /\ l.applied = FALSE
      /\ l.did = FALSE /\ l.payload = Empty
    BY DEF Link
<1>4. LinkShape(l)
    BY <1>1, <1>2, <1>3, EmptyIsSound DEF LinkShape
<1>5. Asked(l) /\ UNCHANGED <<memory, disk, failures>>
    BY DEF Transact
<1>6. Awaits(l)'
    BY <1>3, <1>5 DEF Awaits
<1>7. StoreInv'
    BY <1>3, <1>4, <1>5, <1>6, KeepsItself, AskingKeepsOrder DEF StoreInv
<1> QED BY <1>2, <1>3, <1>5, <1>7, KeepsItself, AskedLast DEF Kept, StoreInv, Chain

LEMMA StandingKeepsStore ==
    ASSUME StoreInv, NEW p \in Pollers, ~ Busy(p), UNCHANGED storeVars,
           \A q \in Pollers \ {p} : handler'[q] = handler[q]
    PROVE  Kept
<1>1. UNCHANGED <<memory, disk, chain, failures>>
    BY DEF storeVars
<1>2. ASSUME NEW i \in Positions PROVE Awaits(chain[i])'
    <2>1. Awaits(chain[i]) /\ LinkShape(chain[i])
        BY DEF StoreInv, Chain
    <2>2. chain[i].by \in Pollers \ {p}
        BY <2>1 DEF LinkShape, Links, Busy, Positions
    <2> QED BY <1>1, <2>1, <2>2 DEF Awaits
<1>3. Chain'
    BY <1>1, <1>2 DEF StoreInv, Chain, Positions
<1>4. InOrder' /\ Growing'
    BY <1>1 DEF StoreInv, InOrder, Growing, Positions
<1> QED BY <1>1, <1>3, <1>4, KeepsItself DEF Kept, StoreInv, Positions

-----------------------------------------------------------------------------
(* Who tells of what *)

LEMMA LinkTypes ==
    ASSUME StoreInv, NEW i \in Positions
    PROVE  /\ LinkShape(chain[i]) /\ Awaits(chain[i]) /\ chain[i] \in Links
           /\ chain[i].by \in Pollers /\ chain[i].account \in Accounts
           /\ chain[i].op = "grant" => chain[i].arg \in Thresholds
BY DEF StoreInv, Chain, LinkShape, Links

\* Nobody tells of more than before.
LEMMA TellingStays ==
    ASSUME IInv, Kept, Bystanders,
           \A q \in Pollers, a \in Accounts, t \in Thresholds : Holds(q, a, t)' => Holds(q, a, t)
    PROVE  OneTells' /\ GrantIsNew' /\ TellingIsPaid' /\ TellingIsGranted'
<1>1. \A a \in Accounts, t \in Thresholds : Tells(a, t)' => Tells(a, t)
    BY DEF Tells
<1>2. OneTells'
    BY DEF IInv, OneTells, Kept, Keeps
<1>3. ASSUME NEW i \in Positions', NEW c, c = chain'[i], c.op = "grant", c.did
      PROVE  /\ disk'.reward[c.account][c.arg] # "GRANTED" /\ ~ Tells(c.account, c.arg)'
             /\ told'[c.account][c.arg] <= crashes'
    <2>1. i \in Positions /\ chain[i] = c /\ disk' = disk
        BY <1>3 DEF Kept
    <2>2. c.account \in Accounts /\ c.arg \in Thresholds
        BY <1>3, <2>1, LinkTypes DEF IInv
    <2>3. /\ disk.reward[c.account][c.arg] # "GRANTED" /\ ~ Tells(c.account, c.arg)
          /\ told[c.account][c.arg] <= crashes
        BY <1>3, <2>1 DEF IInv, GrantIsNew
    <2> QED BY <1>1, <2>1, <2>2, <2>3 DEF Bystanders
<1>4. GrantIsNew'
    BY <1>3 DEF GrantIsNew, Tells, Holds
<1>5. ASSUME NEW a \in Accounts, NEW t \in Thresholds
      PROVE  /\ told[a][t] \in Nat /\ unsaved[a][t] \in Nat /\ crashes \in Nat
             /\ One(Tells(a, t)') <= One(Tells(a, t))
             /\ One(Tells(a, t)') \in Nat /\ One(Tells(a, t)) \in Nat
    BY <1>1, ReferralAssumption DEF IInv, TypeOK, One
<1>6. TellingIsPaid'
    <2> SUFFICES ASSUME NEW a \in Accounts, NEW t \in Thresholds
                 PROVE  told[a][t] + One(Tells(a, t)') <= One(disk.reward[a][t] = "GRANTED") + unsaved[a][t]
        BY DEF TellingIsPaid, Kept, Bystanders, One
    <2>1. told[a][t] + One(Tells(a, t)) <= One(disk.reward[a][t] = "GRANTED") + unsaved[a][t]
        BY DEF IInv, TellingIsPaid
    <2>2. One(disk.reward[a][t] = "GRANTED") \in Nat
        BY DEF One
    <2> QED BY <1>5, <2>1, <2>2
<1>7. TellingIsGranted'
    <2> SUFFICES ASSUME NEW a \in Accounts, NEW t \in Thresholds
                 PROVE  told[a][t] + One(Tells(a, t)') <= One(memory'.reward[a][t] = "GRANTED") + crashes
        BY DEF TellingIsGranted, Bystanders, One
    <2>1. told[a][t] + One(Tells(a, t)) <= One(memory.reward[a][t] = "GRANTED") + crashes
        BY DEF IInv, TellingIsGranted
    <2>2. /\ One(memory.reward[a][t] = "GRANTED") <= One(memory'.reward[a][t] = "GRANTED")
          /\ One(memory.reward[a][t] = "GRANTED") \in Nat /\ One(memory'.reward[a][t] = "GRANTED") \in Nat
        BY DEF Kept, Keeps, One
    <2> QED BY <1>5, <2>1, <2>2
<1> QED BY <1>2, <1>4, <1>6, <1>7

\* The handler of one poller goes on.
LEMMA CallerKeepsInv ==
    ASSUME IInv, Kept, NEW p \in Pollers, NEW h, handler' = [handler EXCEPT ![p] = h],
           HandlerShape(h),
           h.applied = {} \/ (h.inviter = handler[p].inviter /\ h.applied = handler[p].applied),
           Bystanders
    PROVE  IInv'
<1>1. handler \in [Pollers -> Handler] /\ h \in Handler
    BY DEF IInv, TypeOK, HandlerShape
<1>2. /\ handler' \in [Pollers -> Handler] /\ handler'[p] = h
      /\ \A q \in Pollers : q # p => handler'[q] = handler[q]
    BY <1>1
<1>3. \A q \in Pollers, a \in Accounts, t \in Thresholds : Holds(q, a, t)' => Holds(q, a, t)
    BY <1>2 DEF Holds
<1>4. OneTells' /\ GrantIsNew' /\ TellingIsPaid' /\ TellingIsGranted'
    BY <1>3, TellingStays
<1>5. TypeOK'
    BY <1>2 DEF IInv, TypeOK, Kept, StoreInv, Sound, Bystanders
<1>6. \A q \in Pollers : HandlerShape(handler'[q])
    BY <1>2 DEF IInv
<1> QED BY <1>4, <1>5, <1>6 DEF IInv, Kept, Bystanders, ReportedIsSaved

\* What a poller that runs finds.
LEMMA RunsFree ==
    ASSUME IInv, NEW p \in Pollers, NEW at, Runs(p, at)
    PROVE  /\ StoreInv /\ Settled /\ ~ Busy(p) /\ handler[p].at = at
           /\ handler \in [Pollers -> Handler] /\ HandlerShape(handler[p]) /\ handler[p] \in Handler
           /\ Sound(memory) /\ memory.users \subseteq Accounts
BY DEF IInv, TypeOK, Runs, StoreInv, Sound, HandlerShape, Document

LEMMA IdleShape ==
    /\ HandlerShape(Idle) /\ Idle \in Handler
    /\ Idle.at = "idle" /\ Idle.inviter = None /\ Idle.applied = {}
<1>1. Idle \in Handler
    BY DEF Idle, Handler, Symbol
<1> QED BY <1>1 DEF Idle, HandlerShape

LEMMA StartWithCodeKeeps ==
    ASSUME IInv, NEW p \in Pollers, NEW a \in Accounts, NEW c \in Codes, StartWithCode(p, a, c)
    PROVE  IInv'
<1>1. Runs(p, "idle") /\ Bystanders
    BY DEF StartWithCode
<1>2. PICK inviter \in OwnersOf(memory, c) :
        /\ handler' = [handler EXCEPT ![p] =
              [Idle EXCEPT !.at = "joining", !.account = a, !.inviter = inviter]]
        /\ Transact(p, "join", a, inviter)
    BY DEF StartWithCode
<1> PICK h : h = [Idle EXCEPT !.at = "joining", !.account = a, !.inviter = inviter]
    OBVIOUS
<1>3. inviter \in memory.users /\ inviter \in Accounts
    BY <1>1, RunsFree DEF OwnersOf
<1>4. /\ h \in Handler /\ h.at = "joining" /\ h.account = a /\ h.inviter = inviter
      /\ h.applied = {}
    BY <1>3, IdleShape DEF Handler
<1>5. HandlerShape(h)
    BY <1>3, <1>4 DEF HandlerShape
<1>6. handler'[p] = h /\ \A q \in Pollers \ {p} : handler'[q] = handler[q]
    BY <1>1, <1>2, RunsFree
<1>7. Kept
    BY <1>1, <1>2, <1>3, <1>4, <1>6, RunsFree, TransactKeepsStore
<1> QED BY <1>1, <1>2, <1>4, <1>5, <1>7, CallerKeepsInv

LEMMA StartWithOwnCodeKeeps ==
    ASSUME IInv, NEW p \in Pollers, NEW a \in Accounts, NEW c \in Codes, StartWithOwnCode(p, a, c)
    PROVE  IInv'
<1> PICK h : h = [Idle EXCEPT !.at = "upserting", !.account = a]
    OBVIOUS
<1>1. Runs(p, "idle") /\ Bystanders /\ UNCHANGED storeVars /\ handler' = [handler EXCEPT ![p] = h]
    BY DEF StartWithOwnCode
<1>2. h \in Handler /\ h.at = "upserting" /\ h.account = a /\ h.applied = {}
    BY IdleShape DEF Handler
<1>3. HandlerShape(h)
    BY <1>2 DEF HandlerShape
<1>4. \A q \in Pollers \ {p} : handler'[q] = handler[q]
    BY <1>1, RunsFree
<1>5. Kept
    BY <1>1, <1>4, RunsFree, StandingKeepsStore
<1> QED BY <1>1, <1>2, <1>3, <1>5, CallerKeepsInv

LEMMA ArriveKeeps ==
    ASSUME IInv, NEW p \in Pollers, NEW a \in Accounts, NEW s \in Symbol, Arrive(p, a, s)
    PROVE  IInv'
<1> PICK h : h = [Idle EXCEPT !.at = "upserting", !.account = a, !.symbol = s]
    OBVIOUS
<1>1. /\ Runs(p, "idle") /\ Bystanders /\ handler' = [handler EXCEPT ![p] = h]
      /\ Persist(p, a, Upserted(memory, a))
    BY DEF Arrive
<1>2. h \in Handler /\ h.at = "upserting" /\ h.account = a /\ h.applied = {}
    BY IdleShape DEF Handler
<1>3. HandlerShape(h)
    BY <1>2 DEF HandlerShape
<1>4. handler'[p] = h /\ \A q \in Pollers \ {p} : handler'[q] = handler[q]
    BY <1>1, RunsFree
<1>5. Sound(Upserted(memory, a)) /\ Keeps(memory, Upserted(memory, a))
    BY <1>1, RunsFree, UpsertedIsSound
<1>6. Kept
    BY <1>1, <1>2, <1>4, <1>5, RunsFree, PersistKeepsStore
<1> QED BY <1>1, <1>2, <1>3, <1>6, CallerKeepsInv

\* A handler that only moves on.
LEMMA Going ==
    ASSUME NEW h \in Handler, HandlerShape(h), h.at # "idle",
           NEW at \in {"upserting", "coding", "handling"}, NEW g, g = [h EXCEPT !.at = at]
    PROVE  /\ HandlerShape(g) /\ g.at = at /\ g.inviter = h.inviter /\ g.applied = h.applied
           /\ g.account = h.account
<1>1. h = [at |-> h.at, account |-> h.account, inviter |-> h.inviter, pending |-> h.pending,
           applied |-> h.applied, symbol |-> h.symbol]
    BY DEF Handler
<1>2. g = [at |-> at, account |-> h.account, inviter |-> h.inviter, pending |-> h.pending,
           applied |-> h.applied, symbol |-> h.symbol]
    BY <1>1
<1>3. g \in Handler
    BY <1>2 DEF Handler
<1> QED BY <1>2, <1>3 DEF HandlerShape

LEMMA GrantKeeps ==
    ASSUME IInv, NEW p \in Pollers, Grant(p)
    PROVE  IInv'
<1> PICK h : h = handler[p]
    OBVIOUS
<1>1. Runs(p, "granting") /\ Bystanders
    BY DEF Grant
<1>2. h \in Handler /\ HandlerShape(h) /\ h.at = "granting" /\ h.inviter \in Accounts /\ h.pending \in SUBSET Thresholds
    BY <1>1, RunsFree DEF Handler, HandlerShape
<1>3. CASE h.pending = {}
    <2> PICK g : g = [h EXCEPT !.at = "upserting"]
        OBVIOUS
    <2>1. handler' = [handler EXCEPT ![p] = g] /\ UNCHANGED storeVars
        BY <1>3 DEF Grant, Goes
    <2>2. \A q \in Pollers \ {p} : handler'[q] = handler[q]
        BY <1>1, <2>1, RunsFree
    <2>3. Kept
        BY <1>1, <2>1, <2>2, RunsFree, StandingKeepsStore
    <2>4. HandlerShape(g) /\ g.inviter = h.inviter /\ g.applied = h.applied
        BY <1>2, Going
    <2> QED BY <1>1, <2>1, <2>3, <2>4, CallerKeepsInv
<1>4. CASE h.pending # {}
    <2>1. Transact(p, "grant", h.inviter, Smallest(h.pending)) /\ UNCHANGED handler
        BY <1>4 DEF Grant
    <2>2. Smallest(h.pending) \in Thresholds
        BY <1>2, <1>4, SmallestIsInIt
    <2>3. Kept
        BY <1>1, <1>2, <2>1, <2>2, RunsFree, TransactKeepsStore
    <2>4. handler' = [handler EXCEPT ![p] = h]
        BY <1>1, <2>1, RunsFree
    <2> QED BY <1>1, <1>2, <2>3, <2>4, CallerKeepsInv
<1> QED BY <1>3, <1>4

LEMMA AssignCodeKeeps ==
    ASSUME IInv, NEW p \in Pollers, AssignCode(p)
    PROVE  IInv'
<1> PICK h, g : h = handler[p] /\ g = [h EXCEPT !.at = "coding"]
    OBVIOUS
<1>1. Runs(p, "upserting") /\ Bystanders /\ handler' = [handler EXCEPT ![p] = g]
    BY DEF AssignCode, Goes
<1>2. h \in Handler /\ HandlerShape(h) /\ h.at = "upserting" /\ h.account \in Accounts
    BY <1>1, RunsFree DEF HandlerShape
<1>3. HandlerShape(g) /\ g.inviter = h.inviter /\ g.applied = h.applied /\ g.at = "coding"
    BY <1>2, Going
<1>4. handler'[p] = g /\ \A q \in Pollers \ {p} : handler'[q] = handler[q]
    BY <1>1, RunsFree
<1>5. CASE UNCHANGED storeVars
    BY <1>1, <1>3, <1>4, <1>5, RunsFree, StandingKeepsStore, CallerKeepsInv
<1>6. CASE \E c \in Codes : Transact(p, "code", h.account, c)
    <2>1. PICK c \in Codes : Transact(p, "code", h.account, c)
        BY <1>6
    <2>2. Kept
        BY <1>1, <1>2, <1>3, <1>4, <2>1, RunsFree, TransactKeepsStore
    <2> QED BY <1>1, <1>3, <2>2, CallerKeepsInv
<1> QED BY <1>5, <1>6 DEF AssignCode

LEMMA HandleFavoriteKeeps ==
    ASSUME IInv, NEW p \in Pollers, HandleFavorite(p)
    PROVE  IInv'
<1> PICK h, g : h = handler[p] /\ g = [h EXCEPT !.at = "handling"]
    OBVIOUS
<1>1. Runs(p, "coding") /\ Bystanders /\ handler' = [handler EXCEPT ![p] = g]
    BY DEF HandleFavorite, Goes
<1>2. /\ h \in Handler /\ HandlerShape(h) /\ h.at = "coding" /\ h.account \in Accounts
      /\ h.symbol \in Symbol
    BY <1>1, RunsFree DEF HandlerShape, Handler
<1>3. HandlerShape(g) /\ g.inviter = h.inviter /\ g.applied = h.applied /\ g.at = "handling"
    BY <1>2, Going
<1>4. handler'[p] = g /\ \A q \in Pollers \ {p} : handler'[q] = handler[q]
    BY <1>1, RunsFree
<1>5. Kept
    <2>1. CASE UNCHANGED storeVars
        BY <1>1, <1>4, <2>1, RunsFree, StandingKeepsStore
    <2>2. CASE /\ h.symbol # None /\ Cardinality(memory.favorites[h.account]) < MaxFavorites
               /\ Persist(p, h.account, FavoriteAdded(memory, h.account, h.symbol))
        <3>1. h.symbol \in Symbols
            BY <1>2, <2>2 DEF Symbol
        <3>2. /\ Sound(FavoriteAdded(memory, h.account, h.symbol))
              /\ Keeps(memory, FavoriteAdded(memory, h.account, h.symbol))
            BY <1>1, <1>2, <2>2, <3>1, RunsFree, FavoritesAreSound
        <3> QED BY <1>1, <1>2, <1>3, <1>4, <2>2, <3>2, RunsFree, PersistKeepsStore
    <2>3. CASE /\ h.symbol \in memory.favorites[h.account]
               /\ Persist(p, h.account, FavoriteRemoved(memory, h.account, h.symbol))
        <3>1. h.symbol \in Symbols
            <4>1. memory.favorites \in [Accounts -> SUBSET Symbols]
                BY <1>1, RunsFree DEF Sound, Document
            <4> QED BY <1>2, <2>3, <4>1
        <3>2. /\ Sound(FavoriteRemoved(memory, h.account, h.symbol))
              /\ Keeps(memory, FavoriteRemoved(memory, h.account, h.symbol))
            BY <1>1, <1>2, <3>1, RunsFree, FavoritesAreSound
        <3> QED BY <1>1, <1>2, <1>3, <1>4, <2>3, <3>2, RunsFree, PersistKeepsStore
    <2> QED BY <2>1, <2>2, <2>3 DEF HandleFavorite
<1> QED BY <1>1, <1>3, <1>5, CallerKeepsInv

\* The inviter is told: what a handler was to tell of turns into what was told.
LEMMA FinishKeeps ==
    ASSUME IInv, NEW p \in Pollers, Finish(p)
    PROVE  IInv'
<1> PICK h : h = handler[p]
    OBVIOUS
<1> DEFINE s == Smallest(h.applied)
<1>1. /\ Runs(p, "handling") /\ handler' = [handler EXCEPT ![p] = Idle]
      /\ TouchActivity(p, h.account) /\ UNCHANGED <<crashes, reported, unsaved>>
      /\ told' = IF h.applied = {} THEN told ELSE [told EXCEPT ![h.inviter][s] = @ + 1]
    BY DEF Finish
<1>2. /\ h \in Handler /\ HandlerShape(h) /\ h.at = "handling" /\ h.account \in Accounts
      /\ h.applied \in SUBSET Thresholds
      /\ h.applied # {} => h.inviter \in Accounts
    BY <1>1, RunsFree DEF HandlerShape, Handler
<1>3. HandlerShape(Idle) /\ Idle.applied = {} /\ Idle.at = "idle"
    BY IdleShape
<1>4. /\ handler'[p] = Idle /\ \A q \in Pollers : q # p => handler'[q] = handler[q]
      /\ handler' \in [Pollers -> Handler]
    BY <1>1, <1>3, RunsFree DEF HandlerShape
<1>5. Kept
    <2>1. CASE UNCHANGED storeVars
        BY <1>1, <1>4, <2>1, RunsFree, StandingKeepsStore
    <2>2. CASE Transact(p, "touch", h.account, None)
        BY <1>1, <1>2, <1>3, <1>4, <2>2, RunsFree, TransactKeepsStore
    <2> QED BY <1>1, <2>1, <2>2 DEF TouchActivity
<1> HIDE DEF s
<1>6. /\ told \in [Accounts -> [Thresholds -> Nat]] /\ crashes \in Nat
      /\ \A a \in Accounts, t \in Thresholds : told[a][t] \in Nat /\ unsaved[a][t] \in Nat
    BY ReferralAssumption DEF IInv, TypeOK
<1>7. h.applied # {} => s \in h.applied
    BY <1>2, SmallestIsInIt DEF s
<1>8. /\ told' \in [Accounts -> [Thresholds -> Nat]]
      /\ \A a \in Accounts, t \in Thresholds :
           \/ told'[a][t] = told[a][t]
           \/ /\ told'[a][t] = told[a][t] + 1
              /\ h.applied # {} /\ a = h.inviter /\ t = s
    <2>1. CASE h.applied = {}
        BY <1>1, <1>6, <2>1
    <2>2. CASE h.applied # {}
        <3>1. h.inviter \in Accounts /\ s \in Thresholds
            BY <1>2, <1>7, <2>2
        <3>2. told' = [told EXCEPT ![h.inviter] = [told[h.inviter] EXCEPT ![s] = told[h.inviter][s] + 1]]
            BY <1>1, <2>2
        <3>3. [told[h.inviter] EXCEPT ![s] = told[h.inviter][s] + 1] \in [Thresholds -> Nat]
            BY <1>6, <3>1
        <3>4. told' \in [Accounts -> [Thresholds -> Nat]]
            BY <1>6, <3>1, <3>2, <3>3
        <3> QED BY <1>6, <2>2, <3>1, <3>2, <3>4
    <2> QED BY <2>1, <2>2
<1>9. \A q \in Pollers, a \in Accounts, t \in Thresholds : Holds(q, a, t)' => Holds(q, a, t) /\ q # p
    BY <1>3, <1>4 DEF Holds
<1>10. OneTells'
    <2> SUFFICES ASSUME NEW a \in Accounts, NEW t \in Thresholds, NEW q \in Pollers, Holds(q, a, t)'
                 PROVE  memory'.reward[a][t] = "GRANTED" /\ \A r \in Pollers : Holds(r, a, t)' => r = q
        BY DEF OneTells
    <2>1. Holds(q, a, t) /\ \A r \in Pollers : Holds(r, a, t)' => Holds(r, a, t)
        BY <1>9
    <2>2. memory.reward[a][t] = "GRANTED" /\ \A r \in Pollers : Holds(r, a, t) => r = q
        BY <2>1 DEF IInv, OneTells
    <2> QED BY <1>5, <2>1, <2>2 DEF Kept, Keeps
<1>11. GrantIsNew'
    <2>1. ASSUME NEW i \in Positions', NEW c, c = chain'[i], c.op = "grant", c.did
          PROVE  /\ disk'.reward[c.account][c.arg] # "GRANTED" /\ ~ Tells(c.account, c.arg)'
                 /\ told'[c.account][c.arg] <= crashes'
        <3>1. i \in Positions /\ chain[i] = c /\ disk' = disk
            BY <1>5, <2>1 DEF Kept
        <3>2. c.account \in Accounts /\ c.arg \in Thresholds
            BY <2>1, <3>1, LinkTypes DEF IInv
        <3>3. /\ disk.reward[c.account][c.arg] # "GRANTED" /\ ~ Tells(c.account, c.arg)
              /\ told[c.account][c.arg] <= crashes
            BY <2>1, <3>1 DEF IInv, GrantIsNew
        <3>4. told'[c.account][c.arg] = told[c.account][c.arg]
            <4>1. ~ (h.applied # {} /\ c.account = h.inviter /\ c.arg = s)
                BY <1>7, <3>2, <3>3 DEF Tells, Holds
            <4> QED BY <1>8, <3>2, <4>1
        <3> QED BY <1>1, <1>9, <3>1, <3>2, <3>3, <3>4 DEF Tells
    <2> QED BY <2>1 DEF GrantIsNew, Tells, Holds
<1>12. ASSUME NEW a \in Accounts, NEW t \in Thresholds
       PROVE  told'[a][t] + One(Tells(a, t)') <= told[a][t] + One(Tells(a, t))
    <2>1. Tells(a, t)' => Tells(a, t)
        BY <1>9 DEF Tells
    <2>2. CASE told'[a][t] = told[a][t]
        <3>1. One(Tells(a, t)') <= One(Tells(a, t)) /\ One(Tells(a, t)') \in Nat /\ One(Tells(a, t)) \in Nat
            BY <2>1 DEF One
        <3> QED BY <1>6, <2>2, <3>1
    <2>3. CASE told'[a][t] = told[a][t] + 1 /\ h.applied # {} /\ a = h.inviter /\ t = s
        <3>1. Holds(p, a, t)
            BY <1>7, <2>3 DEF Holds
        <3>2. ~ Tells(a, t)'
            BY <1>9, <3>1 DEF IInv, OneTells, Tells
        <3>3. One(Tells(a, t)) = 1 /\ One(Tells(a, t)') = 0
            BY <3>1, <3>2 DEF One, Tells
        <3> QED BY <1>6, <2>3, <3>3
    <2> QED BY <1>8, <2>2, <2>3
<1>13. ASSUME NEW a \in Accounts, NEW t \in Thresholds
       PROVE  /\ told'[a][t] + One(Tells(a, t)') \in Nat /\ told[a][t] + One(Tells(a, t)) \in Nat
              /\ One(disk.reward[a][t] = "GRANTED") \in Nat
              /\ One(memory.reward[a][t] = "GRANTED") \in Nat /\ One(memory'.reward[a][t] = "GRANTED") \in Nat
              /\ One(memory.reward[a][t] = "GRANTED") <= One(memory'.reward[a][t] = "GRANTED")
    BY <1>5, <1>6, <1>8 DEF One, Kept, Keeps
<1>14. TellingIsPaid'
    <2> SUFFICES ASSUME NEW a \in Accounts, NEW t \in Thresholds
                 PROVE  told'[a][t] + One(Tells(a, t)') <= One(disk.reward[a][t] = "GRANTED") + unsaved[a][t]
        BY <1>1, <1>5 DEF TellingIsPaid, Kept, One
    <2>1. told[a][t] + One(Tells(a, t)) <= One(disk.reward[a][t] = "GRANTED") + unsaved[a][t]
        BY DEF IInv, TellingIsPaid
    <2> QED BY <1>6, <1>12, <1>13, <2>1
<1>15. TellingIsGranted'
    <2> SUFFICES ASSUME NEW a \in Accounts, NEW t \in Thresholds
                 PROVE  told'[a][t] + One(Tells(a, t)') <= One(memory'.reward[a][t] = "GRANTED") + crashes
        BY <1>1 DEF TellingIsGranted, One
    <2>1. told[a][t] + One(Tells(a, t)) <= One(memory.reward[a][t] = "GRANTED") + crashes
        BY DEF IInv, TellingIsGranted
    <2> QED BY <1>6, <1>12, <1>13, <2>1
<1>16. TypeOK'
    BY <1>1, <1>4, <1>5, <1>8 DEF IInv, TypeOK, Kept, StoreInv, Sound
<1>17. \A q \in Pollers : HandlerShape(handler'[q])
    BY <1>3, <1>4 DEF IInv
<1> QED BY <1>1, <1>5, <1>10, <1>11, <1>14, <1>15, <1>16, <1>17 DEF IInv, Kept, ReportedIsSaved

-----------------------------------------------------------------------------
(* The chain goes on *)

LEMMA ApplyKeeps ==
    ASSUME IInv, Apply, UNCHANGED handler, Bystanders
    PROVE  IInv'
<1>1. /\ StoreInv' /\ Keeps(memory, memory') /\ UNCHANGED <<disk, failures>>
      /\ \A i \in Positions' : chain'[i].op = "grant" /\ chain'[i].did =>
           memory.reward[chain'[i].account][chain'[i].arg] = "PENDING"
    BY ApplyingKeepsOrder DEF IInv, Apply
<1>2. \A q \in Pollers, a \in Accounts, t \in Thresholds : Holds(q, a, t)' <=> Holds(q, a, t)
    BY DEF Holds
<1>3. OneTells'
    BY <1>1, <1>2 DEF IInv, OneTells, Keeps
<1>4. GrantIsNew'
    <2>1. ASSUME NEW i \in Positions', NEW c, c = chain'[i], c.op = "grant", c.did
          PROVE  /\ disk'.reward[c.account][c.arg] # "GRANTED" /\ ~ Tells(c.account, c.arg)'
                 /\ told'[c.account][c.arg] <= crashes'
        <3>1. c.account \in Accounts /\ c.arg \in Thresholds
            BY <1>1, <2>1 DEF StoreInv, Chain, LinkShape, Links
        <3>2. memory.reward[c.account][c.arg] = "PENDING"
            BY <1>1, <2>1
        <3>3. disk.reward[c.account][c.arg] # "GRANTED"
            BY <3>1, <3>2 DEF IInv, StoreInv, Growing, Keeps
        <3>4. ~ Tells(c.account, c.arg)
            BY <3>1, <3>2 DEF IInv, OneTells, Tells
        <3>5. told[c.account][c.arg] <= crashes
            <4>1. told[c.account][c.arg] + 0 <= 0 + crashes
                BY <3>1, <3>2, <3>4 DEF IInv, TellingIsGranted, One
            <4>2. told[c.account][c.arg] \in Nat /\ crashes \in Nat
                BY <3>1, ReferralAssumption DEF IInv, TypeOK
            <4> QED BY <4>1, <4>2
        <3> QED BY <1>1, <1>2, <3>1, <3>3, <3>4, <3>5 DEF Tells, Bystanders
    <2> QED BY <2>1 DEF GrantIsNew, Tells, Holds
<1>5. TellingIsPaid'
    BY <1>1 DEF IInv, TellingIsPaid, Tells, Holds, One, Bystanders
<1>6. TellingIsGranted'
    <2> SUFFICES ASSUME NEW a \in Accounts, NEW t \in Thresholds
                 PROVE  told[a][t] + One(Tells(a, t)) <= One(memory'.reward[a][t] = "GRANTED") + crashes
        BY DEF TellingIsGranted, Bystanders, Tells, Holds, One
    <2>1. told[a][t] + One(Tells(a, t)) <= One(memory.reward[a][t] = "GRANTED") + crashes
        BY DEF IInv, TellingIsGranted
    <2>2. /\ One(memory.reward[a][t] = "GRANTED") <= One(memory'.reward[a][t] = "GRANTED")
          /\ One(memory.reward[a][t] = "GRANTED") \in Nat /\ One(memory'.reward[a][t] = "GRANTED") \in Nat
        BY <1>1 DEF Keeps, One
    <2>3. told[a][t] \in Nat /\ crashes \in Nat /\ One(Tells(a, t)) \in Nat
        BY ReferralAssumption DEF IInv, TypeOK, One
    <2> QED BY <2>1, <2>2, <2>3
<1>7. TypeOK'
    BY <1>1 DEF IInv, TypeOK, StoreInv, Sound, Bystanders
<1> QED BY <1>1, <1>3, <1>4, <1>5, <1>6, <1>7 DEF IInv, ReportedIsSaved, Bystanders

\* After the head has settled, no grant of the chain has run.
LEMMA NoGrantRan ==
    ASSUME StoreInv, StoreInv',
           \A i \in Positions' : i + 1 \in Positions /\ chain'[i] = chain[i + 1],
           NEW i \in Positions', chain'[i].op = "grant"
    PROVE  ~ chain'[i].did
<1>1. LinkShape(chain[i + 1]) /\ i + 1 \in Positions /\ 1 \in Positions /\ 1 < i + 1 /\ chain'[i] = chain[i + 1]
    <2>1. i + 1 \in Positions /\ chain'[i] = chain[i + 1]
        OBVIOUS
    <2> QED BY <2>1, LenProperties DEF StoreInv, Chain, Positions
<1> QED BY <1>1 DEF StoreInv, InOrder, LinkShape

LEMMA SettleKeeps ==
    ASSUME IInv, Settle
    PROVE  IInv'
<1> DEFINE l == Head(chain)
<1>1. PICK persisted \in BOOLEAN :
        /\ Settles(persisted)
        /\ \/ JoinReturns(l.by, l, persisted) /\ UNCHANGED unsaved
           \/ GrantReturns(l.by, l, persisted)
           \/ OtherReturns(l.by)
        /\ UNCHANGED <<crashes, told>>
    BY DEF Settle
<1>2. /\ StoreInv /\ handler \in [Pollers -> Handler] /\ chain # <<>> /\ 1 \in Positions /\ l = chain[1]
      /\ l.applied
    <2>1. chain \in Seq(Links) /\ chain # <<>> /\ l.applied
        BY <1>1 DEF IInv, StoreInv, Chain, Settles
    <2> QED BY <2>1, LenProperties, EmptySeq, HeadTailProperties DEF IInv, TypeOK, Positions
<1>3. /\ LinkShape(l) /\ Awaits(l) /\ l \in Links /\ l.by \in Pollers /\ l.account \in Accounts
      /\ l.op = "grant" => l.arg \in Thresholds
      /\ l.op = "join" => l.arg \in Accounts
    BY <1>2, LinkTypes DEF LinkShape
<1>4. Sound(memory) /\ memory' = memory /\ Keeps(l.payload, memory)
    BY <1>1, <1>2 DEF StoreInv, Growing, Settles
<1> PICK p, h : p = l.by /\ h = handler[p]
    OBVIOUS
<1>5. p \in Pollers /\ h \in Handler /\ HandlerShape(h)
    BY <1>2, <1>3 DEF IInv
<1>6. /\ failures \in Nat /\ crashes \in Nat
      /\ persisted => failures' = failures
      /\ ~ persisted => failures' = failures + 1 /\ failures < MaxWriteFailures
    BY <1>1, StoreAssumption, ReferralAssumption DEF IInv, TypeOK, Settles
<1> HIDE DEF l
<1>7. /\ handler' \in [Pollers -> Handler] /\ HandlerShape(handler'[p])
      /\ \A q \in Pollers \ {p} : handler'[q] = handler[q]
      /\ handler'[p].inviter = h.inviter
      /\ handler'[p].applied = IF l.op = "grant" /\ l.did THEN h.applied \cup {l.arg} ELSE h.applied
    <2>1. CASE JoinReturns(l.by, l, persisted)
        <3> PICK at, rows, g :
              /\ at = (IF l.did /\ persisted THEN "granting" ELSE "upserting")
              /\ rows = (IF l.did /\ persisted THEN RowsOf(memory, l.arg, "PENDING") ELSE {})
              /\ g = [h EXCEPT !.at = at, !.pending = rows]
            OBVIOUS
        <3>1. handler' = [handler EXCEPT ![p] = g] /\ h.at = "joining"
            BY <1>2, <1>5, <2>1 DEF JoinReturns
        <3>2. at \in {"granting", "upserting"} /\ rows \in SUBSET Thresholds
            BY DEF RowsOf
        <3>3. /\ g \in Handler /\ g.at = at /\ g.account = h.account /\ g.inviter = h.inviter
              /\ g.applied = h.applied
            BY <1>5, <3>2 DEF Handler
        <3>4. HandlerShape(g)
            BY <1>5, <3>1, <3>2, <3>3 DEF HandlerShape
        <3>5. l.op # "grant"
            BY <1>3, <3>1 DEF Awaits
        <3> QED BY <1>2, <1>5, <3>1, <3>3, <3>4, <3>5
    <2>2. CASE GrantReturns(l.by, l, persisted)
        <3> PICK rows, told1, g :
              /\ rows = h.pending \ {l.arg}
              /\ told1 = (IF l.did THEN h.applied \cup {l.arg} ELSE h.applied)
              /\ g = [h EXCEPT !.pending = rows, !.applied = told1]
            OBVIOUS
        <3>1. handler' = [handler EXCEPT ![p] = g] /\ h.at = "granting"
            BY <1>2, <1>5, <2>2 DEF GrantReturns
        <3>2. l.op = "grant" /\ l.arg \in Thresholds
            BY <1>3, <3>1 DEF Awaits
        <3>3. rows \in SUBSET Thresholds /\ told1 \in SUBSET Thresholds
            BY <1>5, <3>2 DEF Handler
        <3>4. /\ g \in Handler /\ g.at = h.at /\ g.account = h.account /\ g.inviter = h.inviter
              /\ g.applied = told1
            BY <1>5, <3>3 DEF Handler
        <3>5. HandlerShape(g)
            BY <1>5, <3>1, <3>4 DEF HandlerShape
        <3> QED BY <1>2, <1>5, <3>1, <3>2, <3>4, <3>5
    <2>3. CASE OtherReturns(l.by)
        <3>1. handler' = handler /\ l.op # "grant"
            BY <1>3, <2>3 DEF OtherReturns, Awaits
        <3> QED BY <1>2, <1>5, <3>1
    <2> QED BY <1>1, <2>1, <2>2, <2>3
<1>8. /\ StoreInv' /\ Keeps(disk, disk')
      /\ persisted /\ l.dirty => disk' = l.payload
      /\ \A i \in Positions' : i + 1 \in Positions /\ chain'[i] = chain[i + 1]
    BY <1>1, <1>2, <1>7, SettlingKeepsOrder DEF l
<1>9. GrantIsNew'
    BY <1>2, <1>8, NoGrantRan DEF GrantIsNew
<1>10. l.op = "grant" => l.account = h.inviter
    BY <1>3 DEF Awaits
<1>11. \A q \in Pollers, a \in Accounts, t \in Thresholds : Holds(q, a, t)' =>
         \/ Holds(q, a, t)
         \/ l.op = "grant" /\ l.did /\ q = p /\ a = l.account /\ t = l.arg
    BY <1>5, <1>7, <1>10 DEF Holds
<1>12. l.op = "grant" /\ l.did =>
         /\ ~ Tells(l.account, l.arg) /\ disk.reward[l.account][l.arg] # "GRANTED"
         /\ told[l.account][l.arg] <= crashes
         /\ memory.reward[l.account][l.arg] = "GRANTED"
         /\ persisted => disk'.reward[l.account][l.arg] = "GRANTED"
    <2> SUFFICES ASSUME l.op = "grant", l.did
                 PROVE  /\ ~ Tells(l.account, l.arg) /\ disk.reward[l.account][l.arg] # "GRANTED"
                        /\ told[l.account][l.arg] <= crashes
                        /\ memory.reward[l.account][l.arg] = "GRANTED"
                        /\ persisted => disk'.reward[l.account][l.arg] = "GRANTED"
        OBVIOUS
    <2>1. /\ ~ Tells(l.account, l.arg) /\ disk.reward[l.account][l.arg] # "GRANTED"
          /\ told[l.account][l.arg] <= crashes
        BY <1>2 DEF IInv, GrantIsNew
    <2>2. l.payload.reward[l.account][l.arg] = "GRANTED" /\ l.dirty
        BY <1>3 DEF LinkShape
    <2>3. memory.reward[l.account][l.arg] = "GRANTED"
        BY <1>3, <1>4, <2>2 DEF Keeps
    <2> QED BY <1>8, <2>1, <2>2, <2>3
<1>13. OneTells'
    <2> SUFFICES ASSUME NEW a \in Accounts, NEW t \in Thresholds, NEW q \in Pollers, Holds(q, a, t)'
                 PROVE  memory'.reward[a][t] = "GRANTED" /\ \A r \in Pollers : Holds(r, a, t)' => r = q
        BY DEF OneTells
    <2>1. CASE l.op = "grant" /\ l.did /\ a = l.account /\ t = l.arg
        <3>1. \A r \in Pollers : ~ Holds(r, a, t)
            BY <1>12, <2>1 DEF Tells
        <3>2. \A r \in Pollers : Holds(r, a, t)' => r = p
            BY <1>11, <3>1
        <3> QED BY <1>4, <1>12, <2>1, <3>2
    <2>2. CASE ~ (l.op = "grant" /\ l.did /\ a = l.account /\ t = l.arg)
        <3>1. \A r \in Pollers : Holds(r, a, t)' => Holds(r, a, t)
            BY <1>11, <2>2
        <3> QED BY <1>4, <3>1 DEF IInv, OneTells
    <2> QED BY <2>1, <2>2
<1>14. /\ unsaved' \in [Accounts -> [Thresholds -> Nat]]
       /\ \A a \in Accounts, t \in Thresholds :
            /\ unsaved[a][t] \in Nat /\ unsaved'[a][t] \in Nat /\ unsaved[a][t] <= unsaved'[a][t]
            /\ l.op = "grant" /\ l.did /\ ~ persisted /\ a = l.account /\ t = l.arg =>
                    unsaved'[a][t] = unsaved[a][t] + 1
    <2>1. unsaved \in [Accounts -> [Thresholds -> Nat]]
        BY DEF IInv, TypeOK
    <2>2. CASE UNCHANGED unsaved /\ ~ (l.op = "grant" /\ l.did /\ ~ persisted)
        BY <2>1, <2>2
    <2>3. CASE l.op = "grant" /\ l.did /\ ~ persisted
        <3>1. unsaved' = [unsaved EXCEPT ![l.account] =
                [unsaved[l.account] EXCEPT ![l.arg] = unsaved[l.account][l.arg] + 1]]
            BY <1>1, <1>3, <2>3 DEF JoinReturns, GrantReturns, OtherReturns, Awaits
        <3>2. l.account \in Accounts /\ l.arg \in Thresholds
            BY <1>3, <2>3
        <3>3. [unsaved[l.account] EXCEPT ![l.arg] = unsaved[l.account][l.arg] + 1] \in [Thresholds -> Nat]
            BY <2>1, <3>2
        <3>4. unsaved' \in [Accounts -> [Thresholds -> Nat]]
            BY <2>1, <3>1, <3>2, <3>3
        <3> QED BY <2>1, <3>1, <3>2, <3>4
    <2>4. UNCHANGED unsaved \/ (l.op = "grant" /\ l.did /\ ~ persisted)
        BY <1>1, <1>3 DEF JoinReturns, GrantReturns, OtherReturns, Awaits
    <2> QED BY <2>2, <2>3, <2>4
<1>15. ASSUME NEW a \in Accounts, NEW t \in Thresholds
       PROVE  /\ told[a][t] + One(Tells(a, t)') <= One(disk'.reward[a][t] = "GRANTED") + unsaved'[a][t]
              /\ told[a][t] + One(Tells(a, t)') <= One(memory.reward[a][t] = "GRANTED") + crashes
    <2>1. /\ told[a][t] + One(Tells(a, t)) <= One(disk.reward[a][t] = "GRANTED") + unsaved[a][t]
          /\ told[a][t] + One(Tells(a, t)) <= One(memory.reward[a][t] = "GRANTED") + crashes
          /\ told[a][t] \in Nat
        BY DEF IInv, TellingIsPaid, TellingIsGranted, TypeOK
    <2>2. /\ One(disk.reward[a][t] = "GRANTED") \in Nat /\ One(disk'.reward[a][t] = "GRANTED") \in Nat
          /\ One(memory.reward[a][t] = "GRANTED") \in Nat
          /\ One(disk.reward[a][t] = "GRANTED") <= One(disk'.reward[a][t] = "GRANTED")
        BY <1>8 DEF One, Keeps
    <2>3. CASE l.op = "grant" /\ l.did /\ a = l.account /\ t = l.arg
        <3>1. One(Tells(a, t)) = 0 /\ One(disk.reward[a][t] = "GRANTED") = 0
            BY <1>12, <2>3 DEF One
        <3>2. One(Tells(a, t)') \in Nat /\ One(Tells(a, t)') <= 1
            BY DEF One
        <3>3. /\ persisted => One(disk'.reward[a][t] = "GRANTED") = 1
              /\ One(memory.reward[a][t] = "GRANTED") = 1 /\ told[a][t] <= crashes
            BY <1>12, <2>3 DEF One
        <3>4. /\ unsaved[a][t] \in Nat /\ unsaved'[a][t] \in Nat /\ unsaved[a][t] <= unsaved'[a][t]
              /\ ~ persisted => unsaved'[a][t] = unsaved[a][t] + 1
            BY <1>14, <2>3
        <3> QED BY <1>6, <2>1, <2>2, <3>1, <3>2, <3>3, <3>4
    <2>4. CASE ~ (l.op = "grant" /\ l.did /\ a = l.account /\ t = l.arg)
        <3>1. Tells(a, t)' => Tells(a, t)
            BY <1>11, <2>4 DEF Tells
        <3>2. One(Tells(a, t)') <= One(Tells(a, t)) /\ One(Tells(a, t)') \in Nat /\ One(Tells(a, t)) \in Nat
            BY <3>1 DEF One
        <3>3. unsaved[a][t] \in Nat /\ unsaved'[a][t] \in Nat /\ unsaved[a][t] <= unsaved'[a][t]
            BY <1>14
        <3> QED BY <1>6, <2>1, <2>2, <3>2, <3>3
    <2> QED BY <2>3, <2>4
<1>16. TellingIsPaid' /\ TellingIsGranted'
    BY <1>1, <1>4, <1>15 DEF TellingIsPaid, TellingIsGranted, One
<1>17. reported' \subseteq Accounts \X Accounts /\ ReportedIsSaved'
    <2>1. /\ reported \subseteq Accounts \X Accounts
          /\ \A r \in reported : disk'.inviter[r[2]] = r[1]
        <3>1. ASSUME NEW r \in reported PROVE disk'.inviter[r[2]] = r[1]
            <4>1. r[1] \in Accounts /\ r[2] \in Accounts /\ disk.inviter[r[2]] = r[1]
                BY DEF IInv, ReportedIsSaved
            <4> QED BY <1>8, <4>1, StoreAssumption DEF Keeps
        <3> QED BY <3>1 DEF IInv
    <2>2. CASE reported' = reported
        BY <2>1, <2>2 DEF ReportedIsSaved
    <2>3. CASE l.did /\ persisted /\ reported' = reported \cup {<<l.arg, l.account>>} /\ l.op = "join"
        <3>1. disk' = l.payload /\ l.payload.inviter[l.account] = l.arg
            BY <1>3, <1>8, <2>3 DEF LinkShape
        <3>2. <<l.arg, l.account>> \in Accounts \X Accounts
            BY <1>3, <2>3
        <3> QED BY <2>1, <2>3, <3>1, <3>2 DEF ReportedIsSaved
    <2> QED BY <1>1, <1>3, <2>2, <2>3 DEF JoinReturns, GrantReturns, OtherReturns, Awaits
<1>18. TypeOK'
    BY <1>1, <1>6, <1>7, <1>8, <1>14, StoreAssumption DEF IInv, TypeOK, StoreInv, Sound
<1>19. \A q \in Pollers : HandlerShape(handler'[q])
    BY <1>7 DEF IInv
<1> QED BY <1>8, <1>9, <1>13, <1>16, <1>17, <1>18, <1>19 DEF IInv

-----------------------------------------------------------------------------
(* The invariant *)

LEMMA CrashKeeps ==
    ASSUME IInv, Crash
    PROVE  IInv'
<1>1. /\ memory' = disk /\ disk' = disk /\ chain' = <<>> /\ failures' = failures
      /\ crashes < MaxCrashes /\ crashes' = crashes + 1 /\ UNCHANGED <<reported, told, unsaved>>
      /\ handler' = [p \in Pollers |-> Idle]
    BY DEF Crash, Crashed
<1>2. Positions' = {} /\ chain' \in Seq(Links)
    BY <1>1, LenProperties DEF Positions
<1>3. StoreInv'
    BY <1>1, <1>2, KeepsItself DEF IInv, StoreInv, Chain, InOrder, Growing
<1>4. \A p \in Pollers : handler'[p] = Idle
    BY <1>1
<1>5. \A p \in Pollers, a \in Accounts, t \in Thresholds : ~ Holds(p, a, t)'
    BY <1>4, IdleShape DEF Holds
<1>6. OneTells' /\ GrantIsNew'
    BY <1>2, <1>5 DEF OneTells, GrantIsNew
<1>7. ASSUME NEW a \in Accounts, NEW t \in Thresholds
      PROVE  /\ told[a][t] + One(Tells(a, t)') <= One(disk.reward[a][t] = "GRANTED") + unsaved[a][t]
             /\ told[a][t] + One(Tells(a, t)') <= One(disk.reward[a][t] = "GRANTED") + crashes'
    <2>1. /\ told[a][t] + One(Tells(a, t)) <= One(disk.reward[a][t] = "GRANTED") + unsaved[a][t]
          /\ told[a][t] + One(Tells(a, t)) <= One(memory.reward[a][t] = "GRANTED") + crashes
          /\ told[a][t] \in Nat /\ unsaved[a][t] \in Nat /\ crashes \in Nat
        BY ReferralAssumption DEF IInv, TellingIsPaid, TellingIsGranted, TypeOK
    <2>2. One(Tells(a, t)') = 0 /\ One(Tells(a, t)) \in Nat
        BY <1>5 DEF One, Tells
    <2>3. /\ One(disk.reward[a][t] = "GRANTED") \in Nat
          /\ One(memory.reward[a][t] = "GRANTED") \in Nat /\ One(memory.reward[a][t] = "GRANTED") <= 1
        BY DEF One
    <2> QED BY <1>1, <2>1, <2>2, <2>3
<1>8. TypeOK'
    <2>1. crashes' \in 0 .. MaxCrashes
        BY <1>1, ReferralAssumption DEF IInv, TypeOK
    <2>2. handler' \in [Pollers -> Handler]
        BY <1>1, IdleShape
    <2> QED BY <1>1, <2>1, <2>2 DEF IInv, TypeOK
<1>9. TellingIsPaid' /\ TellingIsGranted'
    BY <1>1, <1>7 DEF TellingIsPaid, TellingIsGranted, One
<1> QED BY <1>1, <1>3, <1>4, <1>6, <1>8, <1>9, IdleShape DEF IInv, ReportedIsSaved

LEMMA InitInv == Init => IInv
<1> SUFFICES ASSUME Init PROVE IInv
    OBVIOUS
<1>1. /\ memory = Empty /\ disk = Empty /\ chain = <<>> /\ failures = 0 /\ crashes = 0
      /\ handler = [p \in Pollers |-> Idle] /\ reported = {}
      /\ told = [a \in Accounts |-> [t \in Thresholds |-> 0]] /\ unsaved = told
    BY DEF Init, StoreInit
<1>2. Positions = {} /\ chain \in Seq(Links)
    BY <1>1, LenProperties DEF Positions
<1>3. StoreInv
    BY <1>1, <1>2, KeepsItself, EmptyIsSound DEF StoreInv, Chain, InOrder, Growing
<1>4. \A p \in Pollers : handler[p] = Idle
    BY <1>1
<1>5. \A p \in Pollers, a \in Accounts, t \in Thresholds : ~ Holds(p, a, t)
    BY <1>4, IdleShape DEF Holds
<1>6. OneTells /\ GrantIsNew
    BY <1>2, <1>5 DEF OneTells, GrantIsNew
<1>7. TellingIsPaid /\ TellingIsGranted
    BY <1>1, <1>5 DEF TellingIsPaid, TellingIsGranted, One, Tells
<1>8. TypeOK
    <2>1. handler \in [Pollers -> Handler]
        BY <1>1, IdleShape
    <2>2. Empty \in Document
        BY EmptyIsSound DEF Sound
    <2> QED BY <1>1, <2>1, <2>2, StoreAssumption, ReferralAssumption DEF TypeOK
<1> QED BY <1>1, <1>3, <1>4, <1>6, <1>7, <1>8, IdleShape DEF IInv, ReportedIsSaved

LEMMA StepKeepsInv == IInv /\ [Next]_vars => IInv'
<1> SUFFICES ASSUME IInv, [Next]_vars PROVE IInv'
    OBVIOUS
<1>1. CASE \E p \in Pollers, a \in Accounts : \E c \in Codes : StartWithCode(p, a, c)
    BY <1>1, StartWithCodeKeeps
<1>2. CASE \E p \in Pollers, a \in Accounts : \E c \in Codes : StartWithOwnCode(p, a, c)
    BY <1>2, StartWithOwnCodeKeeps
<1>3. CASE \E p \in Pollers, a \in Accounts : \E s \in Symbol : Arrive(p, a, s)
    BY <1>3, ArriveKeeps
<1>4. CASE \E p \in Pollers : Step(p)
    BY <1>4, GrantKeeps, AssignCodeKeeps, HandleFavoriteKeeps, FinishKeeps DEF Step
<1>5. CASE Apply /\ UNCHANGED handler /\ Bystanders
    BY <1>5, ApplyKeeps
<1>6. CASE Settle
    BY <1>6, SettleKeeps
<1>7. CASE Crash
    BY <1>7, CrashKeeps
<1>8. CASE UNCHANGED vars
    <2>1. UNCHANGED <<memory, disk, chain, failures, handler, crashes, reported, told, unsaved>>
        BY <1>8 DEF vars, storeVars
    <2>2. StoreInv'
        BY <2>1 DEF IInv, StoreInv, Chain, InOrder, Growing, Positions, Awaits
    <2>3. OneTells' /\ GrantIsNew' /\ TellingIsPaid' /\ TellingIsGranted'
        BY <2>1 DEF IInv, OneTells, GrantIsNew, TellingIsPaid, TellingIsGranted, Tells, Holds, Positions, One
    <2> QED BY <2>1, <2>2, <2>3 DEF IInv, TypeOK, ReportedIsSaved
<1> QED BY <1>1, <1>2, <1>3, <1>4, <1>5, <1>6, <1>7, <1>8 DEF Next

THEOREM InvAlways == Spec => []IInv
BY InitInv, StepKeepsInv, PTL DEF Spec

\* Rewards are earned, in the maps and in the file, whatever mix of transactions and
\* snapshots reaches it (referral.service.ts evaluateRewards, applyPendingRewards).
THEOREM RewardsAreAlwaysEarned == Spec => []RewardsAreEarned
<1>1. IInv => RewardsAreEarned
    BY DEF IInv, StoreInv, Sound, RewardsAreEarned
<1> QED BY <1>1, InvAlways, PTL

\* Inviters never go round in a circle and an invitation is of somebody known
\* (referral.service.ts handleStartReferral).
THEOREM InvitationsAreAlwaysOfNewcomers == Spec => []InvitationsAreOfNewcomers
<1>1. IInv => InvitationsAreOfNewcomers
    BY DEF IInv, StoreInv, Sound, InvitationsAreOfNewcomers
<1> QED BY <1>1, InvAlways, PTL

\* An invitation that was reported is in the file and stays there, through failed
\* writes and crashes (user.store.ts persist, transact).
THEOREM ReportedIsAlwaysSaved == Spec => []ReportedIsSaved
<1>1. IInv => ReportedIsSaved
    BY DEF IInv
<1> QED BY <1>1, InvAlways, PTL

\* An inviter told of a reward has it in the file unless the write of that grant
\* failed, and is told again only after such a failure and a crash
\* (referral.service.ts applyPendingRewards).
THEOREM ToldRewardsAreAlwaysSaved == Spec => []ToldRewardsAreSaved
<1>1. ASSUME IInv PROVE ToldRewardsAreSaved
    <2> SUFFICES ASSUME NEW a \in Accounts, NEW t \in Thresholds
                 PROVE  /\ told[a][t] > 0 => disk.reward[a][t] = "GRANTED" \/ unsaved[a][t] > 0
                        /\ told[a][t] <= 1 + unsaved[a][t]
                        /\ told[a][t] <= 1 + crashes
        BY DEF ToldRewardsAreSaved
    <2>1. /\ told[a][t] + One(Tells(a, t)) <= One(disk.reward[a][t] = "GRANTED") + unsaved[a][t]
          /\ told[a][t] + One(Tells(a, t)) <= One(memory.reward[a][t] = "GRANTED") + crashes
        BY <1>1 DEF IInv, TellingIsPaid, TellingIsGranted
    <2>2. told[a][t] \in Nat /\ unsaved[a][t] \in Nat /\ crashes \in Nat
        BY <1>1, ReferralAssumption DEF IInv, TypeOK
    <2>3. /\ One(Tells(a, t)) \in Nat
          /\ One(disk.reward[a][t] = "GRANTED") = IF disk.reward[a][t] = "GRANTED" THEN 1 ELSE 0
          /\ One(memory.reward[a][t] = "GRANTED") \in 0 .. 1
        BY DEF One
    <2> QED BY <2>1, <2>2, <2>3
<1> QED BY <1>1, InvAlways, PTL
=============================================================================
