------------------------------ MODULE SeatingProofs ------------------------------
(***************************************************************************)
(* Proofs about module Seating, for any finite number of accounts, seats,  *)
(* buy-ins and moves: what a page lets its user click is what the server   *)
(* will do (PagesShowWhatFollows), no claim is lost that could have been   *)
(* kept (ClaimsNotLost), and the seats are sound (SeatsAreSound).          *)
(***************************************************************************)
EXTENDS Seating, SumTheorems

\* A table whatever is claimed on it: no two on a seat, what was bought at a seat
\* was bought in the session, who is ready sits, and busted players are those
\* without buy-ins.
Sound(t) ==
  /\ t \in Tables
  /\ \A a, b \in Accounts : t.seat[a] # 0 /\ t.seat[a] = t.seat[b] => a = b
  /\ \A a \in Accounts : t.total[a] <= t.bought[a] /\ (t.seat[a] = 0 => t.total[a] = 0)
  /\ \A a \in t.busted : t.bought[a] = MaxBuy
  /\ t.ready \subseteq Seated(t)

\* Who has a claim stands, and has not asked to watch.
ClaimantsStand ==
  \A a \in Accounts : table.claim[a] # 0 => table.seat[a] = 0 /\ click[a][1] # "spectate"

\* Who claims a seat can pay for it, or sits with chips already.
Pays(t, a) == IF t.seat[a] = 0 THEN t.wallet[a] > 0 ELSE t.stack[a] > 0
ClaimantsCanPay ==
  \A a \in Accounts : table.claim[a] # 0 \/ click[a][1] = "claim" => Pays(table, a)

\* Between hands no claim is left once advanceGame is done.
NoClaimLeft == table.stage = "ready" /\ closing = "done" => \A a \in Accounts : table.claim[a] = 0

\* A hand is played by those who are ready.
PlayersReady == table.stage # "ready" => Seated(table) \subseteq table.ready

\* A claim that is entered late, of an account seated meanwhile, holds the next
\* hand up.
LateWaits ==
  \A a \in Accounts :
    click[a][1] = "claim" /\ table.seat[a] # 0 => table.stage = "ready" /\ a \notin table.ready

\* The switch tells the wish, and its opposite while a click on it is under way.
\* Who stands has neither pressed it nor a wish.
SwitchTellsWish ==
  \A a \in Accounts \ astray :
    /\ table.seat[a] = 0 => a \notin flagged /\ a \notin ticked
    /\ table.seat[a] # 0 =>
         IF click[a][1] = "spectate" THEN a \in ticked <=> a \notin flagged
                                     ELSE a \in ticked <=> a \in flagged

SeatInv ==
  /\ TypeOK /\ Sound(table) /\ ClaimantsStand /\ NoClaimLeft /\ PlayersReady /\ LateWaits
  /\ SwitchTellsWish /\ ClaimantsCanPay

---------------------------------------------------------------------------------
(* Operators.                                                              *)

LEMMA SitFields ==
  ASSUME NEW t \in Tables, NEW a \in Accounts, NEW s \in Seats, NEW l, CanSit(t, a, s, l)
  PROVE  LET r == Sit(t, a, s) IN
         /\ r \in Tables
         /\ r.stage = t.stage /\ r.claim = t.claim /\ r.ready = t.ready
         /\ r.room = t.room /\ r.busted = t.busted
         /\ r.seat = [t.seat EXCEPT ![a] = s]
         /\ r.total = [t.total EXCEPT ![a] = 1]
         /\ r.bought = [t.bought EXCEPT ![a] = @ + 1]
         /\ r.stack = [t.stack EXCEPT ![a] = 1]
         /\ r.wallet = [t.wallet EXCEPT ![a] = @ - 1]
<1> DEFINE r == Sit(t, a, s)
<1>1. /\ t.seat \in [Accounts -> 0 .. MaxPlayers] /\ t.stack \in [Accounts -> Nat]
      /\ t.total \in [Accounts -> 0 .. MaxBuy] /\ t.bought \in [Accounts -> 0 .. MaxBuy]
      /\ t.wallet \in [Accounts -> Nat] /\ t.claim \in [Accounts -> 0 .. MaxPlayers]
  BY DEF Tables
<1>2. t.bought[a] < MaxBuy /\ t.wallet[a] > 0 /\ s \in 0 .. MaxPlayers /\ s # 0
  BY SeatingAssumption DEF CanSit, CanBuyIn, Seats
<1>3. /\ r.stage = t.stage /\ r.claim = t.claim /\ r.ready = t.ready
      /\ r.room = t.room /\ r.busted = t.busted
      /\ r.seat = [t.seat EXCEPT ![a] = s]
      /\ r.stack = [t.stack EXCEPT ![a] = 1]
      /\ r.total = [t.total EXCEPT ![a] = 1]
      /\ r.wallet = [t.wallet EXCEPT ![a] = t.wallet[a] - 1]
      /\ r.bought = [t.bought EXCEPT ![a] = t.bought[a] + 1]
  BY DEF Sit, Tables
<1>4. /\ DOMAIN r = {"stage", "seat", "claim", "stack", "total", "bought", "wallet", "ready",
                     "room", "busted"}
      /\ r = [x \in DOMAIN r |-> r[x]]
  BY DEF Sit, Tables
<1>5. /\ r.seat \in [Accounts -> 0 .. MaxPlayers] /\ r.stack \in [Accounts -> Nat]
      /\ r.total \in [Accounts -> 0 .. MaxBuy]
      /\ r.wallet \in [Accounts -> Nat] /\ r.bought \in [Accounts -> 0 .. MaxBuy]
  BY <1>1, <1>2, <1>3, SeatingAssumption
<1> HIDE DEF r
<1>6. r \in Tables
  BY <1>3, <1>4, <1>5 DEF Tables
<1> QED BY <1>1, <1>3, <1>6 DEF r

\* All is as it was for b.
SameFor(t, r, b) == r.seat[b] = t.seat[b] /\ r.stack[b] = t.stack[b] /\ r.wallet[b] = t.wallet[b]

LEMMA SitSound ==
  ASSUME NEW t, Sound(t), NEW a \in Accounts, NEW s, NEW l, CanSit(t, a, s, l)
  PROVE  /\ Sound(Sit(t, a, s))
         /\ Sit(t, a, s).stage = t.stage /\ Sit(t, a, s).claim = t.claim
         /\ Sit(t, a, s).ready = t.ready /\ Sit(t, a, s).room = t.room
         /\ t.seat[a] = 0 /\ Sit(t, a, s).seat[a] = s /\ Sit(t, a, s).stack[a] = 1
         /\ s \in Free(t) /\ s # 0
         /\ \A b \in Accounts \ {a} : /\ SameFor(t, Sit(t, a, s), b)
                                     /\ Sit(t, a, s).bought[b] = t.bought[b]
<1> DEFINE r == Sit(t, a, s)
<1>1. t \in Tables /\ s \in Seats /\ s \in Free(t) /\ t.seat[a] = 0 /\ t.bought[a] < MaxBuy
  BY DEF Sound, CanSit, Free, CanBuyIn
<1>2. /\ r \in Tables
      /\ r.stage = t.stage /\ r.claim = t.claim /\ r.ready = t.ready
      /\ r.room = t.room /\ r.busted = t.busted
      /\ r.seat = [t.seat EXCEPT ![a] = s]
      /\ r.total = [t.total EXCEPT ![a] = 1]
      /\ r.bought = [t.bought EXCEPT ![a] = @ + 1]
      /\ r.stack = [t.stack EXCEPT ![a] = 1]
      /\ r.wallet = [t.wallet EXCEPT ![a] = @ - 1]
  BY <1>1, SitFields
<1> HIDE DEF r
<1>3. /\ t.seat \in [Accounts -> 0 .. MaxPlayers]
      /\ t.total \in [Accounts -> 0 .. MaxBuy] /\ t.bought \in [Accounts -> 0 .. MaxBuy]
      /\ t.stack \in [Accounts -> Nat] /\ t.wallet \in [Accounts -> Nat]
      /\ t.busted \subseteq Accounts /\ t.ready \subseteq Accounts
  BY <1>1 DEF Tables
<1>4. s # 0 /\ \A b \in Accounts : t.seat[b] # s
  BY <1>1, SeatingAssumption DEF Free, Taken, Seats
<1>5. r.seat[a] = s /\ \A b \in Accounts \ {a} : r.seat[b] = t.seat[b]
  BY <1>2, <1>3
<1>6. \A b, c \in Accounts : r.seat[b] # 0 /\ r.seat[b] = r.seat[c] => b = c
  BY <1>4, <1>5 DEF Sound
<1>7. \A b \in Accounts : r.total[b] <= r.bought[b] /\ (r.seat[b] = 0 => r.total[b] = 0)
  BY <1>2, <1>3, <1>4, SeatingAssumption DEF Sound
<1>8. \A b \in r.busted : r.bought[b] = MaxBuy
  <2>1. \A b \in t.busted : t.bought[b] = MaxBuy
    BY DEF Sound
  <2> QED BY <1>1, <1>2, <1>3, <2>1, SeatingAssumption
<1>9. r.ready \subseteq Seated(r)
  BY <1>2, <1>4, <1>5 DEF Sound, Seated
<1>10. Sound(r)
  BY <1>2, <1>6, <1>7, <1>8, <1>9 DEF Sound
<1>11. r.stack[a] = 1 /\ \A b \in Accounts \ {a} : SameFor(t, r, b) /\ r.bought[b] = t.bought[b]
  BY <1>2, <1>3 DEF SameFor
<1> QED BY <1>1, <1>2, <1>4, <1>5, <1>10, <1>11 DEF r


\* Sound looks at these fields alone.
LEMMA SoundFrom ==
  ASSUME NEW t, Sound(t), NEW r, r \in Tables, r.seat = t.seat, r.total = t.total,
         r.bought = t.bought, r.busted = t.busted, r.ready \subseteq Seated(t)
  PROVE  Sound(r)
<1>1. Seated(r) = Seated(t)
  BY DEF Seated
<1> QED BY <1>1 DEF Sound

\* A claim is entered or dropped.
WithClaim(t, a, s) == [t EXCEPT !.claim[a] = s]

LEMMA ClaimSound ==
  ASSUME NEW t, Sound(t), NEW a \in Accounts, NEW s \in 0 .. MaxPlayers,
         NEW r, r = WithClaim(t, a, s)
  PROVE  /\ Sound(r)
         /\ r.stage = t.stage /\ r.seat = t.seat /\ r.ready = t.ready /\ r.room = t.room
         /\ r.stack = t.stack /\ r.wallet = t.wallet /\ r.bought = t.bought
         /\ r.claim = [t.claim EXCEPT ![a] = s]
<1>1. t \in Tables
  BY DEF Sound
<1>2. /\ r.stage = t.stage /\ r.seat = t.seat /\ r.ready = t.ready /\ r.room = t.room
      /\ r.stack = t.stack /\ r.wallet = t.wallet
      /\ r.total = t.total /\ r.bought = t.bought /\ r.busted = t.busted
      /\ r.claim = [t.claim EXCEPT ![a] = s]
  BY <1>1 DEF Tables, WithClaim
<1>3. r \in Tables
  BY <1>1 DEF Tables, WithClaim
<1>4. r.ready \subseteq Seated(t)
  BY <1>2 DEF Sound
<1>5. Sound(r)
  BY <1>2, <1>3, <1>4, SoundFrom
<1> QED BY <1>2, <1>5

\* A claimant sits down or does not, and the claim is gone.
Takes(t, a, l) == a \in t.room /\ CanSit(t, a, SeatFor(t, a), l)

LEMMA SeatClaimantSound ==
  ASSUME NEW t, Sound(t), NEW a \in Accounts, NEW l, NEW r, r = SeatClaimant(t, a, l)
  PROVE  /\ Sound(r) /\ r.stage = t.stage /\ r.ready = t.ready /\ r.room = t.room
         /\ r.claim = [t.claim EXCEPT ![a] = 0]
         /\ SameFor(t, r, a) \/ (t.seat[a] = 0 /\ r.seat[a] # 0 /\ r.stack[a] # 0)
         /\ \A b \in Accounts \ {a} : SameFor(t, r, b) /\ r.bought[b] = t.bought[b]
         /\ r.seat[a] # t.seat[a] => CanSit(t, a, r.seat[a], l)
<1> DEFINE m == IF Takes(t, a, l) THEN Sit(t, a, SeatFor(t, a))
                ELSE t
<1>1. /\ Sound(m) /\ m.stage = t.stage /\ m.ready = t.ready /\ m.room = t.room
      /\ m.claim = t.claim
      /\ SameFor(t, m, a) \/ (t.seat[a] = 0 /\ m.seat[a] # 0 /\ m.stack[a] # 0)
      /\ \A b \in Accounts \ {a} : SameFor(t, m, b) /\ m.bought[b] = t.bought[b]
      /\ m.seat[a] # t.seat[a] => CanSit(t, a, m.seat[a], l)
  <2>1. CASE Takes(t, a, l)
    BY <2>1, SitSound DEF Takes
  <2>2. CASE ~Takes(t, a, l)
    BY <2>2 DEF SameFor
  <2> QED BY <2>1, <2>2
<1>2. r = WithClaim(m, a, 0)
  BY DEF SeatClaimant, WithClaim, Takes
<1> HIDE DEF m
<1>3. 0 \in 0 .. MaxPlayers
  BY SeatingAssumption
<1>4. /\ Sound(r)
      /\ r.stage = m.stage /\ r.seat = m.seat /\ r.ready = m.ready /\ r.room = m.room
      /\ r.stack = m.stack /\ r.wallet = m.wallet /\ r.bought = m.bought
      /\ r.claim = [m.claim EXCEPT ![a] = 0]
  BY <1>1, <1>2, <1>3, ClaimSound
<1> QED BY <1>1, <1>4 DEF SameFor

\* The rounds up to round m, and what they keep.
Taking(t, q, luck, g, m) ==
  /\ DOMAIN g = 0 .. m /\ g = [i \in 0 .. m |-> g[i]]
  /\ g[0] = t
  /\ \A i \in 1 .. m : g[i] = SeatClaimant(g[i - 1], q[i], luck[i])

\* At table t, a has a claim like nobody else's and can pay; and there is a seat: the
\* claimed one, or for a claimant who is alone any other.
Awaiting(t, a) ==
  /\ t.seat[a] = 0 /\ t.claim[a] # 0 /\ a \in t.room /\ CanBuyIn(t, a) /\ t.wallet[a] > 0
  /\ \A b \in Accounts \ {a} : t.claim[b] # t.claim[a]
AloneIn(t, a) == \A b \in Accounts \ {a} : t.claim[b] = 0
SeatThere(t, a) == t.claim[a] \in Free(t) \/ (Free(t) # {} /\ AloneIn(t, a))

\* Claims of t have been taken, a's not: the seat it claimed is still there.
NotYet(t, a, r) ==
  /\ r.seat[a] = 0 /\ r.claim[a] = t.claim[a] /\ r.bought[a] = t.bought[a]
  /\ r.wallet[a] = t.wallet[a]
  /\ t.claim[a] \in Free(t) => t.claim[a] \in Free(r)
  /\ AloneIn(t, a) => r = t

\* a sits, with chips.
Placed(r, a) == r.seat[a] # 0 /\ r.stack[a] # 0

Advanced(t, q, r, i) ==
  /\ Sound(r) /\ r.stage = t.stage /\ r.ready = t.ready /\ r.room = t.room
  /\ \A a \in Accounts : \/ SameFor(t, r, a)
                         \/ t.seat[a] = 0 /\ t.claim[a] # 0 /\ r.seat[a] # 0 /\ r.stack[a] # 0
  /\ \A a \in Accounts : r.claim[a] = 0 \/ r.claim[a] = t.claim[a]
  /\ \A j \in 1 .. i : r.claim[q[j]] = 0
  /\ \A a \in Accounts : t.stage = "ready" /\ Awaiting(t, a) /\ SeatThere(t, a) =>
                           NotYet(t, a, r) \/ Placed(r, a)

\* Nobody is given the seat another has claimed.
LEMMA TurnOfAnother ==
  ASSUME NEW t, NEW r, Sound(r), NEW a \in Accounts, Awaiting(t, a), NotYet(t, a, r),
         \A c \in Accounts : r.claim[c] = 0 \/ r.claim[c] = t.claim[c],
         NEW b \in Accounts \ {a}, t.claim[b] # 0, NEW l, NEW u, u = SeatClaimant(r, b, l)
  PROVE  NotYet(t, a, u)
<1>1. /\ u.claim = [r.claim EXCEPT ![b] = 0]
      /\ \A c \in Accounts \ {b} : SameFor(r, u, c) /\ u.bought[c] = r.bought[c]
      /\ u.seat[b] # r.seat[b] => CanSit(r, b, u.seat[b], l)
  BY SeatClaimantSound
<1>2. /\ r.claim \in [Accounts -> 0 .. MaxPlayers] /\ r.claim[a] = t.claim[a] /\ t.claim[a] # 0
      /\ r.claim[b] # t.claim[a]
  BY DEF Sound, Tables, NotYet, Awaiting
<1>3. ~AloneIn(t, a)
  BY DEF AloneIn
<1>4. ASSUME t.claim[a] \in Free(t) PROVE t.claim[a] \in Free(u)
  <2>1. t.claim[a] \in Seats /\ \A c \in Accounts : r.seat[c] # t.claim[a]
    BY <1>4 DEF NotYet, Free, Taken
  <2>2. a \in Claimed(r, t.claim[a]) /\ b \notin Claimed(r, t.claim[a])
    BY <1>2 DEF Claimed
  <2>3. ~Named(r, b, t.claim[a], l)
    BY <2>2 DEF Named
  <2>4. u.seat[b] # t.claim[a]
    BY <1>1, <2>1, <2>3 DEF CanSit
  <2>5. \A c \in Accounts : u.seat[c] # t.claim[a]
    BY <1>1, <2>1, <2>4 DEF SameFor
  <2> QED BY <2>1, <2>5 DEF Free, Taken
<1>5. /\ u.seat[a] = 0 /\ u.claim[a] = t.claim[a] /\ u.bought[a] = t.bought[a]
      /\ u.wallet[a] = t.wallet[a]
  BY <1>1, <1>2 DEF NotYet, SameFor
<1> QED BY <1>3, <1>4, <1>5 DEF NotYet

\* The claimed seat, or the first free one if there is any.
LEMMA SeatForFree ==
  ASSUME NEW t, NEW a, Free(t) # {}
  PROVE  /\ SeatFor(t, a) \in Free(t)
         /\ t.claim[a] \in Free(t) => SeatFor(t, a) = t.claim[a]
<1> DEFINE F == Free(t) \union {MaxPlayers + 1}
           Least(x) == x \in F /\ \A y \in F : x <= y
<1>1. MaxPlayers \in Nat /\ Free(t) \in SUBSET (1 .. MaxPlayers)
  BY SeatingAssumption DEF Free, Seats
<1>2. F \in SUBSET Nat /\ F # {}
  BY <1>1
<1>3. \E x \in F : \A y \in F : x <= y
  <2> HIDE DEF F
  <2> QED BY <1>2, LeastElement
<1>4. Least(CHOOSE x \in F : \A y \in F : x <= y)
  <2> HIDE DEF F
  <2> QED BY <1>3
<1>5. ASSUME NEW x, Least(x) PROVE x \in Free(t)
  BY <1>1, <1>5
<1>6. CASE t.claim[a] \notin Free(t)
  <2>1. SeatFor(t, a) = CHOOSE x \in F : \A y \in F : x <= y
    BY <1>6 DEF SeatFor
  <2> HIDE DEF F, Least
  <2> QED BY <1>4, <1>5, <1>6, <2>1
<1>7. CASE t.claim[a] \in Free(t)
  BY <1>7 DEF SeatFor
<1> QED BY <1>6, <1>7

LEMMA ClaimantTakes ==
  ASSUME NEW t, Sound(t), NEW a \in Accounts, NEW l, Takes(t, a, l),
         NEW r, r = SeatClaimant(t, a, l)
  PROVE  Placed(r, a)
<1> DEFINE s == SeatFor(t, a)
           m == Sit(t, a, s)
<1>1. CanSit(t, a, s, l)
  BY DEF Takes
<1>2. r = WithClaim(m, a, 0)
  BY DEF SeatClaimant, WithClaim, Takes
<1> HIDE DEF s
<1>3. Sound(m) /\ m.seat[a] = s /\ m.stack[a] = 1 /\ s # 0
  <2>1. Sound(m)
    BY <1>1, SitSound
  <2>2. m.seat[a] = s
    BY <1>1, SitSound
  <2>3. m.stack[a] = 1
    BY <1>1, SitSound
  <2>4. s # 0
    BY <1>1, SitSound
  <2> QED BY <2>1, <2>2, <2>3, <2>4
<1> HIDE DEF m
<1>4. r.seat = m.seat /\ r.stack = m.stack
  BY <1>2, <1>3 DEF WithClaim, Sound, Tables
<1> QED BY <1>3, <1>4 DEF Placed

LEMMA TurnOfClaimant ==
  ASSUME NEW t, NEW r, Sound(r), t.stage = "ready", r.stage = t.stage, r.room = t.room,
         NEW a \in Accounts, Awaiting(t, a), SeatThere(t, a), NotYet(t, a, r),
         \A c \in Accounts : r.claim[c] = 0 \/ r.claim[c] = t.claim[c],
         NEW l, NEW u, u = SeatClaimant(r, a, l)
  PROVE  Placed(u, a)
<1>1. Takes(r, a, l) => Placed(u, a)
  BY ClaimantTakes
<1>2. /\ r.seat[a] = 0 /\ a \in r.room /\ CanBuyIn(r, a) /\ r.wallet[a] > 0
      /\ r.claim[a] = t.claim[a] /\ t.claim[a] # 0
  BY DEF Awaiting, NotYet, CanBuyIn
<1>3. SeatFor(r, a) \in Free(r) /\ Claimed(r, SeatFor(r, a)) \subseteq {a}
  <2>1. CASE t.claim[a] \in Free(t)
    <3>1. r.claim[a] \in Free(r)
      BY <1>2, <2>1 DEF NotYet
    <3>2. SeatFor(r, a) = t.claim[a] /\ SeatFor(r, a) \in Free(r)
      BY <1>2, <3>1, SeatForFree
    <3>3. \A c \in Accounts \ {a} : r.claim[c] # t.claim[a]
      BY <1>2 DEF Awaiting
    <3> QED BY <3>2, <3>3 DEF Claimed
  <2>2. CASE Free(t) # {} /\ AloneIn(t, a)
    <3>1. r = t
      BY <2>2 DEF NotYet
    <3>2. SeatFor(r, a) \in Free(r)
      BY <2>2, <3>1, SeatForFree
    <3>3. SeatFor(r, a) # 0
      BY <3>2, SeatingAssumption DEF Free, Seats
    <3> QED BY <2>2, <3>1, <3>2, <3>3 DEF Claimed, AloneIn
  <2> QED BY <2>1, <2>2 DEF SeatThere
<1>4. Named(r, a, SeatFor(r, a), l)
  BY <1>3 DEF Named
<1>5. Takes(r, a, l)
  BY <1>2, <1>3, <1>4 DEF CanSit, Takes
<1> QED BY <1>1, <1>5

LEMMA TakingRound ==
  ASSUME NEW t, Sound(t), NEW q, NEW i \in Nat, NEW r, Advanced(t, q, r, i),
         NEW a \in Accounts, a = q[i + 1], t.claim[a] # 0, NEW l, NEW u, u = SeatClaimant(r, a, l)
  PROVE  Advanced(t, q, u, i + 1)
<1>1. Sound(r) /\ a \in Accounts
  BY DEF Advanced
<1>2. /\ Sound(u) /\ u.stage = r.stage /\ u.ready = r.ready /\ u.room = r.room
      /\ u.claim = [r.claim EXCEPT ![a] = 0]
      /\ SameFor(r, u, a) \/ (r.seat[a] = 0 /\ u.seat[a] # 0 /\ u.stack[a] # 0)
      /\ \A b \in Accounts \ {a} : SameFor(r, u, b)
  BY <1>1, SeatClaimantSound
<1>3. r.claim \in [Accounts -> 0 .. MaxPlayers] /\ t.claim[a] # 0
  BY <1>1 DEF Sound, Tables
<1>4. ASSUME NEW b \in Accounts
      PROVE  \/ SameFor(t, u, b)
             \/ t.seat[b] = 0 /\ t.claim[b] # 0 /\ u.seat[b] # 0 /\ u.stack[b] # 0
  <2>1. \/ SameFor(t, r, b)
        \/ t.seat[b] = 0 /\ t.claim[b] # 0 /\ r.seat[b] # 0 /\ r.stack[b] # 0
    BY DEF Advanced
  <2>2. CASE b = a
    BY <2>1, <2>2, <1>2, <1>3 DEF SameFor
  <2>3. CASE b # a
    BY <2>1, <2>3, <1>2 DEF SameFor
  <2> QED BY <2>2, <2>3
<1>5. \A b \in Accounts : u.claim[b] = 0 \/ u.claim[b] = t.claim[b]
  BY <1>2, <1>3 DEF Advanced
<1>6. \A j \in 1 .. i + 1 : u.claim[q[j]] = 0
  <2> TAKE j \in 1 .. i + 1
  <2>1. CASE j = i + 1
    BY <2>1, <1>1, <1>2, <1>3
  <2>2. CASE j # i + 1
    <3>1. j \in 1 .. i
      BY <2>2
    <3>2. r.claim[q[j]] = 0
      BY <3>1 DEF Advanced
    <3> QED BY <3>2, <1>2, <1>3
  <2> QED BY <2>1, <2>2
<1>7. u.stage = t.stage /\ u.ready = t.ready /\ u.room = t.room
  BY <1>2 DEF Advanced
<1>8. ASSUME NEW b \in Accounts, t.stage = "ready", Awaiting(t, b), SeatThere(t, b)
      PROVE  NotYet(t, b, u) \/ Placed(u, b)
  <2>1. /\ NotYet(t, b, r) \/ Placed(r, b)
        /\ \A c \in Accounts : r.claim[c] = 0 \/ r.claim[c] = t.claim[c]
        /\ r.stage = t.stage /\ r.room = t.room
    BY <1>8 DEF Advanced
  <2>2. CASE Placed(r, b)
    BY <1>2, <2>2 DEF Placed, SameFor
  <2>3. CASE NotYet(t, b, r) /\ b = a
    BY <1>1, <1>8, <2>1, <2>3, TurnOfClaimant
  <2>4. CASE NotYet(t, b, r) /\ b # a
    BY <1>1, <1>3, <1>8, <2>1, <2>4, TurnOfAnother
  <2> QED BY <2>1, <2>2, <2>3, <2>4
<1> QED BY <1>2, <1>4, <1>5, <1>6, <1>7, <1>8 DEF Advanced

\* The rounds can be taken, one after the other.
LEMMA RoundsExist ==
  ASSUME NEW t, Sound(t), NEW q, NEW luck, NEW n \in Nat,
         \A i \in 1 .. n : q[i] \in Accounts /\ t.claim[q[i]] # 0
  PROVE  \E g : Taking(t, q, luck, g, n) /\ Advanced(t, q, g[n], n)
<1> DEFINE S == {m \in Nat : m <= n => \E g : Taking(t, q, luck, g, m) /\ Advanced(t, q, g[m], m)}
<1>1. 0 \in S
  <2> DEFINE g == [i \in 0 .. 0 |-> t]
  <2>1. Taking(t, q, luck, g, 0)
    BY DEF Taking
  <2>2. Advanced(t, q, t, 0)
    BY DEF Advanced, SameFor, Awaiting, NotYet
  <2>3. g[0] = t
    OBVIOUS
  <2> QED BY <2>1, <2>2, <2>3
<1>2. ASSUME NEW m \in S PROVE m + 1 \in S
  <2> SUFFICES ASSUME m + 1 <= n
               PROVE \E g : Taking(t, q, luck, g, m + 1) /\ Advanced(t, q, g[m + 1], m + 1)
    OBVIOUS
  <2>1. PICK g : Taking(t, q, luck, g, m) /\ Advanced(t, q, g[m], m)
    OBVIOUS
  <2> DEFINE h == [k \in 0 .. m + 1 |->
                    IF k = m + 1 THEN SeatClaimant(g[m], q[m + 1], luck[m + 1]) ELSE g[k]]
  <2>2. m \in Nat /\ m + 1 \in 1 .. n
    OBVIOUS
  <2>3. DOMAIN h = 0 .. m + 1 /\ h = [k \in 0 .. m + 1 |-> h[k]] /\ h[0] = t
    BY <2>1, <2>2 DEF Taking
  <2>4. ASSUME NEW k \in 1 .. m + 1 PROVE h[k] = SeatClaimant(h[k - 1], q[k], luck[k])
    <3>1. CASE k = m + 1
      <4>1. m + 1 \in 0 .. m + 1 /\ m \in 0 .. m + 1 /\ m # m + 1 /\ k - 1 = m
        BY <2>2, <3>1
      <4> QED BY <4>1, <3>1
    <3>2. CASE k # m + 1
      <4>1. k \in 1 .. m /\ k \in 0 .. m + 1 /\ k - 1 \in 0 .. m + 1 /\ k - 1 # m + 1
        BY <3>2, <2>2
      <4>2. h[k] = g[k] /\ h[k - 1] = g[k - 1]
        BY <4>1, <3>2
      <4> QED BY <4>1, <4>2, <2>1 DEF Taking
    <3> QED BY <3>1, <3>2
  <2>5. h[m + 1] = SeatClaimant(g[m], q[m + 1], luck[m + 1])
    BY <2>2
  <2>6. Advanced(t, q, h[m + 1], m + 1)
    <3> HIDE DEF h
    <3>1. q[m + 1] \in Accounts /\ t.claim[q[m + 1]] # 0
      BY <2>2
    <3> QED BY <2>1, <2>2, <2>5, <3>1, TakingRound
  <2>7. Taking(t, q, luck, h, m + 1)
    <3> HIDE DEF h
    <3> QED BY <2>3, <2>4 DEF Taking
  <2> HIDE DEF h
  <2> QED BY <2>6, <2>7
<1> HIDE DEF S
<1>3. S = Nat
  <2>1. S \in SUBSET Nat
    BY DEF S
  <2> QED BY <1>1, <1>2, <2>1, NatInd
<1> QED BY <1>3 DEF S

\* What Rounds comes to is the table after the last of them.
LEMMA RoundsTaking ==
  ASSUME NEW t, NEW q, NEW luck, NEW n \in Nat, NEW g, Taking(t, q, luck, g, n)
  PROVE  Rounds(t, q, luck, n) = g[n]
<1> DEFINE Rec(s) == s = [k \in 0 .. n |-> IF k = 0 THEN t ELSE SeatClaimant(s[k - 1], q[k], luck[k])]
           s == CHOOSE s : Rec(s)
<1>1. Rec(g)
  <2>1. ASSUME NEW k \in 0 .. n
        PROVE  g[k] = IF k = 0 THEN t ELSE SeatClaimant(g[k - 1], q[k], luck[k])
    <3>1. CASE k = 0
      BY <3>1 DEF Taking
    <3>2. CASE k # 0
      <4>1. k \in 1 .. n
        BY <3>2
      <4> QED BY <3>2, <4>1 DEF Taking
    <3> QED BY <3>1, <3>2
  <2>2. g = [k \in 0 .. n |-> g[k]]
    BY DEF Taking
  <2> QED BY <2>1, <2>2
<1>2. Rec(s)
  <2> HIDE DEF Rec
  <2> QED BY <1>1
<1>3. Rounds(t, q, luck, n) = s[n]
  BY DEF Rounds
<1> DEFINE S == {m \in Nat : m <= n => s[m] = g[m]}
<1> HIDE DEF s
<1>4. 0 \in S
  BY <1>2 DEF Taking
<1>5. ASSUME NEW m \in S PROVE m + 1 \in S
  <2> SUFFICES ASSUME m + 1 <= n PROVE s[m + 1] = g[m + 1]
    OBVIOUS
  <2>1. m \in Nat /\ m + 1 \in 0 .. n /\ m + 1 \in 1 .. n /\ m + 1 # 0 /\ (m + 1) - 1 = m
    OBVIOUS
  <2>2. s[m + 1] = SeatClaimant(s[m], q[m + 1], luck[m + 1])
    BY <1>2, <2>1
  <2>3. g[m + 1] = SeatClaimant(g[m], q[m + 1], luck[m + 1])
    BY <2>1 DEF Taking
  <2>4. s[m] = g[m]
    BY <2>1
  <2> QED BY <2>2, <2>3, <2>4
<1> HIDE DEF S
<1>6. S = Nat
  <2>1. S \in SUBSET Nat
    BY DEF S
  <2> QED BY <1>4, <1>5, <2>1, NatInd
<1> QED BY <1>3, <1>6 DEF S

\* What a broadcast, or a part of it, may do to table t: whoever gets a seat had a
\* claim, and whoever loses one has no chips.
Updates(t, r) ==
  /\ Sound(r) /\ r.stage = t.stage /\ r.room = t.room /\ r.ready \subseteq t.ready
  /\ \A a \in Accounts :
       \/ SameFor(t, r, a)
       \/ t.seat[a] # 0 /\ t.stack[a] = 0 /\ r.seat[a] = 0
       \/ t.seat[a] = 0 /\ t.claim[a] # 0 /\ r.seat[a] # 0 /\ r.stack[a] # 0
  /\ t.stage = "ready" => \A a \in Accounts : r.claim[a] = 0
  /\ t.stage = "ready" => \A a \in Accounts : Awaiting(t, a) /\ SeatThere(t, a) => Placed(r, a)
  /\ t.stage # "ready" => r = t

\* All claims are taken, between hands; no other time.
LEMMA SeatClaimantsSound ==
  ASSUME NEW t, Sound(t), NEW r \in SeatClaimants(t)
  PROVE  Updates(t, r)
<1>1. t \in Tables /\ t.ready \subseteq t.ready
  BY DEF Sound
<1>2. CASE t.stage # "ready"
  <2>1. r = t
    BY <1>2 DEF SeatClaimants
  <2> QED BY <1>2, <2>1 DEF Updates, SameFor
<1>3. CASE t.stage = "ready"
  <2> DEFINE C == {a \in Accounts : t.claim[a] # 0}
             n == Cardinality(C)
  <2>1. PICK q \in Orders(t) : \E luck \in [DOMAIN q -> BOOLEAN] :
          r = Rounds(t, q, luck, Cardinality(DOMAIN q))
    BY <1>3 DEF SeatClaimants
  <2>0. PICK luck \in [DOMAIN q -> BOOLEAN] : r = Rounds(t, q, luck, Cardinality(DOMAIN q))
    BY <2>1
  <2>2. n \in Nat
    <3>1. IsFiniteSet(Accounts) /\ C \in SUBSET Accounts
      BY SeatingAssumption
    <3>2. IsFiniteSet(C)
      BY <3>1, FS_Subset
    <3> QED BY <3>2, FS_CardinalityType
  <2>3. q \in [1 .. n -> C] /\ \A a \in C : \E i \in DOMAIN q : q[i] = a
    BY <2>1 DEF Orders
  <2>4. DOMAIN q = 1 .. n
    BY <2>3
  <2>5. Cardinality(DOMAIN q) = n
    <3> HIDE DEF n
    <3>1. Cardinality(1 .. n) = IF 1 > n THEN 0 ELSE n - 1 + 1
      BY <2>2, FS_Interval
    <3> QED BY <2>2, <2>4, <3>1
  <2>6. \A i \in 1 .. n : q[i] \in Accounts /\ t.claim[q[i]] # 0
    BY <2>3
  <2> HIDE DEF n
  <2>7. PICK g : Taking(t, q, luck, g, n) /\ Advanced(t, q, g[n], n)
    BY <2>2, <2>6, RoundsExist
  <2>8. r = g[n]
    BY <2>0, <2>2, <2>5, <2>7, RoundsTaking
  <2>9. Advanced(t, q, r, n)
    BY <2>7, <2>8
  <2>10. \A a \in Accounts : r.claim[a] = 0
    <3> TAKE a \in Accounts
    <3>1. CASE t.claim[a] = 0
      BY <3>1, <2>9 DEF Advanced
    <3>2. CASE t.claim[a] # 0
      <4>1. PICK i \in 1 .. n : q[i] = a
        BY <3>2, <2>3, <2>4
      <4> QED BY <4>1, <2>9 DEF Advanced
    <3> QED BY <3>1, <3>2
  <2>11. \A a \in Accounts : Awaiting(t, a) /\ SeatThere(t, a) => Placed(r, a)
    BY <1>3, <2>9, <2>10 DEF Advanced, NotYet, Awaiting
  <2> QED BY <1>1, <1>3, <2>9, <2>10, <2>11 DEF Advanced, Updates
<1> QED BY <1>2, <1>3


\* A record of the fields of a table, each of its type, is a table.
Fields == {"stage", "seat", "claim", "stack", "total", "bought", "wallet", "ready",
           "room", "busted"}

LEMMA TableFromFields ==
  ASSUME NEW r, DOMAIN r = Fields, r = [x \in Fields |-> r[x]],
         r.stage \in {"ready", "hand", "showdown"},
         r.seat \in [Accounts -> 0 .. MaxPlayers], r.claim \in [Accounts -> 0 .. MaxPlayers],
         r.stack \in [Accounts -> Nat], r.total \in [Accounts -> 0 .. MaxBuy],
         r.bought \in [Accounts -> 0 .. MaxBuy], r.wallet \in [Accounts -> Nat],
         r.ready \in SUBSET Accounts, r.room \in SUBSET Accounts, r.busted \in SUBSET Accounts
  PROVE  r \in Tables
BY DEF Tables, Fields

\* Busted players leave their seats, between hands.
LEMMA MoveBustedSound ==
  ASSUME NEW t, Sound(t), NEW r, r = MoveBusted(t)
  PROVE  /\ Sound(r) /\ r.stage = t.stage /\ r.room = t.room /\ r.claim = t.claim
         /\ r.ready \subseteq t.ready
         /\ \A a \in Accounts : \/ SameFor(t, r, a)
                                \/ t.seat[a] # 0 /\ t.stack[a] = 0 /\ r.seat[a] = 0
         /\ t.stage # "ready" => r = t
<1>1. CASE t.stage # "ready"
  BY <1>1 DEF MoveBusted, SameFor
<1>2. CASE t.stage = "ready"
  <2> DEFINE out == {a \in Seated(t) : t.stack[a] = 0 /\ t.total[a] >= MaxBuy}
  <2>1. /\ t \in Tables /\ out \subseteq Accounts
        /\ t.seat \in [Accounts -> 0 .. MaxPlayers] /\ t.claim \in [Accounts -> 0 .. MaxPlayers]
        /\ t.stack \in [Accounts -> Nat] /\ t.total \in [Accounts -> 0 .. MaxBuy]
        /\ t.bought \in [Accounts -> 0 .. MaxBuy] /\ t.wallet \in [Accounts -> Nat]
        /\ t.ready \subseteq Accounts /\ t.room \subseteq Accounts /\ t.busted \subseteq Accounts
    BY DEF Sound, Tables, Seated
  <2>2. /\ \A a \in out : t.bought[a] = MaxBuy
        /\ \A a \in out : t.seat[a] # 0 /\ t.stack[a] = 0
    BY <2>1, SeatingAssumption DEF Sound, Seated
  <2> HIDE DEF out
  <2>3. r = [t EXCEPT !.seat  = [a \in Accounts |-> IF a \in out THEN 0 ELSE t.seat[a]],
                      !.total = [a \in Accounts |-> IF a \in out THEN 0 ELSE t.total[a]],
                      !.ready = t.ready \ out, !.busted = t.busted \union out]
    BY <1>2 DEF MoveBusted, out
  <2>4. /\ r.stage = t.stage /\ r.room = t.room /\ r.claim = t.claim /\ r.stack = t.stack
        /\ r.bought = t.bought /\ r.wallet = t.wallet
        /\ r.seat = [a \in Accounts |-> IF a \in out THEN 0 ELSE t.seat[a]]
        /\ r.total = [a \in Accounts |-> IF a \in out THEN 0 ELSE t.total[a]]
        /\ r.ready = t.ready \ out /\ r.busted = t.busted \union out
        /\ DOMAIN r = Fields /\ r = [x \in Fields |-> r[x]]
    BY <2>1, <2>3 DEF Tables, Fields
  <2>5. 0 \in 0 .. MaxPlayers /\ 0 \in 0 .. MaxBuy
    BY SeatingAssumption
  <2>6. /\ r.seat \in [Accounts -> 0 .. MaxPlayers] /\ r.total \in [Accounts -> 0 .. MaxBuy]
        /\ r.ready \in SUBSET Accounts /\ r.busted \in SUBSET Accounts
    BY <2>1, <2>4, <2>5
  <2>7. t.stage \in {"ready", "hand", "showdown"}
    BY <1>2
  <2>8. r \in Tables
    <3>1. /\ r.stage \in {"ready", "hand", "showdown"} /\ r.claim \in [Accounts -> 0 .. MaxPlayers]
          /\ r.stack \in [Accounts -> Nat] /\ r.bought \in [Accounts -> 0 .. MaxBuy]
          /\ r.wallet \in [Accounts -> Nat] /\ r.room \in SUBSET Accounts
      BY <2>1, <2>4, <2>7
    <3> QED BY <2>4, <2>6, <3>1, TableFromFields
  <2>9. \A a, b \in Accounts : r.seat[a] # 0 /\ r.seat[a] = r.seat[b] => a = b
    BY <2>4 DEF Sound
  <2>10. \A a \in Accounts : r.total[a] <= r.bought[a] /\ (r.seat[a] = 0 => r.total[a] = 0)
    BY <2>1, <2>4 DEF Sound
  <2>11. \A a \in r.busted : r.bought[a] = MaxBuy
    BY <2>2, <2>4 DEF Sound
  <2>12. r.ready \subseteq Seated(r)
    BY <2>4 DEF Sound, Seated
  <2>13. Sound(r)
    BY <2>8, <2>9, <2>10, <2>11, <2>12 DEF Sound
  <2>14. \A a \in Accounts : \/ SameFor(t, r, a)
                             \/ t.seat[a] # 0 /\ t.stack[a] = 0 /\ r.seat[a] = 0
    BY <2>2, <2>4 DEF SameFor
  <2>15. r.stage = t.stage /\ r.room = t.room /\ r.claim = t.claim /\ r.ready \subseteq t.ready
    BY <2>4
  <2> QED BY <1>2, <2>13, <2>14, <2>15
<1> QED BY <1>1, <1>2

LEMMA BroadcastSound ==
  ASSUME NEW t, Sound(t), NEW r \in Broadcast(t)
  PROVE  Updates(t, r)
<1>1. PICK s \in SeatClaimants(t) : r = MoveBusted(s)
  BY DEF Broadcast
<1>2. Updates(t, s)
  BY SeatClaimantsSound
<1>3. Sound(s)
  BY <1>2 DEF Updates
<1>4. /\ Sound(r) /\ r.stage = s.stage /\ r.room = s.room /\ r.claim = s.claim
      /\ r.ready \subseteq s.ready
      /\ \A a \in Accounts : \/ SameFor(s, r, a)
                             \/ s.seat[a] # 0 /\ s.stack[a] = 0 /\ r.seat[a] = 0
      /\ s.stage # "ready" => r = s
  BY <1>1, <1>3, MoveBustedSound
<1>5. \A a \in Accounts :
        \/ SameFor(t, r, a)
        \/ t.seat[a] # 0 /\ t.stack[a] = 0 /\ r.seat[a] = 0
        \/ t.seat[a] = 0 /\ t.claim[a] # 0 /\ r.seat[a] # 0 /\ r.stack[a] # 0
  BY <1>2, <1>4 DEF Updates, SameFor
<1>6. \A a \in Accounts : Placed(s, a) => Placed(r, a)
  BY <1>4 DEF Placed, SameFor
<1> QED BY <1>2, <1>4, <1>5, <1>6 DEF Updates

\* Players stand up.
LEMMA UnseatSound ==
  ASSUME NEW t, Sound(t), NEW out \in SUBSET Seated(t), NEW r, r = Unseat(t, out)
  PROVE  /\ Sound(r) /\ r.stage = t.stage /\ r.room = t.room /\ r.claim = t.claim
         /\ r.ready \subseteq t.ready
         /\ r.seat = [a \in Accounts |-> IF a \in out THEN 0 ELSE t.seat[a]]
         /\ out = {} => r = t
         /\ \A b \in Accounts \ out : SameFor(t, r, b)
         /\ \A b \in out : r.wallet[b] = t.wallet[b] + t.stack[b]
         /\ \A b \in Accounts : r.bought[b] <= t.bought[b]
<1> DEFINE without(f) == [a \in Accounts |-> IF a \in out THEN 0 ELSE f[a]]
<1>1. /\ t \in Tables /\ out \subseteq Accounts
      /\ t.stage \in {"ready", "hand", "showdown"}
      /\ t.seat \in [Accounts -> 0 .. MaxPlayers] /\ t.claim \in [Accounts -> 0 .. MaxPlayers]
      /\ t.stack \in [Accounts -> Nat] /\ t.total \in [Accounts -> 0 .. MaxBuy]
      /\ t.bought \in [Accounts -> 0 .. MaxBuy] /\ t.wallet \in [Accounts -> Nat]
      /\ t.ready \subseteq Accounts /\ t.room \subseteq Accounts /\ t.busted \subseteq Accounts
  BY DEF Sound, Tables, Seated
<1>2. CASE out = {}
  <2>1. r = t
    BY <1>2 DEF Unseat
  <2>2. t.seat = [a \in Accounts |-> IF a \in out THEN 0 ELSE t.seat[a]]
    BY <1>1, <1>2
  <2>3. \A b \in Accounts : r.bought[b] <= t.bought[b]
    BY <1>1, <2>1, SeatingAssumption
  <2> QED BY <1>2, <2>1, <2>2, <2>3 DEF SameFor
<1>3. CASE out # {}
  <2> DEFINE gone == [t EXCEPT !.seat = without(t.seat), !.stack = without(t.stack),
                               !.total = without(t.total),
                               !.wallet = [a \in Accounts |->
                                  IF a \in out THEN t.wallet[a] + t.stack[a] ELSE t.wallet[a]],
                               !.ready = {}]
  <2>1. /\ gone.stage = t.stage /\ gone.room = t.room /\ gone.claim = t.claim
        /\ gone.bought = t.bought /\ gone.busted = t.busted
        /\ gone.seat = without(t.seat) /\ gone.stack = without(t.stack)
        /\ gone.total = without(t.total) /\ gone.ready = {}
        /\ gone.wallet = [a \in Accounts |->
                           IF a \in out THEN t.wallet[a] + t.stack[a] ELSE t.wallet[a]]
        /\ DOMAIN gone = Fields /\ gone = [x \in Fields |-> gone[x]]
    BY <1>1 DEF Tables, Fields
  <2>2. r = IF Seated(gone) = {} THEN [gone EXCEPT !.bought = [a \in Accounts |-> 0], !.busted = {}]
            ELSE gone
    BY <1>3 DEF Unseat
  <2> HIDE DEF gone
  <2>3. /\ r.stage = t.stage /\ r.room = t.room /\ r.claim = t.claim
        /\ r.seat = gone.seat /\ r.stack = gone.stack /\ r.total = gone.total
        /\ r.wallet = gone.wallet /\ r.ready = {}
        /\ DOMAIN r = Fields /\ r = [x \in Fields |-> r[x]]
        /\ IF Seated(gone) = {} THEN r.bought = [a \in Accounts |-> 0] /\ r.busted = {}
                                ELSE r.bought = t.bought /\ r.busted = t.busted
    BY <2>1, <2>2 DEF Fields
  <2>4. /\ without(t.seat) \in [Accounts -> 0 .. MaxPlayers]
        /\ without(t.stack) \in [Accounts -> Nat]
        /\ without(t.total) \in [Accounts -> 0 .. MaxBuy]
        /\ gone.wallet \in [Accounts -> Nat]
        /\ [a \in Accounts |-> 0] \in [Accounts -> 0 .. MaxBuy]
    BY <1>1, <2>1, SeatingAssumption
  <2> HIDE DEF without
  <2>5. r \in Tables
    <3>1. r.bought \in [Accounts -> 0 .. MaxBuy] /\ r.busted \in SUBSET Accounts
      BY <1>1, <2>3, <2>4
    <3>2. /\ r.stage \in {"ready", "hand", "showdown"} /\ r.claim \in [Accounts -> 0 .. MaxPlayers]
          /\ r.seat \in [Accounts -> 0 .. MaxPlayers] /\ r.stack \in [Accounts -> Nat]
          /\ r.total \in [Accounts -> 0 .. MaxBuy] /\ r.wallet \in [Accounts -> Nat]
          /\ r.ready \in SUBSET Accounts /\ r.room \in SUBSET Accounts
      BY <1>1, <2>1, <2>3, <2>4
    <3> QED BY <2>3, <3>1, <3>2, TableFromFields
  <2>6. r.seat = [a \in Accounts |-> IF a \in out THEN 0 ELSE t.seat[a]]
    BY <2>1, <2>3 DEF without
  <2>7. r.total = [a \in Accounts |-> IF a \in out THEN 0 ELSE t.total[a]]
    BY <2>1, <2>3 DEF without
  <2>8. \A a, b \in Accounts : r.seat[a] # 0 /\ r.seat[a] = r.seat[b] => a = b
    BY <2>6 DEF Sound
  <2>9. ASSUME NEW a \in Accounts
        PROVE  r.total[a] <= r.bought[a] /\ (r.seat[a] = 0 => r.total[a] = 0)
    <3>1. t.total[a] <= t.bought[a] /\ (t.seat[a] = 0 => t.total[a] = 0)
      BY DEF Sound
    <3>2. r.seat[a] = 0 => r.total[a] = 0
      BY <2>6, <2>7, <3>1
    <3>3. CASE Seated(gone) = {}
      <4>1. r.seat[a] = 0 /\ r.bought[a] = 0
        BY <2>3, <3>3 DEF Seated
      <4> QED BY <3>2, <4>1
    <3>4. CASE Seated(gone) # {}
      BY <1>1, <2>3, <2>7, <3>1, <3>2, <3>4
    <3> QED BY <3>3, <3>4
  <2>10. \A a \in r.busted : r.bought[a] = MaxBuy
    BY <2>3 DEF Sound
  <2>11. r.ready \subseteq Seated(r) /\ r.ready \subseteq t.ready
    BY <2>3
  <2>12. Sound(r)
    BY <2>5, <2>8, <2>9, <2>10, <2>11 DEF Sound
  <2>13. r.wallet = [a \in Accounts |->
                      IF a \in out THEN t.wallet[a] + t.stack[a] ELSE t.wallet[a]]
    BY <2>1, <2>3
  <2>14. r.stack = [a \in Accounts |-> IF a \in out THEN 0 ELSE t.stack[a]]
    BY <2>1, <2>3 DEF without
  <2>15. /\ \A b \in Accounts \ out : SameFor(t, r, b)
         /\ \A b \in out : r.wallet[b] = t.wallet[b] + t.stack[b]
    BY <1>1, <2>6, <2>13, <2>14 DEF SameFor
  <2>16. \A b \in Accounts : r.bought[b] <= t.bought[b]
    BY <1>1, <2>3, SeatingAssumption
  <2> QED BY <1>3, <2>3, <2>6, <2>11, <2>12, <2>15, <2>16
<1> QED BY <1>2, <1>3

\* A hand starts, or not.
LEMMA AutoStartSound ==
  ASSUME NEW t, Sound(t), NEW r, r = AutoStart(t)
  PROVE  /\ Sound(r) /\ r.seat = t.seat /\ r.claim = t.claim /\ r.room = t.room
         /\ r.ready = t.ready /\ r.stack = t.stack /\ r.wallet = t.wallet
         /\ r.bought = t.bought
         /\ r.stage = t.stage \/ (t.stage = "ready" /\ Seated(t) \subseteq t.ready)
<1>1. CASE r = t
  BY <1>1
<1>2. CASE /\ r = [t EXCEPT !.stage = "hand"]
           /\ t.stage = "ready" /\ Seated(t) \subseteq t.ready
  <2>1. t \in Tables
    BY DEF Sound
  <2>2. r \in Tables
    BY <1>2, <2>1 DEF Tables
  <2>3. /\ r.seat = t.seat /\ r.claim = t.claim /\ r.room = t.room /\ r.ready = t.ready
        /\ r.stack = t.stack /\ r.wallet = t.wallet
        /\ r.total = t.total /\ r.bought = t.bought /\ r.busted = t.busted
    BY <1>2, <2>1 DEF Tables
  <2>4. r.ready \subseteq Seated(t)
    BY <2>3 DEF Sound
  <2>5. Sound(r)
    BY <2>2, <2>3, <2>4, SoundFrom
  <2> QED BY <1>2, <2>3, <2>5
<1> QED BY <1>1, <1>2 DEF AutoStart

LEMMA SettleSound ==
  ASSUME NEW t, Sound(t), NEW r, r = Settle(t)
  PROVE  /\ Sound(r) /\ r.seat = t.seat /\ r.claim = t.claim /\ r.room = t.room
         /\ r.ready \subseteq t.ready /\ r.stage = "ready"
         /\ r.stack = t.stack /\ r.wallet = t.wallet
<1>1. t \in Tables /\ t.ready \subseteq Seated(t)
  BY DEF Sound
<1>2. PICK R \in SUBSET t.ready : r = [t EXCEPT !.stage = "ready", !.ready = R]
  BY DEF Settle
<1>3. r \in Tables
  BY <1>1, <1>2 DEF Tables
<1>4. /\ r.seat = t.seat /\ r.claim = t.claim /\ r.room = t.room /\ r.ready = R
      /\ r.total = t.total /\ r.bought = t.bought /\ r.busted = t.busted /\ r.stage = "ready"
      /\ r.stack = t.stack /\ r.wallet = t.wallet
  BY <1>1, <1>2 DEF Tables
<1>5. Sound(r)
  BY <1>1, <1>3, <1>4, SoundFrom
<1> QED BY <1>4, <1>5


\* Readiness changes.
LEMMA ReadySound ==
  ASSUME NEW t, Sound(t), NEW R \in SUBSET Seated(t), NEW r, r = [t EXCEPT !.ready = R]
  PROVE  /\ Sound(r) /\ r.stage = t.stage /\ r.seat = t.seat /\ r.claim = t.claim
         /\ r.room = t.room /\ r.ready = R /\ r.stack = t.stack /\ r.wallet = t.wallet
         /\ r.bought = t.bought
<1>1. t \in Tables
  BY DEF Sound
<1>2. r \in Tables
  BY <1>1 DEF Tables, Seated
<1>3. /\ r.stage = t.stage /\ r.seat = t.seat /\ r.claim = t.claim /\ r.room = t.room
      /\ r.stack = t.stack /\ r.wallet = t.wallet
      /\ r.ready = R /\ r.total = t.total /\ r.bought = t.bought /\ r.busted = t.busted
  BY <1>1 DEF Tables
<1>4. Sound(r)
  BY <1>2, <1>3, SoundFrom
<1> QED BY <1>3, <1>4

\* Somebody comes, goes, or drops a claim.
Lodged(t, R, C) == [t EXCEPT !.room = R, !.claim = C]

LEMMA RoomSound ==
  ASSUME NEW t, Sound(t), NEW R \in SUBSET Accounts,
         NEW C \in [Accounts -> 0 .. MaxPlayers],
         NEW r, r = Lodged(t, R, C)
  PROVE  /\ Sound(r) /\ r.stage = t.stage /\ r.seat = t.seat /\ r.claim = C
         /\ r.ready = t.ready /\ r.room = R /\ r.stack = t.stack /\ r.wallet = t.wallet
<1>1. t \in Tables
  BY DEF Sound
<1>2. r \in Tables
  BY <1>1 DEF Tables, Lodged
<1>3. /\ r.stage = t.stage /\ r.seat = t.seat /\ r.claim = C /\ r.room = R
      /\ r.stack = t.stack /\ r.wallet = t.wallet
      /\ r.ready = t.ready /\ r.total = t.total /\ r.bought = t.bought /\ r.busted = t.busted
  BY <1>1 DEF Tables, Lodged
<1>4. r.ready \subseteq Seated(t)
  BY <1>3 DEF Sound
<1>5. Sound(r)
  BY <1>2, <1>3, <1>4, SoundFrom
<1> QED BY <1>3, <1>5

\* A hand has ended, and left the players the stacks S.
Ended(t, S) == [t EXCEPT !.stage = "showdown", !.stack = S]

LEMMA EndSound ==
  ASSUME NEW t, Sound(t), NEW S \in [Accounts -> Nat], NEW r, r = Ended(t, S)
  PROVE  /\ Sound(r) /\ r.stage = "showdown" /\ r.seat = t.seat /\ r.claim = t.claim
         /\ r.ready = t.ready /\ r.room = t.room /\ r.stack = S /\ r.wallet = t.wallet
<1>1. t \in Tables
  BY DEF Sound
<1>2. r \in Tables
  BY <1>1 DEF Tables, Ended
<1>3. /\ r.stage = "showdown" /\ r.seat = t.seat /\ r.claim = t.claim /\ r.room = t.room
      /\ r.stack = S /\ r.wallet = t.wallet
      /\ r.ready = t.ready /\ r.total = t.total /\ r.bought = t.bought /\ r.busted = t.busted
  BY <1>1 DEF Tables, Ended
<1>4. r.ready \subseteq Seated(t)
  BY <1>3 DEF Sound
<1>5. Sound(r)
  BY <1>2, <1>3, <1>4, SoundFrom
<1> QED BY <1>3, <1>5

\* A player moves to a free seat.
Reseated(t, a, s) == [t EXCEPT !.seat[a] = s]

LEMMA MoveSound ==
  ASSUME NEW t, Sound(t), NEW a \in Accounts, NEW s \in Free(t), t.seat[a] # 0,
         NEW r, r = Reseated(t, a, s)
  PROVE  /\ Sound(r) /\ r.stage = t.stage /\ r.seat = [t.seat EXCEPT ![a] = s]
         /\ r.claim = t.claim /\ r.ready = t.ready /\ r.room = t.room /\ s # 0
         /\ r.stack = t.stack /\ r.wallet = t.wallet /\ r.bought = t.bought
<1>1. t \in Tables /\ t.seat \in [Accounts -> 0 .. MaxPlayers]
  BY DEF Sound, Tables
<1>2. s \in 0 .. MaxPlayers /\ s # 0 /\ \A b \in Accounts : t.seat[b] # s
  BY SeatingAssumption DEF Free, Taken, Seats
<1>3. r \in Tables
  BY <1>1, <1>2 DEF Tables, Reseated
<1>4. /\ r.stage = t.stage /\ r.seat = [t.seat EXCEPT ![a] = s] /\ r.claim = t.claim
      /\ r.room = t.room /\ r.ready = t.ready /\ r.total = t.total /\ r.bought = t.bought
      /\ r.busted = t.busted /\ r.stack = t.stack /\ r.wallet = t.wallet
  BY <1>1 DEF Tables, Reseated
<1>5. \A b, c \in Accounts : r.seat[b] # 0 /\ r.seat[b] = r.seat[c] => b = c
  BY <1>1, <1>2, <1>4 DEF Sound
<1>6. \A b \in Accounts : r.total[b] <= r.bought[b] /\ (r.seat[b] = 0 => r.total[b] = 0)
  BY <1>1, <1>2, <1>4 DEF Sound
<1>7. (\A b \in r.busted : r.bought[b] = MaxBuy) /\ r.ready \subseteq Seated(r)
  BY <1>1, <1>2, <1>4 DEF Sound, Seated
<1>8. Sound(r)
  BY <1>3, <1>5, <1>6, <1>7 DEF Sound
<1> QED BY <1>2, <1>4, <1>8

\* A player buys in again.
Rebought(t, a) == [t EXCEPT !.stack[a] = @ + 1, !.total[a] = @ + 1,
                            !.bought[a] = @ + 1, !.wallet[a] = @ - 1]

LEMMA RebuySound ==
  ASSUME NEW t, Sound(t), NEW a \in Accounts, t.seat[a] # 0, t.total[a] < MaxBuy,
         CanBuyIn(t, a), t.wallet[a] > 0,
         NEW r, r = Rebought(t, a)
  PROVE  /\ Sound(r) /\ r.stage = t.stage /\ r.seat = t.seat
         /\ r.claim = t.claim /\ r.ready = t.ready /\ r.room = t.room
         /\ \A b \in Accounts \ {a} : SameFor(t, r, b) /\ r.bought[b] = t.bought[b]
<1>1. /\ t \in Tables /\ t.seat \in [Accounts -> 0 .. MaxPlayers]
      /\ t.claim \in [Accounts -> 0 .. MaxPlayers]
      /\ t.stack \in [Accounts -> Nat] /\ t.total \in [Accounts -> 0 .. MaxBuy]
      /\ t.bought \in [Accounts -> 0 .. MaxBuy] /\ t.wallet \in [Accounts -> Nat]
      /\ t.ready \subseteq Accounts /\ t.room \subseteq Accounts /\ t.busted \subseteq Accounts
      /\ t.stage \in {"ready", "hand", "showdown"}
  BY DEF Sound, Tables
<1>2. /\ r.stage = t.stage /\ r.seat = t.seat /\ r.claim = t.claim
      /\ r.room = t.room /\ r.ready = t.ready /\ r.busted = t.busted
      /\ r.stack = [t.stack EXCEPT ![a] = t.stack[a] + 1]
      /\ r.total = [t.total EXCEPT ![a] = t.total[a] + 1]
      /\ r.bought = [t.bought EXCEPT ![a] = t.bought[a] + 1]
      /\ r.wallet = [t.wallet EXCEPT ![a] = t.wallet[a] - 1]
      /\ DOMAIN r = Fields /\ r = [x \in Fields |-> r[x]]
  BY <1>1 DEF Tables, Fields, Rebought
<1>3. /\ r.stack \in [Accounts -> Nat] /\ r.total \in [Accounts -> 0 .. MaxBuy]
      /\ r.bought \in [Accounts -> 0 .. MaxBuy] /\ r.wallet \in [Accounts -> Nat]
  BY <1>1, <1>2, SeatingAssumption DEF CanBuyIn
<1>4. r \in Tables
  BY <1>1, <1>2, <1>3, TableFromFields
<1>5. \A b, c \in Accounts : r.seat[b] # 0 /\ r.seat[b] = r.seat[c] => b = c
  BY <1>2 DEF Sound
<1>6. ASSUME NEW b \in Accounts
      PROVE  r.total[b] <= r.bought[b] /\ (r.seat[b] = 0 => r.total[b] = 0)
  <2>1. t.total[b] <= t.bought[b] /\ (t.seat[b] = 0 => t.total[b] = 0)
    BY DEF Sound
  <2>2. t.total[b] \in Nat /\ t.bought[b] \in Nat
    BY <1>1, SeatingAssumption
  <2>3. CASE b = a
    <3>1. r.total[a] = t.total[a] + 1 /\ r.bought[a] = t.bought[a] + 1 /\ r.seat[a] # 0
      BY <1>1, <1>2
    <3> QED BY <2>1, <2>2, <2>3, <3>1
  <2>4. CASE b # a
    BY <1>1, <1>2, <2>1, <2>4
  <2> QED BY <2>3, <2>4
<1>7. \A b \in r.busted : r.bought[b] = MaxBuy
  <2>1. t.bought[a] # MaxBuy
    BY <1>1, SeatingAssumption DEF CanBuyIn
  <2> QED BY <1>1, <1>2, <2>1 DEF Sound
<1>8. r.ready \subseteq Seated(r)
  BY <1>2 DEF Sound, Seated
<1>9. Sound(r)
  BY <1>4, <1>5, <1>6, <1>7, <1>8 DEF Sound
<1>10. \A b \in Accounts \ {a} : SameFor(t, r, b) /\ r.bought[b] = t.bought[b]
  BY <1>1, <1>2 DEF SameFor
<1> QED BY <1>2, <1>9, <1>10


---------------------------------------------------------------------------------
(* Steps.                                                                  *)

\* What a player wishes once what was clicked is served.
Watches(a) == IF click[a][1] = "spectate" THEN a \notin flagged ELSE a \in flagged

\* The switch tells the wish after a step that changes no wish of those who stay
\* seated, and after which nobody just seated is about to click.
LEMMA SwitchKept ==
  ASSUME TypeOK, SwitchTellsWish, Shown(ticked), flagged' \subseteq Accounts,
         \A b \in Accounts : table.seat[b] # 0 /\ table'.seat[b] # 0 =>
                               (Watches(b)' <=> Watches(b)),
         \A b \in Accounts : table.seat[b] = 0 =>
                               /\ b \in flagged' => b \in flagged
                               /\ table'.seat[b] # 0 => click'[b][1] # "spectate"
  PROVE  SwitchTellsWish' /\ ticked' \subseteq Accounts /\ astray' \subseteq Accounts
<1>1. ticked' = {a \in ticked : table'.seat[a] # 0}
      /\ astray' = astray \union {a \in flagged' : Moved(a)}
  BY DEF Shown
<1>2. ticked' \subseteq Accounts /\ astray' \subseteq Accounts
  BY <1>1 DEF TypeOK
<1>3. ASSUME NEW a \in Accounts \ astray', table'.seat[a] = 0
      PROVE  a \notin flagged' /\ a \notin ticked'
  <2>1. a \notin astray /\ a \in Accounts
    BY <1>1, <1>3
  <2>2. CASE table.seat[a] = 0
    BY <1>1, <1>3, <2>1, <2>2 DEF SwitchTellsWish
  <2>3. CASE table.seat[a] # 0
    BY <1>1, <1>3, <2>3 DEF Moved
  <2> QED BY <2>2, <2>3
<1>4. ASSUME NEW a \in Accounts \ astray', table'.seat[a] # 0
      PROVE  a \in ticked' <=> Watches(a)'
  <2>1. a \notin astray /\ a \in Accounts
    BY <1>1, <1>4
  <2>2. CASE table.seat[a] = 0
    BY <1>1, <1>4, <2>1, <2>2 DEF SwitchTellsWish, Watches
  <2>3. CASE table.seat[a] # 0
    <3>1. a \in ticked <=> Watches(a)
      BY <2>1, <2>3 DEF SwitchTellsWish, Watches
    <3> QED BY <1>1, <1>4, <2>1, <2>3, <3>1
  <2> QED BY <2>2, <2>3
<1>5. SwitchTellsWish'
  BY <1>3, <1>4 DEF SwitchTellsWish, Watches
<1> QED BY <1>2, <1>5

\* A handler makes s of the table, and broadcasts.
LEMMA UpdateInv ==
  ASSUME SeatInv, NEW s, Updates(s, table'), Shown(ticked),
         click' \in [Accounts -> Clicks], flagged' \subseteq Accounts,
         closing' \in {"done", "spectators", "claims", "start"}, moves' \in 0 .. Moves,
         s.stage # "ready" => Seated(s) \subseteq s.ready,
         s.ready \subseteq Seated(s),
         \A b \in Accounts : s.claim[b] # 0 /\ s.stage # "ready" =>
                               s.seat[b] = 0 /\ click'[b][1] # "spectate",
         \A b \in Accounts : s.claim[b] # 0 /\ s.seat[b] = 0 =>
                               table.seat[b] = 0 /\ click'[b][1] # "spectate",
         \A b \in Accounts : click'[b][1] = "claim" /\ s.seat[b] # 0 =>
                               s.stage = "ready" /\ b \notin s.ready,
         \A b \in Accounts : table.seat[b] = 0 /\ s.seat[b] # 0 => click'[b][1] # "spectate",
         \A b \in Accounts : table.seat[b] # 0 /\ s.seat[b] # 0 => (Watches(b)' <=> Watches(b)),
         \A b \in Accounts : table.seat[b] = 0 /\ b \in flagged' => b \in flagged,
         \A b \in Accounts : s.claim[b] # 0 \/ click'[b][1] = "claim" => Pays(s, b)
  PROVE  SeatInv'
<1>1. /\ Sound(table') /\ table'.stage = s.stage /\ table'.ready \subseteq s.ready
      /\ \A b \in Accounts : \/ table'.seat[b] = s.seat[b] \/ table'.seat[b] = 0
                             \/ s.seat[b] = 0 /\ s.claim[b] # 0
      /\ \A b \in Accounts :
           \/ SameFor(s, table', b)
           \/ s.seat[b] # 0 /\ s.stack[b] = 0 /\ table'.seat[b] = 0
           \/ s.seat[b] = 0 /\ s.claim[b] # 0 /\ table'.seat[b] # 0 /\ table'.stack[b] # 0
      /\ table'.stack \in [Accounts -> Nat]
      /\ s.stage = "ready" => \A b \in Accounts : table'.claim[b] = 0
      /\ s.stage # "ready" => table' = s
  BY DEF Updates, SameFor, Sound, Tables
<1>2. SwitchTellsWish' /\ ticked' \subseteq Accounts /\ astray' \subseteq Accounts
  <2>1. TypeOK /\ SwitchTellsWish
    BY DEF SeatInv
  <2>2. \A b \in Accounts : table.seat[b] # 0 /\ table'.seat[b] # 0 =>
                              (Watches(b)' <=> Watches(b))
    BY <1>1
  <2>3. \A b \in Accounts : table.seat[b] = 0 =>
                              /\ b \in flagged' => b \in flagged
                              /\ table'.seat[b] # 0 => click'[b][1] # "spectate"
    BY <1>1
  <2> QED BY <2>1, <2>2, <2>3, SwitchKept
<1>3. TypeOK'
  BY <1>1, <1>2 DEF TypeOK, Sound
<1>4. ClaimantsStand'
  BY <1>1 DEF ClaimantsStand
<1>5. NoClaimLeft'
  BY <1>1 DEF NoClaimLeft
<1>6. PlayersReady'
  BY <1>1 DEF PlayersReady, Seated
<1>7. LateWaits'
  <2> SUFFICES ASSUME NEW b \in Accounts, click'[b][1] = "claim", table'.seat[b] # 0
               PROVE  table'.stage = "ready" /\ b \notin table'.ready
    BY DEF LateWaits
  <2>1. CASE s.seat[b] # 0
    BY <1>1, <2>1
  <2>2. CASE s.seat[b] = 0
    <3>1. b \notin s.ready
      BY <2>2 DEF Seated
    <3> QED BY <1>1, <2>2, <3>1
  <2> QED BY <2>1, <2>2
<1>8. ClaimantsCanPay'
  <2> SUFFICES ASSUME NEW b \in Accounts, table'.claim[b] # 0 \/ click'[b][1] = "claim"
               PROVE  Pays(table', b)
    BY DEF ClaimantsCanPay, Pays
  <2>1. Pays(s, b)
    BY <1>1
  <2> QED BY <1>1, <2>1 DEF Pays, SameFor
<1> QED BY <1>1, <1>2, <1>3, <1>4, <1>5, <1>6, <1>7, <1>8 DEF SeatInv


LEMMA ClickParts ==
  /\ NoClick \in Clicks /\ NoClick[1] = "none"
  /\ \A c \in Clicks : c[1] \in {"seat", "claim", "move"} => c[2] \in Seats
  /\ \A s \in Seats : <<"claim", s>> \in Clicks
BY DEF NoClick, Clicks

\* A click is served, without a change or with a claim found possible.
LEMMA QuietInv ==
  ASSUME SeatInv, NEW a \in Accounts, NEW c \in Clicks, Refused, Rest,
         click' = [click EXCEPT ![a] = c], c[1] # "spectate",
         click[a][1] = "spectate" \/ c[1] = "claim" => table.seat[a] = 0,
         c[1] = "claim" => table.wallet[a] > 0
  PROVE  SeatInv'
<1>1. TypeOK' /\ Sound(table')
  BY DEF SeatInv, TypeOK, Refused, Rest
<1>2. click \in [Accounts -> Clicks]
  BY DEF SeatInv, TypeOK
<1>3. ClaimantsStand'
  BY <1>2 DEF SeatInv, ClaimantsStand, Refused
<1>4. NoClaimLeft' /\ PlayersReady'
  BY DEF SeatInv, NoClaimLeft, PlayersReady, Refused, Rest
<1>5. LateWaits'
  BY <1>2 DEF SeatInv, LateWaits, Refused
<1>6. SwitchTellsWish'
  BY <1>2 DEF SeatInv, SwitchTellsWish, Refused
<1>7. ClaimantsCanPay'
  BY <1>2 DEF SeatInv, ClaimantsCanPay, Refused, Pays
<1> QED BY <1>1, <1>3, <1>4, <1>5, <1>6, <1>7 DEF SeatInv

\* A click is served that is not about watching; it changes the table into s, as
\* far as it concerns who clicked, before the broadcast.
LEMMA ServedInv ==
  ASSUME SeatInv, NEW a \in Accounts, Served(a), click[a][1] # "spectate", Rest,
         UNCHANGED flagged, Shown(ticked), NEW s, Sound(s), table' \in Broadcast(s),
         \A b \in Accounts \ {a} : SameFor(table, s, b) /\ s.claim[b] = table.claim[b],
         s.claim[a] # 0 => Pays(s, a),
         s.claim[a] # 0 /\ s.stage # "ready" => s.seat[a] = 0,
         s.claim[a] # 0 /\ s.seat[a] = 0 => table.seat[a] = 0,
         s.stage # "ready" => Seated(s) \subseteq s.ready,
         \A b \in Accounts \ {a} : click[b][1] = "claim" /\ table.seat[b] # 0 =>
                                     s.stage = "ready" /\ b \notin s.ready
  PROVE  SeatInv'
<1>1. Updates(s, table')
  BY BroadcastSound
<1>2. /\ click \in [Accounts -> Clicks] /\ flagged \subseteq Accounts
      /\ closing \in {"done", "spectators", "claims", "start"} /\ moves \in 0 .. Moves
  BY DEF SeatInv, TypeOK
<1>3. /\ click'[a][1] = "none" /\ \A b \in Accounts \ {a} : click'[b] = click[b]
      /\ click' \in [Accounts -> Clicks]
  BY <1>2, ClickParts DEF Served
<1>4. flagged' = flagged /\ closing' = closing /\ moves' = moves
  BY DEF Rest
<1>5. \A b \in Accounts : table.claim[b] # 0 => table.seat[b] = 0 /\ click[b][1] # "spectate"
  BY DEF SeatInv, ClaimantsStand
<1>0. \A b \in Accounts \ {a} : s.seat[b] = table.seat[b]
  BY DEF SameFor
<1>6. \A b \in Accounts : s.claim[b] # 0 /\ s.stage # "ready" =>
                            s.seat[b] = 0 /\ click'[b][1] # "spectate"
  BY <1>0, <1>3, <1>5
<1>7. \A b \in Accounts : s.claim[b] # 0 /\ s.seat[b] = 0 =>
                            table.seat[b] = 0 /\ click'[b][1] # "spectate"
  BY <1>0, <1>3, <1>5
<1>8. \A b \in Accounts : click'[b][1] = "claim" /\ s.seat[b] # 0 =>
                            s.stage = "ready" /\ b \notin s.ready
  BY <1>0, <1>3
<1>9. \A b \in Accounts : table.seat[b] = 0 /\ s.seat[b] # 0 => click'[b][1] # "spectate"
  BY <1>0, <1>3
<1>10. \A b \in Accounts : Watches(b)' <=> Watches(b)
  BY <1>3, <1>4 DEF Watches
<1>11. s.ready \subseteq Seated(s)
  BY DEF Sound
<1>12. \A b \in Accounts : s.claim[b] # 0 \/ click'[b][1] = "claim" => Pays(s, b)
  BY <1>3 DEF SeatInv, ClaimantsCanPay, Pays, SameFor
<1> QED BY <1>1, <1>2, <1>3, <1>4, <1>6, <1>7, <1>8, <1>9, <1>10, <1>11, <1>0, <1>12, UpdateInv

LEMMA TakeSeatInv == ASSUME SeatInv, NEW a \in Accounts, TakeSeat(a) PROVE SeatInv'
<1> DEFINE s == click[a][2]
<1>0. PICK lucky \in BOOLEAN : TakeSeat(a)!(lucky)
  BY DEF TakeSeat
<1> DEFINE sits == table.stage = "ready" /\ CanSit(table, a, s, lucky)
           cancels == table.stage # "ready" /\ Cancels(table, a, s, lucky)
           claims == table.stage # "ready" /\ CanClaim(table, a, s)
<1>1. /\ Sound(table) /\ click[a] \in Clicks /\ click[a][1] = "seat" /\ Rest
      /\ table.claim \in [Accounts -> 0 .. MaxPlayers] /\ 0 \in 0 .. MaxPlayers
  BY <1>0, SeatingAssumption DEF SeatInv, TypeOK, Tables
<1>2. s \in Seats
  BY <1>1, ClickParts
<1>3. \A b \in Accounts : click[b][1] = "claim" /\ table.seat[b] # 0 =>
                            table.stage = "ready" /\ b \notin table.ready
  BY DEF SeatInv, LateWaits
<1>4. click[a][1] # "spectate"
  BY <1>1
<1>5. CASE sits
  <2> DEFINE m == Sit(table, a, s)
  <2>1. Served(a) /\ table' \in Broadcast(m) /\ UNCHANGED flagged /\ Shown(ticked)
    BY <1>0, <1>5
  <2>2. /\ Sound(m) /\ m.stage = table.stage /\ m.claim = table.claim
        /\ m.ready = table.ready /\ table.seat[a] = 0 /\ m.seat[a] = s /\ m.stack[a] = 1 /\ s # 0
        /\ \A b \in Accounts \ {a} : SameFor(table, m, b)
    BY <1>1, <1>5, SitSound
  <2>3. m.stage = "ready" /\ Pays(m, a)
    <3> HIDE DEF m, s
    <3> QED BY <1>5, <2>2 DEF Pays
  <2> HIDE DEF m, s
  <2>4. \A b \in Accounts \ {a} : click[b][1] = "claim" /\ table.seat[b] # 0 =>
                                    m.stage = "ready" /\ b \notin m.ready
    BY <1>3, <2>2
  <2> QED BY <1>1, <1>4, <2>1, <2>2, <2>3, <2>4, ServedInv
<1>6. CASE ~sits /\ cancels
  <2> DEFINE m == WithClaim(table, a, 0)
  <2>1. Served(a) /\ table' \in Broadcast(m) /\ UNCHANGED flagged /\ Shown(ticked)
    BY <1>0, <1>6 DEF WithClaim
  <2>2. /\ Sound(m) /\ m.stage = table.stage /\ m.seat = table.seat
        /\ m.stack = table.stack /\ m.wallet = table.wallet
        /\ m.ready = table.ready /\ m.claim = [table.claim EXCEPT ![a] = 0]
    BY <1>1, ClaimSound
  <2> HIDE DEF m, s
  <2>3. m.claim[a] = 0 /\ \A b \in Accounts \ {a} : m.claim[b] = table.claim[b] /\ SameFor(table, m, b)
    BY <1>1, <2>2 DEF SameFor
  <2>4. \A b \in Accounts \ {a} : click[b][1] = "claim" /\ table.seat[b] # 0 =>
                                    m.stage = "ready" /\ b \notin m.ready
    BY <1>3, <2>2
  <2>5. m.stage # "ready" => Seated(m) \subseteq m.ready
    BY <2>2 DEF SeatInv, PlayersReady, Seated
  <2> QED BY <1>1, <1>4, <2>1, <2>2, <2>3, <2>4, <2>5, ServedInv
<1>7. CASE ~sits /\ ~cancels /\ claims
  <2>1. click' = [click EXCEPT ![a] = <<"claim", s>>] /\ Refused
    BY <1>0, <1>7
  <2>2. <<"claim", s>> \in Clicks /\ <<"claim", s>>[1] # "spectate"
    BY <1>2, ClickParts
  <2>3. table.seat[a] = 0 /\ table.wallet[a] > 0
    BY <1>7 DEF CanClaim
  <2> QED BY <1>1, <2>1, <2>2, <2>3, QuietInv
<1>8. CASE ~sits /\ ~cancels /\ ~claims
  <2>1. click' = [click EXCEPT ![a] = NoClick] /\ Refused
    BY <1>0, <1>8 DEF Served
  <2> QED BY <1>1, <2>1, QuietInv, ClickParts
<1> QED BY <1>5, <1>6, <1>7, <1>8

LEMMA EnterClaimInv == ASSUME SeatInv, NEW a \in Accounts, EnterClaim(a) PROVE SeatInv'
<1> DEFINE s == click[a][2]
           m == WithClaim(table, a, s)
<1>1. /\ Sound(table) /\ click[a] \in Clicks /\ click[a][1] = "claim" /\ Rest
      /\ table.claim \in [Accounts -> 0 .. MaxPlayers]
  BY DEF SeatInv, TypeOK, EnterClaim, Tables
<1>2. s \in 0 .. MaxPlayers
  BY <1>1, ClickParts, SeatingAssumption DEF Seats
<1>3. \A b \in Accounts : click[b][1] = "claim" /\ table.seat[b] # 0 =>
                            table.stage = "ready" /\ b \notin table.ready
  BY DEF SeatInv, LateWaits
<1>4. Served(a) /\ table' \in Broadcast(m) /\ UNCHANGED flagged /\ Shown(ticked)
  BY DEF EnterClaim, WithClaim
<1>5. /\ Sound(m) /\ m.stage = table.stage /\ m.seat = table.seat
      /\ m.stack = table.stack /\ m.wallet = table.wallet
      /\ m.ready = table.ready /\ m.claim = [table.claim EXCEPT ![a] = s]
  BY <1>1, <1>2, ClaimSound
<1> HIDE DEF m, s
<1>6. /\ \A b \in Accounts \ {a} : m.claim[b] = table.claim[b] /\ SameFor(table, m, b)
      /\ Pays(m, a)
  BY <1>1, <1>5 DEF SameFor, Pays, SeatInv, ClaimantsCanPay
<1>7. m.stage # "ready" => m.seat[a] = 0
  BY <1>1, <1>3, <1>5
<1>8. \A b \in Accounts \ {a} : click[b][1] = "claim" /\ table.seat[b] # 0 =>
                                  m.stage = "ready" /\ b \notin m.ready
  BY <1>3, <1>5
<1>9. m.stage # "ready" => Seated(m) \subseteq m.ready
  BY <1>5 DEF SeatInv, PlayersReady, Seated
<1>10. click[a][1] # "spectate"
  BY <1>1
<1> QED BY <1>1, <1>4, <1>5, <1>6, <1>7, <1>8, <1>9, <1>10, ServedInv


\* A handler of who is seated between hands, which may start the next one.
LEMMA StartedInv ==
  ASSUME SeatInv, NEW a \in Accounts, Served(a), click[a][1] # "spectate", Rest,
         UNCHANGED flagged, Shown(ticked), NEW m, Sound(m), table' \in Broadcast(AutoStart(m)),
         table.stage = "ready", m.stage = "ready", m.claim = table.claim,
         m.seat = table.seat, table.seat[a] # 0,
         \A b \in Accounts \ {a} : SameFor(table, m, b),
         \A b \in Accounts \ {a} : b \in m.ready => b \in table.ready
  PROVE  SeatInv'
<1> DEFINE s == AutoStart(m)
<1>1. /\ Sound(s) /\ s.seat = m.seat /\ s.claim = m.claim /\ s.ready = m.ready
      /\ s.stack = m.stack /\ s.wallet = m.wallet
      /\ s.stage = "ready" \/ Seated(m) \subseteq m.ready
  BY AutoStartSound
<1>2. table' \in Broadcast(s)
  OBVIOUS
<1> HIDE DEF s
<1>3. \A b \in Accounts \ {a} : click[b][1] = "claim" /\ table.seat[b] # 0 =>
                                  s.stage = "ready" /\ b \notin s.ready
  BY <1>1 DEF SeatInv, LateWaits, Seated
<1>4. s.stage # "ready" => Seated(s) \subseteq s.ready
  BY <1>1 DEF Seated
<1>5. s.claim[a] = 0
  BY <1>1 DEF SeatInv, ClaimantsStand
<1>6. \A b \in Accounts \ {a} : SameFor(table, s, b)
  BY <1>1 DEF SameFor
<1> QED BY <1>1, <1>2, <1>3, <1>4, <1>5, <1>6, ServedInv

LEMMA ToggleReadyInv == ASSUME SeatInv, NEW a \in Accounts, ToggleReady(a) PROVE SeatInv'
<1>1. Sound(table) /\ click[a][1] = "ready" /\ Rest /\ Served(a)
  BY DEF SeatInv, ToggleReady
<1>2. CASE table.stage = "ready" /\ table.seat[a] # 0 /\ (a \in table.ready \/ table.stack[a] > 0)
  <2> DEFINE R == IF a \in table.ready THEN table.ready \ {a} ELSE table.ready \union {a}
             m == [table EXCEPT !.ready = R]
  <2>1. table' \in Broadcast(AutoStart(m)) /\ UNCHANGED flagged /\ Shown(ticked)
    BY <1>2 DEF ToggleReady
  <2>2. R \in SUBSET Seated(table)
    BY <1>1, <1>2 DEF Sound, Seated
  <2>3. \A b \in Accounts \ {a} : b \in R => b \in table.ready
    OBVIOUS
  <2> HIDE DEF R
  <2>4. /\ Sound(m) /\ m.stage = table.stage /\ m.seat = table.seat
        /\ m.claim = table.claim /\ m.ready = R
        /\ m.stack = table.stack /\ m.wallet = table.wallet
    BY <1>1, <2>2, ReadySound
  <2> HIDE DEF m
  <2>5. \A b \in Accounts \ {a} : SameFor(table, m, b)
    BY <2>4 DEF SameFor
  <2> QED BY <1>1, <1>2, <2>1, <2>3, <2>4, <2>5, StartedInv
<1>3. CASE ~(table.stage = "ready" /\ table.seat[a] # 0 /\ (a \in table.ready \/ table.stack[a] > 0))
  <2>1. click' = [click EXCEPT ![a] = NoClick] /\ Refused
    BY <1>3 DEF ToggleReady, Served
  <2> QED BY <1>1, <2>1, QuietInv, ClickParts
<1> QED BY <1>2, <1>3

LEMMA MoveSeatInv == ASSUME SeatInv, NEW a \in Accounts, MoveSeat(a) PROVE SeatInv'
<1> DEFINE s == click[a][2]
           m == Reseated(table, a, s)
<1>1. Sound(table) /\ click[a][1] = "move" /\ Rest /\ Served(a)
  BY DEF SeatInv, MoveSeat
<1>2. CASE table.stage = "ready" /\ table.seat[a] # 0 /\ a \notin table.ready /\ s \in Free(table)
  <2>1. table' \in Broadcast(m) /\ UNCHANGED flagged /\ Shown(ticked)
    BY <1>2 DEF MoveSeat, Reseated
  <2>2. /\ Sound(m) /\ m.stage = table.stage /\ m.seat = [table.seat EXCEPT ![a] = s]
        /\ m.claim = table.claim /\ m.ready = table.ready /\ s # 0
        /\ m.stack = table.stack /\ m.wallet = table.wallet
    BY <1>1, <1>2, MoveSound
  <2>3. table.seat \in [Accounts -> 0 .. MaxPlayers]
    BY <1>1 DEF Sound, Tables
  <2> HIDE DEF m, s
  <2>4. m.seat[a] # 0 /\ \A b \in Accounts \ {a} : SameFor(table, m, b)
    BY <2>2, <2>3 DEF SameFor
  <2>7. m.claim[a] = 0
    BY <1>2, <2>2 DEF SeatInv, ClaimantsStand
  <2>5. \A b \in Accounts \ {a} : click[b][1] = "claim" /\ table.seat[b] # 0 =>
                                    m.stage = "ready" /\ b \notin m.ready
    BY <2>2 DEF SeatInv, LateWaits
  <2>6. click[a][1] # "spectate"
    BY <1>1
  <2> QED BY <1>1, <1>2, <2>1, <2>2, <2>4, <2>5, <2>6, <2>7, ServedInv
<1>3. CASE ~(table.stage = "ready" /\ table.seat[a] # 0 /\ a \notin table.ready /\ s \in Free(table))
  <2>1. click' = [click EXCEPT ![a] = NoClick] /\ Refused
    BY <1>3 DEF MoveSeat, Served
  <2> QED BY <1>1, <2>1, QuietInv, ClickParts
<1> QED BY <1>2, <1>3

LEMMA RebuyInv == ASSUME SeatInv, NEW a \in Accounts, Rebuy(a) PROVE SeatInv'
<1> DEFINE Granted == /\ table.stage = "ready" /\ table.seat[a] # 0
                      /\ table.total[a] < MaxBuy /\ CanBuyIn(table, a) /\ table.wallet[a] > 0
<1>1. Sound(table) /\ click[a][1] = "rebuy" /\ Rest /\ Served(a)
  BY DEF SeatInv, Rebuy
<1>2. CASE Granted
  <2> DEFINE m == Rebought(table, a)
  <2>1. table' \in Broadcast(AutoStart(m)) /\ UNCHANGED flagged /\ Shown(ticked)
    BY <1>2 DEF Rebuy, Rebought
  <2>2. /\ Sound(m) /\ m.stage = table.stage /\ m.seat = table.seat
        /\ m.claim = table.claim /\ m.ready = table.ready
        /\ \A b \in Accounts \ {a} : SameFor(table, m, b)
    BY <1>1, <1>2, RebuySound
  <2> HIDE DEF m
  <2> QED BY <1>1, <1>2, <2>1, <2>2, StartedInv
<1>3. CASE ~Granted
  <2>1. click' = [click EXCEPT ![a] = NoClick] /\ Refused
    BY <1>3 DEF Rebuy, Served
  <2> QED BY <1>1, <2>1, QuietInv, ClickParts
<1> QED BY <1>2, <1>3

LEMMA ToggleSpectateInv == ASSUME SeatInv, NEW a \in Accounts, ToggleSpectate(a) PROVE SeatInv'
<1>1. /\ Sound(table) /\ click[a][1] = "spectate" /\ Rest /\ Served(a)
      /\ click \in [Accounts -> Clicks] /\ flagged \subseteq Accounts
      /\ closing \in {"done", "spectators", "claims", "start"} /\ moves \in 0 .. Moves
  BY DEF SeatInv, TypeOK, ToggleSpectate
<1>2. /\ click'[a][1] = "none" /\ \A b \in Accounts \ {a} : click'[b] = click[b]
      /\ click' \in [Accounts -> Clicks] /\ closing' = closing /\ moves' = moves
  BY <1>1, ClickParts DEF Served, Rest
<1>3. \A b \in Accounts : table.claim[b] # 0 => table.seat[b] = 0 /\ click[b][1] # "spectate"
  BY DEF SeatInv, ClaimantsStand
<1>4. \A b \in Accounts : click[b][1] = "claim" /\ table.seat[b] # 0 =>
                            table.stage = "ready" /\ b \notin table.ready
  BY DEF SeatInv, LateWaits
<1>5. CASE table.seat[a] = 0
  <2>1. click' = [click EXCEPT ![a] = NoClick] /\ Refused
    BY <1>5 DEF ToggleSpectate, Served
  <2> QED BY <1>1, <1>5, <2>1, QuietInv, ClickParts
<1>6. CASE table.seat[a] # 0 /\ a \notin flagged /\ table.stage = "ready"
  <2> DEFINE s == Unseat(table, {a})
  <2>1. table' \in Broadcast(s) /\ UNCHANGED flagged /\ Shown(ticked)
    BY <1>6 DEF ToggleSpectate
  <2>2. {a} \in SUBSET Seated(table)
    BY <1>6 DEF Seated
  <2>3. /\ Sound(s) /\ s.stage = table.stage /\ s.claim = table.claim
        /\ s.ready \subseteq table.ready
        /\ s.seat = [b \in Accounts |-> IF b \in {a} THEN 0 ELSE table.seat[b]]
        /\ \A b \in Accounts \ {a} : SameFor(table, s, b)
    BY <1>1, <2>2, UnseatSound
  <2> HIDE DEF s
  <2>4. Updates(s, table')
    BY <2>1, <2>3, BroadcastSound
  <2>5. s.seat[a] = 0 /\ s.claim[a] = 0 /\ \A b \in Accounts \ {a} : s.seat[b] = table.seat[b]
    BY <1>3, <1>6, <2>3
  <2>6. /\ s.stage = "ready" /\ s.ready \subseteq Seated(s)
        /\ flagged' = flagged
    BY <1>6, <2>1, <2>3 DEF Sound
  <2>7. \A b \in Accounts : s.claim[b] # 0 /\ s.seat[b] = 0 =>
                              table.seat[b] = 0 /\ click'[b][1] # "spectate"
    BY <1>2, <1>3, <2>3
  <2>8. \A b \in Accounts : click'[b][1] = "claim" /\ s.seat[b] # 0 =>
                              s.stage = "ready" /\ b \notin s.ready
    BY <1>2, <1>4, <2>3, <2>5, <2>6
  <2>9. \A b \in Accounts : table.seat[b] = 0 /\ s.seat[b] # 0 => click'[b][1] # "spectate"
    BY <1>2, <2>5
  <2>10. \A b \in Accounts : table.seat[b] # 0 /\ s.seat[b] # 0 => (Watches(b)' <=> Watches(b))
    BY <1>2, <2>5, <2>6 DEF Watches
  <2>11. \A b \in Accounts : s.claim[b] # 0 \/ click'[b][1] = "claim" => Pays(s, b)
    BY <1>2, <2>3, <2>5 DEF SeatInv, ClaimantsCanPay, Pays, SameFor
  <2> QED BY <1>1, <1>2, <2>1, <2>4, <2>6, <2>7, <2>8, <2>9, <2>10, <2>11, UpdateInv
<1>7. CASE table.seat[a] # 0 /\ ~(a \notin flagged /\ table.stage = "ready")
  <2>1. /\ flagged' = IF a \in flagged THEN flagged \ {a} ELSE flagged \union {a}
        /\ table' \in Broadcast(table) /\ Shown(ticked)
    BY <1>7 DEF ToggleSpectate
  <2>2. Updates(table, table')
    BY <1>1, <2>1, BroadcastSound
  <2>3. table.stage # "ready" => Seated(table) \subseteq table.ready
    BY DEF SeatInv, PlayersReady
  <2>4. table.ready \subseteq Seated(table)
    BY <1>1 DEF Sound
  <2>5. \A b \in Accounts : table.claim[b] # 0 => table.seat[b] = 0 /\ click'[b][1] # "spectate"
    BY <1>2, <1>3
  <2>6. \A b \in Accounts : click'[b][1] = "claim" /\ table.seat[b] # 0 =>
                              table.stage = "ready" /\ b \notin table.ready
    BY <1>2, <1>4
  <2>7. \A b \in Accounts : Watches(b)' <=> Watches(b)
    BY <1>1, <1>2, <2>1 DEF Watches
  <2>8. /\ flagged' \subseteq Accounts
        /\ \A b \in Accounts : table.seat[b] = 0 /\ b \in flagged' => b \in flagged
    BY <1>1, <1>7, <2>1
  <2>9. \A b \in Accounts : table.claim[b] # 0 \/ click'[b][1] = "claim" => Pays(table, b)
    BY <1>2 DEF SeatInv, ClaimantsCanPay
  <2> QED BY <1>1, <1>2, <2>1, <2>2, <2>3, <2>4, <2>5, <2>6, <2>7, <2>8, <2>9, UpdateInv
<1> QED BY <1>5, <1>6, <1>7


LEMMA ClickInv == ASSUME SeatInv, NEW a \in Accounts, Click(a) PROVE SeatInv'
<1>1. PICK c \in Offered(a) :
        /\ click' = [click EXCEPT ![a] = c]
        /\ ticked' = IF c # <<"spectate", 0>> THEN ticked
                     ELSE IF a \in ticked THEN ticked \ {a} ELSE ticked \union {a}
  BY DEF Click
<1>2. /\ click[a] = NoClick /\ moves < Moves /\ moves' = moves + 1
      /\ UNCHANGED <<table, flagged, closing, astray>>
  BY DEF Click, Move
<1>3. /\ c \in Clicks /\ c[1] # "claim"
      /\ c[1] = "spectate" <=> c = <<"spectate", 0>>
      /\ c = <<"spectate", 0>> => table.seat[a] # 0
  <2>1. CASE \E x \in Seats : c = <<"seat", x>> \/ c = <<"move", x>>
    BY <2>1 DEF Clicks
  <2>2. CASE c = <<"ready", 0>> \/ c = <<"rebuy", 0>>
    BY <2>2 DEF Clicks
  <2>3. CASE c = <<"spectate", 0>> /\ table.seat[a] # 0
    BY <2>3 DEF Clicks
  <2>4. \/ \E x \in Seats : c = <<"seat", x>> \/ c = <<"move", x>>
        \/ c = <<"ready", 0>> \/ c = <<"rebuy", 0>>
        \/ c = <<"spectate", 0>> /\ table.seat[a] # 0
    BY DEF Offered, Free
  <2> QED BY <2>1, <2>2, <2>3, <2>4
<1>4. TypeOK /\ click \in [Accounts -> Clicks] /\ click[a][1] = "none"
  BY <1>2, ClickParts DEF SeatInv, TypeOK
<1>5. TypeOK' /\ Sound(table')
  <2>1. ticked' \subseteq Accounts /\ moves' \in 0 .. Moves
    BY <1>1, <1>2, <1>4, SeatingAssumption DEF TypeOK
  <2>2. click' \in [Accounts -> Clicks]
    BY <1>1, <1>3, <1>4
  <2> QED BY <1>2, <2>1, <2>2 DEF SeatInv, TypeOK
<1>6. ClaimantsStand'
  BY <1>1, <1>2, <1>3, <1>4 DEF SeatInv, ClaimantsStand
<1>7. NoClaimLeft' /\ PlayersReady'
  BY <1>2 DEF SeatInv, NoClaimLeft, PlayersReady
<1>8. LateWaits'
  BY <1>1, <1>2, <1>3, <1>4 DEF SeatInv, LateWaits
<1>9. SwitchTellsWish'
  <2> SUFFICES ASSUME NEW b \in Accounts \ astray
               PROVE  /\ table.seat[b] = 0 => b \notin flagged /\ b \notin ticked'
                      /\ table.seat[b] # 0 =>
                           IF click'[b][1] = "spectate" THEN b \in ticked' <=> b \notin flagged
                                                        ELSE b \in ticked' <=> b \in flagged
    BY <1>2 DEF SwitchTellsWish
  <2>1. /\ table.seat[b] = 0 => b \notin flagged /\ b \notin ticked
        /\ table.seat[b] # 0 =>
             IF click[b][1] = "spectate" THEN b \in ticked <=> b \notin flagged
                                         ELSE b \in ticked <=> b \in flagged
    BY DEF SeatInv, SwitchTellsWish
  <2>2. CASE b # a
    BY <1>1, <1>4, <2>1, <2>2
  <2>3. CASE b = a
    <3>1. click'[b] = c
      BY <1>1, <1>4, <2>3
    <3>2. CASE c = <<"spectate", 0>>
      BY <1>1, <1>3, <1>4, <2>1, <2>3, <3>1, <3>2
    <3>3. CASE c # <<"spectate", 0>>
      BY <1>1, <1>3, <1>4, <2>1, <2>3, <3>1, <3>3
    <3> QED BY <3>2, <3>3
  <2> QED BY <2>2, <2>3
<1>10. ClaimantsCanPay'
  BY <1>1, <1>2, <1>3, <1>4 DEF SeatInv, ClaimantsCanPay, Pays
<1> QED BY <1>5, <1>6, <1>7, <1>8, <1>9, <1>10 DEF SeatInv

LEMMA EndHandInv == ASSUME SeatInv, EndHand PROVE SeatInv'
<1>1. PICK out \in SUBSET {a \in Seated(table) : a \in table.ready} :
        table' = [table EXCEPT !.stage = "showdown",
                    !.stack = [a \in Accounts |-> IF a \in out THEN 0 ELSE table.stack[a]]]
  BY DEF EndHand
<1> DEFINE S == [a \in Accounts |-> IF a \in out THEN 0 ELSE table.stack[a]]
<1>2. S \in [Accounts -> Nat] /\ Sound(table)
  BY DEF SeatInv, TypeOK, Tables
<1>3. table.stage = "hand" /\ UNCHANGED <<flagged, ticked, click, closing, astray, moves>>
  BY DEF EndHand
<1>4. table' = Ended(table, S)
  BY <1>1 DEF Ended
<1> HIDE DEF S
<1>5. /\ Sound(table') /\ table'.stage = "showdown" /\ table'.seat = table.seat
      /\ table'.claim = table.claim /\ table'.ready = table.ready
      /\ table'.wallet = table.wallet
  BY <1>2, <1>4, EndSound
<1>6. TypeOK'
  BY <1>3, <1>5 DEF SeatInv, TypeOK, Sound
<1>7. ClaimantsStand' /\ NoClaimLeft' /\ PlayersReady'
  BY <1>3, <1>5 DEF SeatInv, ClaimantsStand, NoClaimLeft, PlayersReady, Seated
<1>8. LateWaits'
  BY <1>3, <1>5 DEF SeatInv, LateWaits
<1>9. SwitchTellsWish'
  BY <1>3, <1>5 DEF SeatInv, SwitchTellsWish
<1>10. ClaimantsCanPay'
  BY <1>3, <1>5 DEF SeatInv, ClaimantsCanPay, ClaimantsStand, LateWaits, Pays
<1> QED BY <1>5, <1>6, <1>7, <1>8, <1>9, <1>10 DEF SeatInv

LEMMA CloseShowdownInv == ASSUME SeatInv, CloseShowdown PROVE SeatInv'
<1>1. /\ table.stage = "showdown" /\ table' = Settle(table) /\ closing' = "spectators"
      /\ flagged' = flagged /\ click' = click /\ moves' = moves /\ Shown(ticked)
      /\ TypeOK /\ Sound(table) /\ SwitchTellsWish
  BY DEF CloseShowdown, SeatInv
<1>2. /\ Sound(table') /\ table'.seat = table.seat /\ table'.claim = table.claim
      /\ table'.stage = "ready" /\ table'.stack = table.stack /\ table'.wallet = table.wallet
  BY <1>1, SettleSound
<1>3. flagged' \subseteq Accounts /\ \A b \in Accounts : Watches(b)' <=> Watches(b)
  BY <1>1 DEF TypeOK, Watches
<1>4. SwitchTellsWish' /\ ticked' \subseteq Accounts /\ astray' \subseteq Accounts
  BY <1>1, <1>2, <1>3, SwitchKept
<1>5. TypeOK'
  BY <1>1, <1>2, <1>4 DEF TypeOK, Sound
<1>6. ClaimantsStand' /\ NoClaimLeft' /\ PlayersReady'
  BY <1>1, <1>2 DEF SeatInv, ClaimantsStand, NoClaimLeft, PlayersReady
<1>7. LateWaits'
  BY <1>1, <1>2 DEF SeatInv, LateWaits
<1>8. ClaimantsCanPay'
  BY <1>1, <1>2 DEF SeatInv, ClaimantsCanPay, Pays
<1> QED BY <1>2, <1>4, <1>5, <1>6, <1>7, <1>8 DEF SeatInv

LEMMA ApplySpectateReservationsInv ==
  ASSUME SeatInv, ApplySpectateReservations PROVE SeatInv'
<1> DEFINE wish == IF table.stage = "ready" THEN flagged \intersect Seated(table) ELSE {}
<1>1. /\ table' = Unseat(table, wish) /\ closing' = "claims" /\ flagged' = flagged \ wish
      /\ click' = click /\ moves' = moves /\ Shown(ticked)
      /\ TypeOK /\ Sound(table) /\ SwitchTellsWish
  BY DEF ApplySpectateReservations, SeatInv
<1>2. wish \in SUBSET Seated(table) /\ (table.stage # "ready" => wish = {})
  OBVIOUS
<1> HIDE DEF wish
<1>3. /\ Sound(table') /\ table'.stage = table.stage /\ table'.claim = table.claim
      /\ table'.ready \subseteq table.ready
      /\ table'.seat = [a \in Accounts |-> IF a \in wish THEN 0 ELSE table.seat[a]]
      /\ wish = {} => table' = table
      /\ \A b \in Accounts \ wish : SameFor(table, table', b)
      /\ \A b \in wish : table'.wallet[b] = table.wallet[b] + table.stack[b]
  BY <1>1, <1>2, UnseatSound
<1>4. flagged' \subseteq Accounts /\ wish \subseteq Accounts
  BY <1>1, <1>2 DEF TypeOK, Seated
<1>5. \A b \in Accounts : table.seat[b] # 0 /\ table'.seat[b] # 0 => (Watches(b)' <=> Watches(b))
  BY <1>1, <1>3 DEF Watches
<1>6. \A b \in Accounts : table.seat[b] = 0 => (b \in flagged' => b \in flagged) /\ table'.seat[b] = 0
  BY <1>1, <1>3
<1>7. SwitchTellsWish' /\ ticked' \subseteq Accounts /\ astray' \subseteq Accounts
  BY <1>1, <1>4, <1>5, <1>6, SwitchKept
<1>8. TypeOK'
  BY <1>1, <1>3, <1>4, <1>7 DEF TypeOK, Sound
<1>9. ClaimantsStand'
  BY <1>1, <1>3 DEF SeatInv, ClaimantsStand
<1>10. NoClaimLeft'
  BY <1>1 DEF NoClaimLeft
<1>11. PlayersReady'
  BY <1>2, <1>3 DEF SeatInv, PlayersReady
<1>12. LateWaits'
  BY <1>1, <1>3 DEF SeatInv, LateWaits
<1>13. ClaimantsCanPay'
  <2> SUFFICES ASSUME NEW b \in Accounts, table.claim[b] # 0 \/ click[b][1] = "claim"
               PROVE  Pays(table', b)
    BY <1>1, <1>3 DEF ClaimantsCanPay, Pays
  <2>1. Pays(table, b) /\ table.wallet[b] \in Nat /\ table.stack[b] \in Nat
    BY <1>1 DEF SeatInv, ClaimantsCanPay, Sound, Tables
  <2>2. CASE b \in wish
    <3>1. table.seat[b] # 0 /\ table'.seat[b] = 0
      BY <1>2, <1>3, <2>2 DEF Seated
    <3> QED BY <1>3, <2>1, <2>2, <3>1 DEF Pays
  <2>3. CASE b \notin wish
    BY <1>3, <2>1, <2>3 DEF Pays, SameFor
  <2> QED BY <2>2, <2>3
<1> QED BY <1>3, <1>7, <1>8, <1>9, <1>10, <1>11, <1>12, <1>13 DEF SeatInv

\* advanceGame seats the claimants, and then starts the next hand if it can.
LEMMA AdvancedInv ==
  ASSUME SeatInv, NEW s, Updates(s, table'), Shown(ticked), Sound(s),
         UNCHANGED <<flagged, click, moves>>, closing' \in {"start", "done"},
         s.seat = table.seat, s.claim = table.claim, s.ready = table.ready,
         s.stack = table.stack, s.wallet = table.wallet,
         s.stage = table.stage \/ (table.stage = "ready" /\ Seated(s) \subseteq s.ready)
  PROVE  SeatInv'
<1>1. /\ click \in [Accounts -> Clicks] /\ flagged \subseteq Accounts /\ moves \in 0 .. Moves
      /\ flagged' = flagged /\ click' = click /\ moves' = moves
      /\ closing' \in {"done", "spectators", "claims", "start"}
  BY DEF SeatInv, TypeOK
<1>2. s.stage # "ready" => Seated(s) \subseteq s.ready
  BY DEF SeatInv, PlayersReady, Seated
<1>3. s.ready \subseteq Seated(s)
  BY DEF Sound
<1>4. \A b \in Accounts : s.claim[b] # 0 =>
                            s.seat[b] = 0 /\ table.seat[b] = 0 /\ click'[b][1] # "spectate"
  BY <1>1 DEF SeatInv, ClaimantsStand
<1>5. \A b \in Accounts : click'[b][1] = "claim" /\ s.seat[b] # 0 =>
                            s.stage = "ready" /\ b \notin s.ready
  BY <1>1 DEF SeatInv, LateWaits, Seated
<1>6. \A b \in Accounts : Watches(b)' <=> Watches(b)
  BY <1>1 DEF Watches
<1>7. \A b \in Accounts : table.seat[b] = 0 /\ s.seat[b] # 0 => click'[b][1] # "spectate"
  OBVIOUS
<1>8. \A b \in Accounts : s.claim[b] # 0 \/ click'[b][1] = "claim" => Pays(s, b)
  BY <1>1 DEF SeatInv, ClaimantsCanPay, Pays
<1> QED BY <1>1, <1>2, <1>3, <1>4, <1>5, <1>6, <1>7, <1>8, UpdateInv

LEMMA SeatThemInv == ASSUME SeatInv, SeatThem PROVE SeatInv'
<1>1. /\ closing' = "start" /\ table' \in SeatClaimants(table) /\ Shown(ticked)
      /\ UNCHANGED <<flagged, click, moves>> /\ Sound(table)
  BY DEF SeatThem, SeatInv
<1>2. Updates(table, table')
  BY <1>1, SeatClaimantsSound
<1> QED BY <1>1, <1>2, AdvancedInv

LEMMA StartNextInv == ASSUME SeatInv, StartNext PROVE SeatInv'
<1> DEFINE s == AutoStart(table)
<1>1. /\ closing' = "done" /\ table' \in Broadcast(s) /\ Shown(ticked)
      /\ UNCHANGED <<flagged, click, moves>> /\ Sound(table)
  BY DEF StartNext, SeatInv
<1>2. /\ Sound(s) /\ s.seat = table.seat /\ s.claim = table.claim /\ s.ready = table.ready
      /\ s.stack = table.stack /\ s.wallet = table.wallet
      /\ s.stage = table.stage \/ (table.stage = "ready" /\ Seated(table) \subseteq table.ready)
  BY <1>1, AutoStartSound
<1> HIDE DEF s
<1>3. Updates(s, table') /\ Seated(s) = Seated(table)
  BY <1>1, <1>2, BroadcastSound DEF Seated
<1> QED BY <1>1, <1>2, <1>3, AdvancedInv


LEMMA LeaveInv == ASSUME SeatInv, NEW a \in Accounts, Leave(a) PROVE SeatInv'
<1> DEFINE s == IF table.seat[a] # 0 THEN Unseat(table, {a}) ELSE table
<1>1. PICK t \in Broadcast(s) : table' = [t EXCEPT !.room = @ \ {a}, !.claim[a] = 0]
  BY DEF Leave
<1>2. /\ TypeOK /\ Sound(table) /\ closing = "done"
      /\ table.seat[a] # 0 => table.stage = "ready"
      /\ UNCHANGED <<flagged, click, closing>>
      /\ ticked' = {b \in ticked \ {a} : table'.seat[b] # 0}
      /\ astray' = astray \union {b \in flagged : b = a \/ Moved(b)}
      /\ moves < Moves /\ moves' = moves + 1
  BY DEF Leave, SeatInv, Move
<1>3. /\ Sound(s) /\ s.stage = table.stage /\ s.claim = table.claim
      /\ s.ready \subseteq table.ready
      /\ \A b \in Accounts \ {a} : SameFor(table, s, b)
      /\ s.seat[a] = 0
      /\ table.stage # "ready" => s = table
  <2>1. CASE table.seat[a] # 0
    <3>1. {a} \in SUBSET Seated(table)
      BY <2>1 DEF Seated
    <3>2. s = Unseat(table, {a})
      BY <2>1
    <3> HIDE DEF s
    <3>3. /\ Sound(s) /\ s.stage = table.stage /\ s.claim = table.claim
          /\ s.ready \subseteq table.ready
          /\ s.seat = [b \in Accounts |-> IF b \in {a} THEN 0 ELSE table.seat[b]]
          /\ \A b \in Accounts \ {a} : SameFor(table, s, b)
      BY <1>2, <3>1, <3>2, UnseatSound
    <3> QED BY <1>2, <2>1, <3>3
  <2>2. CASE table.seat[a] = 0
    BY <1>2, <2>2 DEF SameFor
  <2> QED BY <2>1, <2>2
<1> HIDE DEF s
<1>4. Updates(s, t)
  BY <1>3, BroadcastSound
<1>5. /\ Sound(t) /\ t.stage = table.stage /\ t.ready \subseteq table.ready
      /\ \A b \in Accounts : t.claim[b] = 0 \/ t.claim[b] = table.claim[b]
      /\ \A b \in Accounts : t.seat[b] = 0 \/ (t.seat[b] = table.seat[b] /\ b # a)
      /\ \A b \in Accounts \ {a} : \/ SameFor(table, t, b)
                                   \/ table.seat[b] # 0 /\ table.stack[b] = 0
      /\ table.stage # "ready" => t = table
  <2>1. CASE table.stage = "ready"
    <3>1. \A b \in Accounts : s.claim[b] = 0
      BY <1>2, <1>3, <2>1 DEF SeatInv, NoClaimLeft
    <3> QED BY <1>3, <1>4, <2>1, <3>1 DEF Updates, SameFor
  <2>2. CASE table.stage # "ready"
    <3>1. t = table
      BY <1>3, <1>4, <2>2 DEF Updates
    <3> QED BY <1>2, <1>3, <2>2, <3>1 DEF SameFor
  <2> QED BY <2>1, <2>2
<1> DEFINE R == t.room \ {a}
           C == [t.claim EXCEPT ![a] = 0]
<1>6. /\ t.claim \in [Accounts -> 0 .. MaxPlayers] /\ R \in SUBSET Accounts
      /\ 0 \in 0 .. MaxPlayers /\ t \in Tables
  BY <1>5, SeatingAssumption DEF Sound, Tables
<1>7. C \in [Accounts -> 0 .. MaxPlayers] /\ \A b \in Accounts : C[b] = 0 \/ C[b] = table.claim[b]
  BY <1>5, <1>6
<1>8. table' = Lodged(t, R, C)
  BY <1>1, <1>6 DEF Tables, Lodged
<1> HIDE DEF R, C
<1>9. /\ Sound(table') /\ table'.stage = table.stage /\ table'.seat = t.seat
      /\ table'.claim = C /\ table'.ready = t.ready
      /\ table'.stack = t.stack /\ table'.wallet = t.wallet
  BY <1>5, <1>6, <1>7, <1>8, RoomSound
<1>10. TypeOK'
  <2>1. /\ ticked' \subseteq Accounts /\ astray' \subseteq Accounts /\ moves' \in 0 .. Moves
    BY <1>2, SeatingAssumption DEF TypeOK
  <2> QED BY <1>2, <1>9, <2>1 DEF TypeOK, Sound
<1>11. ClaimantsStand'
  BY <1>2, <1>5, <1>7, <1>9 DEF SeatInv, ClaimantsStand
<1>12. NoClaimLeft'
  BY <1>2, <1>7, <1>9 DEF SeatInv, NoClaimLeft
<1>13. PlayersReady'
  BY <1>5, <1>9 DEF SeatInv, PlayersReady, Seated
<1>14. LateWaits'
  BY <1>2, <1>5, <1>9 DEF SeatInv, LateWaits
<1>15. SwitchTellsWish'
  <2> SUFFICES ASSUME NEW b \in Accounts \ astray'
               PROVE  /\ t.seat[b] = 0 => b \notin flagged /\ b \notin ticked'
                      /\ t.seat[b] # 0 =>
                           IF click[b][1] = "spectate" THEN b \in ticked' <=> b \notin flagged
                                                       ELSE b \in ticked' <=> b \in flagged
    BY <1>2, <1>9 DEF SwitchTellsWish
  <2>1. b \in Accounts \ astray
    BY <1>2
  <2>2. /\ table.seat[b] = 0 => b \notin flagged /\ b \notin ticked
        /\ table.seat[b] # 0 =>
             IF click[b][1] = "spectate" THEN b \in ticked <=> b \notin flagged
                                         ELSE b \in ticked <=> b \in flagged
    BY <2>1 DEF SeatInv, SwitchTellsWish
  <2>3. CASE t.seat[b] = 0
    <3>1. b \notin ticked'
      BY <1>2, <1>9, <2>3
    <3>2. b \notin flagged
      BY <1>2, <1>9, <2>1, <2>2, <2>3 DEF Moved
    <3> QED BY <2>3, <3>1, <3>2
  <2>4. CASE t.seat[b] # 0
    <3>1. b # a /\ table.seat[b] # 0
      BY <1>5, <2>1, <2>4
    <3>2. b \in ticked' <=> b \in ticked
      BY <1>2, <1>9, <2>4, <3>1
    <3> QED BY <2>2, <2>4, <3>1, <3>2
  <2> QED BY <2>3, <2>4
<1>16. ClaimantsCanPay'
  <2> SUFFICES ASSUME NEW b \in Accounts, C[b] # 0 \/ click[b][1] = "claim"
               PROVE  Pays(table', b)
    BY <1>2, <1>9 DEF ClaimantsCanPay, Pays
  <2>1. b # a
    BY <1>6, ClickParts DEF C, Leave
  <2>2. Pays(table, b)
    BY <1>7 DEF SeatInv, ClaimantsCanPay
  <2> QED BY <1>5, <1>9, <2>1, <2>2 DEF Pays, SameFor
<1> QED BY <1>9, <1>10, <1>11, <1>12, <1>13, <1>14, <1>15, <1>16 DEF SeatInv

LEMMA DisconnectInv == ASSUME SeatInv, NEW a \in Accounts, Disconnect(a) PROVE SeatInv'
<1> DEFINE R == table.room \ {a}
           C == [table.claim EXCEPT ![a] = 0]
<1>1. /\ TypeOK /\ Sound(table) /\ table \in Tables /\ click \in [Accounts -> Clicks]
      /\ table.claim \in [Accounts -> 0 .. MaxPlayers] /\ R \in SUBSET Accounts
      /\ 0 \in 0 .. MaxPlayers
  BY SeatingAssumption DEF SeatInv, TypeOK, Tables
<1>2. /\ click' = [click EXCEPT ![a] = NoClick] /\ flagged' = flagged \ {a}
      /\ astray' = IF a \in flagged \union ticked THEN astray \union {a} ELSE astray
      /\ UNCHANGED <<ticked, closing>> /\ moves < Moves /\ moves' = moves + 1
  BY DEF Disconnect, Move
<1>3. C \in [Accounts -> 0 .. MaxPlayers] /\ \A b \in Accounts : C[b] = 0 \/ C[b] = table.claim[b]
  BY <1>1
<1>4. table' = Lodged(table, R, C)
  BY <1>1 DEF Disconnect, Tables, Lodged
<1> HIDE DEF R, C
<1>5. /\ Sound(table') /\ table'.stage = table.stage /\ table'.seat = table.seat
      /\ table'.claim = C /\ table'.ready = table.ready
      /\ table'.stack = table.stack /\ table'.wallet = table.wallet
  BY <1>1, <1>3, <1>4, RoomSound
<1>6. /\ click'[a][1] = "none" /\ \A b \in Accounts \ {a} : click'[b] = click[b]
      /\ click' \in [Accounts -> Clicks]
  BY <1>1, <1>2, ClickParts
<1>7. TypeOK'
  <2>1. moves' \in 0 .. Moves /\ flagged' \subseteq Accounts /\ astray' \subseteq Accounts
    BY <1>1, <1>2, SeatingAssumption DEF TypeOK
  <2> QED BY <1>1, <1>2, <1>5, <1>6, <2>1 DEF TypeOK, Sound
<1>8. ClaimantsStand'
  BY <1>3, <1>5, <1>6 DEF SeatInv, ClaimantsStand
<1>9. NoClaimLeft'
  BY <1>2, <1>3, <1>5 DEF SeatInv, NoClaimLeft
<1>10. PlayersReady'
  BY <1>5 DEF SeatInv, PlayersReady, Seated
<1>11. LateWaits'
  BY <1>5, <1>6 DEF SeatInv, LateWaits
<1>12. SwitchTellsWish'
  <2> SUFFICES ASSUME NEW b \in Accounts \ astray'
               PROVE  /\ table.seat[b] = 0 => b \notin flagged' /\ b \notin ticked
                      /\ table.seat[b] # 0 =>
                           IF click'[b][1] = "spectate" THEN b \in ticked <=> b \notin flagged'
                                                        ELSE b \in ticked <=> b \in flagged'
    BY <1>2, <1>5 DEF SwitchTellsWish
  <2>1. b \in Accounts \ astray
    BY <1>2
  <2>2. CASE b = a
    BY <1>2, <1>6, <2>2
  <2>3. CASE b # a
    BY <1>2, <1>6, <2>1, <2>3 DEF SeatInv, SwitchTellsWish
  <2> QED BY <2>2, <2>3
<1>13. ClaimantsCanPay'
  BY <1>3, <1>5, <1>6 DEF SeatInv, ClaimantsCanPay, Pays
<1> QED BY <1>5, <1>7, <1>8, <1>9, <1>10, <1>11, <1>12, <1>13 DEF SeatInv

LEMMA JoinInv == ASSUME SeatInv, NEW a \in Accounts, Join(a) PROVE SeatInv'
<1> DEFINE R == table.room \union {a}
<1>1. /\ TypeOK /\ Sound(table) /\ table \in Tables
      /\ table.claim \in [Accounts -> 0 .. MaxPlayers] /\ R \in SUBSET Accounts
  BY DEF SeatInv, TypeOK, Tables
<1>2. table' = Lodged(table, R, table.claim)
  BY <1>1 DEF Join, Tables, Lodged
<1>3. UNCHANGED <<flagged, ticked, click, closing, astray, moves>>
  BY DEF Join
<1> HIDE DEF R
<1>4. /\ Sound(table') /\ table'.stage = table.stage /\ table'.seat = table.seat
      /\ table'.claim = table.claim /\ table'.ready = table.ready
      /\ table'.stack = table.stack /\ table'.wallet = table.wallet
  BY <1>1, <1>2, RoomSound
<1>5. TypeOK'
  BY <1>1, <1>3, <1>4 DEF TypeOK, Sound
<1>6. ClaimantsStand' /\ NoClaimLeft' /\ PlayersReady' /\ LateWaits'
  BY <1>3, <1>4 DEF SeatInv, ClaimantsStand, NoClaimLeft, PlayersReady, LateWaits, Seated
<1>7. SwitchTellsWish'
  BY <1>3, <1>4 DEF SeatInv, SwitchTellsWish
<1>8. ClaimantsCanPay'
  BY <1>3, <1>4 DEF SeatInv, ClaimantsCanPay, Pays
<1> QED BY <1>4, <1>5, <1>6, <1>7, <1>8 DEF SeatInv

LEMMA SeatInvInit == Init => SeatInv
<1> SUFFICES ASSUME Init PROVE SeatInv
  OBVIOUS
<1> DEFINE few == [a \in Accounts |-> IF a \in {First, Second} THEN 1 ELSE 0]
           two == [few EXCEPT ![Second] = 2]
<1>1. PICK rich \in SUBSET (Accounts \ {First, Second}) :
        table = [stage  |-> "hand", seat |-> two, claim |-> [a \in Accounts |-> 0],
                 stack  |-> few, total |-> two, bought |-> two,
                 wallet |-> [a \in Accounts |-> IF a \in rich THEN 1 ELSE few[a]],
                 ready  |-> {First, Second}, room |-> Accounts, busted |-> {}]
  BY DEF Init
<1>2. /\ flagged = {} /\ ticked = {} /\ astray = {}
      /\ click = [c \in Accounts |-> NoClick] /\ closing = "done" /\ moves = 0
  BY DEF Init
<1>3. /\ two \in [Accounts -> 0 .. MaxPlayers] /\ two \in [Accounts -> 0 .. MaxBuy]
      /\ few \in [Accounts -> Nat] /\ [a \in Accounts |-> 0] \in [Accounts -> 0 .. MaxPlayers]
      /\ [a \in Accounts |-> IF a \in rich THEN 1 ELSE few[a]] \in [Accounts -> Nat]
  BY SeatingAssumption
<1>4. /\ \A a, b \in Accounts : two[a] # 0 /\ two[a] = two[b] => a = b
      /\ \A a \in Accounts : two[a] # 0 <=> a \in {First, Second}
  BY SeatingAssumption
<1>5. \A a \in Accounts : two[a] <= two[a]
  BY <1>3, SeatingAssumption
<1> HIDE DEF few, two
<1>6. /\ table.stage = "hand" /\ table.seat = two /\ table.total = two /\ table.bought = two
      /\ table.claim = [a \in Accounts |-> 0] /\ table.busted = {}
      /\ table.ready = {First, Second}
  BY <1>1
<1>7. table \in Tables
  BY <1>1, <1>3, SeatingAssumption DEF Tables
<1>8. Sound(table)
  BY <1>4, <1>5, <1>6, <1>7, SeatingAssumption DEF Sound, Seated
<1>9. TypeOK
  BY <1>2, <1>7, ClickParts, SeatingAssumption DEF TypeOK
<1>10. ClaimantsStand /\ NoClaimLeft
  BY <1>6 DEF ClaimantsStand, NoClaimLeft
<1>11. PlayersReady
  BY <1>4, <1>6 DEF PlayersReady, Seated
<1>12. LateWaits /\ SwitchTellsWish
  BY <1>2, ClickParts DEF LateWaits, SwitchTellsWish
<1>13. ClaimantsCanPay
  BY <1>2, <1>6, ClickParts DEF ClaimantsCanPay
<1> QED BY <1>8, <1>9, <1>10, <1>11, <1>12, <1>13 DEF SeatInv

LEMMA SeatInvNext == SeatInv /\ [Next]_vars => SeatInv'
<1> SUFFICES ASSUME SeatInv, [Next]_vars PROVE SeatInv'
  OBVIOUS
<1>1. ASSUME NEW a \in Accounts, Click(a) PROVE SeatInv'
  BY <1>1, ClickInv
<1>2. ASSUME NEW a \in Accounts, Handle(a) PROVE SeatInv'
  BY <1>2, TakeSeatInv, EnterClaimInv, ToggleReadyInv, MoveSeatInv, RebuyInv, ToggleSpectateInv
  DEF Handle
<1>3. ASSUME NEW a \in Accounts, Leave(a) \/ Disconnect(a) \/ Join(a) PROVE SeatInv'
  BY <1>3, LeaveInv, DisconnectInv, JoinInv
<1>4. CASE EndHand
  BY <1>4, EndHandInv
<1>5. CASE Close
  BY <1>5, CloseShowdownInv, ApplySpectateReservationsInv, SeatThemInv, StartNextInv DEF Close
<1>6. CASE UNCHANGED vars
  BY <1>6 DEF vars, SeatInv, TypeOK, Sound, ClaimantsStand, NoClaimLeft, PlayersReady, LateWaits,
              SwitchTellsWish, ClaimantsCanPay, Pays, Seated
<1> QED BY <1>1, <1>2, <1>3, <1>4, <1>5, <1>6 DEF Next


---------------------------------------------------------------------------------
(* What the page offers.                                                   *)

LEMMA SeatInvHolds == Spec => []SeatInv
BY SeatInvInit, SeatInvNext, PTL DEF Spec

\* Without a LateClaim a seat is claimed once at most, and not while somebody sits there.
LEMMA ClaimedOnce ==
  ASSUME ~LateClaim, NEW x \in Seats
  PROVE  /\ Taken(table, x) => Claimed(table, x) = {}
         /\ \A b, c \in Claimed(table, x) : b = c
<1> DEFINE Q == Claimed(table, x)
<1>1. IsFiniteSet(Q) /\ Cardinality(Q) \in Nat
  <2>1. Q \in SUBSET Accounts /\ IsFiniteSet(Accounts)
    BY SeatingAssumption DEF Claimed
  <2> QED BY <2>1, FS_Subset, FS_CardinalityType
<1>2. Cardinality(Q) <= IF Taken(table, x) THEN 0 ELSE 1
  BY <1>1 DEF LateClaim
<1>3. Taken(table, x) => Q = {}
  <2>1. Taken(table, x) => Cardinality(Q) = 0
    BY <1>1, <1>2
  <2> QED BY <1>1, <2>1, FS_EmptySet
<1>4. ASSUME NEW b \in Q, NEW c \in Q, b # c PROVE FALSE
  <2>1. IsFiniteSet({b}) /\ Cardinality({b}) = 1
    BY FS_Singleton
  <2>2. Cardinality({b} \union {c}) = 2
    BY <1>4, <2>1, FS_AddElement
  <2>3. {b} \union {c} \in SUBSET Q
    OBVIOUS
  <2>4. 2 <= Cardinality(Q)
    BY <1>1, <2>2, <2>3, FS_Subset
  <2> QED BY <1>1, <1>2, <2>4
<1> QED BY <1>3, <1>4

\* Then a free seat that nobody has claimed is left over by the players and the
\* other claimants together.
LEMMA SeatLeftOver ==
  ASSUME SeatInv, ~LateClaim, NEW a \in Accounts, NEW s \in Free(table), Claimed(table, s) = {}
  PROVE  Cardinality(Seated(table)) + Cardinality({b \in Accounts \ {a} : table.claim[b] # 0})
           < MaxPlayers
<1> DEFINE P == Seated(table)
           C == {b \in Accounts \ {a} : table.claim[b] # 0}
           D == P \union C
           T == Seats \ {s}
           f == [b \in D |-> IF table.seat[b] # 0 THEN table.seat[b] ELSE table.claim[b]]
<1>1. /\ IsFiniteSet(Accounts) /\ P \in SUBSET Accounts /\ C \in SUBSET Accounts
      /\ MaxPlayers \in Nat
  BY SeatingAssumption DEF Seated
<1>2. IsFiniteSet(P) /\ IsFiniteSet(C) /\ Cardinality(P) \in Nat /\ Cardinality(C) \in Nat
  BY <1>1, FS_Subset, FS_CardinalityType
<1>3. s \in Seats /\ ~Taken(table, s)
  BY DEF Free
<1>4. IsFiniteSet(T) /\ Cardinality(T) = MaxPlayers - 1
  <2>1. IsFiniteSet(Seats) /\ Cardinality(Seats) = MaxPlayers
    BY SeatingAssumption, FS_Interval DEF Seats
  <2> QED BY <1>3, <2>1, FS_RemoveElement
<1>5. /\ table.seat \in [Accounts -> 0 .. MaxPlayers] /\ table.claim \in [Accounts -> 0 .. MaxPlayers]
      /\ \A b \in Accounts : table.claim[b] # 0 => table.seat[b] = 0
      /\ \A b, c \in Accounts : table.seat[b] # 0 /\ table.seat[b] = table.seat[c] => b = c
  BY DEF SeatInv, ClaimantsStand, Sound, Tables
<1>6. P \intersect C = {}
  BY <1>5 DEF Seated
<1>7. Cardinality(D) = Cardinality(P) + Cardinality(C)
  <2>1. Cardinality(P \intersect C) = 0
    BY <1>6, FS_EmptySet
  <2>2. Cardinality(D) = Cardinality(P) + Cardinality(C) - Cardinality(P \intersect C)
    BY <1>2, FS_Union
  <2> QED BY <1>2, <2>1, <2>2
<1>8. ASSUME NEW b \in D
      PROVE  /\ f[b] \in T
             /\ b \in P => f[b] = table.seat[b] /\ Taken(table, f[b])
             /\ b \notin P => b \in Claimed(table, f[b])
  <2>1. CASE b \in P
    <3>1. f[b] = table.seat[b] /\ b \in Accounts /\ table.seat[b] # 0
      BY <2>1 DEF Seated
    <3>2. f[b] \in Seats /\ Taken(table, f[b])
      BY <1>1, <1>5, <3>1 DEF Seats, Taken
    <3> QED BY <1>3, <2>1, <3>1, <3>2
  <2>2. CASE b \notin P
    <3>1. f[b] = table.claim[b] /\ b \in Accounts /\ table.claim[b] # 0
      BY <2>2 DEF Seated
    <3>2. f[b] \in Seats /\ b \in Claimed(table, f[b])
      BY <1>1, <1>5, <3>1 DEF Seats, Claimed
    <3> QED BY <2>2, <3>1, <3>2
  <2> QED BY <2>1, <2>2
<1>9. ASSUME NEW b \in D, NEW c \in D, f[b] = f[c] PROVE b = c
  <2>1. b \in Accounts /\ c \in Accounts /\ f[b] \in Seats /\ f[c] \in Seats
    BY <1>1, <1>8
  <2> HIDE DEF f
  <2>2. Taken(table, f[b]) => Claimed(table, f[b]) = {}
    BY <2>1, ClaimedOnce
  <2>3. \A x, y \in Claimed(table, f[b]) : x = y
    BY <2>1, ClaimedOnce
  <2>4. b \in P <=> c \in P
    BY <1>8, <1>9, <2>2
  <2>5. CASE b \in P
    BY <1>5, <1>8, <1>9, <2>1, <2>4, <2>5 DEF Seated
  <2>6. CASE b \notin P
    BY <1>8, <1>9, <2>3, <2>4, <2>6
  <2> QED BY <2>5, <2>6
<1>10. f \in Injection(D, T)
  <2>1. f \in [D -> T]
    BY <1>8
  <2> HIDE DEF f, D, T
  <2> QED BY <1>9, <2>1 DEF Injection, IsInjective
<1>11. Cardinality(D) <= Cardinality(T)
  <2> HIDE DEF f, D, T
  <2> QED BY <1>4, <1>10, FS_Injection
<1> HIDE DEF P, C, D, T
<1>12. Cardinality(P) + Cardinality(C) < MaxPlayers
  BY <1>1, <1>2, <1>4, <1>7, <1>11
<1> QED BY <1>12 DEF P, C

LEMMA OffersFollow == SeatInv => OffersSeatsExactly
<1> SUFFICES ASSUME SeatInv, closing = "done", ~LateClaim,
                    NEW a \in table.room, NEW s \in Seats, table.seat[a] = 0
             PROVE  IF Accepts(table, a, s) THEN OffersSeat(a, s) ELSE OffersSeat(a, s) => Spent(a)
  BY DEF OffersSeatsExactly
<1>1. /\ a \in Accounts /\ table.bought[a] \in 0 .. MaxBuy /\ table.wallet[a] \in Nat
      /\ table.bought[a] < MaxBuy => a \notin table.busted
      /\ MaxBuy \in Nat
  BY SeatingAssumption DEF SeatInv, Sound, Tables
<1>2. CASE table.stage = "ready"
  <2>1. Claimed(table, s) = {}
    BY <1>2, SeatingAssumption DEF SeatInv, NoClaimLeft, Claimed, Seats
  <2>2. Accepts(table, a, s) <=> s \in Free(table) /\ table.bought[a] < MaxBuy /\ table.wallet[a] > 0
    <3>1. Named(table, a, s, FALSE)
      BY <2>1 DEF Named
    <3>2. Accepts(table, a, s) <=> CanSit(table, a, s, FALSE)
      BY <1>2 DEF Accepts
    <3> QED BY <1>2, <3>1, <3>2 DEF CanSit, CanBuyIn
  <2>3. OffersSeat(a, s) <=> s \in Free(table) /\ a \notin table.busted /\ table.wallet[a] # 0
    BY <2>1 DEF OffersSeat, JoinBlocked
  <2> QED BY <1>1, <2>2, <2>3 DEF Spent
<1>3. CASE table.stage # "ready"
  <2>1. CASE s \notin Free(table)
    BY <1>3, <2>1 DEF Accepts, CanClaim, Cancels, Named, OffersSeat
  <2>2. CASE s \in Free(table) /\ Claimed(table, s) # {}
    <3>1. Named(table, a, s, FALSE) <=> Claimed(table, s) \subseteq {a}
      BY DEF Named
    <3>2. a \in Claimed(table, s) => Claimed(table, s) \subseteq {a}
      BY ClaimedOnce
    <3>3. Accepts(table, a, s) <=> a \in Claimed(table, s) /\ Named(table, a, s, FALSE)
      BY <1>3, <2>2 DEF Accepts, CanClaim, Cancels
    <3>4. OffersSeat(a, s) <=> a \in Claimed(table, s)
      BY <2>2 DEF OffersSeat
    <3> QED BY <3>1, <3>2, <3>3, <3>4
  <2>3. CASE s \in Free(table) /\ Claimed(table, s) = {}
    <3>1. Cardinality(Seated(table)) + Cardinality({b \in Accounts \ {a} : table.claim[b] # 0})
            < MaxPlayers
      BY <1>1, <2>3, SeatLeftOver
    <3>2. Accepts(table, a, s) <=> table.bought[a] < MaxBuy /\ table.wallet[a] > 0
      BY <1>3, <2>3, <3>1 DEF Accepts, CanClaim, Cancels, CanBuyIn
    <3>3. OffersSeat(a, s) <=> a \notin table.busted /\ table.wallet[a] # 0
      BY <2>3 DEF OffersSeat, JoinBlocked
    <3> QED BY <1>1, <3>2, <3>3 DEF Spent
  <2> QED BY <2>1, <2>2, <2>3
<1> QED BY <1>2, <1>3

\* A page offers its spectator the seats the server would give, and shows a player's
\* wish to watch as it will be followed (Seat.tsx, RoomDock.tsx, RoomMenu.tsx against
\* reserve.go and toggleSpectate), in every room and session.
THEOREM PagesShowWhatFollows == Spec => []ShowsWhatFollows
<1>1. SeatInv => ShowsWhatFollows
  <2> SUFFICES ASSUME SeatInv PROVE OffersSeatsExactly /\ SpectatesAsShown
    BY DEF ShowsWhatFollows
  <2>1. ASSUME NEW a \in (table.room \intersect Seated(table)) \ astray, click[a] = NoClick
        PROVE  a \in ticked <=> a \in flagged
    BY <2>1, ClickParts DEF SeatInv, SwitchTellsWish, Seated
  <2> QED BY <2>1, OffersFollow DEF SpectatesAsShown
<1> QED BY <1>1, SeatInvHolds, PTL

\* The type of the state; and no two players are on a seat, nobody is both seated and
\* waiting for a seat, and nobody is ready without one (reserve.go, seatHumanLocked).
THEOREM SeatsAreSound == Spec => [](TypeOK /\ Sound(table) /\ ClaimantsStand)
<1>1. SeatInv => TypeOK /\ Sound(table) /\ ClaimantsStand
  BY DEF SeatInv
<1> QED BY <1>1, SeatInvHolds, PTL

---------------------------------------------------------------------------------
(* Claims are kept.                                                        *)

\* A player about to move has no claim, and if still seated is not ready; so the
\* table is between hands, and no claim has come to the seat that was free then.
MovesStand ==
  \A a \in Accounts :
    click[a][1] = "move" =>
      /\ table.claim[a] = 0
      /\ table.seat[a] # 0 => /\ table.stage = "ready" /\ a \notin table.ready
                              /\ Claimed(table, click[a][2]) = {}

\* The accounts of C act and make s of the table; the claims and the departures
\* that follow make r of it, which is what it stays, but for a claim of theirs.
Makes(C, s, r) ==
  /\ C \subseteq Accounts /\ Sound(s) /\ Updates(s, r)
  /\ r.seat = table'.seat /\ r.stage = table'.stage /\ r.ready = table'.ready
  /\ \A b \in Accounts : table'.claim[b] = r.claim[b] \/ table'.claim[b] = 0
  /\ \A b \in C : /\ click'[b][1] # "move"
                  /\ s.claim[b] = 0 \/ s.claim[b] = table.claim[b] \/ s.claim[b] = ClaimOf(b)
  /\ \A b \in Accounts \ C :
       /\ click'[b] = click[b] /\ table'.claim[b] = r.claim[b] /\ s.claim[b] = table.claim[b]
       /\ SameFor(table, s, b) /\ s.bought[b] <= table.bought[b]
       /\ b \in table'.room => b \in s.room
       /\ table.stage = "ready" /\ b \notin table.ready /\ table.seat[b] # 0 =>
            s.stage = "ready" /\ b \notin s.ready
  /\ \A x \in Seats : Taken(s, x) =>
       \/ Taken(table, x) \/ Taken(r, x)
       \/ Free(s) # {} /\ \E b \in C : click[b] = <<"move", x>> /\ table.seat[b] # 0

LEMMA MovesStandMade ==
  ASSUME SeatInv, MovesStand, NEW C, NEW s, NEW r, Makes(C, s, r)
  PROVE  MovesStand'
<1> SUFFICES ASSUME NEW b \in Accounts, click'[b][1] = "move"
             PROVE  /\ table'.claim[b] = 0
                    /\ table'.seat[b] # 0 => /\ table'.stage = "ready" /\ b \notin table'.ready
                                             /\ Claimed(table', click'[b][2]) = {}
  BY DEF MovesStand, Claimed
<1>1. b \in Accounts \ C
  BY DEF Makes
<1>2. /\ click'[b] = click[b] /\ table'.claim[b] = r.claim[b] /\ s.claim[b] = table.claim[b]
      /\ SameFor(table, s, b)
      /\ table.stage = "ready" /\ b \notin table.ready /\ table.seat[b] # 0 =>
           s.stage = "ready" /\ b \notin s.ready
  BY <1>1 DEF Makes
<1>3. /\ table.claim[b] = 0
      /\ table.seat[b] # 0 => table.stage = "ready" /\ b \notin table.ready
  BY <1>2 DEF MovesStand
<1>4. click'[b][2] \in Seats
  BY <1>2, ClickParts DEF SeatInv, TypeOK
<1>5. s.claim[b] = 0 /\ (s.seat[b] # 0 => s.stage = "ready" /\ b \notin s.ready)
  BY <1>2, <1>3 DEF SameFor
<1>6. /\ r.stage = s.stage /\ r.ready \subseteq s.ready
      /\ r.seat[b] # 0 => s.seat[b] # 0
  BY <1>5 DEF Makes, Updates, SameFor
<1>7. /\ s.stage = "ready" => \A c \in Accounts : r.claim[c] = 0
      /\ s.stage # "ready" => r = s
  BY DEF Makes, Updates
<1>8. table'.claim[b] = 0
  BY <1>2, <1>5, <1>7
<1>9. ASSUME table'.seat[b] # 0
      PROVE  /\ table'.stage = "ready" /\ b \notin table'.ready
             /\ Claimed(table', click'[b][2]) = {}
  <2>1. s.stage = "ready" /\ b \notin s.ready
    BY <1>5, <1>6, <1>9 DEF Makes
  <2>2. table'.stage = "ready" /\ b \notin table'.ready
    BY <1>6, <2>1 DEF Makes
  <2>3. \A c \in Accounts : table'.claim[c] = 0
    BY <1>7, <2>1 DEF Makes
  <2>4. click'[b][2] # 0
    BY <1>4, SeatingAssumption DEF Seats
  <2> QED BY <2>2, <2>3, <2>4 DEF Claimed
<1> QED BY <1>8, <1>9

\* Whoever claims names a seat.
LEMMA ClaimsNameSeats ==
  ASSUME SeatInv, NEW a \in Accounts
  PROVE  /\ ClaimOf(a) # 0 => ClaimOf(a) \in Seats
         /\ table.claim[a] # 0 => ClaimOf(a) # 0
<1>1. click[a] \in Clicks /\ table.claim[a] \in 0 .. MaxPlayers
  BY DEF SeatInv, TypeOK, Tables
<1>2. click[a][1] = "claim" => click[a][2] \in Seats
  BY <1>1, ClickParts
<1>3. \A x \in 0 .. MaxPlayers : x # 0 <=> x \in Seats
  BY SeatingAssumption DEF Seats
<1> QED BY <1>1, <1>2, <1>3, SeatingAssumption DEF ClaimOf

\* The rounds of table s leave no claimant out who is not exempt.
LEMMA KeptByRounds ==
  ASSUME SeatInv, NEW a \in Accounts, ClaimOf(a) # 0,
         NEW s, Sound(s), s.stage = "ready", NEW r, Updates(s, r), r.seat = table'.seat,
         s.claim[a] = ClaimOf(a), s.seat[a] = 0, a \in s.room, s.wallet[a] > 0,
         s.bought[a] <= table.bought[a],
         \A b \in Accounts \ {a} :
           s.claim[b] = 0 \/ s.claim[b] = table.claim[b] \/ s.claim[b] = ClaimOf(b),
         \A x \in Seats : Taken(s, x) => \/ Taken(table, x) \/ Taken(r, x)
                                         \/ Free(s) # {} /\ x # ClaimOf(a)
  PROVE  ClaimIsKept(a)
<1> SUFFICES ASSUME CanBuyIn(table, a), table'.seat[a] = 0, ~NoOtherSeat(a),
                    \A b \in Accounts \ {a} : ClaimOf(a) # ClaimOf(b) /\ ClaimOf(a) # table.claim[b]
             PROVE  FALSE
  BY DEF ClaimIsKept
<1> DEFINE x == ClaimOf(a)
<1>1. x \in Seats
  BY ClaimsNameSeats
<1>2. CanBuyIn(s, a)
  <2>1. table.bought[a] \in 0 .. MaxBuy /\ s.bought[a] \in 0 .. MaxBuy
    BY DEF SeatInv, TypeOK, Sound, Tables
  <2> QED BY <2>1, SeatingAssumption DEF CanBuyIn
<1>3. \A b \in Accounts \ {a} : s.claim[b] # s.claim[a]
  OBVIOUS
<1>4. Awaiting(s, a)
  BY <1>2, <1>3 DEF Awaiting
<1>5. ~SeatThere(s, a)
  BY <1>4 DEF Updates, Placed
<1>6. Taken(s, x) /\ (Free(s) = {} \/ ~AloneIn(s, a))
  BY <1>1, <1>5 DEF SeatThere, Free
<1>7. \A y \in Seats : Taken(r, y) <=> Taken(table', y)
  BY DEF Taken
<1>8. Taken(table, x) \/ Taken(table', x)
  BY <1>1, <1>6, <1>7
<1>9. CASE Free(s) = {}
  <2>1. ASSUME NEW y \in Free(table) PROVE Taken(table', y)
    <3>1. y \in Seats /\ ~Taken(table, y)
      BY DEF Free
    <3>2. Taken(s, y)
      BY <1>9, <3>1 DEF Free
    <3> QED BY <1>7, <1>9, <3>1, <3>2
  <2> QED BY <1>8, <2>1 DEF NoOtherSeat
<1>10. CASE ~AloneIn(s, a)
  <2>1. PICK b \in Accounts \ {a} : s.claim[b] # 0
    BY <1>10 DEF AloneIn
  <2>2. ClaimOf(b) # 0
    BY <2>1, ClaimsNameSeats
  <2> QED BY <1>8, <2>2 DEF NoOtherSeat
<1> QED BY <1>6, <1>9, <1>10

\* Nor does what another account does.
LEMMA KeptByOthers ==
  ASSUME SeatInv, MovesStand, NEW C, NEW s, NEW r, Makes(C, s, r), NEW a \in Accounts \ C
  PROVE  ClaimIsKept(a)
<1> SUFFICES ASSUME ClaimOf(a) # 0, ClaimOf(a)' = 0, a \in table'.room PROVE ClaimIsKept(a)
  BY DEF ClaimIsKept
<1>1. /\ click'[a] = click[a] /\ table'.claim[a] = r.claim[a] /\ s.claim[a] = table.claim[a]
      /\ SameFor(table, s, a) /\ s.bought[a] <= table.bought[a] /\ a \in s.room
  BY DEF Makes
<1>2. click[a][1] # "claim" /\ ClaimOf(a) = table.claim[a] /\ table'.claim[a] = 0
  BY <1>1 DEF ClaimOf
<1>3. s.stage = "ready"
  BY <1>1, <1>2 DEF Makes, Updates
<1>4. table.seat[a] = 0 /\ table.wallet[a] > 0
  BY <1>2 DEF SeatInv, ClaimantsStand, ClaimantsCanPay, Pays
<1>5. s.claim[a] = ClaimOf(a) /\ s.seat[a] = 0 /\ s.wallet[a] > 0
  BY <1>1, <1>2, <1>4 DEF SameFor
<1>6. \A b \in Accounts \ {a} :
        s.claim[b] = 0 \/ s.claim[b] = table.claim[b] \/ s.claim[b] = ClaimOf(b)
  BY DEF Makes
<1>7. ASSUME NEW x \in Seats, Taken(s, x)
      PROVE  Taken(table, x) \/ Taken(r, x) \/ (Free(s) # {} /\ x # ClaimOf(a))
  <2>1. CASE Free(s) # {} /\ \E b \in C : click[b] = <<"move", x>> /\ table.seat[b] # 0
    <3>1. PICK b \in C : click[b] = <<"move", x>> /\ table.seat[b] # 0
      BY <2>1
    <3>2. b \in Accounts /\ click[b][1] = "move" /\ click[b][2] = x
      BY <3>1 DEF Makes
    <3>3. Claimed(table, x) = {}
      BY <3>1, <3>2 DEF MovesStand
    <3> QED BY <1>2, <2>1, <3>3 DEF Claimed
  <2> QED BY <1>7, <2>1 DEF Makes
<1>8. Sound(s) /\ Updates(s, r) /\ r.seat = table'.seat
  BY DEF Makes
<1> QED BY <1>1, <1>3, <1>5, <1>6, <1>7, <1>8, KeptByRounds

\* What is to be shown of each step.
ClaimsStay == MovesStand' /\ \A a \in Accounts : ClaimIsKept(a)

LEMMA MadeStay ==
  ASSUME SeatInv, MovesStand, NEW C, NEW s, NEW r, Makes(C, s, r), \A a \in C : ClaimIsKept(a)
  PROVE  ClaimsStay
BY MovesStandMade, KeptByOthers DEF ClaimsStay

\* A handler of a makes s of the table, and broadcasts.
LEMMA HandlerStay ==
  ASSUME SeatInv, MovesStand, NEW a \in Accounts, Served(a), ClaimIsKept(a),
         NEW s, Sound(s), table' \in Broadcast(s), s.room = table.room,
         s.claim[a] = 0 \/ s.claim[a] = table.claim[a] \/ s.claim[a] = ClaimOf(a),
         \A b \in Accounts \ {a} :
           /\ s.claim[b] = table.claim[b] /\ SameFor(table, s, b) /\ s.bought[b] <= table.bought[b]
           /\ table.stage = "ready" /\ b \notin table.ready /\ table.seat[b] # 0 =>
                s.stage = "ready" /\ b \notin s.ready,
         \A x \in Seats : Taken(s, x) => \/ Taken(table, x) \/ Taken(table', x)
                                         \/ /\ Free(s) # {} /\ click[a] = <<"move", x>>
                                            /\ table.seat[a] # 0
  PROVE  ClaimsStay
<1>1. Updates(s, table') /\ table'.room = table.room
  BY BroadcastSound DEF Updates
<1>2. click'[a][1] = "none" /\ \A b \in Accounts \ {a} : click'[b] = click[b]
  BY ClickParts DEF Served, SeatInv, TypeOK
<1>3. \A b \in {a} : /\ click'[b][1] # "move"
                     /\ s.claim[b] = 0 \/ s.claim[b] = table.claim[b] \/ s.claim[b] = ClaimOf(b)
  BY <1>2
<1>4. \A b \in Accounts \ {a} :
        /\ click'[b] = click[b] /\ s.claim[b] = table.claim[b]
        /\ SameFor(table, s, b) /\ s.bought[b] <= table.bought[b]
        /\ b \in table'.room => b \in s.room
        /\ table.stage = "ready" /\ b \notin table.ready /\ table.seat[b] # 0 =>
             s.stage = "ready" /\ b \notin s.ready
  BY <1>1, <1>2
<1>5. \A x \in Seats : Taken(s, x) =>
        \/ Taken(table, x) \/ Taken(table', x)
        \/ Free(s) # {} /\ \E b \in {a} : click[b] = <<"move", x>> /\ table.seat[b] # 0
  OBVIOUS
<1>6. {a} \subseteq Accounts
  OBVIOUS
<1>7. Makes({a}, s, table')
  BY <1>1, <1>3, <1>4, <1>5, <1>6 DEF Makes
<1> QED BY <1>7, MadeStay

\* Who has no claim loses none.
LEMMA NoneToLose == ASSUME NEW a, ClaimOf(a) = 0 PROVE ClaimIsKept(a)
BY DEF ClaimIsKept

\* The players who act on their seats have no claim.
LEMMA PlayerHasNone ==
  ASSUME SeatInv, NEW a \in Accounts, table.seat[a] # 0, click[a][1] # "claim"
  PROVE  table.claim[a] = 0 /\ ClaimIsKept(a)
<1>1. table.claim[a] = 0
  BY DEF SeatInv, ClaimantsStand
<1> QED BY <1>1, NoneToLose DEF ClaimOf

\* A click is served without a change, or with a claim found possible.
LEMMA RefusedStay ==
  ASSUME SeatInv, MovesStand, NEW a \in Accounts, NEW c \in Clicks, table' = table,
         click' = [click EXCEPT ![a] = c], c[1] # "move", click[a][1] # "claim"
  PROVE  ClaimsStay
<1>1. click'[a] = c /\ \A b \in Accounts \ {a} : click'[b] = click[b]
  BY DEF SeatInv, TypeOK
<1>2. MovesStand'
  BY <1>1 DEF MovesStand, Claimed
<1>3. \A b \in Accounts \ {a} : ClaimOf(b)' = ClaimOf(b)
  BY <1>1 DEF ClaimOf
<1>4. c[1] = "claim" => c[2] # 0
  BY ClickParts, SeatingAssumption DEF Seats
<1>5. ClaimOf(a) # 0 => ClaimOf(a)' # 0
  BY <1>1, <1>4 DEF ClaimOf
<1> QED BY <1>2, <1>3, <1>5 DEF ClaimsStay, ClaimIsKept

\* A step that leaves the claims alone.
LEMMA QuietStay ==
  ASSUME MovesStand, click' = click, table'.claim = table.claim,
         \A b \in Accounts : table'.seat[b] = 0 \/ table'.seat[b] = table.seat[b],
         \A b \in Accounts : table.stage = "ready" /\ b \notin table.ready =>
                               table'.stage = "ready" /\ b \notin table'.ready
  PROVE  ClaimsStay
<1>1. MovesStand'
  BY DEF MovesStand, Claimed
<1>2. \A b \in Accounts : ClaimOf(b)' = ClaimOf(b)
  BY DEF ClaimOf
<1> QED BY <1>1, <1>2 DEF ClaimsStay, ClaimIsKept

LEMMA TakeSeatStay ==
  ASSUME SeatInv, MovesStand, NEW a \in Accounts, TakeSeat(a) PROVE ClaimsStay
<1> DEFINE s == click[a][2]
<1>0. PICK lucky \in BOOLEAN : TakeSeat(a)!(lucky)
  BY DEF TakeSeat
<1> DEFINE sits == table.stage = "ready" /\ CanSit(table, a, s, lucky)
           cancels == table.stage # "ready" /\ Cancels(table, a, s, lucky)
           claims == table.stage # "ready" /\ CanClaim(table, a, s)
<1>1. /\ Sound(table) /\ click[a] \in Clicks /\ click[a][1] = "seat"
      /\ table.claim \in [Accounts -> 0 .. MaxPlayers] /\ 0 \in 0 .. MaxPlayers
      /\ table.bought \in [Accounts -> 0 .. MaxBuy]
  BY <1>0, SeatingAssumption DEF SeatInv, TypeOK, Tables
<1>2. s \in Seats /\ click[a][1] # "claim" /\ \A b \in Accounts : table.bought[b] <= table.bought[b]
  BY <1>1, ClickParts, SeatingAssumption
<1>3. CASE sits
  <2> DEFINE m == Sit(table, a, s)
  <2>1. Served(a) /\ table' \in Broadcast(m)
    BY <1>0, <1>3
  <2>2. /\ Sound(m) /\ m.stage = table.stage /\ m.claim = table.claim
        /\ m.ready = table.ready /\ m.room = table.room
        /\ m.seat[a] = s /\ m.stack[a] = 1 /\ s # 0
        /\ \A b \in Accounts \ {a} : SameFor(table, m, b) /\ m.bought[b] = table.bought[b]
    BY <1>1, <1>3, SitSound
  <2> HIDE DEF m, s
  <2>3. table'.seat[a] = s
    BY <2>1, <2>2, BroadcastSound DEF Updates, SameFor
  <2>4. ClaimIsKept(a)
    BY <2>2, <2>3 DEF ClaimIsKept
  <2>5. ASSUME NEW x \in Seats, Taken(m, x) PROVE Taken(table, x) \/ Taken(table', x)
    BY <2>2, <2>3, <2>5 DEF Taken, SameFor
  <2>6. \A b \in Accounts \ {a} :
          /\ m.claim[b] = table.claim[b] /\ SameFor(table, m, b) /\ m.bought[b] <= table.bought[b]
          /\ table.stage = "ready" /\ b \notin table.ready /\ table.seat[b] # 0 =>
               m.stage = "ready" /\ b \notin m.ready
    BY <1>2, <2>2
  <2> QED BY <2>1, <2>2, <2>4, <2>5, <2>6, HandlerStay
<1>4. CASE ~sits /\ cancels
  <2> DEFINE m == WithClaim(table, a, 0)
  <2>1. Served(a) /\ table' \in Broadcast(m)
    BY <1>0, <1>4 DEF WithClaim
  <2>2. /\ Sound(m) /\ m.stage = table.stage /\ m.seat = table.seat
        /\ m.stack = table.stack /\ m.wallet = table.wallet /\ m.bought = table.bought
        /\ m.ready = table.ready /\ m.room = table.room /\ m.claim = [table.claim EXCEPT ![a] = 0]
    BY <1>1, ClaimSound
  <2>3. table.claim[a] = s
    BY <1>4 DEF Cancels, Claimed
  <2>4. click[a] = <<"seat", s>>
    BY <1>1 DEF Clicks, NoClick
  <2>5. ClaimIsKept(a)
    BY <1>2, <2>3, <2>4 DEF ClaimIsKept, ClaimOf
  <2> HIDE DEF m, s
  <2>6. \A b \in Accounts \ {a} :
          /\ m.claim[b] = table.claim[b] /\ SameFor(table, m, b) /\ m.bought[b] <= table.bought[b]
          /\ table.stage = "ready" /\ b \notin table.ready /\ table.seat[b] # 0 =>
               m.stage = "ready" /\ b \notin m.ready
    BY <1>1, <1>2, <2>2 DEF SameFor
  <2>7. \A x \in Seats : Taken(m, x) => Taken(table, x)
    BY <2>2 DEF Taken
  <2>8. m.claim[a] = 0
    BY <1>1, <2>2
  <2> QED BY <2>1, <2>2, <2>5, <2>6, <2>7, <2>8, HandlerStay
<1>5. CASE ~sits /\ ~cancels /\ claims
  <2>1. click' = [click EXCEPT ![a] = <<"claim", s>>] /\ table' = table
    BY <1>0, <1>5 DEF Refused
  <2>2. <<"claim", s>> \in Clicks /\ <<"claim", s>>[1] # "move"
    BY <1>2, ClickParts
  <2> QED BY <1>2, <2>1, <2>2, RefusedStay
<1>6. CASE ~sits /\ ~cancels /\ ~claims
  <2>1. click' = [click EXCEPT ![a] = NoClick] /\ table' = table
    BY <1>0, <1>6 DEF Served, Refused
  <2> QED BY <1>2, <2>1, ClickParts, RefusedStay
<1> QED BY <1>3, <1>4, <1>5, <1>6

LEMMA EnterClaimStay ==
  ASSUME SeatInv, MovesStand, NEW a \in Accounts, EnterClaim(a) PROVE ClaimsStay
<1> DEFINE s == click[a][2]
           m == WithClaim(table, a, s)
<1>1. /\ Sound(table) /\ click[a] \in Clicks /\ click[a][1] = "claim"
      /\ table.claim \in [Accounts -> 0 .. MaxPlayers] /\ ClaimOf(a) = s
      /\ table.bought \in [Accounts -> 0 .. MaxBuy]
  BY DEF SeatInv, TypeOK, EnterClaim, Tables, ClaimOf
<1>2. /\ s \in 0 .. MaxPlayers /\ s # 0
      /\ \A b \in Accounts : table.bought[b] <= table.bought[b]
  BY <1>1, ClickParts, SeatingAssumption DEF Seats
<1>3. Served(a) /\ table' \in Broadcast(m)
  BY DEF EnterClaim, WithClaim
<1>4. /\ Sound(m) /\ m.stage = table.stage /\ m.seat = table.seat
      /\ m.stack = table.stack /\ m.wallet = table.wallet /\ m.bought = table.bought
      /\ m.ready = table.ready /\ m.room = table.room /\ m.claim = [table.claim EXCEPT ![a] = s]
  BY <1>1, <1>2, ClaimSound
<1> HIDE DEF m, s
<1>5. m.claim[a] = ClaimOf(a) /\ \A b \in Accounts \ {a} : m.claim[b] = table.claim[b]
  BY <1>1, <1>4
<1>6. \A b \in Accounts \ {a} :
        /\ m.claim[b] = table.claim[b] /\ SameFor(table, m, b) /\ m.bought[b] <= table.bought[b]
        /\ table.stage = "ready" /\ b \notin table.ready /\ table.seat[b] # 0 =>
             m.stage = "ready" /\ b \notin m.ready
  BY <1>2, <1>4, <1>5 DEF SameFor
<1>7. \A x \in Seats : Taken(m, x) => Taken(table, x)
  BY <1>4 DEF Taken
<1>8. Updates(m, table')
  BY <1>3, <1>4, BroadcastSound
<1>9. Pays(table, a)
  BY <1>1 DEF SeatInv, ClaimantsCanPay
<1>10. ClaimIsKept(a)
  <2> SUFFICES ASSUME ClaimOf(a) # 0, a \in table'.room, ClaimOf(a)' = 0, table'.seat[a] = 0
               PROVE  ClaimIsKept(a)
    BY DEF ClaimIsKept
  <2>1. table.seat[a] = 0
    BY <1>4, <1>8, <1>9 DEF Pays, Updates, SameFor
  <2>2. table.wallet[a] > 0
    BY <1>9, <2>1 DEF Pays
  <2>3. m.stage = "ready"
    <3> SUFFICES ASSUME m.stage # "ready" PROVE FALSE
      OBVIOUS
    <3>1. table'.claim[a] = s
      BY <1>1, <1>5, <1>8 DEF Updates
    <3>2. click'[a][1] = "none"
      BY <1>3, ClickParts DEF Served, SeatInv, TypeOK
    <3> QED BY <1>2, <3>1, <3>2 DEF ClaimOf
  <2>4. a \in m.room
    BY <1>8 DEF Updates
  <2>5. /\ \A b \in Accounts \ {a} :
             m.claim[b] = 0 \/ m.claim[b] = table.claim[b] \/ m.claim[b] = ClaimOf(b)
        /\ m.bought[a] <= table.bought[a] /\ m.seat[a] = 0 /\ m.wallet[a] > 0
    BY <1>2, <1>4, <1>5, <2>1, <2>2
  <2> QED BY <1>4, <1>5, <1>7, <1>8, <2>3, <2>4, <2>5, KeptByRounds
<1> QED BY <1>3, <1>4, <1>5, <1>6, <1>7, <1>10, HandlerStay

\* A handler of a player who stays where he is, which may start the next hand.
LEMMA StartedStay ==
  ASSUME SeatInv, MovesStand, NEW a \in Accounts, Served(a), click[a][1] # "claim",
         NEW m, Sound(m), table' \in Broadcast(AutoStart(m)),
         table.stage = "ready", m.stage = "ready", m.claim = table.claim, m.room = table.room,
         m.seat = table.seat, table.seat[a] # 0,
         \A b \in Accounts \ {a} : SameFor(table, m, b) /\ m.bought[b] = table.bought[b],
         \A b \in Accounts \ {a} : b \in m.ready => b \in table.ready
  PROVE  ClaimsStay
<1> DEFINE s == AutoStart(m)
<1>1. /\ Sound(s) /\ s.seat = m.seat /\ s.claim = m.claim /\ s.ready = m.ready /\ s.room = m.room
      /\ s.stack = m.stack /\ s.wallet = m.wallet /\ s.bought = m.bought
      /\ s.stage = "ready" \/ Seated(m) \subseteq m.ready
  BY AutoStartSound
<1>2. table' \in Broadcast(s)
  OBVIOUS
<1> HIDE DEF s
<1>3. ClaimIsKept(a)
  BY PlayerHasNone
<1>4. \A b \in Accounts : table.bought[b] <= table.bought[b]
  BY SeatingAssumption DEF SeatInv, TypeOK, Tables
<1>5. \A b \in Accounts \ {a} :
        /\ s.claim[b] = table.claim[b] /\ SameFor(table, s, b) /\ s.bought[b] <= table.bought[b]
        /\ table.stage = "ready" /\ b \notin table.ready /\ table.seat[b] # 0 =>
             s.stage = "ready" /\ b \notin s.ready
  BY <1>1, <1>4 DEF SameFor, Seated
<1>6. \A x \in Seats : Taken(s, x) => Taken(table, x)
  BY <1>1 DEF Taken
<1> QED BY <1>1, <1>2, <1>3, <1>5, <1>6, HandlerStay

LEMMA ToggleReadyStay ==
  ASSUME SeatInv, MovesStand, NEW a \in Accounts, ToggleReady(a) PROVE ClaimsStay
<1>1. Sound(table) /\ click[a][1] = "ready" /\ Served(a)
  BY DEF SeatInv, ToggleReady
<1>2. CASE table.stage = "ready" /\ table.seat[a] # 0 /\ (a \in table.ready \/ table.stack[a] > 0)
  <2> DEFINE R == IF a \in table.ready THEN table.ready \ {a} ELSE table.ready \union {a}
             m == [table EXCEPT !.ready = R]
  <2>1. table' \in Broadcast(AutoStart(m))
    BY <1>2 DEF ToggleReady
  <2>2. R \in SUBSET Seated(table)
    BY <1>1, <1>2 DEF Sound, Seated
  <2>3. \A b \in Accounts \ {a} : b \in R => b \in table.ready
    OBVIOUS
  <2> HIDE DEF R
  <2>4. /\ Sound(m) /\ m.stage = table.stage /\ m.seat = table.seat /\ m.room = table.room
        /\ m.claim = table.claim /\ m.ready = R
        /\ m.stack = table.stack /\ m.wallet = table.wallet /\ m.bought = table.bought
    BY <1>1, <2>2, ReadySound
  <2> HIDE DEF m
  <2>5. \A b \in Accounts \ {a} : SameFor(table, m, b) /\ m.bought[b] = table.bought[b]
    BY <2>4 DEF SameFor
  <2> QED BY <1>1, <1>2, <2>1, <2>3, <2>4, <2>5, StartedStay
<1>3. CASE ~(table.stage = "ready" /\ table.seat[a] # 0 /\ (a \in table.ready \/ table.stack[a] > 0))
  <2>1. click' = [click EXCEPT ![a] = NoClick] /\ table' = table
    BY <1>3 DEF ToggleReady, Served, Refused
  <2> QED BY <1>1, <2>1, RefusedStay, ClickParts
<1> QED BY <1>2, <1>3

LEMMA MoveSeatStay ==
  ASSUME SeatInv, MovesStand, NEW a \in Accounts, MoveSeat(a) PROVE ClaimsStay
<1> DEFINE s == click[a][2]
           m == Reseated(table, a, s)
<1>1. Sound(table) /\ click[a][1] = "move" /\ Served(a) /\ click[a] \in Clicks
  BY DEF SeatInv, TypeOK, MoveSeat
<1>2. CASE table.stage = "ready" /\ table.seat[a] # 0 /\ a \notin table.ready /\ s \in Free(table)
  <2>1. table' \in Broadcast(m)
    BY <1>2 DEF MoveSeat, Reseated
  <2>2. /\ Sound(m) /\ m.stage = table.stage /\ m.seat = [table.seat EXCEPT ![a] = s]
        /\ m.claim = table.claim /\ m.ready = table.ready /\ s # 0 /\ m.room = table.room
        /\ m.stack = table.stack /\ m.wallet = table.wallet /\ m.bought = table.bought
    BY <1>1, <1>2, MoveSound
  <2>3. /\ table.seat \in [Accounts -> 0 .. MaxPlayers] /\ table.bought \in [Accounts -> 0 .. MaxBuy]
        /\ \A b, c \in Accounts : table.seat[b] # 0 /\ table.seat[b] = table.seat[c] => b = c
    BY <1>1 DEF Sound, Tables
  <2>4. click[a] = <<"move", s>>
    BY <1>1 DEF Clicks, NoClick
  <2>5. s \notin {table.seat[b] : b \in Accounts}
    BY <1>2 DEF Free, Taken
  <2> HIDE DEF m, s
  <2>6. \A b \in Accounts \ {a} :
          /\ m.claim[b] = table.claim[b] /\ SameFor(table, m, b) /\ m.bought[b] <= table.bought[b]
          /\ table.stage = "ready" /\ b \notin table.ready /\ table.seat[b] # 0 =>
               m.stage = "ready" /\ b \notin m.ready
    BY <2>2, <2>3, SeatingAssumption DEF SameFor
  <2>7. Free(m) # {}
    <3>1. table.seat[a] \in Seats
      BY <1>2, <2>3, SeatingAssumption DEF Seats
    <3>2. \A b \in Accounts : m.seat[b] # table.seat[a]
      BY <1>2, <2>2, <2>3, <2>5
    <3> QED BY <3>1, <3>2 DEF Free, Taken
  <2>8. ASSUME NEW x \in Seats, Taken(m, x) PROVE Taken(table, x) \/ click[a] = <<"move", x>>
    BY <2>2, <2>3, <2>4, <2>8 DEF Taken
  <2>9. ClaimIsKept(a)
    BY <1>1, <1>2, PlayerHasNone
  <2> QED BY <1>1, <1>2, <2>1, <2>2, <2>6, <2>7, <2>8, <2>9, HandlerStay
<1>3. CASE ~(table.stage = "ready" /\ table.seat[a] # 0 /\ a \notin table.ready /\ s \in Free(table))
  <2>1. click' = [click EXCEPT ![a] = NoClick] /\ table' = table
    BY <1>3 DEF MoveSeat, Served, Refused
  <2> QED BY <1>1, <2>1, RefusedStay, ClickParts
<1> QED BY <1>2, <1>3

LEMMA RebuyStay ==
  ASSUME SeatInv, MovesStand, NEW a \in Accounts, Rebuy(a) PROVE ClaimsStay
<1> DEFINE Granted == /\ table.stage = "ready" /\ table.seat[a] # 0
                      /\ table.total[a] < MaxBuy /\ CanBuyIn(table, a) /\ table.wallet[a] > 0
<1>1. Sound(table) /\ click[a][1] = "rebuy" /\ Served(a)
  BY DEF SeatInv, Rebuy
<1>2. CASE Granted
  <2> DEFINE m == Rebought(table, a)
  <2>1. table' \in Broadcast(AutoStart(m))
    BY <1>2 DEF Rebuy, Rebought
  <2>2. /\ Sound(m) /\ m.stage = table.stage /\ m.seat = table.seat /\ m.room = table.room
        /\ m.claim = table.claim /\ m.ready = table.ready
        /\ \A b \in Accounts \ {a} : SameFor(table, m, b) /\ m.bought[b] = table.bought[b]
    BY <1>1, <1>2, RebuySound
  <2> HIDE DEF m
  <2> QED BY <1>1, <1>2, <2>1, <2>2, StartedStay
<1>3. CASE ~Granted
  <2>1. click' = [click EXCEPT ![a] = NoClick] /\ table' = table
    BY <1>3 DEF Rebuy, Served, Refused
  <2> QED BY <1>1, <2>1, RefusedStay, ClickParts
<1> QED BY <1>2, <1>3

LEMMA ToggleSpectateStay ==
  ASSUME SeatInv, MovesStand, NEW a \in Accounts, ToggleSpectate(a) PROVE ClaimsStay
<1>1. /\ Sound(table) /\ click[a][1] = "spectate" /\ Served(a)
      /\ \A b \in Accounts : table.bought[b] <= table.bought[b]
  BY SeatingAssumption DEF SeatInv, TypeOK, Tables, ToggleSpectate
<1>2. CASE table.seat[a] = 0
  <2>1. click' = [click EXCEPT ![a] = NoClick] /\ table' = table
    BY <1>2 DEF ToggleSpectate, Served, Refused
  <2> QED BY <1>1, <2>1, RefusedStay, ClickParts
<1>3. CASE table.seat[a] # 0
  <2>1. table.claim[a] = 0 /\ ClaimIsKept(a)
    BY <1>1, <1>3, PlayerHasNone
  <2>2. CASE a \notin flagged /\ table.stage = "ready"
    <3> DEFINE s == Unseat(table, {a})
    <3>1. table' \in Broadcast(s)
      BY <1>3, <2>2 DEF ToggleSpectate
    <3>2. {a} \in SUBSET Seated(table)
      BY <1>3 DEF Seated
    <3>3. /\ Sound(s) /\ s.stage = table.stage /\ s.claim = table.claim /\ s.room = table.room
          /\ s.ready \subseteq table.ready
          /\ s.seat = [b \in Accounts |-> IF b \in {a} THEN 0 ELSE table.seat[b]]
          /\ \A b \in Accounts \ {a} : SameFor(table, s, b)
          /\ \A b \in Accounts : s.bought[b] <= table.bought[b]
      BY <1>1, <3>2, UnseatSound
    <3> HIDE DEF s
    <3>4. \A b \in Accounts \ {a} :
            /\ s.claim[b] = table.claim[b] /\ SameFor(table, s, b) /\ s.bought[b] <= table.bought[b]
            /\ table.stage = "ready" /\ b \notin table.ready /\ table.seat[b] # 0 =>
                 s.stage = "ready" /\ b \notin s.ready
      BY <3>3
    <3>5. \A x \in Seats : Taken(s, x) => Taken(table, x)
      BY <3>3, SeatingAssumption DEF Taken, Seats
    <3> QED BY <1>1, <2>1, <3>1, <3>3, <3>4, <3>5, HandlerStay
  <2>3. CASE ~(a \notin flagged /\ table.stage = "ready")
    <3>1. table' \in Broadcast(table)
      BY <1>3, <2>3 DEF ToggleSpectate
    <3> QED BY <1>1, <2>1, <3>1, HandlerStay DEF SameFor
  <2> QED BY <2>2, <2>3
<1> QED BY <1>2, <1>3

LEMMA ClickStay ==
  ASSUME SeatInv, MovesStand, NEW a \in Accounts, Click(a) PROVE ClaimsStay
<1>1. PICK c \in Offered(a) : click' = [click EXCEPT ![a] = c]
  BY DEF Click
<1>2. table' = table /\ click[a] = NoClick /\ click \in [Accounts -> Clicks]
  BY DEF Click, SeatInv, TypeOK
<1>3. click'[a] = c /\ \A b \in Accounts \ {a} : click'[b] = click[b]
  BY <1>1, <1>2
<1>4. /\ c[1] # "claim"
      /\ c[1] = "move" => /\ table.seat[a] # 0 /\ table.stage = "ready" /\ a \notin table.ready
                          /\ Claimed(table, c[2]) = {}
  <2>1. CASE \E x \in Free(table) : c = <<"move", x>> /\ Claimed(table, x) = {}
                                    /\ table.seat[a] # 0 /\ table.stage = "ready" /\ a \notin table.ready
    BY <2>1
  <2>2. CASE \E x \in Seats : c = <<"seat", x>>
    BY <2>2
  <2>3. CASE c = <<"ready", 0>> \/ c = <<"rebuy", 0>> \/ c = <<"spectate", 0>>
    BY <2>3
  <2>4. \/ \E x \in Free(table) : c = <<"move", x>> /\ Claimed(table, x) = {}
                                  /\ table.seat[a] # 0 /\ table.stage = "ready" /\ a \notin table.ready
        \/ \E x \in Seats : c = <<"seat", x>>
        \/ c = <<"ready", 0>> \/ c = <<"rebuy", 0>> \/ c = <<"spectate", 0>>
    BY DEF Offered
  <2> QED BY <2>1, <2>2, <2>3, <2>4
<1>5. MovesStand'
  <2> SUFFICES ASSUME NEW b \in Accounts, click'[b][1] = "move"
               PROVE  /\ table.claim[b] = 0
                      /\ table.seat[b] # 0 => /\ table.stage = "ready" /\ b \notin table.ready
                                              /\ Claimed(table, click'[b][2]) = {}
    BY <1>2 DEF MovesStand, Claimed
  <2>1. CASE b = a
    BY <1>3, <1>4, <2>1 DEF SeatInv, ClaimantsStand
  <2>2. CASE b # a
    BY <1>3, <2>2 DEF MovesStand
  <2> QED BY <2>1, <2>2
<1>6. click[a][1] # "claim"
  BY <1>2, ClickParts
<1>7. \A b \in Accounts : ClaimOf(b)' = ClaimOf(b)
  BY <1>2, <1>3, <1>4, <1>6 DEF ClaimOf
<1> QED BY <1>5, <1>7 DEF ClaimsStay, ClaimIsKept

LEMMA EndHandStay == ASSUME SeatInv, MovesStand, EndHand PROVE ClaimsStay
<1>1. PICK out \in SUBSET {a \in Seated(table) : a \in table.ready} :
        table' = [table EXCEPT !.stage = "showdown",
                    !.stack = [a \in Accounts |-> IF a \in out THEN 0 ELSE table.stack[a]]]
  BY DEF EndHand
<1> DEFINE S == [a \in Accounts |-> IF a \in out THEN 0 ELSE table.stack[a]]
<1>2. S \in [Accounts -> Nat] /\ Sound(table) /\ table.stage = "hand" /\ click' = click
  BY DEF SeatInv, TypeOK, Tables, EndHand
<1>3. table' = Ended(table, S)
  BY <1>1 DEF Ended
<1> HIDE DEF S
<1>4. table'.seat = table.seat /\ table'.claim = table.claim
  BY <1>2, <1>3, EndSound
<1> QED BY <1>2, <1>4, QuietStay

LEMMA CloseShowdownStay == ASSUME SeatInv, MovesStand, CloseShowdown PROVE ClaimsStay
<1>1. table.stage = "showdown" /\ table' = Settle(table) /\ click' = click /\ Sound(table)
  BY DEF CloseShowdown, SeatInv
<1>2. table'.seat = table.seat /\ table'.claim = table.claim
  BY <1>1, SettleSound
<1> QED BY <1>1, <1>2, QuietStay

LEMMA ApplySpectateReservationsStay ==
  ASSUME SeatInv, MovesStand, ApplySpectateReservations PROVE ClaimsStay
<1> DEFINE wish == IF table.stage = "ready" THEN flagged \intersect Seated(table) ELSE {}
<1>1. table' = Unseat(table, wish) /\ click' = click /\ Sound(table) /\ wish \in SUBSET Seated(table)
  BY DEF ApplySpectateReservations, SeatInv
<1> HIDE DEF wish
<1>2. /\ table'.stage = table.stage /\ table'.claim = table.claim /\ table'.ready \subseteq table.ready
      /\ table'.seat = [a \in Accounts |-> IF a \in wish THEN 0 ELSE table.seat[a]]
  BY <1>1, UnseatSound
<1>3. \A b \in Accounts : table'.seat[b] = 0 \/ table'.seat[b] = table.seat[b]
  BY <1>2
<1> QED BY <1>1, <1>2, <1>3, QuietStay

\* advanceGame seats the claimants, and then starts the next hand if it can.
LEMMA AdvancedStay ==
  ASSUME SeatInv, MovesStand, NEW s, Sound(s), Updates(s, table'), click' = click,
         s.seat = table.seat, s.claim = table.claim, s.ready = table.ready, s.room = table.room,
         s.stack = table.stack, s.wallet = table.wallet, s.bought = table.bought,
         s.stage = table.stage \/ (table.stage = "ready" /\ Seated(s) \subseteq s.ready)
  PROVE  ClaimsStay
<1>1. \A b \in Accounts : table.bought[b] <= table.bought[b]
  BY SeatingAssumption DEF SeatInv, TypeOK, Tables
<1>2. table'.room = s.room
  BY DEF Updates
<1>3. \A b \in Accounts :
        /\ SameFor(table, s, b) /\ s.bought[b] <= table.bought[b]
        /\ b \in table'.room => b \in s.room
        /\ table.stage = "ready" /\ b \notin table.ready /\ table.seat[b] # 0 =>
             s.stage = "ready" /\ b \notin s.ready
  BY <1>1, <1>2 DEF SameFor, Seated
<1>4. \A x \in Seats : Taken(s, x) => Taken(table, x)
  BY DEF Taken
<1>5. Makes({}, s, table')
  BY <1>3, <1>4 DEF Makes
<1> QED BY <1>5, MadeStay

LEMMA SeatThemStay == ASSUME SeatInv, MovesStand, SeatThem PROVE ClaimsStay
<1>1. table' \in SeatClaimants(table) /\ click' = click /\ Sound(table)
  BY DEF SeatThem, SeatInv
<1>2. Updates(table, table')
  BY <1>1, SeatClaimantsSound
<1> QED BY <1>1, <1>2, AdvancedStay

LEMMA StartNextStay == ASSUME SeatInv, MovesStand, StartNext PROVE ClaimsStay
<1> DEFINE s == AutoStart(table)
<1>1. table' \in Broadcast(s) /\ click' = click /\ Sound(table)
  BY DEF StartNext, SeatInv
<1>2. /\ Sound(s) /\ s.seat = table.seat /\ s.claim = table.claim /\ s.ready = table.ready
      /\ s.room = table.room
      /\ s.stack = table.stack /\ s.wallet = table.wallet /\ s.bought = table.bought
      /\ s.stage = table.stage \/ (table.stage = "ready" /\ Seated(table) \subseteq table.ready)
  BY <1>1, AutoStartSound
<1> HIDE DEF s
<1>3. Updates(s, table') /\ Seated(s) = Seated(table)
  BY <1>1, <1>2, BroadcastSound DEF Seated
<1> QED BY <1>1, <1>2, <1>3, AdvancedStay

LEMMA LeaveStay ==
  ASSUME SeatInv, MovesStand, NEW a \in Accounts, Leave(a) PROVE ClaimsStay
<1> DEFINE s == IF table.seat[a] # 0 THEN Unseat(table, {a}) ELSE table
<1>1. PICK t \in Broadcast(s) : table' = [t EXCEPT !.room = @ \ {a}, !.claim[a] = 0]
  BY DEF Leave
<1>2. /\ Sound(table) /\ click' = click /\ click[a] = NoClick
      /\ \A b \in Accounts : table.bought[b] <= table.bought[b]
  BY SeatingAssumption DEF Leave, SeatInv, TypeOK, Tables
<1>3. /\ Sound(s) /\ s.stage = table.stage /\ s.claim = table.claim /\ s.room = table.room
      /\ s.ready \subseteq table.ready
      /\ \A b \in Accounts \ {a} : SameFor(table, s, b)
      /\ \A b \in Accounts : s.bought[b] <= table.bought[b]
      /\ \A b \in Accounts : s.seat[b] = 0 \/ s.seat[b] = table.seat[b]
  <2>1. CASE table.seat[a] # 0
    <3>1. {a} \in SUBSET Seated(table)
      BY <2>1 DEF Seated
    <3>2. s = Unseat(table, {a})
      BY <2>1
    <3> HIDE DEF s
    <3>3. /\ Sound(s) /\ s.stage = table.stage /\ s.claim = table.claim /\ s.room = table.room
          /\ s.ready \subseteq table.ready
          /\ s.seat = [b \in Accounts |-> IF b \in {a} THEN 0 ELSE table.seat[b]]
          /\ \A b \in Accounts \ {a} : SameFor(table, s, b)
          /\ \A b \in Accounts : s.bought[b] <= table.bought[b]
      BY <1>2, <3>1, <3>2, UnseatSound
    <3> QED BY <3>3
  <2>2. CASE table.seat[a] = 0
    BY <1>2, <2>2 DEF SameFor
  <2> QED BY <2>1, <2>2
<1> HIDE DEF s
<1>4. Updates(s, t) /\ Sound(t)
  BY <1>3, BroadcastSound DEF Updates
<1> DEFINE R == t.room \ {a}
           C == [t.claim EXCEPT ![a] = 0]
<1>5. /\ t.claim \in [Accounts -> 0 .. MaxPlayers] /\ R \in SUBSET Accounts
      /\ 0 \in 0 .. MaxPlayers /\ t \in Tables
  BY <1>4, SeatingAssumption DEF Sound, Tables
<1>6. /\ C \in [Accounts -> 0 .. MaxPlayers] /\ C[a] = 0
      /\ \A b \in Accounts \ {a} : C[b] = t.claim[b]
      /\ a \notin R /\ \A b \in R : b \in t.room
  BY <1>5
<1>7. table' = Lodged(t, R, C)
  BY <1>1, <1>5 DEF Tables, Lodged
<1> HIDE DEF R, C
<1>8. /\ table'.stage = t.stage /\ table'.seat = t.seat /\ table'.claim = C
      /\ table'.ready = t.ready /\ table'.room = R
  BY <1>4, <1>5, <1>6, <1>7, RoomSound
<1>9. t.room = table.room
  BY <1>3, <1>4 DEF Updates
<1>10. \A b \in Accounts \ {a} :
         /\ click'[b] = click[b] /\ table'.claim[b] = t.claim[b] /\ s.claim[b] = table.claim[b]
         /\ SameFor(table, s, b) /\ s.bought[b] <= table.bought[b]
         /\ b \in table'.room => b \in s.room
         /\ table.stage = "ready" /\ b \notin table.ready /\ table.seat[b] # 0 =>
              s.stage = "ready" /\ b \notin s.ready
  BY <1>2, <1>3, <1>6, <1>8, <1>9
<1>11. \A x \in Seats : Taken(s, x) => Taken(table, x)
  BY <1>3, SeatingAssumption DEF Taken, Seats
<1>12. \A b \in {a} : click'[b][1] # "move" /\ s.claim[b] = table.claim[b]
  BY <1>2, <1>3, ClickParts
<1>13. \A b \in Accounts : table'.claim[b] = t.claim[b] \/ table'.claim[b] = 0
  BY <1>6, <1>8
<1>14. Makes({a}, s, t)
  BY <1>3, <1>4, <1>8, <1>10, <1>11, <1>12, <1>13 DEF Makes
<1>15. ClaimIsKept(a)
  BY <1>6, <1>8 DEF ClaimIsKept
<1> QED BY <1>14, <1>15, MadeStay

LEMMA DisconnectStay ==
  ASSUME SeatInv, MovesStand, NEW a \in Accounts, Disconnect(a) PROVE ClaimsStay
<1> DEFINE R == table.room \ {a}
           C == [table.claim EXCEPT ![a] = 0]
<1>1. /\ Sound(table) /\ table \in Tables /\ click \in [Accounts -> Clicks]
      /\ table.claim \in [Accounts -> 0 .. MaxPlayers] /\ R \in SUBSET Accounts
      /\ 0 \in 0 .. MaxPlayers /\ click' = [click EXCEPT ![a] = NoClick]
  BY SeatingAssumption DEF SeatInv, TypeOK, Tables, Disconnect
<1>2. /\ C \in [Accounts -> 0 .. MaxPlayers] /\ C[a] = 0 /\ a \notin R
      /\ \A b \in Accounts \ {a} : C[b] = table.claim[b]
  BY <1>1
<1>3. table' = Lodged(table, R, C)
  BY <1>1 DEF Disconnect, Tables, Lodged
<1> HIDE DEF R, C
<1>4. /\ table'.stage = table.stage /\ table'.seat = table.seat /\ table'.claim = C
      /\ table'.ready = table.ready /\ table'.room = R
  BY <1>1, <1>2, <1>3, RoomSound
<1>5. /\ click'[a][1] = "none" /\ \A b \in Accounts \ {a} : click'[b] = click[b]
  BY <1>1, ClickParts
<1>6. MovesStand'
  BY <1>2, <1>4, <1>5 DEF MovesStand, Claimed
<1>7. \A b \in Accounts \ {a} : ClaimOf(b)' = ClaimOf(b)
  BY <1>2, <1>4, <1>5 DEF ClaimOf
<1>8. a \notin table'.room
  BY <1>2, <1>4
<1> QED BY <1>6, <1>7, <1>8 DEF ClaimsStay, ClaimIsKept

LEMMA JoinStay ==
  ASSUME SeatInv, MovesStand, NEW a \in Accounts, Join(a) PROVE ClaimsStay
<1>1. table \in Tables /\ table' = [table EXCEPT !.room = @ \union {a}] /\ click' = click
  BY DEF SeatInv, TypeOK, Join
<1>2. /\ table'.stage = table.stage /\ table'.seat = table.seat /\ table'.claim = table.claim
      /\ table'.ready = table.ready
  BY <1>1 DEF Tables
<1> QED BY <1>1, <1>2, QuietStay

LEMMA ClaimsStayNext == SeatInv /\ MovesStand /\ [Next]_vars => ClaimsStay
<1> SUFFICES ASSUME SeatInv, MovesStand, [Next]_vars PROVE ClaimsStay
  OBVIOUS
<1>1. CASE UNCHANGED vars
  BY <1>1, QuietStay DEF vars
<1>2. ASSUME NEW a \in Accounts, Click(a) \/ Handle(a) \/ Leave(a) \/ Disconnect(a) \/ Join(a)
      PROVE  ClaimsStay
  BY <1>2, ClickStay, TakeSeatStay, EnterClaimStay, ToggleReadyStay, MoveSeatStay, RebuyStay,
     ToggleSpectateStay, LeaveStay, DisconnectStay, JoinStay DEF Handle
<1>3. CASE EndHand
  BY <1>3, EndHandStay
<1>4. CASE Close
  BY <1>4, CloseShowdownStay, ApplySpectateReservationsStay, SeatThemStay, StartNextStay DEF Close
<1> QED BY <1>1, <1>2, <1>3, <1>4 DEF Next

\* A claim that was accepted (handleReserveSeat) is kept until its holder is seated,
\* cancels it or goes (seatReservedPlayers, reserve.go), whatever the others do in
\* between, with the exceptions that ClaimIsKept names.
THEOREM ClaimsNotLost == Spec => ClaimsAreKept
<1>1. Init => MovesStand
  BY ClickParts DEF Init, MovesStand
<1>2. SeatInv /\ MovesStand /\ [Next]_vars => MovesStand' /\ [\A a \in Accounts : ClaimIsKept(a)]_vars
  BY ClaimsStayNext DEF ClaimsStay
<1> QED BY <1>1, <1>2, SeatInvHolds, PTL DEF Spec, ClaimsAreKept
=================================================================================
